-------------------------- MODULE SS2CentralProofs --------------------------
(***************************************************************************)
(* Proofs about the central (SS2), for every number of connection objects. *)
(* What is said of the clean-up of a rejected bond holds when the stack    *)
(* releases the object of a lost link in less than BondCleanupTries        *)
(* quarters of a second, the time the six tries take.                      *)
(***************************************************************************)
EXTENDS SS2Central, TLAPS

USE MaxConnAssumption, BoundsAssumption

(* SS2 scans, waits to scan or has a connection, one at a time. *)
OneActivity ==
    /\ scanning => default_conn = NULL /\ restart_scan_work = Off
    /\ restart_scan_work # Off => default_conn = NULL

LinkInv == /\ TypeOK
           /\ DefaultConnIsTheLink
           /\ OneActivity
           /\ NoLeftoverWork
           /\ SetupIsWatched

(* Until the security of the link succeeded, nothing of it is left over from
   the last link; its watchdog is stopped by the success. *)
SecuredByThisLink ==
    /\ requested \/ secured > 0 => ~security_start_work /\ \E c \in Conns : HasLink(c)
    /\ security_timeout_work => secured = 0

(* The clean-up is scheduled only while SS2 waits to scan.  Its tries and the
   wait started together when the link was lost: attempts of them are over, so
   the scan is still that far away, and the object of the lost link that old. *)
CleanupClock ==
    bond_cleanup_work # Off =>
        /\ bond_cleanup_pending
        /\ bond_cleanup_work \in {0, 1} /\ bond_cleanup_attempts < BondCleanupTries
        /\ restart_scan_work = SECURITY_RETRY_DELAY - 1 - bond_cleanup_attempts + bond_cleanup_work
        /\ AnyDown => age = bond_cleanup_attempts + 1 - bond_cleanup_work

(* One that is pending but not scheduled waits for its link to end. *)
CleanupWaits ==
    bond_cleanup_pending /\ bond_cleanup_work = Off =>
        /\ security_retry_backoff /\ bond_cleanup_attempts = 0
        /\ \E c \in Conns : HasLink(c)

(* It is called off by the success of the link's security, and a bond that was
   rejected is cleared before anything else can use it. *)
CalledOff == bond_cleanup_pending => ~(secured > 0 /\ bond = "good")
RejectedIsPending == bond = "rejected" => bond_cleanup_pending

CleanupInv == /\ SecuredByThisLink
              /\ CleanupClock
              /\ CleanupWaits
              /\ CalledOff
              /\ RejectedIsPending
              /\ RetryPairsFresh

(* What the proofs assume of the stack. *)
ReleasedInTime == \A n \in Releases : n < BondCleanupTries

----------------------------------------------------------------------------
(* Types: the works count down to 0, and an object ages to max_release. *)

(* TypeOK in two parts, for two provers. *)
FlagTypes ==
    /\ requested \in BOOLEAN /\ mtu_exchanged \in BOOLEAN /\ scanning \in BOOLEAN
    /\ security_retry_backoff \in BOOLEAN /\ gatt_setup_complete \in BOOLEAN
    /\ bond_cleanup_pending \in BOOLEAN /\ handles \in BOOLEAN /\ cs_started \in BOOLEAN
    /\ security_start_work \in BOOLEAN /\ security_timeout_work \in BOOLEAN
    /\ gatt_start_work \in BOOLEAN /\ gatt_setup_timeout_work \in BOOLEAN
DataTypes ==
    /\ link \in [Conns -> {"free", "connecting", "up", "closing", "down"}]
    /\ max_release \in Releases /\ age \in 0..max_release
    /\ secured \in 0..MaxSecurityEvents
    /\ refused \in {"no", "object", "error"}
    /\ op \in {"none", "mtu", "auth_dm", "read", "write", "ess_dm"}
    /\ bond \in {"none", "good", "rejected"}
    /\ default_conn \in Conns \cup {NULL}
    /\ bond_cleanup_attempts \in 0..255
    /\ subscribed \in SUBSET {"temp", "hum"}
    /\ restart_scan_work \in Quarters \cup {Off}
    /\ bond_cleanup_work \in Quarters \cup {Off}

LEMMA TypeParts == TypeOK <=> FlagTypes /\ DataTypes
BY DEF TypeOK, FlagTypes, DataTypes

LEMMA InitType == Init => TypeOK
<1> SUFFICES ASSUME Init PROVE TypeOK
  OBVIOUS
<1>1. age \in 0..max_release /\ secured \in 0..MaxSecurityEvents
  BY DEF Init
<1>2. DataTypes
  BY <1>1 DEF Init, DataTypes, Quarters
<1>3. FlagTypes
  BY DEF Init, FlagTypes
<1> QED BY <1>2, <1>3, TypeParts

LEMMA DataStep == DataTypes /\ [Next]_vars => DataTypes'
<1> SUFFICES ASSUME DataTypes, [Next]_vars PROVE DataTypes'
  OBVIOUS
<1> USE DEF DataTypes, linkVars, recoveryVars, setupVars, setupWorks, timedWorks, objectVars,
            scanVars
<1>1. CASE ScanMatch
  BY <1>1 DEF ScanMatch, CreateConnection, CreationRefused
<1>2. ASSUME NEW c \in Conns, Connected(c) PROVE DataTypes'
  BY <1>2 DEF Connected
<1>3. ASSUME NEW c \in Conns, ConnectFailed(c) PROVE DataTypes'
  BY <1>3 DEF ConnectFailed, ForgetConn, Quarters, SECURITY_RETRY_DELAY, SCAN_RETRY_DELAY
<1>4. ASSUME NEW c \in Conns, Disconnected(c) PROVE DataTypes'
  <2>1. /\ link' \in [Conns -> {"free", "connecting", "up", "closing", "down"}]
        /\ max_release' \in Releases /\ age' \in 0..max_release'
        /\ secured' \in 0..MaxSecurityEvents
    BY <1>4 DEF Disconnected, LinkLost
  <2>2. /\ restart_scan_work' \in Quarters \cup {Off}
        /\ bond_cleanup_work' \in Quarters \cup {Off}
    BY <1>4 DEF Disconnected, Quarters, SECURITY_RETRY_DELAY, SCAN_RETRY_DELAY,
       BOND_CLEANUP_DELAY, RetryDelay
  <2> QED BY <1>4, <2>1, <2>2 DEF Disconnected, LinkLost, CancelWorks
<1>5. ASSUME NEW c \in Conns, Released(c) PROVE DataTypes'
  BY <1>5 DEF Released
<1>6. ASSUME NEW c \in Conns, SecurityEstablished(c) PROVE DataTypes'
  BY <1>6 DEF SecurityEstablished, unchangedButSecurity, SecurityRecovered
<1>7. ASSUME NEW c \in Conns, SecurityFailed(c) PROVE DataTypes'
  BY <1>7 DEF SecurityFailed, unchangedButSecurity, mark_security_recovery, bt_conn_disconnect
<1>8. CASE RestartScan
  BY <1>8 DEF RestartScan, ScanStarted, ScanNotStarted, Quarters, SECURITY_RETRY_DELAY,
     SCAN_RETRY_DELAY
<1>9. CASE BondCleanup
  BY <1>9 DEF BondCleanup, NextAttempt, Quarters, SECURITY_RETRY_DELAY, BOND_CLEANUP_DELAY
<1>10. CASE Tick
  BY <1>10 DEF Tick, Less, Quarters, SECURITY_RETRY_DELAY, Off
<1>11. CASE SecurityStart
  BY <1>11 DEF SecurityStart, ArmSecurityTimeout, mark_security_recovery, bt_conn_disconnect
<1>12. CASE SecurityTimeout
  BY <1>12 DEF SecurityTimeout, unchangedButSecurity, mark_security_recovery, bt_conn_disconnect
<1>13. CASE GattStart
  BY <1>13 DEF GattStart, unchangedButGatt, ArmGattTimeout, bt_conn_disconnect
<1>14. CASE MtuDone \/ AuthDmDone \/ ChallengeRead \/ ResponseWritten \/ EssDmDone
               \/ OperationFailed
  <2> USE DEF unchangedButOp, unchangedButGatt, Request
  <2>1. CASE MtuDone
    <3>1. op' \in {"none", "auth_dm"}
      BY <2>1 DEF MtuDone
    <3> QED BY <2>1, <3>1 DEF MtuDone
  <2>2. CASE AuthDmDone
    <3>1. op' \in {"none", "read"}
      BY <2>2 DEF AuthDmDone
    <3> QED BY <2>2, <3>1 DEF AuthDmDone
  <2>3. CASE ResponseWritten
    <3>1. op' \in {"none", "ess_dm"}
      BY <2>3 DEF ResponseWritten
    <3> QED BY <2>3, <3>1 DEF ResponseWritten
  <2>4. CASE EssDmDone \/ OperationFailed
    BY <2>4, ZenonT(60) DEF EssDmDone, OperationFailed
  <2>5. CASE ChallengeRead
    <3>1. op' \in {"none", "write"}
      BY <2>5 DEF ChallengeRead
    <3> QED BY <2>5, <3>1 DEF ChallengeRead
  <2> QED BY <1>14, <2>1, <2>2, <2>3, <2>4, <2>5
<1>15. CASE GattSetupTimeout
  BY <1>15 DEF GattSetupTimeout, unchangedButGatt, bt_conn_disconnect
<1>16. CASE UNCHANGED vars
  BY <1>16 DEF vars
<1> QED BY <1>1, <1>2, <1>3, <1>4, <1>5, <1>6, <1>7, <1>8, <1>9, <1>10, <1>11, <1>12, <1>13,
        <1>14, <1>15, <1>16 DEF Next

LEMMA FlagStep == FlagTypes /\ [Next]_vars => FlagTypes'
<1> SUFFICES ASSUME FlagTypes, [Next]_vars PROVE FlagTypes'
  OBVIOUS
<1> USE DEF FlagTypes, linkVars, recoveryVars, setupVars, setupWorks, timedWorks, objectVars,
            scanVars
<1>1. CASE ScanMatch
  BY <1>1 DEF ScanMatch, CreateConnection, CreationRefused
<1>2. ASSUME NEW c \in Conns, Connected(c) PROVE FlagTypes'
  BY <1>2 DEF Connected
<1>3. ASSUME NEW c \in Conns, ConnectFailed(c) PROVE FlagTypes'
  BY <1>3 DEF ConnectFailed
<1>4. ASSUME NEW c \in Conns, Disconnected(c) PROVE FlagTypes'
  BY <1>4 DEF Disconnected, LinkLost, CancelWorks
<1>5. ASSUME NEW c \in Conns, Released(c) PROVE FlagTypes'
  BY <1>5 DEF Released
<1>6. ASSUME NEW c \in Conns, SecurityEstablished(c) PROVE FlagTypes'
  BY <1>6 DEF SecurityEstablished, unchangedButSecurity, SecurityRecovered
<1>7. ASSUME NEW c \in Conns, SecurityFailed(c) PROVE FlagTypes'
  BY <1>7 DEF SecurityFailed, unchangedButSecurity, mark_security_recovery
<1>8. CASE RestartScan
  BY <1>8, ZenonT(60) DEF RestartScan, ScanStarted, ScanNotStarted
<1>9. CASE BondCleanup
  BY <1>9, ZenonT(60) DEF BondCleanup
<1>10. CASE Tick
  BY <1>10 DEF Tick
<1>11. CASE SecurityStart
  BY <1>11 DEF SecurityStart, ArmSecurityTimeout, mark_security_recovery
<1>12. CASE SecurityTimeout
  BY <1>12 DEF SecurityTimeout, unchangedButSecurity, mark_security_recovery
<1>13. CASE GattStart
  BY <1>13 DEF GattStart, unchangedButGatt, ArmGattTimeout
<1>14. CASE MtuDone \/ AuthDmDone \/ ChallengeRead \/ ResponseWritten \/ EssDmDone
               \/ OperationFailed
  <2> USE DEF unchangedButOp, unchangedButGatt
  <2>1. CASE MtuDone \/ ChallengeRead
    BY <2>1 DEF MtuDone, ChallengeRead
  <2>2. CASE AuthDmDone
    <3>1. handles' \in BOOLEAN
      BY <2>2, Zenon DEF AuthDmDone
    <3> QED BY <2>2, <3>1 DEF AuthDmDone
  <2>3. CASE ResponseWritten
    BY <2>3 DEF ResponseWritten
  <2>4. CASE EssDmDone
    BY <2>4 DEF EssDmDone
  <2>5. CASE OperationFailed
    BY <2>5 DEF OperationFailed
  <2> QED BY <1>14, <2>1, <2>2, <2>3, <2>4, <2>5
<1>15. CASE GattSetupTimeout
  BY <1>15 DEF GattSetupTimeout, unchangedButGatt
<1>16. CASE UNCHANGED vars
  BY <1>16 DEF vars
<1> QED BY <1>1, <1>2, <1>3, <1>4, <1>5, <1>6, <1>7, <1>8, <1>9, <1>10, <1>11, <1>12, <1>13,
        <1>14, <1>15, <1>16 DEF Next

LEMMA TypeStep == TypeOK /\ [Next]_vars => TypeOK'
BY DataStep, FlagStep, TypeParts DEF TypeOK, FlagTypes, DataTypes

(* Every variable of SS2 keeps its type: no work is scheduled out of range, and
   an object that time passes over is never older than the stack lets it get. *)
THEOREM CentralTypeCorrect == Spec => []TypeOK
BY InitType, TypeStep, PTL DEF Spec

----------------------------------------------------------------------------
(* The one connection and the works of its set-up. *)

(* Asking the stack to end a link leaves the object what it was, but not up. *)
LEMMA ClosingKeeps ==
    ASSUME TypeOK, NEW d, bt_conn_disconnect(d) \/ UNCHANGED link
    PROVE  \A c \in Conns :
             /\ HasLink(c)' <=> HasLink(c)
             /\ Up(c)' => Up(c)
             /\ Up(c)' /\ bt_conn_disconnect(d) => c # d
             /\ link'[c] = "connecting" <=> link[c] = "connecting"
             /\ link'[c] = "down" <=> link[c] = "down"
             /\ link'[c] = "free" <=> link[c] = "free"
BY DEF bt_conn_disconnect, TypeOK, HasLink, Up

LEMMA InitLink == Init => LinkInv
<1> SUFFICES ASSUME Init PROVE LinkInv
  OBVIOUS
<1>1. \A c \in Conns : link[c] = "free" /\ default_conn # c
  BY DEF Init, Conns, NULL
<1>2. ~SetupWorks
  BY DEF Init, SetupWorks
<1> QED BY <1>1, <1>2, InitType DEF Init, LinkInv, DefaultConnIsTheLink, OneActivity,
        NoLeftoverWork, SetupIsWatched, Up

(* A step that neither connects nor lets go of the connection. *)
LEMMA StayingLink ==
    ASSUME LinkInv, TypeOK', NEW d, bt_conn_disconnect(d) \/ UNCHANGED link,
           UNCHANGED <<default_conn, scanning, restart_scan_work>>,
           SetupWorks' => SetupWorks,
           \A c \in Conns : Up(c)' /\ ~gatt_setup_complete' => SetupWorks'
    PROVE  LinkInv'
<1> USE DEF LinkInv
<1>1. DefaultConnIsTheLink'
  BY ClosingKeeps DEF DefaultConnIsTheLink, HasLink
<1>2. NoLeftoverWork'
  BY ClosingKeeps DEF NoLeftoverWork
<1>3. OneActivity' /\ SetupIsWatched'
  BY DEF OneActivity, SetupIsWatched
<1> QED BY <1>1, <1>2, <1>3

LEMMA LinkStep == LinkInv /\ [Next]_vars => LinkInv'
<1> SUFFICES ASSUME LinkInv, [Next]_vars PROVE LinkInv'
  OBVIOUS
<1>0. TypeOK /\ TypeOK'
  BY TypeStep DEF LinkInv
<1> USE <1>0 DEF LinkInv, linkVars, recoveryVars, setupVars, setupWorks, timedWorks, objectVars,
                 scanVars,
                 unchangedButSecurity, unchangedButGatt, unchangedButOp
<1>1. CASE ScanMatch
  <2>1. /\ default_conn = NULL /\ restart_scan_work = Off /\ ~scanning'
        /\ UNCHANGED <<restart_scan_work, setupWorks>>
    BY <1>1 DEF ScanMatch, CreateConnection, CreationRefused, OneActivity
  <2>2. ~SetupWorks
    BY <2>1 DEF NoLeftoverWork, Conns, NULL
  <2>3. ~SetupWorks'
    BY <2>1, <2>2 DEF SetupWorks
  <2>4. \A c \in Conns : link[c] \notin {"connecting", "up", "closing"}
    BY <2>1 DEF DefaultConnIsTheLink, Conns, NULL
  <2>5. DefaultConnIsTheLink' /\ \A c \in Conns : ~Up(c)'
    <3>1. CASE UNCHANGED <<link, default_conn>>
      BY <2>1, <2>4, <3>1 DEF DefaultConnIsTheLink, Conns, NULL, Up
    <3>2. ASSUME NEW c \in Conns, link' = [link EXCEPT ![c] = "connecting"], default_conn' = c
          PROVE  DefaultConnIsTheLink' /\ \A e \in Conns : ~Up(e)'
      BY <2>4, <3>2 DEF DefaultConnIsTheLink, Up, TypeOK
    <3> QED BY <1>1, <3>1, <3>2 DEF ScanMatch, CreateConnection, CreationRefused
  <2> QED BY <2>1, <2>3, <2>5 DEF OneActivity, NoLeftoverWork, SetupIsWatched
<1>2. ASSUME NEW c \in Conns, Connected(c) PROVE LinkInv'
  <2>1. /\ default_conn = c /\ link' = [link EXCEPT ![c] = "up"] /\ security_start_work'
        /\ UNCHANGED <<default_conn, scanning, restart_scan_work>>
    BY <1>2 DEF Connected, DefaultConnIsTheLink
  <2>2. SetupWorks' /\ HasLink(c)'
    BY <2>1 DEF SetupWorks, HasLink, TypeOK
  <2>3. DefaultConnIsTheLink'
    BY <2>1 DEF DefaultConnIsTheLink, TypeOK
  <2> QED BY <2>1, <2>2, <2>3 DEF OneActivity, NoLeftoverWork, SetupIsWatched
<1>3. ASSUME NEW c \in Conns, ConnectFailed(c) PROVE LinkInv'
  <2>1. default_conn = c /\ ~HasLink(c)
    BY <1>3 DEF ConnectFailed, DefaultConnIsTheLink, HasLink
  <2>2. ~SetupWorks /\ UNCHANGED <<setupWorks, scanning>> /\ ~scanning
    BY <1>3, <2>1 DEF ConnectFailed, NoLeftoverWork, OneActivity, Conns, NULL
  <2>3. default_conn' = NULL /\ link' = [link EXCEPT ![c] = "free"]
    BY <1>3, <2>1 DEF ConnectFailed, ForgetConn
  <2>4. DefaultConnIsTheLink' /\ \A d \in Conns : ~Up(d)'
    BY <2>1, <2>3 DEF DefaultConnIsTheLink, TypeOK, Conns, NULL, Up
  <2>5. ~SetupWorks'
    BY <2>2 DEF SetupWorks
  <2> QED BY <2>2, <2>3, <2>4, <2>5 DEF OneActivity, NoLeftoverWork, SetupIsWatched
<1>4. ASSUME NEW c \in Conns, Disconnected(c) PROVE LinkInv'
  <2>1. default_conn = c /\ ~scanning
    BY <1>4 DEF Disconnected, DefaultConnIsTheLink, HasLink, OneActivity, Conns, NULL
  <2>2. /\ default_conn' = NULL /\ link' = [link EXCEPT ![c] = "down"] /\ UNCHANGED scanning
        /\ ~SetupWorks'
    BY <1>4, <2>1 DEF Disconnected, LinkLost, CancelWorks, SetupWorks
  <2>3. DefaultConnIsTheLink' /\ \A d \in Conns : ~Up(d)'
    BY <2>1, <2>2 DEF DefaultConnIsTheLink, TypeOK, Conns, NULL, Up
  <2> QED BY <2>1, <2>2, <2>3 DEF OneActivity, NoLeftoverWork, SetupIsWatched
<1>5. ASSUME NEW c \in Conns, Released(c) PROVE LinkInv'
  <2>1. /\ link[c] = "down" /\ link' = [link EXCEPT ![c] = "free"]
        /\ UNCHANGED <<default_conn, scanning, restart_scan_work, setupWorks,
                       gatt_setup_complete>>
    BY <1>5 DEF Released
  <2>2. \A d \in Conns : /\ HasLink(d)' <=> HasLink(d)
                         /\ Up(d)' <=> Up(d)
                         /\ link'[d] = "connecting" <=> link[d] = "connecting"
    BY <2>1 DEF HasLink, Up, TypeOK
  <2>3. SetupWorks' <=> SetupWorks
    BY <2>1 DEF SetupWorks
  <2>4. DefaultConnIsTheLink'
    BY <2>1, <2>2 DEF DefaultConnIsTheLink, HasLink
  <2> QED BY <2>1, <2>2, <2>3, <2>4 DEF OneActivity, NoLeftoverWork, SetupIsWatched
<1>6. ASSUME NEW c \in Conns, SecurityEstablished(c) PROVE LinkInv'
  <2>1. /\ HasLink(c) /\ default_conn = c /\ gatt_start_work'
        /\ UNCHANGED <<link, default_conn, scanning, restart_scan_work>>
    BY <1>6 DEF SecurityEstablished
  <2>2. SetupWorks'
    BY <2>1 DEF SetupWorks
  <2> QED BY <2>1, <2>2 DEF DefaultConnIsTheLink, OneActivity, NoLeftoverWork, SetupIsWatched,
          HasLink
<1>7. ASSUME NEW c \in Conns, SecurityFailed(c) PROVE LinkInv'
  <2>1. /\ default_conn = c /\ bt_conn_disconnect(c)
        /\ UNCHANGED <<default_conn, scanning, restart_scan_work, setupWorks,
                       gatt_setup_complete>>
    BY <1>7 DEF SecurityFailed
  <2>2. \A d \in Conns : ~Up(d)'
    BY <2>1, ClosingKeeps DEF DefaultConnIsTheLink, Up
  <2>3. SetupWorks' <=> SetupWorks
    BY <2>1 DEF SetupWorks
  <2> QED BY <2>1, <2>2, <2>3, StayingLink
<1>8. CASE RestartScan
  <2>1. /\ default_conn = NULL /\ ~scanning
        /\ UNCHANGED <<link, default_conn, setupWorks, gatt_setup_complete>>
        /\ scanning' => restart_scan_work' = Off
    BY <1>8 DEF RestartScan, ScanStarted, ScanNotStarted, OneActivity, Off
  <2>2. SetupWorks' <=> SetupWorks
    BY <2>1 DEF SetupWorks
  <2> QED BY <2>1, <2>2 DEF DefaultConnIsTheLink, OneActivity, NoLeftoverWork, SetupIsWatched,
          HasLink, Up
<1>9. CASE BondCleanup \/ UNCHANGED vars
  <2>1. UNCHANGED <<link, default_conn, scanning, restart_scan_work, setupWorks,
                    gatt_setup_complete>>
    BY <1>9 DEF BondCleanup, vars
  <2>2. SetupWorks' <=> SetupWorks
    BY <2>1 DEF SetupWorks
  <2> QED BY <2>1, <2>2 DEF DefaultConnIsTheLink, OneActivity, NoLeftoverWork, SetupIsWatched,
          HasLink, Up
<1>10. CASE Tick
  <2>1. /\ UNCHANGED <<link, default_conn, scanning, setupWorks, gatt_setup_complete>>
        /\ restart_scan_work' # Off => restart_scan_work # Off
    BY <1>10 DEF Tick, Less, Off
  <2>2. SetupWorks' <=> SetupWorks
    BY <2>1 DEF SetupWorks
  <2> QED BY <2>1, <2>2 DEF DefaultConnIsTheLink, OneActivity, NoLeftoverWork, SetupIsWatched,
          HasLink, Up
<1>11. CASE SecurityStart
  <2>1. /\ SetupWorks
        /\ UNCHANGED <<default_conn, scanning, restart_scan_work>>
    BY <1>11 DEF SecurityStart, SetupWorks
  <2>2. default_conn # NULL
    BY <2>1 DEF NoLeftoverWork, Conns, NULL
  <2>3. SetupWorks' /\ (UNCHANGED link \/ bt_conn_disconnect(default_conn))
    BY <1>11, <2>2 DEF SecurityStart, ArmSecurityTimeout, SetupWorks
  <2> QED BY <2>1, <2>3, StayingLink
<1>12. CASE SecurityTimeout
  <2>1. /\ SetupWorks
        /\ UNCHANGED <<default_conn, scanning, restart_scan_work, gatt_setup_complete>>
    BY <1>12 DEF SecurityTimeout, SetupWorks
  <2>2. default_conn # NULL
    BY <2>1 DEF NoLeftoverWork, Conns, NULL
  <2>3. /\ gatt_setup_complete \/ bt_conn_disconnect(default_conn)
        /\ UNCHANGED link \/ bt_conn_disconnect(default_conn)
    BY <1>12, <2>2 DEF SecurityTimeout
  <2>4. \A c \in Conns : Up(c)' => gatt_setup_complete
    BY <2>3, ClosingKeeps DEF DefaultConnIsTheLink, Up
  <2> QED BY <2>1, <2>3, <2>4, StayingLink
<1>13. CASE GattStart
  <2>1. /\ SetupWorks
        /\ UNCHANGED <<default_conn, scanning, restart_scan_work>>
    BY <1>13 DEF GattStart, SetupWorks
  <2>2. default_conn # NULL
    BY <2>1 DEF NoLeftoverWork, Conns, NULL
  <2>3. SetupWorks' /\ (UNCHANGED link \/ bt_conn_disconnect(default_conn))
    BY <1>13, <2>2 DEF GattStart, ArmGattTimeout, SetupWorks
  <2> QED BY <2>1, <2>3, StayingLink
<1>14. CASE MtuDone \/ AuthDmDone \/ ChallengeRead \/ EssDmDone \/ OperationFailed
  <2>1. UNCHANGED <<link, default_conn, scanning, restart_scan_work, setupWorks,
                    gatt_setup_complete>>
    BY <1>14 DEF MtuDone, AuthDmDone, ChallengeRead, EssDmDone, OperationFailed
  <2>2. SetupWorks' <=> SetupWorks
    BY <2>1 DEF SetupWorks
  <2> QED BY <2>1, <2>2 DEF DefaultConnIsTheLink, OneActivity, NoLeftoverWork, SetupIsWatched,
          HasLink, Up
<1>15. CASE ResponseWritten
  <2>1. /\ UNCHANGED <<link, default_conn, scanning, restart_scan_work, security_start_work,
                       security_timeout_work, gatt_start_work>>
        /\ gatt_setup_complete' /\ ~gatt_setup_timeout_work'
    BY <1>15 DEF ResponseWritten
  <2>2. SetupWorks' => SetupWorks
    BY <2>1 DEF SetupWorks
  <2> QED BY <2>1, <2>2, StayingLink
<1>16. CASE GattSetupTimeout
  <2>1. /\ SetupWorks
        /\ UNCHANGED <<default_conn, scanning, restart_scan_work, gatt_setup_complete>>
    BY <1>16 DEF GattSetupTimeout, SetupWorks
  <2>2. default_conn # NULL
    BY <2>1 DEF NoLeftoverWork, Conns, NULL
  <2>3. bt_conn_disconnect(default_conn)
    BY <1>16, <2>2 DEF GattSetupTimeout
  <2>4. \A c \in Conns : ~Up(c)'
    BY <2>3, ClosingKeeps DEF DefaultConnIsTheLink, Up
  <2> QED BY <2>1, <2>3, <2>4, StayingLink
<1> QED BY <1>1, <1>2, <1>3, <1>4, <1>5, <1>6, <1>7, <1>8, <1>9, <1>10, <1>11, <1>12, <1>13,
        <1>14, <1>15, <1>16 DEF Next

LEMMA LinkInvariant == Spec => []LinkInv
BY InitLink, LinkStep, PTL DEF Spec

(* default_conn is the one link there is, so no callback of SS2 is stale. *)
THEOREM DefaultConnCorrect == Spec => []DefaultConnIsTheLink
BY LinkInvariant, PTL DEF LinkInv

(* No work of a set-up outlives its link. *)
THEOREM WorksCorrect == Spec => []NoLeftoverWork
BY LinkInvariant, PTL DEF LinkInv

(* A link that is up and not set up has a work that goes on or ends it, however
   silently the steps of the set-up fail. *)
THEOREM WatchedCorrect == Spec => []SetupIsWatched
BY LinkInvariant, PTL DEF LinkInv

----------------------------------------------------------------------------
(* The security of the link, which the clean-up asks about. *)

LEMMA SecuredKept ==
    ASSUME SecuredByThisLink, UNCHANGED secured,
           requested' => requested, security_start_work' => security_start_work,
           security_timeout_work' => security_timeout_work,
           \A c \in Conns : HasLink(c) => HasLink(c)'
    PROVE  SecuredByThisLink'
BY DEF SecuredByThisLink

LEMMA SecuredStep == LinkInv /\ SecuredByThisLink /\ [Next]_vars => SecuredByThisLink'
<1> SUFFICES ASSUME LinkInv, SecuredByThisLink, [Next]_vars PROVE SecuredByThisLink'
  OBVIOUS
<1> USE DEF LinkInv, linkVars, recoveryVars, setupVars, setupWorks, timedWorks, objectVars,
            scanVars,
            unchangedButSecurity, unchangedButGatt, unchangedButOp
<1>1. CASE ScanMatch
  <2>1. \A c \in Conns : HasLink(c) => HasLink(c)'
    BY <1>1 DEF ScanMatch, CreateConnection, CreationRefused, HasLink, TypeOK
  <2> QED BY <1>1, <2>1, SecuredKept DEF ScanMatch, CreateConnection, CreationRefused
<1>2. ASSUME NEW c \in Conns, Connected(c) PROVE SecuredByThisLink'
  <2>1. \A d \in Conns : ~HasLink(d)
    BY <1>2 DEF Connected, DefaultConnIsTheLink, HasLink
  <2>2. ~requested /\ ~(secured > 0)
    BY <2>1 DEF SecuredByThisLink
  <2>3. UNCHANGED <<requested, secured, security_timeout_work>>
    BY <1>2 DEF Connected
  <2> QED BY <2>2, <2>3 DEF SecuredByThisLink, TypeOK
<1>3. ASSUME NEW c \in Conns, ConnectFailed(c) \/ Released(c) PROVE SecuredByThisLink'
  <2>1. \A d \in Conns : HasLink(d) => HasLink(d)'
    BY <1>3 DEF ConnectFailed, Released, HasLink, TypeOK
  <2> QED BY <1>3, <2>1, SecuredKept DEF ConnectFailed, Released
<1>4. ASSUME NEW c \in Conns, Disconnected(c) PROVE SecuredByThisLink'
  <2>1. default_conn = c
    BY <1>4 DEF Disconnected, DefaultConnIsTheLink, HasLink
  <2>2. ~requested' /\ secured' = 0 /\ ~security_timeout_work'
    BY <1>4, <2>1 DEF Disconnected, LinkLost, CancelWorks
  <2> QED BY <2>2 DEF SecuredByThisLink
<1>5. ASSUME NEW c \in Conns, SecurityEstablished(c) PROVE SecuredByThisLink'
  <2>1. /\ HasLink(c) /\ requested /\ UNCHANGED <<link, security_start_work>>
        /\ ~security_timeout_work'
    BY <1>5 DEF SecurityEstablished
  <2> QED BY <2>1 DEF SecuredByThisLink, HasLink
<1>6. ASSUME NEW c \in Conns, SecurityFailed(c) PROVE SecuredByThisLink'
  <2>1. bt_conn_disconnect(c)
    BY <1>6 DEF SecurityFailed
  <2> QED BY <1>6, <2>1, ClosingKeeps, SecuredKept DEF SecurityFailed
<1>7. CASE SecurityStart
  <2>1. PICK c \in Conns : HasLink(c) /\ default_conn = c
    BY <1>7 DEF SecurityStart, SetupWorks, NoLeftoverWork
  <2>2. /\ secured = 0 /\ UNCHANGED secured /\ ~security_start_work'
        /\ UNCHANGED link \/ bt_conn_disconnect(default_conn)
    BY <1>7, <2>1 DEF SecurityStart, SecuredByThisLink, TypeOK, Conns, NULL
  <2>3. HasLink(c)'
    BY <2>1, <2>2, ClosingKeeps
  <2> QED BY <2>2, <2>3 DEF SecuredByThisLink
<1>8. CASE SecurityTimeout
  <2>1. UNCHANGED link \/ bt_conn_disconnect(default_conn)
    BY <1>8 DEF SecurityTimeout
  <2> QED BY <1>8, <2>1, ClosingKeeps, SecuredKept DEF SecurityTimeout
<1>9. CASE GattStart \/ GattSetupTimeout
  <2>1. UNCHANGED link \/ bt_conn_disconnect(default_conn)
    BY <1>9 DEF GattStart, GattSetupTimeout
  <2> QED BY <1>9, <2>1, ClosingKeeps, SecuredKept DEF GattStart, GattSetupTimeout
<1>10. CASE RestartScan \/ BondCleanup \/ Tick \/ UNCHANGED vars
  BY <1>10, SecuredKept DEF RestartScan, BondCleanup, Tick, vars, HasLink
<1>11. CASE MtuDone \/ AuthDmDone \/ ChallengeRead \/ ResponseWritten \/ EssDmDone
               \/ OperationFailed
  BY <1>11, SecuredKept DEF MtuDone, AuthDmDone, ChallengeRead, ResponseWritten, EssDmDone,
     OperationFailed, HasLink
<1> QED BY <1>1, <1>2, <1>3, <1>4, <1>5, <1>6, <1>7, <1>8, <1>9, <1>10, <1>11 DEF Next

----------------------------------------------------------------------------
(* The clean-up of a rejected bond. *)

(* A clean-up that is scheduled leaves time before the scan. *)
LEMMA ClockBeforeScan ==
    ASSUME TypeOK, CleanupClock, bond_cleanup_work # Off
    PROVE  restart_scan_work > 1
BY DEF TypeOK, CleanupClock, SECURITY_RETRY_DELAY, BondCleanupTries

(* With a connection, or while SS2 scans, none is scheduled. *)
LEMMA NoClockWithLink ==
    ASSUME LinkInv, CleanupClock, scanning \/ default_conn # NULL
    PROVE  bond_cleanup_work = Off
BY ClockBeforeScan DEF LinkInv, OneActivity, Off

(* Steps that have nothing to do with it. *)
LEMMA CleanupKept ==
    ASSUME TypeOK, CleanupInv, SecuredByThisLink',
           UNCHANGED <<age, secured, bond, recoveryVars, timedWorks>>,
           \A c \in Conns : /\ HasLink(c) => HasLink(c)'
                            /\ link'[c] = "down" => link[c] = "down"
                            /\ link'[c] \in {"connecting", "up"} => link[c] \in {"connecting", "up"}
    PROVE  CleanupInv'
<1> USE DEF CleanupInv, recoveryVars, timedWorks
<1>1. CleanupClock'
  <2>1. AnyDown' => AnyDown
    BY DEF AnyDown
  <2> QED BY <2>1 DEF CleanupClock
<1>2. CleanupWaits'
  BY DEF CleanupWaits
<1>3. CalledOff' /\ RejectedIsPending' /\ RetryPairsFresh'
  BY DEF CalledOff, RejectedIsPending, RetryPairsFresh
<1> QED BY <1>1, <1>2, <1>3

(* Steps that ask for it: the security of the link failed, so the link ends. *)
LEMMA CleanupMarked ==
    ASSUME LinkInv, CleanupInv, SecuredByThisLink', NEW c \in Conns,
           HasLink(c), default_conn = c, bt_conn_disconnect(c), mark_security_recovery,
           UNCHANGED timedWorks, ~(secured' > 0 /\ bond' = "good")
    PROVE  CleanupInv'
<1> USE DEF LinkInv, CleanupInv, timedWorks, mark_security_recovery
<1>1. bond_cleanup_work' = Off
  BY NoClockWithLink DEF Conns, NULL
<1>2. CleanupClock' /\ CleanupWaits'
  BY <1>1, ClosingKeeps DEF CleanupClock, CleanupWaits
<1>3. \A d \in Conns : link'[d] \notin {"connecting", "up"}
  BY ClosingKeeps DEF DefaultConnIsTheLink, HasLink, Up
<1>4. CalledOff' /\ RejectedIsPending' /\ RetryPairsFresh'
  BY <1>3 DEF CalledOff, RejectedIsPending, RetryPairsFresh
<1> QED BY <1>2, <1>4

LEMMA InitCleanup == Init => CleanupInv
BY DEF Init, CleanupInv, SecuredByThisLink, CleanupClock, CleanupWaits, CalledOff,
   RejectedIsPending, RetryPairsFresh

LEMMA CleanupStep ==
    ASSUME ReleasedInTime, LinkInv, CleanupInv, [Next]_vars
    PROVE  CleanupInv'
<1>0. SecuredByThisLink'
  BY SecuredStep DEF CleanupInv
<1> USE <1>0 DEF LinkInv, CleanupInv, linkVars, recoveryVars, setupVars, setupWorks, timedWorks,
                 objectVars, scanVars, unchangedButSecurity, unchangedButGatt, unchangedButOp
<1>a. ASSUME ~bond_cleanup_pending', bond_cleanup_work' = Off, bond' # "rejected"
      PROVE  CleanupInv'
  BY <1>a DEF CleanupClock, CleanupWaits, CalledOff, RejectedIsPending, RetryPairsFresh
<1>b. ASSUME UNCHANGED <<age, secured, bond, recoveryVars, timedWorks>>,
             UNCHANGED link \/ bt_conn_disconnect(default_conn)
      PROVE  CleanupInv'
  <2>1. \A c \in Conns : /\ HasLink(c) => HasLink(c)'
                         /\ link'[c] = "down" => link[c] = "down"
                         /\ link'[c] \in {"connecting", "up"} => link[c] \in {"connecting", "up"}
    BY <1>b, ClosingKeeps DEF Up
  <2> QED BY <1>b, <2>1, CleanupKept
<1>1. CASE ScanMatch
  <2>1. bond_cleanup_work = Off /\ default_conn = NULL
    BY <1>1, NoClockWithLink DEF ScanMatch, CreateConnection, CreationRefused, OneActivity
  <2>2. ~bond_cleanup_pending
    BY <2>1 DEF CleanupWaits, DefaultConnIsTheLink, HasLink, Conns, NULL
  <2> QED BY <1>1, <1>a, <2>1, <2>2 DEF ScanMatch, CreateConnection, CreationRefused,
                                        RejectedIsPending
<1>2. ASSUME NEW c \in Conns, Connected(c) \/ ConnectFailed(c) PROVE CleanupInv'
  <2>1. default_conn = c /\ \A d \in Conns : ~HasLink(d)
    BY <1>2 DEF Connected, ConnectFailed, DefaultConnIsTheLink, HasLink
  <2>2. bond_cleanup_work = Off
    BY <2>1, NoClockWithLink DEF Conns, NULL
  <2>3. ~bond_cleanup_pending
    BY <2>1, <2>2 DEF CleanupWaits
  <2> QED BY <1>2, <1>a, <2>2, <2>3 DEF Connected, ConnectFailed, RejectedIsPending
<1>3. ASSUME NEW c \in Conns, Disconnected(c) PROVE CleanupInv'
  <2>1. default_conn = c
    BY <1>3 DEF Disconnected, DefaultConnIsTheLink, HasLink
  <2>2. bond_cleanup_work = Off
    BY <2>1, NoClockWithLink DEF Conns, NULL
  <2>3. UNCHANGED <<bond, bond_cleanup_pending, bond_cleanup_attempts>>
    BY <1>3 DEF Disconnected
  <2>4. CASE bond_cleanup_pending
    <3>1. security_retry_backoff /\ bond_cleanup_attempts = 0
      BY <2>2, <2>4 DEF CleanupWaits
    <3>2. /\ bond_cleanup_work' = 1 /\ restart_scan_work' = 8
          /\ age' = 0 /\ secured' = 0 /\ link' = [link EXCEPT ![c] = "down"]
      BY <1>3, <2>1, <2>4, <3>1 DEF Disconnected, LinkLost, RetryDelay, BOND_CLEANUP_DELAY,
         SECURITY_RETRY_DELAY
    <3>3. CleanupClock'
      BY <2>3, <2>4, <3>1, <3>2 DEF CleanupClock, BondCleanupTries, SECURITY_RETRY_DELAY
    <3>4. RetryPairsFresh'
      BY <2>1, <3>2 DEF RetryPairsFresh, DefaultConnIsTheLink, TypeOK
    <3> QED BY <2>3, <2>4, <3>2, <3>3, <3>4 DEF CleanupWaits, CalledOff, RejectedIsPending, Off
  <2>5. CASE ~bond_cleanup_pending
    BY <1>3, <1>a, <2>1, <2>2, <2>3, <2>5 DEF Disconnected, RejectedIsPending
  <2> QED BY <2>4, <2>5
<1>4. ASSUME NEW c \in Conns, Released(c) PROVE CleanupInv'
  <2>1. \A d \in Conns : /\ HasLink(d) => HasLink(d)'
                         /\ link'[d] = "down" => link[d] = "down"
                         /\ link'[d] \in {"connecting", "up"} => link[d] \in {"connecting", "up"}
    BY <1>4 DEF Released, HasLink, TypeOK
  <2> QED BY <1>4, <2>1, CleanupKept DEF Released
<1>5. ASSUME NEW c \in Conns, SecurityEstablished(c) PROVE CleanupInv'
  <2>1. bond_cleanup_work = Off
    BY <1>5, NoClockWithLink DEF SecurityEstablished, Conns, NULL
  <2> QED BY <1>5, <1>a, <2>1 DEF SecurityEstablished, SecurityRecovered
<1>6. ASSUME NEW c \in Conns, SecurityFailed(c) PROVE CleanupInv'
  <2>1. bond' # "good"
    BY <1>6 DEF SecurityFailed
  <2> QED BY <1>6, <2>1, CleanupMarked DEF SecurityFailed
<1>7. CASE SecurityStart
  <2>1. PICK c \in Conns : HasLink(c) /\ default_conn = c
    BY <1>7 DEF SecurityStart, SetupWorks, NoLeftoverWork
  <2>2. secured = 0 /\ UNCHANGED <<secured, bond, timedWorks, age>> /\ c # NULL
    BY <1>7 DEF SecurityStart, SecuredByThisLink, TypeOK, Conns, NULL
  <2>3. \/ UNCHANGED <<link, recoveryVars>>
        \/ mark_security_recovery /\ bt_conn_disconnect(c)
    BY <1>7, <2>1, <2>2 DEF SecurityStart
  <2> QED BY <1>b, <2>1, <2>2, <2>3, CleanupMarked
<1>8. CASE SecurityTimeout
  <2>1. PICK c \in Conns : HasLink(c) /\ default_conn = c
    BY <1>8 DEF SecurityTimeout, SetupWorks, NoLeftoverWork
  <2>2. secured = 0 /\ UNCHANGED <<secured, bond, timedWorks, age>>
    BY <1>8 DEF SecurityTimeout, SecuredByThisLink
  <2>3. \/ UNCHANGED <<link, recoveryVars>>
        \/ mark_security_recovery /\ bt_conn_disconnect(c)
    BY <1>8, <2>1 DEF SecurityTimeout
  <2> QED BY <1>b, <2>1, <2>2, <2>3, CleanupMarked
<1>9. CASE GattStart \/ GattSetupTimeout
  BY <1>9, <1>b DEF GattStart, GattSetupTimeout
<1>10. CASE RestartScan
  <2>1. bond_cleanup_work = Off
    BY <1>10, ClockBeforeScan DEF RestartScan
  <2> QED BY <1>10, <2>1 DEF RestartScan, CleanupClock, CleanupWaits, CalledOff,
          RejectedIsPending, RetryPairsFresh, HasLink
<1>11. CASE BondCleanup
  <2>1. /\ bond_cleanup_pending /\ bond_cleanup_work = 0 /\ bond_cleanup_work # Off
        /\ UNCHANGED <<link, secured, age, restart_scan_work>>
    BY <1>11 DEF BondCleanup, CleanupClock, Off
  <2>2. default_conn = NULL
    BY <2>1, NoClockWithLink
  <2>3. CASE \E c \in Conns : link[c] # "free"
    <3>1. AnyDown
      BY <2>2, <2>3 DEF AnyDown, DefaultConnIsTheLink, TypeOK, Conns, NULL
    <3>2. age = bond_cleanup_attempts + 1 /\ age < BondCleanupTries
      <4>1. max_release \in Nat /\ max_release < BondCleanupTries /\ age <= max_release
        BY DEF ReleasedInTime, TypeOK
      <4>2. age = bond_cleanup_attempts + 1
        BY <2>1, <3>1 DEF CleanupClock, TypeOK
      <4> QED BY <4>1, <4>2 DEF TypeOK, BondCleanupTries
    <3>3. bond_cleanup_attempts' = bond_cleanup_attempts + 1
      <4>1. bond_cleanup_attempts' = NextAttempt(bond_cleanup_attempts)
        BY <1>11, <2>1, <2>3 DEF BondCleanup
      <4>2. bond_cleanup_attempts \in 0..255 /\ bond_cleanup_attempts + 1 < 256
        BY <3>2 DEF TypeOK, BondCleanupTries
      <4>3. \A n \in 0..254 : (n + 1) % 256 = n + 1
        OBVIOUS
      <4> QED BY <4>1, <4>2, <4>3 DEF NextAttempt
    <3>4. bond_cleanup_work' = 1 /\ UNCHANGED <<bond, bond_cleanup_pending>>
      BY <1>11, <2>1, <2>3, <3>2, <3>3 DEF BondCleanup, CleanupAgain, TypeOK, BOND_CLEANUP_DELAY
    <3>5. CleanupClock'
      BY <2>1, <3>2, <3>3, <3>4 DEF CleanupClock, TypeOK, BondCleanupTries, SECURITY_RETRY_DELAY
    <3> QED BY <2>1, <3>4, <3>5 DEF CleanupWaits, CalledOff, RejectedIsPending,
            RetryPairsFresh, Off
  <2>4. CASE ~\E c \in Conns : link[c] # "free"
    BY <1>11, <1>a, <2>1, <2>4 DEF BondCleanup
  <2> QED BY <2>3, <2>4
<1>12. CASE Tick
  <2>1. UNCHANGED <<link, secured, bond, recoveryVars>>
    BY <1>12 DEF Tick
  <2>2. CASE bond_cleanup_work = Off
    <3>1. bond_cleanup_work' = Off
      BY <1>12, <2>2 DEF Tick, Less, Off
    <3> QED BY <2>1, <2>2, <3>1 DEF CleanupClock, CleanupWaits, CalledOff, RejectedIsPending,
            RetryPairsFresh, HasLink
  <2>3. CASE bond_cleanup_work # Off
    <3>1. bond_cleanup_work = 1 /\ bond_cleanup_work' = 0
      BY <1>12, <2>3 DEF Tick, CleanupClock, Less
    <3>2. restart_scan_work' = restart_scan_work - 1
      BY <1>12, <2>3, ClockBeforeScan DEF Tick, Less, TypeOK
    <3>3. AnyDown' => AnyDown /\ age' = age + 1
      BY <1>12, <2>1 DEF Tick, AnyDown
    <3>4. CleanupClock'
      BY <2>1, <2>3, <3>1, <3>2, <3>3 DEF CleanupClock, TypeOK, SECURITY_RETRY_DELAY
    <3> QED BY <2>1, <3>1, <3>4 DEF CleanupWaits, CalledOff, RejectedIsPending,
            RetryPairsFresh, Off
  <2> QED BY <2>2, <2>3
<1>13. CASE MtuDone \/ AuthDmDone \/ ChallengeRead \/ ResponseWritten \/ EssDmDone
               \/ OperationFailed \/ UNCHANGED vars
  BY <1>13, <1>b DEF MtuDone, AuthDmDone, ChallengeRead, ResponseWritten, EssDmDone,
     OperationFailed, vars
<1> QED BY <1>1, <1>2, <1>3, <1>4, <1>5, <1>6, <1>7, <1>8, <1>9, <1>10, <1>11, <1>12, <1>13
        DEF Next

LEMMA CleanupInvariant ==
    ASSUME ReleasedInTime
    PROVE  Spec => []CleanupInv
<1>1. LinkInv /\ CleanupInv /\ [Next]_vars => CleanupInv'
  BY CleanupStep
<1> QED BY <1>1, InitCleanup, LinkInvariant, PTL DEF Spec

(* However many links fail in a row, a rejected bond is cleared before the next
   link is made: the six tries outlast the stack's hold on the lost link, and
   the scan waits for longer than they take. *)
THEOREM PairsFreshCorrect ==
    ASSUME ReleasedInTime
    PROVE  Spec => []RetryPairsFresh
BY CleanupInvariant, PTL DEF CleanupInv

(* A pending clean-up is never forgotten, nor hits the bond of a link that has
   just been secured. *)
THEOREM CleanupCorrect ==
    ASSUME ReleasedInTime
    PROVE  Spec => []CleanupIsOwed
<1>1. CleanupInv => CleanupIsOwed
  BY DEF CleanupInv, CleanupWaits, CalledOff, CleanupIsOwed
<1> QED BY <1>1, CleanupInvariant, PTL
=============================================================================
