----------------------------- MODULE SS2Central -----------------------------
(***************************************************************************)
(* The central (SS2): scanning, the one connection it keeps, the security  *)
(* request and its watchdog, the clean-up of a rejected bond, and the GATT *)
(* set-up that authenticates with the certificate and then subscribes      *)
(* (Blonky/src/main.c).                                                    *)
(*                                                                         *)
(* Time.  Only the works disconnected() starts together are ordered by     *)
(* their lengths: the clean-up of a bond (250 ms) and the restart of the   *)
(* scan (500 ms or 2000 ms).  They count down in quarters of a second, and *)
(* so does the stack's release of the connection object.  Every other work *)
(* runs at any time after it was scheduled.                                *)
(*                                                                         *)
(* External: the Bluetooth stack and its scan library, and SS1's answers   *)
(* (link, age, requested, secured, mtu_exchanged, op, scanning, bond).     *)
(***************************************************************************)
EXTENDS Integers

CONSTANTS
    MaxConn,             \* connection objects of the stack
    Releases,            \* what max_release may be
    MaxSecurityEvents    \* bound: successful security_changed calls per link

ASSUME MaxConnAssumption == MaxConn \in Nat \ {0}
ASSUME BoundsAssumption ==
    /\ Releases \subseteq Nat
    /\ MaxSecurityEvents \in Nat \ {0}

NULL == 0
Conns == 1..MaxConn
Off == -1

SCAN_RETRY_DELAY == 2           \* 500 ms
SECURITY_RETRY_DELAY == 8       \* 2000 ms
BOND_CLEANUP_DELAY == 1         \* 250 ms
BondCleanupTries == 6
Quarters == 0..SECURITY_RETRY_DELAY

VARIABLES
    link,                  \* stack: "free", "connecting", "up", "closing", "down"
    max_release,           \* stack: quarters it holds the object of a lost link
                           \* at the most, the same all along
    age,                   \* stack: how long the last lost link has been "down"
    requested, secured,    \* stack: security was asked for; successes so far
    mtu_exchanged,         \* stack: the one MTU exchange of the link was sent
    op,                    \* the ATT operation that is waited for
    scanning,              \* scan library
    refused,               \* history: why its last attempt to create a
                           \* connection failed: "object", "error", or "no"
    bond,                  \* the stored bond with SS1: "none", "good", "rejected"
    default_conn,
    security_retry_backoff, gatt_setup_complete,
    bond_cleanup_pending, bond_cleanup_attempts,
    handles,               \* challenge_handle and response_handle are both set
    subscribed,            \* of {"temp", "hum"}
    cs_started,            \* cs_initiator_start() was called for the link
    security_start_work, security_timeout_work,
    gatt_start_work, gatt_setup_timeout_work,
    restart_scan_work, bond_cleanup_work      \* quarters left, or Off

linkVars == <<requested, secured, mtu_exchanged, op, subscribed, cs_started>>
recoveryVars == <<security_retry_backoff, bond_cleanup_pending, bond_cleanup_attempts>>
setupVars == <<gatt_setup_complete, handles>>
setupWorks == <<security_start_work, security_timeout_work, gatt_start_work,
                gatt_setup_timeout_work>>
timedWorks == <<restart_scan_work, bond_cleanup_work>>
objectVars == <<age, max_release>>
scanVars == <<scanning, refused>>
vars == <<link, objectVars, linkVars, scanVars, bond, default_conn, recoveryVars, setupVars,
          setupWorks, timedWorks>>

TypeOK ==
    /\ link \in [Conns -> {"free", "connecting", "up", "closing", "down"}]
    /\ max_release \in Releases /\ age \in 0..max_release
    /\ requested \in BOOLEAN
    /\ secured \in 0..MaxSecurityEvents
    /\ mtu_exchanged \in BOOLEAN
    /\ op \in {"none", "mtu", "auth_dm", "read", "write", "ess_dm"}
    /\ scanning \in BOOLEAN
    /\ refused \in {"no", "object", "error"}
    /\ bond \in {"none", "good", "rejected"}
    /\ default_conn \in Conns \cup {NULL}
    /\ security_retry_backoff \in BOOLEAN /\ gatt_setup_complete \in BOOLEAN
    /\ bond_cleanup_pending \in BOOLEAN /\ bond_cleanup_attempts \in 0..255
    /\ handles \in BOOLEAN
    /\ subscribed \in SUBSET {"temp", "hum"}
    /\ cs_started \in BOOLEAN
    /\ security_start_work \in BOOLEAN /\ security_timeout_work \in BOOLEAN
    /\ gatt_start_work \in BOOLEAN /\ gatt_setup_timeout_work \in BOOLEAN
    /\ restart_scan_work \in Quarters \cup {Off}
    /\ bond_cleanup_work \in Quarters \cup {Off}

Init ==
    /\ link = [c \in Conns |-> "free"]
    /\ max_release \in Releases /\ age = 0
    /\ requested = FALSE /\ secured = 0 /\ mtu_exchanged = FALSE /\ op = "none"
    /\ scanning = TRUE /\ refused = "no"
    /\ bond \in {"none", "good"}
    /\ default_conn = NULL
    /\ security_retry_backoff = FALSE /\ gatt_setup_complete = FALSE
    /\ bond_cleanup_pending = FALSE /\ bond_cleanup_attempts = 0
    /\ handles = FALSE
    /\ subscribed = {} /\ cs_started = FALSE
    /\ security_start_work = FALSE /\ security_timeout_work = FALSE
    /\ gatt_start_work = FALSE /\ gatt_setup_timeout_work = FALSE
    /\ restart_scan_work = Off /\ bond_cleanup_work = Off

----------------------------------------------------------------------------
Up(c) == link[c] = "up"
HasLink(c) == link[c] \in {"up", "closing"}

bt_conn_disconnect(c) ==
    link' = [link EXCEPT ![c] = IF @ = "up" THEN "closing" ELSE @]

mark_security_recovery ==
    /\ security_retry_backoff' = TRUE
    /\ bond_cleanup_pending' = TRUE
    /\ bond_cleanup_attempts' = 0

----------------------------------------------------------------------------
(* Scanning and connecting. *)

(* The library found SS1: it stops scanning and creates the connection.  With
   no object to spare, or for any other error, it tells the connecting-error
   handler, which is NULL: the scan is not started again. *)
CreateConnection ==
    \E c \in Conns :
        /\ link[c] = "free"
        /\ link' = [link EXCEPT ![c] = "connecting"]
        /\ default_conn' = c
        /\ refused' = "no"

CreationRefused ==
    /\ refused' = IF \E c \in Conns : link[c] = "free" THEN "error" ELSE "object"
    /\ UNCHANGED <<link, default_conn>>

ScanMatch ==
    /\ scanning
    /\ scanning' = FALSE
    /\ CreateConnection \/ CreationRefused
    /\ UNCHANGED <<objectVars, linkVars, bond, recoveryVars, setupVars, setupWorks, timedWorks>>

Connected(c) ==
    /\ link[c] = "connecting"
    /\ link' = [link EXCEPT ![c] = "up"]
    /\ security_retry_backoff' = FALSE
    /\ gatt_setup_complete' = FALSE
    /\ security_start_work' = TRUE
    /\ UNCHANGED <<objectVars, linkVars, scanVars, bond, default_conn, bond_cleanup_pending,
                   bond_cleanup_attempts, handles, security_timeout_work, gatt_start_work,
                   gatt_setup_timeout_work, timedWorks>>

(* Mutant of ForgetConn: the reference is kept. *)
KeepConn(c) == UNCHANGED default_conn
ForgetConn(c) == default_conn' = IF default_conn = c THEN NULL ELSE default_conn

ConnectFailed(c) ==
    /\ link[c] = "connecting"
    /\ link' = [link EXCEPT ![c] = "free"]
    /\ ForgetConn(c)
    /\ restart_scan_work' = SCAN_RETRY_DELAY
    /\ UNCHANGED <<objectVars, linkVars, scanVars, bond, recoveryVars, setupVars, setupWorks,
                   bond_cleanup_work>>

(* Mutant of ScanStarted: every attempt fails. *)
ScanAlwaysFails == restart_scan_work' = SCAN_RETRY_DELAY /\ UNCHANGED scanning
ScanStarted == scanning' = TRUE /\ restart_scan_work' = Off
ScanNotStarted == restart_scan_work' = SCAN_RETRY_DELAY /\ UNCHANGED scanning

RestartScan ==
    /\ restart_scan_work = 0
    /\ ScanStarted \/ ScanNotStarted
    /\ UNCHANGED <<refused, link, objectVars, linkVars, bond, default_conn, recoveryVars, setupVars,
                   setupWorks, bond_cleanup_work>>

----------------------------------------------------------------------------
(* Losing a link. *)

(* The link is lost; its subscriptions are volatile.  The stack holds the
   object of the connection until Released. *)
LinkLost(c) ==
    /\ link' = [link EXCEPT ![c] = "down"] /\ age' = 0
    /\ requested' = FALSE /\ secured' = 0 /\ mtu_exchanged' = FALSE /\ op' = "none"
    /\ subscribed' = {} /\ cs_started' = FALSE

(* Mutants of RetryDelay and CancelWorks: no gap after a security failure; the
   set-up watchdog is left running. *)
RetryDelayShort == SCAN_RETRY_DELAY
CancelMostWorks ==
    /\ security_timeout_work' = FALSE /\ security_start_work' = FALSE
    /\ gatt_start_work' = FALSE
    /\ UNCHANGED gatt_setup_timeout_work

RetryDelay == IF security_retry_backoff THEN SECURITY_RETRY_DELAY ELSE SCAN_RETRY_DELAY
CancelWorks ==
    /\ security_timeout_work' = FALSE /\ security_start_work' = FALSE
    /\ gatt_start_work' = FALSE /\ gatt_setup_timeout_work' = FALSE

Disconnected(c) ==
    /\ HasLink(c)
    /\ LinkLost(c)
    /\ IF default_conn = c
       THEN /\ CancelWorks
            /\ default_conn' = NULL
            /\ bond_cleanup_work' = IF bond_cleanup_pending THEN BOND_CLEANUP_DELAY
                                    ELSE bond_cleanup_work
            /\ handles' = FALSE /\ gatt_setup_complete' = FALSE
            /\ restart_scan_work' = RetryDelay
            /\ security_retry_backoff' = FALSE
       ELSE UNCHANGED <<setupWorks, default_conn, timedWorks, setupVars,
                        security_retry_backoff>>
    /\ UNCHANGED <<max_release, scanVars, bond, bond_cleanup_pending, bond_cleanup_attempts>>

Released(c) ==
    /\ link[c] = "down"
    /\ link' = [link EXCEPT ![c] = "free"]
    /\ UNCHANGED <<objectVars, linkVars, scanVars, bond, default_conn, recoveryVars, setupVars,
                   setupWorks, timedWorks>>

CleanupAgain(attempts) == attempts < BondCleanupTries

NextAttempt(attempts) == (attempts + 1) % 256          \* a uint8_t

(* bond_cleanup_work_fn(): bt_unpair() only once the stack has no object of
   the peer left. *)
BondCleanup ==
    /\ bond_cleanup_work = 0
    /\ IF ~bond_cleanup_pending
       THEN /\ bond_cleanup_work' = Off
            /\ UNCHANGED <<bond, bond_cleanup_pending, bond_cleanup_attempts>>
       ELSE IF \E c \in Conns : link[c] # "free"
       THEN /\ bond_cleanup_attempts' = NextAttempt(bond_cleanup_attempts)
            /\ bond_cleanup_work' = IF CleanupAgain(bond_cleanup_attempts')
                                    THEN BOND_CLEANUP_DELAY ELSE Off
            /\ UNCHANGED <<bond, bond_cleanup_pending>>
       ELSE /\ bond' = "none"
            /\ bond_cleanup_pending' = FALSE
            /\ bond_cleanup_work' = Off
            /\ UNCHANGED bond_cleanup_attempts
    /\ UNCHANGED <<link, objectVars, linkVars, scanVars, default_conn, security_retry_backoff,
                   setupVars, setupWorks, restart_scan_work>>

(* A quarter of a second passes: works that are due run first, and the stack
   holds an object for max_release quarters at the most.  Mutant of Less: a work
   that is not scheduled counts down as well. *)
LessAlways(t) == t - 1
Less(t) == IF t > 0 THEN t - 1 ELSE t
AnyDown == \E c \in Conns : link[c] = "down"

Tick ==
    /\ restart_scan_work > 0 \/ bond_cleanup_work > 0
    /\ restart_scan_work # 0 /\ bond_cleanup_work # 0
    /\ AnyDown => age < max_release
    /\ restart_scan_work' = Less(restart_scan_work)
    /\ bond_cleanup_work' = Less(bond_cleanup_work)
    /\ age' = IF AnyDown THEN age + 1 ELSE age
    /\ UNCHANGED <<link, max_release, linkVars, scanVars, bond, default_conn, recoveryVars,
                   setupVars, setupWorks>>

----------------------------------------------------------------------------
(* Security. *)

unchangedButSecurity ==
    <<objectVars, mtu_exchanged, op, subscribed, cs_started, scanVars, default_conn, setupVars,
      security_start_work, gatt_setup_timeout_work, timedWorks>>

(* Mutant of ArmSecurityTimeout: the watchdog is forgotten. *)
ArmNoSecurityTimeout == UNCHANGED security_timeout_work
ArmSecurityTimeout == security_timeout_work' = TRUE

(* security_start_fn(): bt_conn_set_security() queues the request or fails. *)
SecurityStart ==
    /\ security_start_work
    /\ security_start_work' = FALSE
    /\ IF default_conn = NULL
       THEN UNCHANGED <<link, requested, recoveryVars, security_timeout_work>>
       ELSE /\ ArmSecurityTimeout
            /\ \/ /\ requested' = TRUE
                  /\ UNCHANGED <<link, recoveryVars>>
               \/ /\ mark_security_recovery
                  /\ bt_conn_disconnect(default_conn)
                  /\ UNCHANGED requested
    /\ UNCHANGED <<objectVars, secured, mtu_exchanged, op, subscribed, cs_started, scanVars, bond,
                   default_conn, setupVars, gatt_start_work, gatt_setup_timeout_work,
                   timedWorks>>

SecurityTimeout ==
    /\ security_timeout_work
    /\ security_timeout_work' = FALSE
    /\ IF default_conn # NULL /\ ~gatt_setup_complete
       THEN mark_security_recovery /\ bt_conn_disconnect(default_conn)
       ELSE UNCHANGED <<link, recoveryVars>>
    /\ UNCHANGED <<unchangedButSecurity, requested, secured, bond, gatt_start_work>>

(* Mutant of SecurityRecovered: the clean-up stays pending. *)
BackoffEnded == security_retry_backoff' = FALSE /\ UNCHANGED bond_cleanup_pending
SecurityRecovered == security_retry_backoff' = FALSE /\ bond_cleanup_pending' = FALSE

(* SS1 has the bond or makes a new one; it cannot use one it has lost. *)
SecurityEstablished(c) ==
    /\ HasLink(c) /\ default_conn = c
    /\ requested /\ secured < MaxSecurityEvents
    /\ bond # "rejected"
    /\ secured' = secured + 1
    /\ bond' = "good"
    /\ SecurityRecovered
    /\ security_timeout_work' = FALSE
    /\ gatt_start_work' = TRUE
    /\ UNCHANGED <<unchangedButSecurity, link, requested, bond_cleanup_attempts>>

(* ss2_pairing_failed() and security_changed() with an error. *)
SecurityFailed(c) ==
    /\ HasLink(c) /\ default_conn = c
    /\ requested
    /\ requested' = FALSE
    /\ bond' = IF bond = "none" THEN "none" ELSE "rejected"
    /\ mark_security_recovery
    /\ bt_conn_disconnect(c)
    /\ UNCHANGED <<unchangedButSecurity, secured, security_timeout_work, gatt_start_work>>

----------------------------------------------------------------------------
(* GATT set-up.  Every request is queued or fails at once; a failure is only
   printed, except that of the MTU exchange. *)

unchangedButGatt ==
    <<objectVars, requested, secured, scanVars, bond, default_conn, recoveryVars,
      security_start_work, security_timeout_work, timedWorks>>

Request(o) == op' \in {o, "none"}

(* Mutant of ArmGattTimeout: the watchdog is forgotten. *)
ArmNoGattTimeout == UNCHANGED gatt_setup_timeout_work
ArmGattTimeout == gatt_setup_timeout_work' = TRUE

(* gatt_start_fn(): a link does its MTU exchange once. *)
GattStart ==
    /\ gatt_start_work
    /\ gatt_start_work' = FALSE
    /\ IF default_conn = NULL
       THEN UNCHANGED <<link, mtu_exchanged, op, gatt_setup_timeout_work>>
       ELSE /\ ArmGattTimeout
            /\ \/ /\ ~mtu_exchanged /\ Up(default_conn)
                  /\ mtu_exchanged' = TRUE /\ op' = "mtu"
                  /\ UNCHANGED link
               \/ /\ bt_conn_disconnect(default_conn)
                  /\ UNCHANGED <<mtu_exchanged, op>>
    /\ UNCHANGED <<unchangedButGatt, subscribed, cs_started, setupVars>>

unchangedButOp ==
    <<unchangedButGatt, link, mtu_exchanged, gatt_start_work>>

MtuDone ==
    /\ op = "mtu"
    /\ Request("auth_dm")
    /\ UNCHANGED <<unchangedButOp, subscribed, cs_started, setupVars,
                   gatt_setup_timeout_work>>

(* auth_dm_completed(): both characteristics were found, or not. *)
AuthDmDone ==
    /\ op = "auth_dm"
    /\ \/ handles' = TRUE /\ Request("read")
       \/ handles' = FALSE /\ op' = "none"
    /\ UNCHANGED <<unchangedButOp, subscribed, cs_started, gatt_setup_complete,
                   gatt_setup_timeout_work>>

(* challenge_read(): the nonce is signed and the response sent. *)
ChallengeRead ==
    /\ op = "read"
    /\ Request("write")
    /\ UNCHANGED <<unchangedButOp, subscribed, cs_started, setupVars,
                   gatt_setup_timeout_work>>

ResponseWritten ==
    /\ op = "write"
    /\ gatt_setup_complete' = TRUE
    /\ gatt_setup_timeout_work' = FALSE
    /\ Request("ess_dm")
    /\ UNCHANGED <<unchangedButOp, subscribed, cs_started, handles>>

(* ess_dm_completed(): each subscription is made or not. *)
EssDmDone ==
    /\ op = "ess_dm"
    /\ op' = "none"
    /\ subscribed' \in SUBSET {"temp", "hum"}
    /\ cs_started' = TRUE
    /\ UNCHANGED <<unchangedButOp, setupVars, gatt_setup_timeout_work>>

(* The callback of an operation reports an error: mtu_done(), dm_error(),
   challenge_read() and response_written() only print it. *)
OperationFailed ==
    /\ op # "none"
    /\ op' = "none"
    /\ UNCHANGED <<unchangedButOp, subscribed, cs_started, setupVars,
                   gatt_setup_timeout_work>>

(* gatt_setup_timeout_fn(): the ATT requests are cancelled, a discovery is not. *)
GattSetupTimeout ==
    /\ gatt_setup_timeout_work
    /\ gatt_setup_timeout_work' = FALSE
    /\ IF default_conn = NULL THEN UNCHANGED <<link, op>>
       ELSE /\ op' = IF op \in {"mtu", "read", "write"} THEN "none" ELSE op
            /\ bt_conn_disconnect(default_conn)
    /\ UNCHANGED <<unchangedButGatt, mtu_exchanged, subscribed, cs_started, setupVars,
                   gatt_start_work>>

----------------------------------------------------------------------------
Next ==
    \/ ScanMatch
    \/ \E c \in Conns : \/ Connected(c)
                        \/ ConnectFailed(c)
                        \/ Disconnected(c)
                        \/ Released(c)
                        \/ SecurityEstablished(c)
                        \/ SecurityFailed(c)
    \/ RestartScan \/ BondCleanup \/ Tick
    \/ SecurityStart \/ SecurityTimeout
    \/ GattStart \/ MtuDone \/ AuthDmDone \/ ChallengeRead \/ ResponseWritten
    \/ EssDmDone \/ OperationFailed \/ GattSetupTimeout

Spec == Init /\ [][Next]_vars

----------------------------------------------------------------------------
(* Safety *)

(* SS2 has one link at a time and default_conn is it, so no callback is ever
   stale: a new connection starts only after disconnected() let go of the last. *)
DefaultConnIsTheLink ==
    \A c \in Conns : link[c] \in {"connecting", "up", "closing"} <=> default_conn = c

(* A work of the set-up never outlives its link: none is left over that could
   close, or start GATT on, the link that comes next. *)
SetupWorks == security_start_work \/ security_timeout_work \/ gatt_start_work
                  \/ gatt_setup_timeout_work
NoLeftoverWork == SetupWorks => \E c \in Conns : HasLink(c) /\ default_conn = c

(* While a link is up and the certificate was not accepted yet, a work is
   scheduled that goes on with the set-up or ends the link, although every
   step of it may fail without a word. *)
SetupIsWatched ==
    \A c \in Conns : Up(c) /\ ~gatt_setup_complete => SetupWorks

(* The next link after a security failure pairs afresh (comment of
   bond_cleanup_work_fn): the clean-up is over before the scan that leads to
   the link starts, however many links fail in a row, if the stack releases
   the old object in time for the last of its six tries (max_release <
   BondCleanupTries). *)
RetryPairsFresh == bond = "rejected" => \A c \in Conns : link[c] \notin {"connecting", "up"}

(* A clean-up that is pending is due and not forgotten: the link it waits for is
   still there, or its work is scheduled; and the bond is none that has just
   secured the link, since a success that comes after the watchdog asked for the
   clean-up calls it off. *)
CleanupIsOwed ==
    bond_cleanup_pending =>
        /\ bond_cleanup_work # Off \/ \E c \in Conns : HasLink(c)
        /\ ~(secured > 0 /\ bond = "good")

----------------------------------------------------------------------------
(* Liveness.  Works run, time passes, the stack completes a connection attempt
   and a teardown it was asked for, and scanning can be started in the end.
   Nothing is assumed of SS1: no operation needs to be answered. *)
Fairness ==
    /\ \A c \in Conns : /\ WF_vars(Connected(c) \/ ConnectFailed(c))
                        /\ WF_vars(link[c] = "closing" /\ Disconnected(c))
                        /\ WF_vars(Released(c))
    /\ SF_vars(RestartScan /\ ScanStarted)
    /\ WF_vars(RestartScan) /\ WF_vars(BondCleanup) /\ WF_vars(Tick)
    /\ WF_vars(SecurityStart) /\ WF_vars(SecurityTimeout)
    /\ WF_vars(GattStart) /\ WF_vars(GattSetupTimeout)

FairSpec == Spec /\ Fairness

(* A link that comes up is authenticated or gone in the end, whatever SS1
   answers or does not answer. *)
SetupResolves ==
    \A c \in Conns : Up(c) ~> (gatt_setup_complete \/ ~Up(c))

(* SS2 never stops looking for SS1 but in one way: without a link it scans again,
   unless the connection to the SS1 it found could not be created, which nothing
   in the code answers; and for want of an object that happens only if the stack
   holds that of a lost link until the scan restarts. *)
ScanResumes ==
    default_conn = NULL
        ~> \/ scanning \/ default_conn # NULL
           \/ refused = "error"
           \/ refused = "object" /\ max_release >= SCAN_RETRY_DELAY

(* PROJECT_CONTEXT.md:117-118 says the sensor subscriptions are recreated after
   the certificate authentication. *)
SubscriptionsRecreated ==
    gatt_setup_complete ~> (subscribed = {"temp", "hum"} \/ default_conn = NULL)
=============================================================================
