--------------------------- MODULE SS1LinkProofs ---------------------------
(***************************************************************************)
(* Proofs about SS1Link, for every number of connections and every set of  *)
(* peers.  The inductive invariant TableInv ties the connection table to   *)
(* the stack's links; the type invariant needs it, since the count stays   *)
(* below MaxConn only because it counts the occupied entries.              *)
(* The second half is about the authentication slots, the reboot and the   *)
(* bonds.  Where a theorem says MaxSecurityEvents = 1, the stack reports a *)
(* successful security change once for each link; with two, slots are      *)
(* leaked (run ss1_rekey).                                                 *)
(***************************************************************************)
EXTENDS SS1Link, FiniteSetTheorems, TLAPS

Occupied == {i \in Index : connections[i] # NULL}

(* unpair_work_handler() counts up to UnpairTries and stops. *)
UnpairBounded == unpair_work => unpair_attempts < UnpairTries

(* A live link is a link to a peer. *)
LivePeers == \A c \in Conns : Live(c) => peer[c] \in Peers

(* An object whose teardown is unfinished has no link any more. *)
HeldIsGone == \A c \in held : ~Live(c)

(* A verification in progress is for a connection, a slot and a peer. *)
RxBusy == rx.st # "idle" => rx.conn \in Conns /\ rx.slot \in Index /\ rx.from \in Peers

TableInv == /\ TypeOK
            /\ CountMatchesTable
            /\ TableMirrorsLinks
            /\ UnpairBounded
            /\ LivePeers
            /\ HeldIsGone
            /\ RxBusy

AnyReleased == \E c \in Conns : Released(c)

USE MaxConnAssumption, PeersAssumption, BoundsAssumption

----------------------------------------------------------------------------
(* connection_store() fills an empty entry, so the count stays the number of
   occupied entries and below MaxConn. *)
LEMMA StoreCounts ==
    ASSUME TypeOK, CountMatchesTable, NEW c \in Conns, connection_store(c)
    PROVE  /\ connections' \in [Index -> Conns \cup {NULL}]
           /\ active_conn_count' \in 0..MaxConn
           /\ CountMatchesTable'
<1>1. IsFiniteSet(Index) /\ Cardinality(Index) = MaxConn
  BY FS_Interval DEF Index
<1>2. IsFiniteSet(Occupied)
  BY <1>1, FS_Subset DEF Occupied
<1>3. CASE \E i \in Index : /\ FreeEntry(i)
                            /\ connections' = [connections EXCEPT ![i] = c]
                            /\ active_conn_count' = active_conn_count + 1
  <2>1. PICK i \in Index : /\ FreeEntry(i)
                           /\ connections' = [connections EXCEPT ![i] = c]
                           /\ active_conn_count' = active_conn_count + 1
    BY <1>3
  <2>2. connections' \in [Index -> Conns \cup {NULL}]
    BY <2>1 DEF TypeOK
  <2>3. Occupied' = Occupied \cup {i} /\ i \notin Occupied
    BY <2>1 DEF TypeOK, Occupied, FreeEntry, EntryFor, NULL, Conns
  <2>4. Cardinality(Occupied') = Cardinality(Occupied) + 1
    BY <2>3, <1>2, FS_AddElement
  <2>5. Cardinality(Occupied') <= MaxConn
    BY <1>1, FS_Subset DEF Occupied
  <2>6. CountMatchesTable'
    BY <2>1, <2>4 DEF CountMatchesTable, Occupied
  <2>7. active_conn_count' \in 0..MaxConn
    BY <2>1, <2>4, <2>5 DEF CountMatchesTable, Occupied, TypeOK
  <2> QED BY <2>2, <2>6, <2>7
<1>4. CASE UNCHANGED tableVars
  BY <1>4 DEF tableVars, CountMatchesTable, TypeOK
<1> QED BY <1>3, <1>4 DEF connection_store

(* A connection has one entry at the most, so its first one is its only one. *)
LEMMA EntryUnique ==
    ASSUME TableMirrorsLinks, NEW c \in Conns, NEW i \in Index
    PROVE  EntryFor(c, i) <=> connections[i] = c
<1>1. ASSUME connections[i] = c, NEW j \in Index, j < i PROVE connections[j] # c
  BY <1>1 DEF TableMirrorsLinks, EntriesDistinct, Index, Conns, NULL
<1> QED BY <1>1 DEF EntryFor

(* connection_remove() empties the one entry that holds the connection, and
   counts down exactly if there was one. *)
LEMMA RemoveCounts ==
    ASSUME TypeOK, CountMatchesTable, TableMirrorsLinks, NEW c \in Conns,
           connection_remove(c)
    PROVE  /\ connections' \in [Index -> Conns \cup {NULL}]
           /\ active_conn_count' \in 0..MaxConn
           /\ CountMatchesTable'
<1>1. IsFiniteSet(Occupied)
  <2>1. IsFiniteSet(Index)
    BY FS_Interval DEF Index
  <2> QED BY <2>1, FS_Subset DEF Occupied
<1>2. connections' \in [Index -> Conns \cup {NULL}]
  BY DEF connection_remove, TypeOK
<1>0. \A i \in Index : connections'[i] = IF connections[i] = c THEN NULL ELSE connections[i]
  BY EntryUnique DEF connection_remove
<1>3. CASE Tracked(c)
  <2>1. PICK i \in Index : connections[i] = c
    BY <1>3 DEF Tracked
  <2>2. \A j \in Index : connections[j] = c => j = i
    BY <2>1 DEF TableMirrorsLinks, EntriesDistinct, Conns, NULL
  <2>3. Occupied' = Occupied \ {i} /\ i \in Occupied
    BY <1>0, <2>1, <2>2 DEF Occupied, TypeOK, Conns, NULL
  <2>4. Cardinality(Occupied') = Cardinality(Occupied) - 1
    BY <2>3, <1>1, FS_RemoveElement
  <2>5. Cardinality(Occupied) # 0
    BY <2>3, <1>1, FS_EmptySet
  <2>6. active_conn_count > 0
    BY <2>5 DEF CountMatchesTable, Occupied, TypeOK
  <2>7. active_conn_count' = active_conn_count - 1
    BY <2>6, <1>3 DEF connection_remove, CountWithout
  <2> QED BY <1>2, <2>4, <2>6, <2>7 DEF CountMatchesTable, Occupied, TypeOK
<1>4. CASE ~Tracked(c)
  <2>1. active_conn_count' = active_conn_count
    BY <1>4 DEF connection_remove, CountWithout
  <2>2. Occupied' = Occupied
    BY <1>0, <1>4 DEF Occupied, TypeOK, Tracked
  <2> QED BY <1>2, <2>1, <2>2 DEF CountMatchesTable, Occupied, TypeOK
<1> QED BY <1>3, <1>4

----------------------------------------------------------------------------
(* Type correctness and the table, action by action. *)

LEMMA EmptyTypes == EmptySlot \in Slot /\ IdleRx \in Rx
<1>1. EmptySlot \in Slot
  BY DEF EmptySlot, Slot, NULL
<1>2. IdleRx \in Rx
  BY DEF IdleRx, Rx, NULL
<1> QED BY <1>1, <1>2

LEMMA InitTable == Init => TableInv
<1> SUFFICES ASSUME Init PROVE TableInv
  OBVIOUS
<1>1. TypeOK
  <2>1. /\ link \in [Conns -> {"free", "up", "closing"}]
        /\ peer \in [Conns -> Peers \cup {NoPeer}]
        /\ enc \in [Conns -> 0..MaxSecurityEvents]
        /\ connections \in [Index -> Conns \cup {NULL}]
    BY DEF Init
  <2>2. slots \in [Index -> Slot] /\ rx \in Rx
    BY EmptyTypes DEF Init
  <2>3. /\ active_conn_count \in 0..MaxConn
        /\ unpair_attempts \in 0..UnpairTries
        /\ unpair_addr \in Peers \cup {NoPeer}
        /\ stale \in SUBSET Peers
        /\ proved \in SUBSET Conns
        /\ held \in SUBSET Conns
    BY DEF Init
  <2>4. /\ advertising \in BOOLEAN /\ start_failed \in BOOLEAN /\ reconnect_quiet \in BOOLEAN
        /\ quiet_work \in BOOLEAN /\ cold_reboot_pending \in BOOLEAN
        /\ adv_work \in BOOLEAN /\ unpair_work \in BOOLEAN /\ dirty \in BOOLEAN
    BY DEF Init
  <2> QED BY <2>1, <2>2, <2>3, <2>4 DEF TypeOK
<1>2. CountMatchesTable
  <2>1. Occupied = {}
    BY DEF Init, Occupied
  <2> QED BY <2>1, FS_EmptySet DEF Init, CountMatchesTable, Occupied
<1>3. TableMirrorsLinks
  BY DEF Init, TableMirrorsLinks, EntriesLive, EntriesDistinct, UpLinksTracked, Live
<1> QED BY <1>1, <1>2, <1>3 DEF TableInv, UnpairBounded, LivePeers, HeldIsGone, Live, RxBusy,
        IdleRx, Init

(* A stored connection is new in the table, and nothing leaves it. *)
LEMMA StoreMirrors ==
    ASSUME TypeOK, EntriesLive, EntriesDistinct,
           NEW c \in Conns, ~Live(c), connection_store(c)
    PROVE  /\ \A i \in Index : connections'[i] = connections[i] \/ connections'[i] = c
           /\ \A d \in Conns : Tracked(d) => Tracked(d)'
           /\ EntriesDistinct'
<1>1. CASE \E i \in Index : /\ FreeEntry(i)
                            /\ connections' = [connections EXCEPT ![i] = c]
                            /\ active_conn_count' = active_conn_count + 1
  <2>1. PICK i \in Index : FreeEntry(i) /\ connections' = [connections EXCEPT ![i] = c]
    BY <1>1
  <2>2. connections[i] = NULL /\ \A j \in Index : connections[j] # c
    BY <2>1 DEF FreeEntry, EntryFor, EntriesLive, Conns, NULL
  <2>3. connections \in [Index -> Conns \cup {NULL}]
    BY DEF TypeOK
  <2>4. \A j \in Index : connections'[j] = IF j = i THEN c ELSE connections[j]
    BY <2>1, <2>3
  <2>5. EntriesDistinct'
    BY <2>2, <2>4 DEF EntriesDistinct
  <2> QED BY <2>2, <2>4, <2>5 DEF Tracked, Conns, NULL
<1>2. CASE UNCHANGED tableVars
  BY <1>2 DEF tableVars, EntriesDistinct, Tracked
<1> QED BY <1>1, <1>2 DEF connection_store

(* Whoever is in the table has a link. *)
LEMMA EntriesOfSame ==
    ASSUME TableMirrorsLinks, NEW c \in Conns, NEW p \in Peers
    PROVE  \A d \in SamePeer(c, p) : d \in Conns /\ Live(d)
BY DEF SamePeer, Tracked, TableMirrorsLinks, EntriesLive, Conns, NULL

LEMMA ConnectedTable ==
    ASSUME TableInv, NEW c \in Conns, NEW p \in Peers, Connected(c, p)
    PROVE  TableInv'
<1> USE DEF TableInv
<1>1. CASE ConnectedRebootPending(c, p)
  <2> USE <1>1 DEF ConnectedRebootPending, NewLink, tableVars, quietVars, unpairVars, csVars, advVars
  <2>1. TypeOK'
    BY DEF TypeOK
  <2>2. TableMirrorsLinks'
    BY DEF TypeOK, TableMirrorsLinks, EntriesLive, EntriesDistinct, UpLinksTracked, Live, Tracked, Conns
  <2>3. LivePeers' /\ HeldIsGone'
    BY DEF TypeOK, LivePeers, HeldIsGone, Held, Live
  <2> QED BY <2>1, <2>2, <2>3 DEF CountMatchesTable, UnpairBounded, RxBusy
<1>2. CASE ConnectedFirst(c, p)
  <2> USE <1>2 DEF ConnectedFirst, AcceptLink, NewLink, quietVars, unpairVars, csVars, advVars
  <2>1. /\ connections' \in [Index -> Conns \cup {NULL}]
        /\ active_conn_count' \in 0..MaxConn
        /\ CountMatchesTable'
    BY StoreCounts
  <2>a. adv_work' \in BOOLEAN
    BY Zenon DEF TypeOK
  <2>2. TypeOK'
    BY <2>1, <2>a DEF TypeOK
  <2>3. EntriesLive'
    BY StoreMirrors, <2>1 DEF TypeOK, TableMirrorsLinks, EntriesLive, Live, Held
  <2>4. EntriesDistinct'
    BY StoreMirrors DEF TableMirrorsLinks, Held
  <2>5. UpLinksTracked'
    BY StoreMirrors DEF TypeOK, TableMirrorsLinks, Held, UpLinksTracked, Tracked
  <2>6. LivePeers' /\ HeldIsGone'
    BY EntriesOfSame DEF TypeOK, LivePeers, HeldIsGone, Held, Live
  <2> QED BY <2>1, <2>2, <2>3, <2>4, <2>5, <2>6 DEF TableMirrorsLinks, UnpairBounded, RxBusy
<1>3. CASE ConnectedDuplicate(c, p)
  <2> USE <1>3 DEF ConnectedDuplicate, StartQuiet, NewLink, unpairVars, csVars, advVars
  <2>1. /\ connections' \in [Index -> Conns \cup {NULL}]
        /\ active_conn_count' \in 0..MaxConn
        /\ CountMatchesTable'
    BY StoreCounts
  <2>2. TypeOK'
    BY <2>1 DEF TypeOK
  <2>3. EntriesLive'
    BY StoreMirrors, <2>1 DEF TypeOK, TableMirrorsLinks, EntriesLive, Live, Held
  <2>4. EntriesDistinct'
    BY StoreMirrors DEF TableMirrorsLinks, Held
  <2>5. UpLinksTracked'
    BY StoreMirrors DEF TypeOK, TableMirrorsLinks, Held, UpLinksTracked
  <2>6. LivePeers' /\ HeldIsGone'
    BY EntriesOfSame DEF TypeOK, LivePeers, HeldIsGone, Held, Live
  <2> QED BY <2>1, <2>2, <2>3, <2>4, <2>5, <2>6 DEF TableMirrorsLinks, UnpairBounded, RxBusy
<1> QED BY <1>1, <1>2, <1>3 DEF Connected

LEMMA DisconnectedTable ==
    ASSUME TableInv, NEW c \in Conns, NEW reason \in {"timeout", "other"},
           Disconnected(c, reason)
    PROVE  TableInv'
<1> USE DEF TableInv
<1>1. CASE RebootNow(c, reason)
  <2>1. Reboot
    BY <1>1 DEF Disconnected
  <2>2. TypeOK'
    <3>1. /\ link' \in [Conns -> {"free", "up", "closing"}]
          /\ peer' \in [Conns -> Peers \cup {NoPeer}]
          /\ enc' \in [Conns -> 0..MaxSecurityEvents]
          /\ connections' \in [Index -> Conns \cup {NULL}]
      BY <2>1 DEF Reboot
    <3>2. slots' \in [Index -> Slot] /\ rx' \in Rx
      BY <2>1, EmptyTypes DEF Reboot
    <3>3. /\ active_conn_count' \in 0..MaxConn
          /\ unpair_attempts' \in 0..UnpairTries
          /\ unpair_addr' \in Peers \cup {NoPeer}
          /\ stale' \in SUBSET Peers
          /\ proved' \in SUBSET Conns
          /\ held' \in SUBSET Conns
      BY <2>1 DEF Reboot, TypeOK
    <3>4. /\ advertising' \in BOOLEAN /\ start_failed' \in BOOLEAN /\ reconnect_quiet' \in BOOLEAN
          /\ quiet_work' \in BOOLEAN /\ cold_reboot_pending' \in BOOLEAN
          /\ adv_work' \in BOOLEAN /\ unpair_work' \in BOOLEAN /\ dirty' \in BOOLEAN
      BY <2>1 DEF Reboot
    <3> QED BY <3>1, <3>2, <3>3, <3>4 DEF TypeOK
  <2>3. Occupied' = {}
    BY <2>1 DEF Reboot, Occupied
  <2>4. CountMatchesTable'
    BY <2>1, <2>3, FS_EmptySet DEF Reboot, CountMatchesTable, Occupied
  <2>5. TableMirrorsLinks' /\ UnpairBounded' /\ LivePeers' /\ HeldIsGone' /\ RxBusy'
    BY <2>1 DEF Reboot, HeldIsGone, TableMirrorsLinks, EntriesLive, EntriesDistinct, UpLinksTracked,
       Live, UnpairBounded, LivePeers, RxBusy, IdleRx
  <2> QED BY <2>2, <2>4, <2>5
<1>2. CASE ~RebootNow(c, reason)
  <2>1. /\ LinkGone(c)
        /\ connection_remove(c)
        /\ sentry_auth_conn_removed(c)
        /\ cold_reboot_pending' = RebootNeeded(c, reason)
        /\ quiet_work' = (quiet_work \/ reconnect_quiet)
        /\ adv_work' = (adv_work \/ (~reconnect_quiet /\ active_conn_count' < MaxConn))
        /\ dirty' = (dirty \/ (c \in proved /\ reason = "timeout"))
        /\ UNCHANGED <<peer, advVars, stale, reconnect_quiet, unpairVars, rx>>
    BY <1>2 DEF Disconnected
  <2>2. /\ connections' \in [Index -> Conns \cup {NULL}]
        /\ active_conn_count' \in 0..MaxConn
        /\ CountMatchesTable'
    BY <2>1, RemoveCounts
  <2>3. slots' \in [Index -> Slot]
    BY <2>1 DEF sentry_auth_conn_removed, TypeOK, EmptySlot, Slot
  <2>a. adv_work' \in BOOLEAN /\ quiet_work' \in BOOLEAN
    BY <2>1, Zenon
  <2>b. cold_reboot_pending' \in BOOLEAN /\ dirty' \in BOOLEAN
    BY <2>1, Zenon DEF RebootNeeded, TypeOK
  <2>4. TypeOK'
    BY <2>1, <2>2, <2>3, <2>a, <2>b DEF LinkGone, TypeOK, unpairVars, advVars
  <2>c. \A i \in Index : connections'[i] = IF connections[i] = c THEN NULL ELSE connections[i]
    BY <2>1, EntryUnique DEF connection_remove
  <2>5. TableMirrorsLinks'
    BY <2>1, <2>2, <2>c DEF LinkGone, TypeOK, TableMirrorsLinks, EntriesLive,
       EntriesDistinct, UpLinksTracked, Live, Tracked, Conns, NULL
  <2>6. LivePeers' /\ HeldIsGone'
    BY <2>1 DEF LinkGone, TypeOK, LivePeers, HeldIsGone, Live
  <2> QED BY <2>1, <2>2, <2>4, <2>5, <2>6 DEF UnpairBounded, unpairVars, RxBusy
<1> QED BY <1>1, <1>2

(* A step that only asks the stack to tear links down leaves the table a
   mirror of the links. *)
LEMMA DisconnectMirrors ==
    ASSUME TypeOK, CountMatchesTable, TableMirrorsLinks, NEW D, UNCHANGED tableVars,
           bt_conn_disconnect(D) \/ UNCHANGED link, LivePeers, HeldIsGone,
           UNCHANGED <<held, peer>>
    PROVE  /\ link' \in [Conns -> {"free", "up", "closing"}]
           /\ CountMatchesTable' /\ TableMirrorsLinks' /\ LivePeers' /\ HeldIsGone'
<1>1. link' \in [Conns -> {"free", "up", "closing"}]
  BY DEF bt_conn_disconnect, TypeOK
<1>2. CountMatchesTable'
  BY DEF tableVars, CountMatchesTable
<1>3. \A c \in Conns : /\ link[c] # "free" <=> link'[c] # "free"
                       /\ link'[c] = "up" => link[c] = "up"
  BY DEF bt_conn_disconnect, TypeOK
<1>4. TableMirrorsLinks'
  BY <1>3 DEF tableVars, TypeOK, TableMirrorsLinks, EntriesLive, EntriesDistinct,
     UpLinksTracked, Live, Tracked
<1>5. LivePeers' /\ HeldIsGone'
  BY <1>3 DEF LivePeers, HeldIsGone, Live, TypeOK
<1> QED BY <1>1, <1>2, <1>4, <1>5

LEMMA SecurityTable ==
    ASSUME TableInv, NEW c \in Conns, SecurityEstablished(c) \/ SecurityFailed(c)
    PROVE  TableInv'
<1> USE DEF TableInv
<1>1. CASE SecurityEstablished(c)
  <2> USE <1>1 DEF SecurityEstablished, quietVars, unpairVars, csVars, advVars
  <2>1. UNCHANGED tableVars /\ (bt_conn_disconnect({c}) \/ UNCHANGED link)
    BY DEF sentry_auth_conn_added
  <2>2. slots' \in [Index -> Slot]
    <3>1. \A i \in Index : SlotWithNonce(i, c) \in Slot
      BY DEF SlotWithNonce, Slot
    <3>2. \A i \in Index : SlotWithoutNonce(i, c) \in Slot
      BY DEF SlotWithoutNonce, TypeOK, Slot
    <3> QED BY <3>1, <3>2 DEF sentry_auth_conn_added, TypeOK
  <2>3. enc' \in [Conns -> 0..MaxSecurityEvents]
    BY DEF TypeOK
  <2>4. TypeOK'
    BY <2>1, <2>2, <2>3, DisconnectMirrors DEF TypeOK, tableVars
  <2> QED BY <2>1, <2>4, DisconnectMirrors DEF UnpairBounded, RxBusy
<1>2. CASE SecurityFailed(c)
  <2> USE <1>2 DEF SecurityFailed, schedule_unpair, LooksAfresh, quietVars, csVars, advVars
  <2>1. peer[c] \in Peers
    BY DEF LivePeers
  <2>2. TypeOK'
    BY <2>1, DisconnectMirrors DEF TypeOK, tableVars
  <2> QED BY <2>2, DisconnectMirrors DEF UnpairBounded, RxBusy
<1> QED BY <1>1, <1>2

----------------------------------------------------------------------------
(* The authentication handlers and the workqueue only touch slots, rx, links
   and flags. *)

LEMMA AuthTable ==
    ASSUME TableInv, NEW c \in Conns, ReadChallenge(c) \/ WriteResponse(c)
    PROVE  TableInv'
<1> USE DEF TableInv, unchangedButAuth, quietVars, unpairVars, csVars, advVars
<1>1. CASE ReadChallenge(c)
  <2> USE <1>1 DEF ReadChallenge
  <2>1. peer[c] \in Peers
    BY DEF LivePeers, AuthAccess
  <2>2. slots' \in [Index -> Slot]
    BY <2>1 DEF TypeOK, Slot
  <2>3. TypeOK'
    BY <2>2 DEF TypeOK, tableVars
  <2> QED BY <2>3, DisconnectMirrors DEF UnpairBounded, RxBusy
<1>2. CASE WriteResponse(c)
  <2> USE <1>2 DEF WriteResponse
  <2>1. peer[c] \in Peers
    BY DEF LivePeers, AuthAccess
  <2>2. rx' \in Rx /\ RxBusy'
    <3>1. CASE UNCHANGED rx
      BY <3>1 DEF TypeOK, RxBusy
    <3>2. ASSUME NEW i \in Index,
                 rx' = [st |-> "cert", conn |-> c, slot |-> i, from |-> peer[c],
                        match |-> FALSE]
          PROVE  rx' \in Rx /\ RxBusy'
      BY <2>1, <3>2 DEF Rx, RxBusy
    <3> QED BY <3>1, <3>2
  <2>3. bt_conn_disconnect({c}) \/ UNCHANGED link
    OBVIOUS
  <2>4. TypeOK'
    BY <2>2, <2>3, DisconnectMirrors DEF TypeOK, tableVars
  <2> QED BY <2>2, <2>3, <2>4, DisconnectMirrors DEF UnpairBounded
<1> QED BY <1>1, <1>2

LEMMA VerifyTable ==
    ASSUME TableInv, CertChecked \/ NonceChecked
    PROVE  TableInv'
<1> USE DEF TableInv, unchangedButAuth, quietVars, unpairVars, csVars, advVars
<1>1. CASE RefuseResponse
  <2> USE <1>1 DEF RefuseResponse
  <2>1. TypeOK'
    BY EmptyTypes, DisconnectMirrors DEF TypeOK, tableVars
  <2>2. RxBusy'
    BY DEF RxBusy, IdleRx
  <2> QED BY <2>1, <2>2, DisconnectMirrors DEF UnpairBounded
<1>2. CASE CertChecked /\ ~RefuseResponse
  <2>1. PICK m \in BOOLEAN : /\ rx' = [rx EXCEPT !.st = "nonce", !.match = m]
                             /\ UNCHANGED <<unchangedButAuth, link, slots, csVars>>
    BY <1>2 DEF CertChecked
  <2>2. rx' \in Rx /\ RxBusy'
    BY <1>2, <2>1 DEF CertChecked, TypeOK, Rx, RxBusy
  <2>3. TypeOK'
    BY <2>1, <2>2 DEF TypeOK, tableVars
  <2>4. UNCHANGED link /\ UNCHANGED <<held, peer>> /\ UNCHANGED tableVars
    BY <2>1
  <2>5. CountMatchesTable' /\ TableMirrorsLinks' /\ LivePeers' /\ HeldIsGone'
    BY <2>4, DisconnectMirrors
  <2> QED BY <2>1, <2>2, <2>3, <2>5 DEF UnpairBounded
<1>3. CASE NonceChecked /\ ~RefuseResponse
  <2> USE <1>3 DEF NonceChecked, cs_reflector_conn_ready
  <2>1. slots' \in [Index -> Slot]
    <3>1. slots[rx.slot] \in Slot
      BY DEF TypeOK, RxBusy
    <3>2. [slots[rx.slot] EXCEPT !.authenticated = TRUE, !.nonce_valid = FALSE,
                                 !.timeout = FALSE] \in Slot
      BY <3>1 DEF Slot
    <3>3. slots' = [slots EXCEPT ![rx.slot] = [slots[rx.slot] EXCEPT
                      !.authenticated = TRUE, !.nonce_valid = FALSE, !.timeout = FALSE]]
      BY <3>1 DEF TypeOK, RxBusy, Slot
    <3> QED BY <3>2, <3>3 DEF TypeOK
  <2>2. proved' \in SUBSET Conns
    BY DEF TypeOK, RxBusy
  <2>3. TypeOK'
    BY <2>1, <2>2, EmptyTypes DEF TypeOK, tableVars
  <2>4. RxBusy'
    BY DEF RxBusy, IdleRx
  <2> QED BY <2>3, <2>4, DisconnectMirrors DEF UnpairBounded
<1> QED BY <1>1, <1>2, <1>3

LEMMA StartTypes ==
    ASSUME advertising \in BOOLEAN, start_failed \in BOOLEAN, NEW q, advertising_start(q)
    PROVE  advertising' \in BOOLEAN /\ start_failed' \in BOOLEAN
<1>1. CASE UNCHANGED advVars
  BY <1>1 DEF advVars
<1>2. CASE /\ advertising' \in {FALSE, \E c \in Conns : ~Held(c)}
           /\ start_failed' = ~advertising'
  <2>1. advertising' \in BOOLEAN
    BY <1>2, Zenon
  <2> QED BY <1>2, <2>1, Zenon
<1> QED BY <1>1, <1>2 DEF advertising_start

LEMMA WorkTable ==
    ASSUME TableInv, \/ \E i \in Index : AuthTimeout(i)
                     \/ AdvWork \/ QuietWork \/ UnpairWork \/ AnyReleased
    PROVE  TableInv'
<1> USE DEF TableInv, unchangedButAuth, quietVars, unpairVars, csVars, stackVars, advVars
<1>1. ASSUME NEW i \in Index, AuthTimeout(i) PROVE TableInv'
  <2> USE <1>1 DEF AuthTimeout
  <2>1. slots' \in [Index -> Slot]
    <3>1. [slots[i] EXCEPT !.timeout = FALSE] \in Slot
      BY DEF TypeOK, Slot
    <3> QED BY <3>1 DEF TypeOK
  <2>2. TypeOK'
    BY <2>1, DisconnectMirrors DEF TypeOK, tableVars
  <2> QED BY <2>2, DisconnectMirrors DEF UnpairBounded, RxBusy
<1>2. CASE AdvWork
  <2> USE <1>2 DEF AdvWork
  <2>1. advertising' \in BOOLEAN /\ start_failed' \in BOOLEAN
    BY StartTypes DEF TypeOK
  <2>2. TypeOK'
    BY <2>1 DEF TypeOK, tableVars
  <2> QED BY <2>2, DisconnectMirrors DEF UnpairBounded, RxBusy
<1>3. CASE QuietWork
  <2> USE <1>3 DEF QuietWork
  <2>1. advertising' \in BOOLEAN /\ start_failed' \in BOOLEAN
    BY StartTypes DEF TypeOK
  <2>2. TypeOK'
    BY <2>1 DEF TypeOK, tableVars
  <2> QED BY <2>2, DisconnectMirrors DEF UnpairBounded, RxBusy
<1>4. CASE UnpairWork
  <2> USE <1>4 DEF UnpairWork, RetryUnpair
  <2>1. unpair_attempts' \in 0..UnpairTries
    BY DEF TypeOK, UnpairBounded
  <2>2. unpair_work' \in BOOLEAN
    <3>1. CASE AddressInUse(unpair_addr)
      <4>1. unpair_work' = (unpair_attempts' < UnpairTries)
        BY <3>1
      <4>2. (unpair_attempts' < UnpairTries) \in BOOLEAN
        BY <2>1
      <4> QED BY <4>1, <4>2, Zenon
    <3>2. CASE ~AddressInUse(unpair_addr)
      BY <3>2
    <3> QED BY <3>1, <3>2
  <2>3. UnpairBounded'
    BY DEF UnpairBounded
  <2>4. TypeOK'
    BY <2>1, <2>2 DEF TypeOK, tableVars
  <2> QED BY <2>3, <2>4, DisconnectMirrors DEF RxBusy
<1>5. ASSUME NEW c \in Conns, Released(c) PROVE TableInv'
  <2> USE <1>5 DEF Released, tableVars
  <2>1. TypeOK'
    BY DEF TypeOK
  <2>2. TableMirrorsLinks' /\ CountMatchesTable' /\ HeldIsGone'
    BY DEF TableMirrorsLinks, EntriesLive, EntriesDistinct, UpLinksTracked, Live, Tracked,
       CountMatchesTable, HeldIsGone
  <2>3. LivePeers'
    BY DEF LivePeers, HeldIsGone, Live, TypeOK
  <2> QED BY <2>1, <2>2, <2>3 DEF UnpairBounded, RxBusy
<1> QED BY <1>1, <1>2, <1>3, <1>4, <1>5 DEF AnyReleased

LEMMA NextTable == TableInv /\ [Next]_vars => TableInv'
<1> SUFFICES ASSUME TableInv, [Next]_vars PROVE TableInv'
  OBVIOUS
<1>1. ASSUME NEW c \in Conns, NEW p \in Peers, Connected(c, p) PROVE TableInv'
  BY <1>1, ConnectedTable
<1>2. ASSUME NEW c \in Conns, NEW r \in {"timeout", "other"}, Disconnected(c, r)
      PROVE TableInv'
  BY <1>2, DisconnectedTable
<1>3. ASSUME NEW c \in Conns, SecurityEstablished(c) \/ SecurityFailed(c) PROVE TableInv'
  BY <1>3, SecurityTable
<1>4. ASSUME NEW c \in Conns, ReadChallenge(c) \/ WriteResponse(c) PROVE TableInv'
  BY <1>4, AuthTable
<1>5. CASE CertChecked \/ NonceChecked
  BY <1>5, VerifyTable
<1>6. CASE \/ \E i \in Index : AuthTimeout(i)
           \/ AdvWork \/ QuietWork \/ UnpairWork \/ AnyReleased
  BY <1>6, WorkTable
<1>7. CASE UNCHANGED vars
  BY <1>7 DEF vars, TableInv, TypeOK, CountMatchesTable, TableMirrorsLinks, EntriesLive,
     EntriesDistinct, UpLinksTracked, UnpairBounded, LivePeers, HeldIsGone, RxBusy, Live,
     Tracked
<1> QED BY <1>1, <1>2, <1>3, <1>4, <1>5, <1>6, <1>7 DEF Next, AnyReleased

LEMMA TableInvariant == Spec => []TableInv
BY InitTable, NextTable, PTL DEF Spec

(* Every variable of SS1 keeps its type: no event order overflows the table,
   drives active_conn_count out of range or unpair_attempts past its limit. *)
THEOREM TypeCorrect == Spec => []TypeOK
BY TableInvariant, PTL DEF TableInv

(* active_conn_count is always the number of occupied entries. *)
THEOREM CountCorrect == Spec => []CountMatchesTable
BY TableInvariant, PTL DEF TableInv

(* connections[] holds live links only, each once, and every link in use. *)
THEOREM TableCorrect == Spec => []TableMirrorsLinks
BY TableInvariant, PTL DEF TableInv

----------------------------------------------------------------------------
(* Advertising, the quiet period, the reboot and the duplicate peer. *)

ConnectedOrGone == \/ \E c \in Conns, p \in Peers : Connected(c, p)
                   \/ \E c \in Conns, r \in {"timeout", "other"} : Disconnected(c, r)

(* Only connected() and disconnected() change the table or cold_reboot_pending,
   and no other step brings a link up or gives it another peer. *)
LEMMA OtherSteps ==
    ASSUME TypeOK, HeldIsGone, [Next]_vars, ~ConnectedOrGone
    PROVE  /\ UNCHANGED <<tableVars, cold_reboot_pending>>
           /\ \A c \in Conns : Live(c) => peer'[c] = peer[c]
           /\ \A c \in Conns : link'[c] = "up" => link[c] = "up"
<1> USE DEF unchangedButAuth, quietVars, unpairVars, csVars, stackVars, advVars, tableVars
<1>1. ASSUME NEW D, bt_conn_disconnect(D)
      PROVE  \A c \in Conns : link'[c] = "up" => link[c] = "up"
  BY <1>1 DEF bt_conn_disconnect, TypeOK
<1>2. ASSUME NEW c \in Conns, SecurityEstablished(c)
      PROVE  /\ UNCHANGED <<tableVars, cold_reboot_pending, peer>>
             /\ bt_conn_disconnect({c}) \/ UNCHANGED link
  BY <1>2 DEF SecurityEstablished, sentry_auth_conn_added
<1>3. ASSUME NEW c \in Conns, SecurityFailed(c)
      PROVE  UNCHANGED <<tableVars, cold_reboot_pending, peer>> /\ bt_conn_disconnect({c})
  BY <1>3 DEF SecurityFailed
<1>4. ASSUME NEW c \in Conns, ReadChallenge(c)
      PROVE  UNCHANGED <<tableVars, cold_reboot_pending, peer>> /\ UNCHANGED link
  BY <1>4 DEF ReadChallenge
<1>5. ASSUME NEW c \in Conns, WriteResponse(c)
      PROVE  /\ UNCHANGED <<tableVars, cold_reboot_pending, peer>>
             /\ bt_conn_disconnect({c}) \/ UNCHANGED link
  BY <1>5 DEF WriteResponse
<1>6. ASSUME CertChecked \/ NonceChecked
      PROVE  /\ UNCHANGED <<tableVars, cold_reboot_pending, peer>>
             /\ bt_conn_disconnect({rx.conn}) \/ UNCHANGED link
  BY <1>6 DEF CertChecked, NonceChecked, RefuseResponse
<1>7. ASSUME NEW i \in Index, AuthTimeout(i)
      PROVE  /\ UNCHANGED <<tableVars, cold_reboot_pending, peer>>
             /\ bt_conn_disconnect({slots[i].conn}) \/ UNCHANGED link
  BY <1>7 DEF AuthTimeout
<1>8. ASSUME AdvWork \/ QuietWork \/ UnpairWork \/ UNCHANGED vars
      PROVE  UNCHANGED <<tableVars, cold_reboot_pending, peer>> /\ UNCHANGED link
  BY <1>8 DEF AdvWork, QuietWork, UnpairWork, vars
<1>9. ASSUME NEW c \in Conns, Released(c)
      PROVE  /\ UNCHANGED <<tableVars, cold_reboot_pending>> /\ UNCHANGED link
             /\ \A d \in Conns : Live(d) => peer'[d] = peer[d]
  BY <1>9 DEF Released, HeldIsGone, TypeOK
<1> QED BY <1>1, <1>2, <1>3, <1>4, <1>5, <1>6, <1>7, <1>8, <1>9 DEF Next, ConnectedOrGone

(* The count connection_store() leaves never goes down. *)
LEMMA StoreGrows ==
    ASSUME TypeOK, NEW c \in Conns, connection_store(c)
    PROVE  active_conn_count' >= active_conn_count
BY DEF TypeOK, connection_store, tableVars

LEMMA RebootStep == TableInv /\ RebootWaitsForLinks /\ [Next]_vars => RebootWaitsForLinks'
<1> SUFFICES ASSUME TableInv, RebootWaitsForLinks, [Next]_vars PROVE RebootWaitsForLinks'
  OBVIOUS
<1> USE DEF TableInv, RebootWaitsForLinks
<1>1. ASSUME NEW c \in Conns, NEW p \in Peers, Connected(c, p) PROVE RebootWaitsForLinks'
  <2>1. CASE ConnectedRebootPending(c, p)
    BY <2>1 DEF ConnectedRebootPending, tableVars
  <2>2. CASE ConnectedFirst(c, p)
    BY <2>2 DEF ConnectedFirst, AcceptLink
  <2>3. CASE ConnectedDuplicate(c, p)
    BY <2>3 DEF ConnectedDuplicate, StartQuiet
  <2> QED BY <1>1, <2>1, <2>2, <2>3 DEF Connected
<1>2. ASSUME NEW c \in Conns, NEW r \in {"timeout", "other"}, Disconnected(c, r)
      PROVE RebootWaitsForLinks'
  <2>1. CASE RebootNow(c, r)
    BY <1>2, <2>1 DEF Disconnected, Reboot
  <2>2. CASE ~RebootNow(c, r)
    <3>1. connection_remove(c) /\ cold_reboot_pending' = RebootNeeded(c, r)
      BY <1>2, <2>2 DEF Disconnected
    <3>2. active_conn_count' \in 0..MaxConn /\ active_conn_count' = CountWithout(c)
      BY <3>1, RemoveCounts DEF connection_remove
    <3> QED BY <2>2, <3>1, <3>2 DEF RebootNow
  <2> QED BY <2>1, <2>2
<1>3. CASE ~ConnectedOrGone
  BY <1>3, OtherSteps DEF tableVars
<1> QED BY <1>1, <1>2, <1>3 DEF ConnectedOrGone

(* A pending cold reboot is never left without a tracked link to wait for. *)
THEOREM RebootCorrect == Spec => []RebootWaitsForLinks
<1>1. Init => RebootWaitsForLinks
  BY DEF Init, RebootWaitsForLinks
<1> QED BY <1>1, RebootStep, TableInvariant, PTL DEF Spec

LEMMA UsableStep == TableInv /\ OneUsableLinkPerPeer /\ [Next]_vars => OneUsableLinkPerPeer'
<1> SUFFICES ASSUME TableInv, OneUsableLinkPerPeer, [Next]_vars PROVE OneUsableLinkPerPeer'
  OBVIOUS
<1> USE DEF TableInv, OneUsableLinkPerPeer
<1>1. ASSUME NEW c \in Conns, NEW p \in Peers, Connected(c, p) PROVE OneUsableLinkPerPeer'
  <2>1. CASE ConnectedRebootPending(c, p)
    BY <2>1 DEF ConnectedRebootPending, NewLink, TypeOK
  <2>2. CASE ConnectedFirst(c, p)
    <3> USE <2>2 DEF ConnectedFirst, AcceptLink, NewLink
    <3>1. \A d \in Conns : link[d] = "up" /\ d # c => peer[d] # p
      BY DEF TableMirrorsLinks, UpLinksTracked, SamePeer
    <3>2. \A d \in Conns : d # c => link'[d] = link[d] /\ peer'[d] = peer[d]
      BY DEF TypeOK
    <3>3. peer'[c] = p
      BY DEF TypeOK
    <3> QED BY <3>1, <3>2, <3>3
  <2>3. CASE ConnectedDuplicate(c, p)
    BY <2>3 DEF ConnectedDuplicate, StartQuiet, NewLink, TypeOK
  <2> QED BY <1>1, <2>1, <2>2, <2>3 DEF Connected
<1>2. ASSUME NEW c \in Conns, NEW r \in {"timeout", "other"}, Disconnected(c, r)
      PROVE OneUsableLinkPerPeer'
  BY <1>2 DEF Disconnected, Reboot, LinkGone, TypeOK
<1>3. CASE ~ConnectedOrGone
  BY <1>3, OtherSteps DEF Live
<1> QED BY <1>1, <1>2, <1>3 DEF ConnectedOrGone

(* A peer never has two links in use at once. *)
THEOREM UsableCorrect == Spec => []OneUsableLinkPerPeer
<1>1. Init => OneUsableLinkPerPeer
  BY DEF Init, OneUsableLinkPerPeer
<1> QED BY <1>1, UsableStep, TableInvariant, PTL DEF Spec

LEMMA QuietStep == TableInv /\ QuietPeriod /\ [Next]_vars => QuietPeriod'
<1> SUFFICES ASSUME TableInv, QuietPeriod, [Next]_vars PROVE QuietPeriod'
  OBVIOUS
<1> USE DEF QuietPeriod, quietVars, unchangedButAuth, advVars
<1>1. ASSUME NEW c \in Conns, NEW p \in Peers, Connected(c, p) PROVE QuietPeriod'
  BY <1>1 DEF Connected, ConnectedRebootPending, ConnectedFirst, AcceptLink,
     ConnectedDuplicate, StartQuiet, NewLink
<1>2. ASSUME NEW c \in Conns, NEW r \in {"timeout", "other"}, Disconnected(c, r)
      PROVE QuietPeriod'
  BY <1>2 DEF Disconnected, Reboot
<1>3. ASSUME NEW c \in Conns, \/ SecurityEstablished(c) \/ SecurityFailed(c)
                              \/ ReadChallenge(c) \/ WriteResponse(c)
      PROVE QuietPeriod'
  BY <1>3 DEF SecurityEstablished, SecurityFailed, ReadChallenge, WriteResponse
<1>4. CASE CertChecked \/ NonceChecked
  BY <1>4 DEF CertChecked, NonceChecked, RefuseResponse
<1>5. ASSUME NEW i \in Index, AuthTimeout(i) PROVE QuietPeriod'
  BY <1>5 DEF AuthTimeout
<1>6. CASE AdvWork
  BY <1>6 DEF AdvWork, advertising_start
<1>7. CASE QuietWork
  BY <1>7 DEF QuietWork
<1>8. CASE UnpairWork \/ AnyReleased \/ UNCHANGED vars
  BY <1>8 DEF UnpairWork, AnyReleased, Released, vars
<1> QED BY <1>1, <1>2, <1>3, <1>4, <1>5, <1>6, <1>7, <1>8 DEF Next, AnyReleased

(* While reconnect_quiet is set, SS1 does not advertise and the work that ends
   the quiet period is scheduled. *)
THEOREM QuietCorrect == Spec => []QuietPeriod
<1>1. Init => QuietPeriod
  BY DEF Init, QuietPeriod
<1> QED BY <1>1, QuietStep, TableInvariant, PTL DEF Spec

LEMMA OwedStep ==
    TableInv /\ TableInv' /\ QuietPeriod /\ AdvertisingIsOwed /\ [Next]_vars
        => AdvertisingIsOwed'
<1> SUFFICES ASSUME TableInv, TableInv', QuietPeriod, AdvertisingIsOwed, [Next]_vars
             PROVE  AdvertisingIsOwed'
  OBVIOUS
<1> USE DEF TableInv, AdvertisingIsOwed, quietVars, unchangedButAuth, advVars, tableVars
<1>1. ASSUME NEW c \in Conns, NEW p \in Peers, Connected(c, p) PROVE AdvertisingIsOwed'
  <2>1. CASE ConnectedRebootPending(c, p)
    BY <2>1 DEF ConnectedRebootPending, TypeOK
  <2>2. CASE ConnectedFirst(c, p)
    <3> USE <2>2 DEF ConnectedFirst, AcceptLink
    <3>1. CASE \E i \in Index : connections'[i] = c
      <4>1. CASE active_conn_count' < MaxConn
        <5>1. RoomForOneMore(c)
          BY <3>1, <4>1 DEF RoomForOneMore
        <5>2. adv_work'
          BY <5>1, Zenon
        <5> QED BY <5>2
      <4>2. CASE ~(active_conn_count' < MaxConn)
        BY <4>2 DEF TypeOK
      <4> QED BY <4>1, <4>2
    <3>2. CASE ~\E i \in Index : connections'[i] = c
      <4>1. link'[c] = "closing"
        BY <3>2 DEF TypeOK
      <4> QED BY <4>1
    <3> QED BY <3>1, <3>2
  <2>3. CASE ConnectedDuplicate(c, p)
    BY <2>3 DEF ConnectedDuplicate, StartQuiet
  <2> QED BY <1>1, <2>1, <2>2, <2>3 DEF Connected
<1>2. ASSUME NEW c \in Conns, NEW r \in {"timeout", "other"}, Disconnected(c, r)
      PROVE AdvertisingIsOwed'
  <2>1. CASE RebootNow(c, r)
    BY <1>2, <2>1 DEF Disconnected, Reboot
  <2>2. CASE ~RebootNow(c, r)
    <3>1. /\ quiet_work' = (quiet_work \/ reconnect_quiet)
          /\ adv_work' = (adv_work \/ (~reconnect_quiet /\ active_conn_count' < MaxConn))
      BY <1>2, <2>2 DEF Disconnected
    <3>2. CASE reconnect_quiet
      BY <3>1, <3>2, Zenon
    <3>3. CASE ~reconnect_quiet /\ active_conn_count' < MaxConn
      BY <3>1, <3>3, Zenon
    <3>4. CASE ~(active_conn_count' < MaxConn)
      BY <3>4 DEF TypeOK
    <3> QED BY <3>2, <3>3, <3>4
  <2> QED BY <2>1, <2>2
<1>3. ASSUME NEW D, bt_conn_disconnect(D) \/ UNCHANGED link,
             UNCHANGED <<advVars, adv_work, quiet_work, active_conn_count>>
      PROVE  AdvertisingIsOwed'
  <2>1. \A c \in Conns : link[c] = "closing" => link'[c] = "closing"
    BY <1>3 DEF bt_conn_disconnect, TypeOK
  <2> QED BY <1>3, <2>1
<1>4. ASSUME NEW c \in Conns, \/ SecurityEstablished(c) \/ SecurityFailed(c)
                              \/ ReadChallenge(c) \/ WriteResponse(c)
      PROVE AdvertisingIsOwed'
  <2>1. bt_conn_disconnect({c}) \/ UNCHANGED link
    BY <1>4 DEF SecurityEstablished, sentry_auth_conn_added, SecurityFailed,
       ReadChallenge, WriteResponse
  <2>2. UNCHANGED <<advVars, adv_work, quiet_work, active_conn_count>>
    BY <1>4 DEF SecurityEstablished, SecurityFailed, ReadChallenge, WriteResponse
  <2> QED BY <2>1, <2>2, <1>3
<1>5. CASE CertChecked \/ NonceChecked
  <2>1. bt_conn_disconnect({rx.conn}) \/ UNCHANGED link
    BY <1>5 DEF CertChecked, NonceChecked, RefuseResponse
  <2>2. UNCHANGED <<advVars, adv_work, quiet_work, active_conn_count>>
    BY <1>5 DEF CertChecked, NonceChecked, RefuseResponse
  <2> QED BY <2>1, <2>2, <1>3
<1>6. ASSUME NEW i \in Index, AuthTimeout(i) PROVE AdvertisingIsOwed'
  <2>1. bt_conn_disconnect({slots[i].conn}) \/ UNCHANGED link
    BY <1>6 DEF AuthTimeout
  <2>2. UNCHANGED <<advVars, adv_work, quiet_work, active_conn_count>>
    BY <1>6 DEF AuthTimeout
  <2> QED BY <2>1, <2>2, <1>3
<1>7. ASSUME NEW q, advertising_start(q), UNCHANGED <<link, active_conn_count>>, ~q
      PROVE  AdvertisingIsOwed'
  <2>1. CASE active_conn_count = MaxConn
    BY <1>7, <2>1
  <2>2. CASE advertising /\ UNCHANGED advVars
    BY <2>2
  <2>3. CASE start_failed' = ~advertising'
    BY <2>3, Zenon
  <2> QED BY <1>7, <2>1, <2>2, <2>3, Zenon DEF advertising_start
<1>8. CASE AdvWork
  <2>1. CASE reconnect_quiet
    BY <1>8, <2>1 DEF AdvWork, QuietPeriod
  <2>2. CASE ~reconnect_quiet
    BY <1>8, <2>2, <1>7 DEF AdvWork, stackVars
  <2> QED BY <2>1, <2>2
<1>9. CASE QuietWork
  BY <1>9, <1>7 DEF QuietWork, stackVars
<1>10. CASE UnpairWork \/ AnyReleased \/ UNCHANGED vars
  BY <1>10 DEF UnpairWork, AnyReleased, Released, vars, stackVars
<1> QED BY <1>1, <1>2, <1>4, <1>5, <1>6, <1>8, <1>9, <1>10 DEF Next, AnyReleased

(* Whenever SS1 does not advertise, the table is full, something that restarts
   it is under way, or the last start was refused, the one failure the code
   does not repeat. *)
THEOREM OwedCorrect == Spec => []AdvertisingIsOwed
<1>1. Init => AdvertisingIsOwed
  BY DEF Init, AdvertisingIsOwed
<1> QED BY <1>1, OwedStep, QuietCorrect, TableInvariant, PTL DEF Spec

----------------------------------------------------------------------------
USE MaxConnAssumption, PeersAssumption, BoundsAssumption

(* A slot belongs to a link that is still there and encrypted. *)
SlotsEncrypted == \A i \in Index :
    slots[i].conn # NULL => Live(slots[i].conn) /\ enc[slots[i].conn] > 0

(* An encrypted link has a slot until it is gone. *)
EncryptedOwnsSlot == \A c \in Conns : Live(c) /\ enc[c] > 0 => ~NoSlotFor(c)

(* The flag of a slot is that of the link: it passed both checks. *)
SlotsEarned == \A i \in Index :
    slots[i].conn # NULL => (slots[i].authenticated <=> slots[i].conn \in proved)
ProvedOwnsSlot == \A c \in proved : ~NoSlotFor(c)

(* A slot without authentication has its timer, or its link is going. *)
SlotsTimed == \A i \in Index :
    slots[i].conn # NULL /\ ~slots[i].authenticated /\ link[slots[i].conn] = "up"
        => slots[i].timeout

(* The slot pointer a blocked verification holds is that of its link, or of
   nobody once the link is gone: nobody else gets the slot meanwhile. *)
RxOwnsSlot == rx.st # "idle" =>
    slots[rx.slot].conn = IF Live(rx.conn) THEN rx.conn ELSE NULL

(* An object without a link keeps nothing of the last one. *)
FreshLinks == \A c \in Conns : ~Live(c) => enc[c] = 0

AuthInv == /\ SlotsDistinct /\ SlotsEncrypted /\ EncryptedOwnsSlot
           /\ SlotsEarned /\ ProvedOwnsSlot /\ SlotsTimed
           /\ RxOwnsSlot

----------------------------------------------------------------------------
(* What is known of single slots. *)

LEMMA SlotTypes ==
    ASSUME TypeOK
    PROVE  \A i \in Index : /\ slots[i] \in Slot
                            /\ slots[i].conn \in Conns \cup {NULL}
                            /\ slots[i].authenticated \in BOOLEAN
                            /\ slots[i].timeout \in BOOLEAN
BY DEF TypeOK, Slot

(* With one slot per connection, slot_for() finds it. *)
LEMMA SlotUnique ==
    ASSUME SlotsDistinct, NEW c \in Conns, NEW i \in Index
    PROVE  SlotFor(c, i) <=> slots[i].conn = c
<1>1. ASSUME slots[i].conn = c, NEW j \in Index, j < i PROVE slots[j].conn # c
  BY <1>1 DEF SlotsDistinct, Index, Conns, NULL
<1> QED BY <1>1 DEF SlotFor

(* A connection is authenticated exactly when its link proved itself. *)
LEMMA AuthIsProved ==
    ASSUME TypeOK, AuthInv, NEW c \in Conns
    PROVE  sentry_auth_is_authenticated(c) <=> c \in proved
<1>1. c # NULL
  BY DEF Conns, NULL
<1>2. ASSUME sentry_auth_is_authenticated(c) PROVE c \in proved
  BY <1>1, <1>2, SlotUnique DEF AuthInv, sentry_auth_is_authenticated, SlotsEarned
<1>3. ASSUME c \in proved PROVE sentry_auth_is_authenticated(c)
  <2>1. PICK i \in Index : slots[i].conn = c
    BY <1>3 DEF AuthInv, ProvedOwnsSlot, NoSlotFor
  <2> QED BY <1>1, <1>3, <2>1, SlotUnique DEF AuthInv, sentry_auth_is_authenticated, SlotsEarned
<1> QED BY <1>2, <1>3

(* There is always a slot for a link that has none: the others' links would
   have to be MaxConn besides it. *)
LEMMA SlotIsLeft ==
    ASSUME TypeOK, SlotsDistinct, NEW c \in Conns, NoSlotFor(c)
    PROVE  \E i \in Index : slots[i].conn = NULL
<1> SUFFICES ASSUME \A i \in Index : slots[i].conn # NULL PROVE FALSE
  OBVIOUS
<1> DEFINE f == [i \in Index |-> slots[i].conn]
<1>1. f \in [Index -> Conns \ {c}]
  BY SlotTypes DEF NoSlotFor
<1>2. f \in Injection(Index, Conns \ {c})
  BY <1>1 DEF SlotsDistinct, Injection, IsInjective
<1>3. IsFiniteSet(Conns) /\ Cardinality(Conns) = MaxConn /\ Cardinality(Index) = MaxConn
  BY FS_Interval DEF Index, Conns
<1>4. IsFiniteSet(Conns \ {c}) /\ Cardinality(Conns \ {c}) = MaxConn - 1
  BY <1>3, FS_RemoveElement
<1>5. Cardinality(Index) <= Cardinality(Conns \ {c})
  BY <1>2, <1>4, FS_Injection
<1> QED BY <1>3, <1>4, <1>5

----------------------------------------------------------------------------
LEMMA InitAuth == Init => AuthInv
<1> SUFFICES ASSUME Init PROVE AuthInv
  OBVIOUS
<1>1. \A i \in Index : slots[i].conn = NULL
  BY DEF Init, EmptySlot
<1>2. \A c \in Conns : enc[c] = 0
  BY DEF Init
<1>3. proved = {} /\ rx.st = "idle"
  BY DEF Init, IdleRx
<1> QED BY <1>1, <1>2, <1>3 DEF AuthInv, SlotsDistinct, SlotsEncrypted, EncryptedOwnsSlot,
        SlotsEarned, ProvedOwnsSlot, SlotsTimed, RxOwnsSlot

(* Links that are only asked to end take nothing from the slots. *)
LEMMA ClosingAuth ==
    ASSUME TypeOK, AuthInv, RxBusy, NEW D, bt_conn_disconnect(D) \/ UNCHANGED link,
           UNCHANGED <<enc, slots, proved>>, rx' = rx \/ rx'.st = "idle"
    PROVE  AuthInv'
<1>1. \A c \in Conns : /\ Live(c) <=> Live(c)'
                       /\ link'[c] = "up" => link[c] = "up"
  BY DEF bt_conn_disconnect, TypeOK, Live
<1>2. SlotsEncrypted' /\ EncryptedOwnsSlot' /\ SlotsTimed'
  BY <1>1, SlotTypes DEF AuthInv, SlotsEncrypted, EncryptedOwnsSlot, SlotsTimed, NoSlotFor
<1>3. RxOwnsSlot'
  BY <1>1 DEF AuthInv, RxOwnsSlot, RxBusy
<1> QED BY <1>2, <1>3 DEF AuthInv, SlotsDistinct, SlotsEarned, ProvedOwnsSlot, NoSlotFor

(* A new link comes on an object that no slot, no proof and no verification
   refers to. *)
LEMMA ConnectedAuth ==
    ASSUME TypeOK, TableMirrorsLinks, AuthInv, FreshLinks, NEW c \in Conns, NEW p \in Peers, Connected(c, p)
    PROVE  AuthInv'
<1>1. UNCHANGED <<enc, slots, proved, rx>> /\ ~Live(c) /\ rx.st = "idle"
  BY DEF Connected, ConnectedRebootPending, ConnectedFirst, AcceptLink, ConnectedDuplicate,
     NewLink, Held, csVars, advVars
<1>2. \A d \in Conns : d # c => /\ Live(d) <=> Live(d)'
                                /\ link'[d] = "up" => link[d] = "up"
  <2>1. CASE ConnectedRebootPending(c, p)
    BY <2>1 DEF ConnectedRebootPending, Live, TypeOK
  <2>2. CASE ConnectedFirst(c, p)
    BY <2>2 DEF ConnectedFirst, AcceptLink, Live, TypeOK
  <2>3. CASE ConnectedDuplicate(c, p)
    <3>1. \A d \in SamePeer(c, p) : Live(d)
      BY DEF SamePeer, Tracked, TableMirrorsLinks, EntriesLive, Conns, NULL
    <3>2. \A d \in Conns : link'[d] = IF d = c \/ d \in SamePeer(c, p) THEN "closing" ELSE link[d]
      BY <2>3 DEF ConnectedDuplicate
    <3> QED BY <3>1, <3>2 DEF Live
  <2> QED BY <2>1, <2>2, <2>3 DEF Connected
<1>3. enc[c] = 0 /\ \A i \in Index : slots[i].conn # c
  BY <1>1 DEF FreshLinks, AuthInv, SlotsEncrypted, Conns, NULL
<1>4. SlotsEncrypted' /\ EncryptedOwnsSlot' /\ SlotsTimed'
  BY <1>1, <1>2, <1>3, SlotTypes
     DEF AuthInv, SlotsEncrypted, EncryptedOwnsSlot, SlotsTimed, NoSlotFor
<1> QED BY <1>1, <1>4 DEF AuthInv, SlotsDistinct, SlotsEarned, ProvedOwnsSlot, NoSlotFor,
        RxOwnsSlot

LEMMA DisconnectedAuth ==
    ASSUME TypeOK, AuthInv, RxBusy, NEW c \in Conns, NEW reason \in {"timeout", "other"},
           Disconnected(c, reason)
    PROVE  AuthInv'
<1>1. CASE RebootNow(c, reason)
  <2>1. Reboot
    BY <1>1 DEF Disconnected
  <2>2. \A i \in Index : slots'[i].conn = NULL
    BY <2>1 DEF Reboot, EmptySlot
  <2>3. (\A d \in Conns : enc'[d] = 0) /\ proved' = {} /\ rx'.st = "idle"
    BY <2>1 DEF Reboot, IdleRx
  <2> QED BY <2>2, <2>3 DEF AuthInv, SlotsDistinct, SlotsEncrypted, EncryptedOwnsSlot,
          SlotsEarned, ProvedOwnsSlot, SlotsTimed, RxOwnsSlot
<1>2. CASE ~RebootNow(c, reason)
  <2>1. LinkGone(c) /\ sentry_auth_conn_removed(c) /\ UNCHANGED rx
    BY <1>2 DEF Disconnected
  <2>2. \A i \in Index : slots'[i] = IF slots[i].conn = c THEN EmptySlot ELSE slots[i]
    BY <2>1, SlotUnique DEF sentry_auth_conn_removed, AuthInv
  <2>3. \A i \in Index : /\ slots[i].conn = c => slots'[i].conn = NULL
                         /\ slots[i].conn # c => slots'[i] = slots[i]
    BY <2>2 DEF EmptySlot
  <2>4. \A d \in Conns : d # c => link'[d] = link[d] /\ enc'[d] = enc[d]
    BY <2>1 DEF LinkGone, TypeOK
  <2>5. link'[c] = "free" /\ enc'[c] = 0 /\ proved' = proved \ {c}
    BY <2>1 DEF LinkGone, TypeOK
  <2>6. SlotsDistinct'
    BY <2>3 DEF AuthInv, SlotsDistinct
  <2>7. SlotsEncrypted' /\ SlotsTimed'
    BY <2>3, <2>4, SlotTypes DEF AuthInv, SlotsEncrypted, SlotsTimed, Live
  <2>8. SlotsEarned'
    BY <2>3, <2>5 DEF AuthInv, SlotsEarned
  <2>9. EncryptedOwnsSlot' /\ ProvedOwnsSlot'
    BY <2>3, <2>4, <2>5 DEF AuthInv, EncryptedOwnsSlot, ProvedOwnsSlot, NoSlotFor, Live, TypeOK
  <2>10. RxOwnsSlot'
    BY <2>1, <2>3, <2>4, <2>5 DEF AuthInv, RxOwnsSlot, RxBusy, Live
  <2> QED BY <2>6, <2>7, <2>8, <2>9, <2>10 DEF AuthInv
<1> QED BY <1>1, <1>2

(* The one security event of a link finds no slot of it and gives it one. *)
LEMMA SecurityAuth ==
    ASSUME MaxSecurityEvents = 1, TypeOK, AuthInv, RxBusy, NEW c \in Conns,
           SecurityEstablished(c)
    PROVE  AuthInv'
<1> USE DEF SecurityEstablished, csVars, advVars
<1>1. Live(c) /\ enc[c] = 0 /\ enc' = [enc EXCEPT ![c] = 1]
  <2>1. enc[c] \in 0..1 /\ enc[c] < 1
    BY DEF TypeOK
  <2>2. enc[c] = 0 /\ enc[c] + 1 = 1
    BY <2>1
  <2>3. enc' = [enc EXCEPT ![c] = enc[c] + 1]
    OBVIOUS
  <2> QED BY <2>2, <2>3
<1>2. NoSlotFor(c) /\ c \notin proved
  BY <1>1 DEF AuthInv, SlotsEncrypted, ProvedOwnsSlot, NoSlotFor, Conns, NULL
<1>3. PICK i \in Index :
        /\ slots[i].conn = NULL
        /\ \A j \in Index : j # i => slots'[j] = slots[j]
        /\ slots'[i].conn = c /\ ~slots'[i].authenticated
        /\ (slots'[i].timeout /\ UNCHANGED link) \/ bt_conn_disconnect({c})
  <2>1. CASE \A i \in Index : slots[i].conn # NULL
    BY <1>2, <2>1, SlotIsLeft DEF AuthInv
  <2>2. ASSUME NEW i \in Index, FreeSlot(i),
               slots' = [slots EXCEPT ![i] = SlotWithoutNonce(i, c)], bt_conn_disconnect({c})
        PROVE  /\ slots[i].conn = NULL
               /\ \A j \in Index : j # i => slots'[j] = slots[j]
               /\ slots'[i].conn = c /\ ~slots'[i].authenticated
               /\ (slots'[i].timeout /\ UNCHANGED link) \/ bt_conn_disconnect({c})
    BY <2>2, SlotTypes DEF FreeSlot, SlotFor, SlotWithoutNonce, TypeOK, Slot
  <2>3. ASSUME NEW i \in Index, FreeSlot(i),
               slots' = [slots EXCEPT ![i] = SlotWithNonce(i, c)], UNCHANGED link
        PROVE  /\ slots[i].conn = NULL
               /\ \A j \in Index : j # i => slots'[j] = slots[j]
               /\ slots'[i].conn = c /\ ~slots'[i].authenticated
               /\ (slots'[i].timeout /\ UNCHANGED link) \/ bt_conn_disconnect({c})
    BY <2>3 DEF FreeSlot, SlotFor, SlotWithNonce, TypeOK
  <2> QED BY <2>1, <2>2, <2>3 DEF sentry_auth_conn_added
<1>4. \A d \in Conns : /\ Live(d) <=> Live(d)'
                       /\ link'[d] = "up" => link[d] = "up"
                       /\ d # c => enc'[d] = enc[d]
  BY <1>1, <1>3 DEF bt_conn_disconnect, TypeOK, Live
<1>5. enc'[c] = 1 /\ c # NULL
  BY <1>1 DEF TypeOK, Conns, NULL
<1>6. SlotsDistinct'
  BY <1>2, <1>3 DEF AuthInv, SlotsDistinct, NoSlotFor
<1>7. SlotsEncrypted'
  BY <1>1, <1>3, <1>4, <1>5, SlotTypes DEF AuthInv, SlotsEncrypted
<1>8. EncryptedOwnsSlot' /\ ProvedOwnsSlot'
  <2>1. \A d \in Conns : ~NoSlotFor(d) => ~NoSlotFor(d)'
    BY <1>3 DEF NoSlotFor, Conns, NULL
  <2>2. ~NoSlotFor(c)'
    BY <1>3 DEF NoSlotFor
  <2> QED BY <1>4, <2>1, <2>2 DEF AuthInv, EncryptedOwnsSlot, ProvedOwnsSlot, TypeOK
<1>9. SlotsEarned'
  BY <1>2, <1>3 DEF AuthInv, SlotsEarned
<1>10. SlotsTimed'
  <2>1. slots'[i].timeout \/ link'[c] # "up"
    BY <1>3 DEF bt_conn_disconnect, TypeOK
  <2> QED BY <1>3, <1>4, <2>1, SlotTypes DEF AuthInv, SlotsTimed
<1> QED BY <1>6, <1>7, <1>8, <1>9, <1>10 DEF AuthInv, RxOwnsSlot

(* The nonce of a slot is read. *)
LEMMA ReadAuth ==
    ASSUME TypeOK, AuthInv, RxBusy, NEW c \in Conns, ReadChallenge(c)
    PROVE  AuthInv'
<1> USE DEF ReadChallenge, unchangedButAuth, csVars, advVars
<1>1. \A i \in Index : /\ slots'[i].conn = slots[i].conn
                       /\ slots'[i].authenticated = slots[i].authenticated
                       /\ slots'[i].timeout = slots[i].timeout
  BY DEF TypeOK, Slot
<1> QED BY <1>1 DEF AuthInv, SlotsDistinct, SlotsEncrypted, EncryptedOwnsSlot, SlotsEarned,
        ProvedOwnsSlot, SlotsTimed, RxOwnsSlot, RxBusy, NoSlotFor, Live

(* A response begins to be checked on the slot of its connection. *)
LEMMA WriteAuth ==
    ASSUME TypeOK, AuthInv, RxBusy, NEW c \in Conns, WriteResponse(c)
    PROVE  AuthInv'
<1> USE DEF WriteResponse, unchangedButAuth, csVars, advVars
<1>1. CASE UNCHANGED rx
  BY <1>1, ClosingAuth DEF bt_conn_disconnect
<1>2. CASE ~UNCHANGED rx
  <2>1. PICK i \in Index : /\ AuthAccess(c, i)
                           /\ rx' = [st |-> "cert", conn |-> c, slot |-> i, from |-> peer[c],
                                     match |-> FALSE]
                           /\ UNCHANGED link
    BY <1>2
  <2>2. RxOwnsSlot'
    BY <2>1 DEF AuthAccess, SlotFor, RxOwnsSlot, Live
  <2> QED BY <2>1, <2>2 DEF AuthInv, SlotsDistinct, SlotsEncrypted, EncryptedOwnsSlot,
          SlotsEarned, ProvedOwnsSlot, SlotsTimed, NoSlotFor, Live
<1> QED BY <1>1, <1>2

(* Both signatures were right: the slot the verification holds, if it is still
   that of its link, and the link become authenticated together. *)
LEMMA VerifyAuth ==
    ASSUME TypeOK, AuthInv, RxBusy, CertChecked \/ NonceChecked
    PROVE  AuthInv'
<1> USE DEF unchangedButAuth, csVars, advVars
<1>1. CASE RefuseResponse
  <2>1. rx'.st = "idle"
    BY <1>1 DEF RefuseResponse, IdleRx
  <2> QED BY <1>1, <2>1, ClosingAuth DEF RefuseResponse
<1>2. CASE CertChecked /\ ~RefuseResponse
  <2>1. /\ UNCHANGED <<link, enc, slots, proved>>
        /\ rx.st # "idle" /\ rx'.slot = rx.slot /\ rx'.conn = rx.conn
    BY <1>2 DEF CertChecked, TypeOK, Rx
  <2> QED BY <2>1 DEF AuthInv, SlotsDistinct, SlotsEncrypted, EncryptedOwnsSlot,
          SlotsEarned, ProvedOwnsSlot, SlotsTimed, RxOwnsSlot, NoSlotFor, Live
<1>3. CASE NonceChecked /\ ~RefuseResponse
  <2> DEFINE s == rx.slot
             c == rx.conn
  <2>1. /\ s \in Index /\ c \in Conns
        /\ slots[s].conn = IF Live(c) THEN c ELSE NULL
    BY <1>3 DEF NonceChecked, RxBusy, AuthInv, RxOwnsSlot
  <2>2. slots' = [slots EXCEPT ![s].authenticated = TRUE, ![s].nonce_valid = FALSE,
                               ![s].timeout = FALSE]
    BY <1>3 DEF NonceChecked
  <2>3. /\ \A i \in Index : /\ slots'[i].conn = slots[i].conn
                            /\ i # s => slots'[i] = slots[i]
        /\ slots'[s].authenticated
    BY <2>1, <2>2 DEF TypeOK, Slot
  <2>4. /\ proved' = IF Live(c) THEN proved \cup {c} ELSE proved
        /\ rx'.st = "idle" /\ UNCHANGED <<link, enc>>
    BY <1>3 DEF NonceChecked, cs_reflector_conn_ready, IdleRx
  <2>5. SlotsDistinct' /\ SlotsEncrypted' /\ EncryptedOwnsSlot'
    BY <2>3, <2>4 DEF AuthInv, SlotsDistinct, SlotsEncrypted, EncryptedOwnsSlot, NoSlotFor, Live
  <2>6. SlotsEarned'
    BY <2>1, <2>3, <2>4 DEF AuthInv, SlotsEarned, SlotsDistinct
  <2>7. ProvedOwnsSlot'
    BY <2>1, <2>3, <2>4 DEF AuthInv, ProvedOwnsSlot, NoSlotFor
  <2>8. SlotsTimed'
    BY <2>3, <2>4 DEF AuthInv, SlotsTimed
  <2> QED BY <2>4, <2>5, <2>6, <2>7, <2>8 DEF AuthInv, RxOwnsSlot
<1> QED BY <1>1, <1>2, <1>3

(* The timer of a slot stops for good only with its link, or after the link is
   authenticated. *)
LEMMA TimeoutAuth ==
    ASSUME TypeOK, AuthInv, RxBusy, NEW i \in Index, AuthTimeout(i)
    PROVE  AuthInv'
<1> USE DEF AuthTimeout, unchangedButAuth, csVars, advVars
<1>1. \A j \in Index : /\ slots'[j].conn = slots[j].conn
                       /\ slots'[j].authenticated = slots[j].authenticated
                       /\ j # i => slots'[j].timeout = slots[j].timeout
  BY DEF TypeOK, Slot
<1>2. \A d \in Conns : /\ Live(d) <=> Live(d)'
                       /\ link'[d] = "up" => link[d] = "up"
  BY DEF bt_conn_disconnect, TypeOK, Live
<1>3. slots[i].conn # NULL /\ ~slots[i].authenticated => link'[slots[i].conn] # "up"
  BY SlotTypes DEF Overdue, bt_conn_disconnect, TypeOK
<1>4. SlotsTimed'
  BY <1>1, <1>2, <1>3, SlotTypes DEF AuthInv, SlotsTimed
<1>5. SlotsEncrypted' /\ EncryptedOwnsSlot'
  BY <1>1, <1>2, SlotTypes DEF AuthInv, SlotsEncrypted, EncryptedOwnsSlot, NoSlotFor
<1>6. RxOwnsSlot'
  BY <1>1, <1>2 DEF AuthInv, RxOwnsSlot, RxBusy
<1> QED BY <1>1, <1>4, <1>5, <1>6 DEF AuthInv, SlotsDistinct, SlotsEarned, ProvedOwnsSlot,
        NoSlotFor

----------------------------------------------------------------------------
(* The invariant, and what follows from it. *)

LEMMA InitFresh == Init => FreshLinks
BY DEF Init, FreshLinks

LEMMA FreshStep == TableInv /\ FreshLinks /\ [Next]_vars => FreshLinks'
<1> SUFFICES ASSUME TableInv, FreshLinks, [Next]_vars PROVE FreshLinks'
  OBVIOUS
<1> USE DEF TableInv, unchangedButAuth, stackVars, advVars
<1>1. ASSUME NEW D, bt_conn_disconnect(D) \/ UNCHANGED link, UNCHANGED enc
      PROVE  FreshLinks'
  BY <1>1 DEF bt_conn_disconnect, TypeOK, Live, FreshLinks
<1>2. ASSUME NEW c \in Conns, NEW p \in Peers, Connected(c, p) PROVE FreshLinks'
  <2>1. UNCHANGED enc
    BY <1>2 DEF Connected, ConnectedRebootPending, ConnectedFirst, AcceptLink,
       ConnectedDuplicate, NewLink, TypeOK
  <2>2. link'[c] # "free" /\ \A d \in Conns : ~Live(d)' => ~Live(d)
    BY <1>2 DEF Connected, ConnectedRebootPending, ConnectedFirst, AcceptLink,
       ConnectedDuplicate, Live, TypeOK
  <2> QED BY <2>1, <2>2 DEF FreshLinks, Live
<1>3. ASSUME NEW c \in Conns, NEW r \in {"timeout", "other"}, Disconnected(c, r)
      PROVE  FreshLinks'
  <2>1. CASE Reboot
    BY <2>1 DEF Reboot, FreshLinks
  <2>2. CASE LinkGone(c)
    BY <2>2 DEF LinkGone, FreshLinks, Live, TypeOK
  <2> QED BY <1>3, <2>1, <2>2 DEF Disconnected
<1>4. ASSUME NEW c \in Conns, SecurityEstablished(c) PROVE FreshLinks'
  <2>1. Live(c) /\ \A d \in Conns : d # c => enc'[d] = enc[d]
    BY <1>4 DEF SecurityEstablished, TypeOK
  <2>2. \A d \in Conns : Live(d) <=> Live(d)'
    BY <1>4 DEF SecurityEstablished, sentry_auth_conn_added, bt_conn_disconnect, TypeOK, Live
  <2> QED BY <2>1, <2>2 DEF FreshLinks
<1>5. ASSUME NEW c \in Conns, SecurityFailed(c) \/ ReadChallenge(c) \/ WriteResponse(c)
      PROVE  FreshLinks'
  BY <1>5, <1>1 DEF SecurityFailed, ReadChallenge, WriteResponse
<1>6. CASE CertChecked \/ NonceChecked
  BY <1>6, <1>1 DEF CertChecked, NonceChecked, RefuseResponse
<1>7. ASSUME NEW i \in Index, AuthTimeout(i) PROVE FreshLinks'
  BY <1>7, <1>1 DEF AuthTimeout
<1>8. CASE AdvWork \/ QuietWork \/ UnpairWork \/ AnyReleased \/ UNCHANGED vars
  BY <1>8, <1>1 DEF AdvWork, QuietWork, UnpairWork, AnyReleased, Released, vars
<1> QED BY <1>2, <1>3, <1>4, <1>5, <1>6, <1>7, <1>8 DEF Next, AnyReleased

LEMMA FreshInvariant == Spec => []FreshLinks
BY InitFresh, FreshStep, TableInvariant, PTL DEF Spec

LEMMA NextAuth ==
    ASSUME MaxSecurityEvents = 1, TableInv, FreshLinks, AuthInv, [Next]_vars
    PROVE  AuthInv'
<1> USE DEF TableInv
<1>1. ASSUME NEW c \in Conns, NEW p \in Peers, Connected(c, p) PROVE AuthInv'
  BY <1>1, ConnectedAuth
<1>2. ASSUME NEW c \in Conns, NEW r \in {"timeout", "other"}, Disconnected(c, r)
      PROVE  AuthInv'
  BY <1>2, DisconnectedAuth
<1>3. ASSUME NEW c \in Conns, SecurityEstablished(c) PROVE AuthInv'
  BY <1>3, SecurityAuth
<1>4. ASSUME NEW c \in Conns, SecurityFailed(c) PROVE AuthInv'
  BY <1>4, ClosingAuth DEF SecurityFailed, csVars, advVars
<1>5. ASSUME NEW c \in Conns, ReadChallenge(c) \/ WriteResponse(c) PROVE AuthInv'
  BY <1>5, ReadAuth, WriteAuth
<1>6. CASE CertChecked \/ NonceChecked
  BY <1>6, VerifyAuth
<1>7. ASSUME NEW i \in Index, AuthTimeout(i) PROVE AuthInv'
  BY <1>7, TimeoutAuth
<1>8. CASE AdvWork \/ QuietWork \/ UnpairWork \/ AnyReleased \/ UNCHANGED vars
  <2>1. UNCHANGED <<link, enc, slots, proved, rx>>
    BY <1>8 DEF AdvWork, QuietWork, UnpairWork, AnyReleased, Released, vars, stackVars, csVars, advVars
  <2> QED BY <2>1, ClosingAuth
<1> QED BY <1>1, <1>2, <1>3, <1>4, <1>5, <1>6, <1>7, <1>8 DEF Next, AnyReleased

LEMMA AuthInvariant ==
    ASSUME MaxSecurityEvents = 1
    PROVE  Spec => []AuthInv
<1>1. TableInv /\ FreshLinks /\ AuthInv /\ [Next]_vars => AuthInv'
  BY NextAuth
<1> QED BY <1>1, InitAuth, FreshInvariant, TableInvariant, PTL DEF Spec

(* With one security event per link, no slot is leaked to the next user of a
   connection object, no link has two, and no encrypted link is without one. *)
THEOREM SlotsCorrect ==
    ASSUME MaxSecurityEvents = 1
    PROVE  Spec => []SlotsMirrorLinks
<1>1. AuthInv => SlotsMirrorLinks
  BY DEF AuthInv, SlotsMirrorLinks, SlotsEncrypted, SlotsLive, EncryptedOwnsSlot,
     EncryptedHasSlot, Live
<1> QED BY <1>1, AuthInvariant, PTL

(* Only a link that passed both signature checks is authenticated, whatever
   happens to it while its response is checked. *)
THEOREM EarnedCorrect ==
    ASSUME MaxSecurityEvents = 1
    PROVE  Spec => []AuthIsEarned
<1>1. TableInv /\ AuthInv => AuthIsEarned
  BY AuthIsProved DEF TableInv, AuthIsEarned
<1> QED BY <1>1, AuthInvariant, TableInvariant, PTL

(* Every encrypted link in use that is not authenticated has its timer. *)
THEOREM TimedCorrect ==
    ASSUME MaxSecurityEvents = 1
    PROVE  Spec => []UnauthenticatedIsTimed
<1>1. ASSUME TableInv, AuthInv, NEW c \in Conns, link[c] = "up", enc[c] > 0,
             ~sentry_auth_is_authenticated(c)
      PROVE  \E i \in Index : slots[i].conn = c /\ slots[i].timeout
  <2>1. PICK i \in Index : slots[i].conn = c
    BY <1>1 DEF AuthInv, EncryptedOwnsSlot, NoSlotFor, Live
  <2>2. ~slots[i].authenticated
    BY <1>1, <2>1, SlotUnique DEF AuthInv, sentry_auth_is_authenticated
  <2> QED BY <1>1, <2>1, <2>2 DEF AuthInv, SlotsTimed, Conns, NULL
<1>2. TableInv /\ AuthInv => UnauthenticatedIsTimed
  BY <1>1 DEF UnauthenticatedIsTimed
<1> QED BY <1>2, AuthInvariant, TableInvariant, PTL

----------------------------------------------------------------------------
(* The controller is reset before it serves another link. *)

(* A lost Channel Sounding link leaves the reboot pending: its connection was
   authenticated when disconnected() asked. *)
RebootOnDirty == dirty => cold_reboot_pending

(* Only disconnected() loses a link to a supervision timeout. *)
LEMMA DirtyKept ==
    ASSUME [Next]_vars, ~ConnectedOrGone
    PROVE  UNCHANGED dirty
<1> USE DEF unchangedButAuth, csVars, advVars
<1>1. ASSUME NEW c \in Conns, \/ SecurityEstablished(c) \/ SecurityFailed(c)
                              \/ ReadChallenge(c) \/ WriteResponse(c)
      PROVE  UNCHANGED dirty
  BY <1>1 DEF SecurityEstablished, SecurityFailed, ReadChallenge, WriteResponse
<1>2. ASSUME CertChecked \/ NonceChecked PROVE UNCHANGED dirty
  BY <1>2 DEF CertChecked, NonceChecked, RefuseResponse, cs_reflector_conn_ready
<1>3. ASSUME NEW i \in Index, AuthTimeout(i) PROVE UNCHANGED dirty
  BY <1>3 DEF AuthTimeout
<1>4. ASSUME AdvWork \/ QuietWork \/ UnpairWork \/ AnyReleased \/ UNCHANGED vars PROVE UNCHANGED dirty
  BY <1>4 DEF AdvWork, QuietWork, UnpairWork, AnyReleased, Released, vars
<1> QED BY <1>1, <1>2, <1>3, <1>4 DEF Next, AnyReleased, ConnectedOrGone

LEMMA DirtyStep ==
    TableInv /\ AuthInv /\ RebootOnDirty /\ [Next]_vars => RebootOnDirty'
<1> SUFFICES ASSUME TableInv, AuthInv, RebootOnDirty, [Next]_vars PROVE RebootOnDirty'
  OBVIOUS
<1> USE DEF TableInv, RebootOnDirty
<1>1. ASSUME NEW c \in Conns, NEW r \in {"timeout", "other"}, Disconnected(c, r)
      PROVE  RebootOnDirty'
  <2>1. CASE RebootNow(c, r)
    BY <1>1, <2>1 DEF Disconnected, Reboot
  <2>2. CASE ~RebootNow(c, r)
    <3>1. /\ cold_reboot_pending' = RebootNeeded(c, r)
          /\ dirty' = (dirty \/ (c \in proved /\ r = "timeout"))
      BY <1>1, <2>2 DEF Disconnected
    <3>2. c \in proved => WasAuthenticated(c)
      BY AuthIsProved DEF WasAuthenticated
    <3>3. dirty' => RebootNeeded(c, r)
      BY <3>1, <3>2 DEF RebootNeeded
    <3> QED BY <3>1, <3>3, Zenon
  <2> QED BY <2>1, <2>2
<1>2. ASSUME UNCHANGED <<dirty, cold_reboot_pending>> PROVE RebootOnDirty'
  BY <1>2
<1>3. ASSUME NEW c \in Conns, NEW p \in Peers, Connected(c, p) PROVE RebootOnDirty'
  BY <1>3, <1>2 DEF Connected, ConnectedRebootPending, ConnectedFirst, AcceptLink,
     ConnectedDuplicate, csVars, advVars
<1>4. CASE ~ConnectedOrGone
  BY <1>4, <1>2, OtherSteps, DirtyKept
<1> QED BY <1>1, <1>3, <1>4 DEF ConnectedOrGone

(* A link that comes while the reboot is pending is turned away unseen; so no
   link is served by a controller that lost a Channel Sounding link. *)
THEOREM DirtyCorrect ==
    ASSUME MaxSecurityEvents = 1
    PROVE  Spec => NoNewLinkOnDirtyController
<1> DEFINE Kept == dirty => \A c \in Conns : Tracked(c)' => Tracked(c)
<1>1. TableInv /\ RebootOnDirty /\ [Next]_vars => [Kept]_vars
  <2> SUFFICES ASSUME TableInv, RebootOnDirty, [Next]_vars, dirty,
                      NEW d \in Conns, Tracked(d)'
               PROVE  Tracked(d)
    OBVIOUS
  <2> USE DEF TableInv, RebootOnDirty, tableVars
  <2>1. ASSUME NEW c \in Conns, NEW p \in Peers, Connected(c, p) PROVE Tracked(d)
    BY <2>1 DEF Connected, ConnectedRebootPending, ConnectedFirst, ConnectedDuplicate, Tracked
  <2>2. ASSUME NEW c \in Conns, NEW r \in {"timeout", "other"}, Disconnected(c, r)
        PROVE  Tracked(d)
    BY <2>2 DEF Disconnected, Reboot, connection_remove, Tracked, Conns, NULL
  <2>3. CASE ~ConnectedOrGone
    BY <2>3, OtherSteps DEF Tracked
  <2> QED BY <2>1, <2>2, <2>3 DEF ConnectedOrGone
<1>2. Init => RebootOnDirty
  BY DEF Init, RebootOnDirty
<1>3. Spec => []RebootOnDirty
  BY <1>2, DirtyStep, AuthInvariant, TableInvariant, PTL DEF Spec
<1> QED BY <1>1, <1>3, TableInvariant, PTL DEF Spec, NoNewLinkOnDirtyController

(* The bond of the last failed pairing is removed, or is being seen to, or the
   handler has made all its looks since that failure. *)
LEMMA BondStep ==
    TableInv /\ LastFailedBondHandled /\ [Next]_vars => LastFailedBondHandled'
<1> SUFFICES ASSUME TableInv, LastFailedBondHandled, [Next]_vars
             PROVE  LastFailedBondHandled'
  OBVIOUS
<1> USE DEF TableInv, LastFailedBondHandled, unpairVars, unchangedButAuth
<1>1. ASSUME NEW c \in Conns, SecurityFailed(c) PROVE LastFailedBondHandled'
  BY <1>1 DEF SecurityFailed, schedule_unpair, LooksAfresh
<1>2. CASE UnpairWork
  <2>1. CASE AddressInUse(unpair_addr)
    <3>1. unpair_attempts' = unpair_attempts + 1
          /\ unpair_work' = (unpair_attempts' < UnpairTries)
      BY <1>2, <2>1 DEF UnpairWork, RetryUnpair
    <3>2. unpair_attempts < UnpairTries /\ unpair_attempts \in Nat
      BY <1>2 DEF UnpairWork, UnpairBounded, TypeOK
    <3>3. unpair_attempts' = UnpairTries \/ unpair_attempts' < UnpairTries
      BY <3>1, <3>2
    <3> QED BY <3>1, <3>3, Zenon
  <2>2. CASE ~AddressInUse(unpair_addr)
    BY <1>2, <2>2 DEF UnpairWork
  <2> QED BY <2>1, <2>2
<1>3. ASSUME NEW c \in Conns, NEW r \in {"timeout", "other"}, Disconnected(c, r)
      PROVE  LastFailedBondHandled'
  <2>1. NoPeer \notin stale
    BY DEF TypeOK
  <2> QED BY <1>3, <2>1 DEF Disconnected, Reboot
<1>4. ASSUME UNCHANGED unpairVars, stale' \subseteq stale PROVE LastFailedBondHandled'
  BY <1>4
<1>5. ASSUME NEW c \in Conns, NEW p \in Peers, Connected(c, p)
      PROVE  UNCHANGED unpairVars /\ stale' \subseteq stale
  BY <1>5 DEF Connected, ConnectedRebootPending, ConnectedFirst, AcceptLink,
     ConnectedDuplicate
<1>6. ASSUME NEW c \in Conns, SecurityEstablished(c) \/ ReadChallenge(c) \/ WriteResponse(c)
      PROVE  UNCHANGED unpairVars /\ stale' \subseteq stale
  BY <1>6 DEF SecurityEstablished, ReadChallenge, WriteResponse
<1>7. CASE \/ CertChecked \/ NonceChecked \/ AdvWork \/ QuietWork \/ AnyReleased
           \/ \E i \in Index : AuthTimeout(i)
           \/ UNCHANGED vars
  BY <1>7, <1>4 DEF CertChecked, NonceChecked, RefuseResponse, AdvWork, QuietWork,
     AnyReleased, Released, AuthTimeout, vars
<1> QED BY <1>1, <1>2, <1>3, <1>4, <1>5, <1>6, <1>7 DEF Next, AnyReleased

THEOREM FailedBondCorrect == Spec => []LastFailedBondHandled
<1>1. Init /\ TypeOK => LastFailedBondHandled
  BY DEF Init, LastFailedBondHandled
<1>2. TableInv => TypeOK
  BY DEF TableInv
<1> QED BY <1>1, <1>2, BondStep, TableInvariant, PTL DEF Spec

----------------------------------------------------------------------------
(* SS1 implements LinkTable. *)

(* No step but connected() and disconnected() touches connections[], and what
   it can do to the proofs is to add one. *)
LEMMA ProofsGrow ==
    ASSUME TypeOK, HeldIsGone, RxBusy, [Next]_vars, ~ConnectedOrGone
    PROVE  /\ UNCHANGED connections
           /\ UNCHANGED proved \/ \E c \in Conns : proved' = proved \cup {c}
<1> USE DEF unchangedButAuth, csVars, advVars
<1>1. UNCHANGED connections
  BY OtherSteps DEF tableVars
<1>2. ASSUME NEW c \in Conns, \/ SecurityEstablished(c) \/ SecurityFailed(c)
                              \/ ReadChallenge(c) \/ WriteResponse(c)
      PROVE  UNCHANGED proved
  BY <1>2 DEF SecurityEstablished, SecurityFailed, ReadChallenge, WriteResponse
<1>3. ASSUME CertChecked \/ NonceChecked
      PROVE  UNCHANGED proved \/ \E c \in Conns : proved' = proved \cup {c}
  <2>1. rx.conn \in Conns
    BY <1>3 DEF CertChecked, NonceChecked, RxBusy
  <2> QED BY <1>3, <2>1 DEF CertChecked, NonceChecked, RefuseResponse, cs_reflector_conn_ready
<1>4. ASSUME NEW i \in Index, AuthTimeout(i) PROVE UNCHANGED proved
  BY <1>4 DEF AuthTimeout
<1>5. ASSUME AdvWork \/ QuietWork \/ UnpairWork \/ AnyReleased \/ UNCHANGED vars PROVE UNCHANGED proved
  BY <1>5 DEF AdvWork, QuietWork, UnpairWork, AnyReleased, Released, vars
<1> QED BY <1>1, <1>2, <1>3, <1>4, <1>5 DEF Next, AnyReleased, ConnectedOrGone

(* The connections the abstract table calls authenticated are those whose link
   proved itself. *)
ProvedOnly == {c \in Conns : sentry_auth_is_authenticated(c)} = proved

LEMMA AuthenticatedSet == TypeOK /\ AuthInv => ProvedOnly
BY AuthIsProved DEF TypeOK, ProvedOnly

LEMMA AuthenticatedSetNext == TypeOK' /\ AuthInv' => ProvedOnly'
BY AuthenticatedSet, PTL

LEMMA StepRefines ==
    ASSUME TableInv, AuthInv, TableInv', AuthInv', [Next]_vars
    PROVE  [Table!TableNext]_Table!tableVars
<1> DEFINE A == {c \in Conns : sentry_auth_is_authenticated(c)}
<1> USE DEF TableInv
<1>1. A = proved /\ A' = proved'
  BY AuthenticatedSet, AuthenticatedSetNext DEF ProvedOnly
<1> USE DEF Table!Conns, Table!Index, Table!NULL, Table!Tracked, Conns, Index, NULL
<1>2. ASSUME NEW c \in Conns, NEW p \in Peers, Connected(c, p)
      PROVE  (\E i \in Index : Table!Store(c, i)) \/ UNCHANGED <<connections, A>>
  <2>1. UNCHANGED proved /\ ~Live(c)
    BY <1>2 DEF Connected, ConnectedRebootPending, ConnectedFirst, AcceptLink,
       ConnectedDuplicate, NewLink, Held, csVars, advVars
  <2>2. c \notin proved
    BY <2>1 DEF AuthInv, ProvedOwnsSlot, SlotsEncrypted, NoSlotFor
  <2>3. connection_store(c) \/ UNCHANGED connections
    BY <1>2 DEF Connected, ConnectedRebootPending, ConnectedFirst, AcceptLink,
       ConnectedDuplicate, tableVars
  <2>4. CASE UNCHANGED connections
    BY <1>1, <2>1, <2>4
  <2>5. ASSUME NEW i \in Index, ~Tracked(c), FreeEntry(i),
               connections' = [connections EXCEPT ![i] = c]
        PROVE  Table!Store(c, i)
    <3>1. c \notin A /\ A' = A
      BY <1>1, <2>1, <2>2
    <3> QED BY <3>1, <2>5 DEF Table!Store, FreeEntry, EntryFor, Tracked
  <2> QED BY <2>3, <2>4, <2>5 DEF connection_store, tableVars
<1>3. ASSUME NEW c \in Conns, NEW r \in {"timeout", "other"}, Disconnected(c, r)
      PROVE  Table!Restart \/ Table!Remove(c)
  <2>1. CASE RebootNow(c, r)
    <3>1. connections' = [i \in Index |-> NULL] /\ proved' = {}
      BY <1>3, <2>1 DEF Disconnected, Reboot
    <3> QED BY <1>1, <3>1 DEF Table!Restart
  <2>2. CASE ~RebootNow(c, r)
    <3>1. connection_remove(c) /\ proved' = proved \ {c}
      BY <1>3, <2>2 DEF Disconnected, LinkGone
    <3>2. connections' = [i \in Index |-> IF connections[i] = c THEN NULL ELSE connections[i]]
      BY <3>1, EntryUnique DEF connection_remove
    <3>3. A' = A \ {c}
      BY <1>1, <3>1
    <3> QED BY <3>2, <3>3 DEF Table!Remove
  <2> QED BY <2>1, <2>2
<1>4. CASE ~ConnectedOrGone
  <2>1. UNCHANGED connections
    BY <1>4, ProofsGrow
  <2>2. CASE UNCHANGED proved
    BY <1>1, <2>1, <2>2 DEF Table!tableVars
  <2>3. ASSUME NEW c \in Conns, proved' = proved \cup {c}, c \notin proved
        PROVE  Table!Authenticate(c)
    <3>1. c \notin A /\ A' = A \cup {c}
      BY <1>1, <2>3
    <3> QED BY <3>1, <2>1 DEF Table!Authenticate
  <2>4. CASE ~UNCHANGED proved
    <3>1. PICK c \in Conns : proved' = proved \cup {c} /\ c \notin proved
      BY <1>4, <2>4, ProofsGrow
    <3> QED BY <3>1, <2>3 DEF Table!TableNext
  <2> QED BY <2>2, <2>4
<1>5. ASSUME NEW c \in Conns, NEW p \in Peers, Connected(c, p)
      PROVE  [Table!TableNext]_Table!tableVars
  BY <1>2, <1>5 DEF Table!TableNext, Table!tableVars
<1>6. ASSUME NEW c \in Conns, NEW r \in {"timeout", "other"}, Disconnected(c, r)
      PROVE  [Table!TableNext]_Table!tableVars
  BY <1>3, <1>6 DEF Table!TableNext
<1> QED BY <1>4, <1>5, <1>6 DEF ConnectedOrGone

(* SS1 implements LinkTable: a connection keeps its entry, starts without
   authentication on whatever object it gets and keeps it until it ends. *)
THEOREM Implements ==
    ASSUME MaxSecurityEvents = 1
    PROVE  Spec => TableSpec
<1>1. Init => Table!TableInit
  <2> SUFFICES ASSUME Init PROVE Table!TableInit
    OBVIOUS
  <2>1. \A i \in Index : slots[i].authenticated = FALSE
    BY DEF Init, EmptySlot
  <2>2. {c \in Conns : sentry_auth_is_authenticated(c)} = {}
    BY <2>1 DEF sentry_auth_is_authenticated
  <2> QED BY <2>2 DEF Init, Table!TableInit, Table!Index, Table!NULL, Index, NULL
<1>2. TableInv /\ AuthInv /\ TableInv' /\ AuthInv' /\ [Next]_vars
        => [Table!TableNext]_Table!tableVars
  BY StepRefines
<1> QED BY <1>1, <1>2, AuthInvariant, TableInvariant, PTL DEF Spec, TableSpec, Table!TableSpec
=============================================================================
