------------------------------ MODULE SS1Link ------------------------------
(***************************************************************************)
(* The peripheral (SS1): its connection table, advertising, the quiet      *)
(* period after a duplicate link, the cold reboot, the deferred unpair and *)
(* the certificate authentication slots (blinky/src/main.c and             *)
(* blinky/src/sentry_auth.c).                                              *)
(*                                                                         *)
(* Threads.  connected, security_changed and the GATT callbacks run one    *)
(* after the other in the Bluetooth receive thread; a certificate          *)
(* verification blocks that thread (variable rx).  auth_timeout, adv_work, *)
(* reconnect_quiet_work and unpair_work run on the system workqueue, and   *)
(* nothing in the code keeps them, or disconnected, from running while a   *)
(* verification is blocked.  Every other handler is one atomic step.       *)
(*                                                                         *)
(* The workqueue is cooperative, so unpair_work_handler(), too, is not      *)
(* interrupted between its look and bt_unpair().                           *)
(*                                                                         *)
(* External: the Bluetooth stack (link, held, peer, enc, advertising,      *)
(* stale).  It keeps the object of a link that is gone for a while after   *)
(* disconnected() has returned.                                            *)
(***************************************************************************)
EXTENDS Integers, FiniteSets

CONSTANTS
    Peers,              \* addresses of the devices that connect
    NoPeer,             \* no address
    MaxConn,            \* CONFIG_BT_MAX_CONN
    FailingPeers,       \* bound: peers whose pairing or encryption may fail
    MaxSecurityEvents,  \* bound: successful security_changed calls per link
    UnpairTries         \* 6 in unpair_work_handler

ASSUME MaxConnAssumption == MaxConn \in Nat \ {0}
ASSUME PeersAssumption == IsFiniteSet(Peers) /\ NoPeer \notin Peers
ASSUME BoundsAssumption == /\ MaxSecurityEvents \in Nat \ {0}
                           /\ UnpairTries \in Nat \ {0}

NULL == 0
Conns == 1..MaxConn     \* the stack's pool of connection objects, reused
Index == 1..MaxConn     \* indexes of connections[] and of slots[]

VARIABLES
    link,                 \* stack: "free", "up" or "closing", per object
    held,                 \* stack: objects whose link is gone, but whose
                          \* teardown is unfinished
    peer,                 \* stack: bt_conn_get_dst()
    enc,                  \* stack: successful security events of the link
    advertising,          \* stack: the connectable advertiser is on
    start_failed,         \* history: the last bt_le_adv_start() was refused
    stale,                \* stack: peers whose stored bond failed to encrypt
    connections, active_conn_count,
    reconnect_quiet, quiet_work,
    cold_reboot_pending,
    adv_work,
    unpair_addr, unpair_attempts, unpair_work,
    slots,                \* auth slots; heard is the set of peers that know
                          \* the nonce the slot holds
    rx,                   \* the verification the receive thread is blocked in
    proved,               \* links that passed verify_response: Channel
                          \* Sounding was set up on them
    dirty                 \* the controller lost a Channel Sounding link to a
                          \* supervision timeout and was not reset since

stackVars == <<link, held, peer, enc>>
advVars == <<advertising, start_failed>>
tableVars == <<connections, active_conn_count>>
quietVars == <<reconnect_quiet, quiet_work>>
unpairVars == <<unpair_addr, unpair_attempts, unpair_work>>
csVars == <<proved, dirty>>
vars == <<link, held, peer, enc, advertising, start_failed, stale, connections,
          active_conn_count, reconnect_quiet, quiet_work, cold_reboot_pending, adv_work,
          unpair_addr, unpair_attempts, unpair_work, slots, rx, proved, dirty>>

EmptySlot == [conn |-> NULL, nonce_valid |-> FALSE, authenticated |-> FALSE,
              timeout |-> FALSE, heard |-> Peers]
IdleRx == [st |-> "idle", conn |-> NULL, slot |-> NULL, from |-> NoPeer,
           match |-> FALSE]

Slot == [conn : Conns \cup {NULL}, nonce_valid : BOOLEAN,
         authenticated : BOOLEAN, timeout : BOOLEAN, heard : SUBSET Peers]
Rx == [st : {"idle", "cert", "nonce"}, conn : Conns \cup {NULL},
       slot : Index \cup {NULL}, from : Peers \cup {NoPeer}, match : BOOLEAN]

TypeOK ==
    /\ link \in [Conns -> {"free", "up", "closing"}]
    /\ held \in SUBSET Conns
    /\ peer \in [Conns -> Peers \cup {NoPeer}]
    /\ enc \in [Conns -> 0..MaxSecurityEvents]
    /\ advertising \in BOOLEAN
    /\ start_failed \in BOOLEAN
    /\ stale \in SUBSET Peers
    /\ connections \in [Index -> Conns \cup {NULL}]
    /\ active_conn_count \in 0..MaxConn
    /\ reconnect_quiet \in BOOLEAN
    /\ quiet_work \in BOOLEAN
    /\ cold_reboot_pending \in BOOLEAN
    /\ adv_work \in BOOLEAN
    /\ unpair_addr \in Peers \cup {NoPeer}
    /\ unpair_attempts \in 0..UnpairTries
    /\ unpair_work \in BOOLEAN
    /\ slots \in [Index -> Slot]
    /\ rx \in Rx
    /\ proved \in SUBSET Conns
    /\ dirty \in BOOLEAN

(***************************************************************************)
(* RAM as the boot leaves it: main() has called advertising_start() and no *)
(* link exists.  An all-zero nonce is known to everyone.                   *)
(***************************************************************************)
Init ==
    /\ link = [c \in Conns |-> "free"]
    /\ held = {}
    /\ peer = [c \in Conns |-> NoPeer]
    /\ enc = [c \in Conns |-> 0]
    /\ advertising = TRUE
    /\ start_failed = FALSE
    /\ stale = {}
    /\ connections = [i \in Index |-> NULL]
    /\ active_conn_count = 0
    /\ reconnect_quiet = FALSE
    /\ quiet_work = FALSE
    /\ cold_reboot_pending = FALSE
    /\ adv_work = FALSE
    /\ unpair_addr = NoPeer
    /\ unpair_attempts = 0
    /\ unpair_work = FALSE
    /\ slots = [i \in Index |-> EmptySlot]
    /\ rx = IdleRx
    /\ proved = {}
    /\ dirty = FALSE

----------------------------------------------------------------------------
(* Table, slots and stack calls the handlers share. *)

Live(c) == link[c] # "free"
Held(c) == Live(c) \/ c \in held                          \* bt_conn_lookup_addr_le() finds it
Tracked(c) == \E i \in Index : connections[i] = c           \* connection_index() >= 0
EntryFor(c, i) == /\ connections[i] = c                     \* connection_index() = i
                  /\ \A j \in Index : j < i => connections[j] # c
FreeEntry(i) == EntryFor(NULL, i)
SlotFor(c, i) == /\ slots[i].conn = c                       \* slot_for() returns &slots[i]
                 /\ \A j \in Index : j < i => slots[j].conn # c
NoSlotFor(c) == \A i \in Index : slots[i].conn # c
FreeSlot(i) == SlotFor(NULL, i)

sentry_auth_is_authenticated(c) ==
    \E i \in Index : SlotFor(c, i) /\ slots[i].authenticated

(* bt_conn_disconnect() on the connections of D that are up: the stack tears
   them down and calls disconnected() later. *)
bt_conn_disconnect(D) ==
    link' = [c \in Conns |-> IF c \in D /\ link[c] = "up" THEN "closing" ELSE link[c]]

connection_store(c) ==
    \/ \E i \in Index : /\ ~Tracked(c)
                        /\ FreeEntry(i)
                        /\ connections' = [connections EXCEPT ![i] = c]
                        /\ active_conn_count' = active_conn_count + 1
    \/ /\ Tracked(c) \/ \A i \in Index : connections[i] # NULL
       /\ UNCHANGED tableVars

CountWithout(c) == IF Tracked(c) /\ active_conn_count > 0
                   THEN active_conn_count - 1 ELSE active_conn_count

(* Mutants of connection_remove: the count goes down for a connection that is
   not in the table; the entry is not cleared. *)
CountDownAlways(c) ==
    /\ connections' = [i \in Index |-> IF EntryFor(c, i) THEN NULL ELSE connections[i]]
    /\ active_conn_count' = IF active_conn_count > 0 THEN active_conn_count - 1 ELSE 0
KeepEntry(c) ==
    /\ UNCHANGED connections
    /\ active_conn_count' = CountWithout(c)

connection_remove(c) ==
    /\ connections' = [i \in Index |-> IF EntryFor(c, i) THEN NULL ELSE connections[i]]
    /\ active_conn_count' = CountWithout(c)

(* bt_le_adv_start() needs a connection object for the link to come, which may
   be missing although the table has room, and may fail for other reasons; the
   error is printed.  It changes nothing if the advertiser is on. *)
advertising_start(quiet) ==
    \/ /\ quiet \/ active_conn_count = MaxConn \/ advertising
       /\ UNCHANGED advVars
    \/ /\ ~quiet /\ active_conn_count < MaxConn /\ ~advertising
       /\ advertising' \in {FALSE, \E c \in Conns : ~Held(c)}
       /\ start_failed' = ~advertising'

(* Mutant of LooksAfresh: the looks of the last failure count for this one. *)
LooksGoOn == UNCHANGED unpair_attempts

LooksAfresh == unpair_attempts' = 0

(* pairing_failed() is this call and nothing else; the stack reports the same
   failure to security_changed(), which repeats it. *)
schedule_unpair(c) ==
    /\ unpair_addr' = peer[c]
    /\ LooksAfresh
    /\ unpair_work' = TRUE
    /\ stale' = stale \cup {peer[c]}

----------------------------------------------------------------------------
(* Connection callbacks. *)

(* The stack gives a new link the first free object and stops advertising. *)
NewLink(c, p) ==
    /\ rx.st = "idle"
    /\ advertising
    /\ ~Held(c) /\ \A d \in Conns : d < c => Held(d)
    /\ advertising' = FALSE
    /\ peer' = [peer EXCEPT ![c] = p]

(* Mutant of SamePeer: the scan stops at the first empty entry. *)
SamePeerUpToGap(c, p) ==
    {d \in Conns : \E i \in Index : /\ connections[i] = d /\ peer[d] = p
                                    /\ \A j \in 1..i : connections[j] # NULL}

SamePeer(c, p) == {d \in Conns : d # c /\ Tracked(d) /\ peer[d] = p}

ConnectedRebootPending(c, p) ==
    /\ cold_reboot_pending
    /\ NewLink(c, p)
    /\ link' = [link EXCEPT ![c] = "closing"]
    /\ UNCHANGED <<held, enc, start_failed, stale, tableVars, quietVars,
                   cold_reboot_pending, adv_work, unpairVars, slots, rx, csVars>>

(* The last test of connected(), after the link was stored; its mutant is one
   off. *)
RoomForOneMoreOff(c) == \E i \in Index : connections'[i] = c /\ active_conn_count' + 1 < MaxConn

RoomForOneMore(c) == \E i \in Index : connections'[i] = c /\ active_conn_count' < MaxConn

AcceptLink(c, p) ==
    /\ SamePeer(c, p) = {}
    /\ NewLink(c, p)
    /\ connection_store(c)
    /\ link' = [link EXCEPT ![c] = IF \E i \in Index : connections'[i] = c
                                   THEN "up" ELSE "closing"]
    /\ adv_work' = (adv_work \/ RoomForOneMore(c))
    /\ UNCHANGED <<held, enc, start_failed, stale, quietVars, cold_reboot_pending,
                   unpairVars, slots, rx, csVars>>

(* Mutant of ConnectedFirst: the pending reboot is not looked at. *)
ConnectedAnyway(c, p) == AcceptLink(c, p)

ConnectedFirst(c, p) == ~cold_reboot_pending /\ AcceptLink(c, p)

(* Mutant of StartQuiet: it is left to disconnected() to schedule the work. *)
StartQuietUnscheduled == reconnect_quiet' = TRUE /\ UNCHANGED quiet_work
StartQuiet == reconnect_quiet' = TRUE /\ quiet_work' = TRUE

ConnectedDuplicate(c, p) ==
    /\ ~cold_reboot_pending
    /\ SamePeer(c, p) # {}
    /\ NewLink(c, p)
    /\ StartQuiet
    /\ connection_store(c)
    /\ link' = [d \in Conns |-> IF d = c \/ d \in SamePeer(c, p) THEN "closing" ELSE link[d]]
    /\ UNCHANGED <<held, enc, start_failed, stale, cold_reboot_pending, adv_work,
                   unpairVars, slots, rx, csVars>>

Connected(c, p) == \/ ConnectedRebootPending(c, p)
                   \/ ConnectedFirst(c, p)
                   \/ ConnectedDuplicate(c, p)

(* Mutant of sentry_auth_conn_removed: the slot is not given back. *)
KeepSlot(c) == UNCHANGED slots

sentry_auth_conn_removed(c) ==
    slots' = [i \in Index |-> IF SlotFor(c, i) THEN EmptySlot ELSE slots[i]]

(* The link is over when disconnected() is called; its object is not free. *)
LinkGone(c) ==
    /\ link' = [link EXCEPT ![c] = "free"]
    /\ held' = held \cup {c}
    /\ enc' = [enc EXCEPT ![c] = 0]
    /\ proved' = proved \ {c}

(* sys_reboot(): the Channel Sounding controller is reset, links vanish, and
   the new boot advertises.  Bonds live in flash. *)
Reboot ==
    /\ link' = [d \in Conns |-> "free"]
    /\ held' = {}
    /\ peer' = [d \in Conns |-> NoPeer]
    /\ enc' = [d \in Conns |-> 0]
    /\ advertising' = TRUE
    /\ start_failed' = FALSE
    /\ connections' = [i \in Index |-> NULL]
    /\ active_conn_count' = 0
    /\ reconnect_quiet' = FALSE /\ quiet_work' = FALSE
    /\ cold_reboot_pending' = FALSE
    /\ adv_work' = FALSE
    /\ unpair_addr' = NoPeer /\ unpair_attempts' = 0 /\ unpair_work' = FALSE
    /\ slots' = [i \in Index |-> EmptySlot]
    /\ rx' = IdleRx
    /\ proved' = {} /\ dirty' = FALSE
    /\ UNCHANGED stale

(* Mutant of WasAuthenticated: read after sentry_auth_conn_removed(). *)
WasAuthenticatedLate(c) == EmptySlot.authenticated

WasAuthenticated(c) == sentry_auth_is_authenticated(c)

(* cold_reboot_pending as disconnected() leaves it, and its test for the
   reboot, with the count connection_remove() has just updated. *)
RebootNeeded(c, reason) ==
    cold_reboot_pending \/ (WasAuthenticated(c) /\ reason = "timeout")

(* Mutant of RebootNow: the count is tested before the connection is removed. *)
RebootNowEarly(c, reason) == RebootNeeded(c, reason) /\ active_conn_count = 0

RebootNow(c, reason) == RebootNeeded(c, reason) /\ CountWithout(c) = 0

Disconnected(c, reason) ==
    /\ Live(c)
    /\ IF RebootNow(c, reason)
       THEN Reboot
       ELSE /\ LinkGone(c)
            /\ connection_remove(c)
            /\ sentry_auth_conn_removed(c)
            /\ cold_reboot_pending' = RebootNeeded(c, reason)
            /\ quiet_work' = (quiet_work \/ reconnect_quiet)
            /\ adv_work' = (adv_work \/ (~reconnect_quiet /\ active_conn_count' < MaxConn))
            /\ dirty' = (dirty \/ (c \in proved /\ reason = "timeout"))
            /\ UNCHANGED <<peer, advVars, stale, reconnect_quiet, unpairVars, rx>>

(* The teardown is finished: the stack gives the object back, unless the
   receive thread is still at work on it. *)
Released(c) ==
    /\ c \in held /\ rx.conn # c
    /\ held' = held \ {c}
    /\ peer' = [peer EXCEPT ![c] = NoPeer]
    /\ UNCHANGED <<link, enc, advVars, stale, tableVars, quietVars, cold_reboot_pending,
                   adv_work, unpairVars, slots, rx, csVars>>

----------------------------------------------------------------------------
(* Security callbacks and the certificate authentication. *)

(* Mutants: slot_alloc() leaves the flag alone; the timer is not started. *)
SlotKeepingFlag(i, c) == [slots[i] EXCEPT !.conn = c, !.nonce_valid = FALSE]
SlotWithoutTimer(i, c) ==
    [conn |-> c, nonce_valid |-> TRUE, authenticated |-> FALSE,
     timeout |-> FALSE, heard |-> {}]

(* What sentry_auth_conn_added() writes to the slot it allocates. *)
SlotWithoutNonce(i, c) ==
    [slots[i] EXCEPT !.conn = c, !.nonce_valid = FALSE, !.authenticated = FALSE]
SlotWithNonce(i, c) ==
    [conn |-> c, nonce_valid |-> TRUE, authenticated |-> FALSE,
     timeout |-> TRUE, heard |-> {}]

sentry_auth_conn_added(c) ==
    \/ /\ \A i \in Index : slots[i].conn # NULL             \* no free auth slot
       /\ UNCHANGED <<slots, link>>
    \/ \E i \in Index : /\ FreeSlot(i)                      \* no random nonce
                        /\ slots' = [slots EXCEPT ![i] = SlotWithoutNonce(i, c)]
                        /\ bt_conn_disconnect({c})
    \/ \E i \in Index : /\ FreeSlot(i)
                        /\ slots' = [slots EXCEPT ![i] = SlotWithNonce(i, c)]
                        /\ UNCHANGED link

SecurityEstablished(c) ==
    /\ rx.st = "idle"
    /\ Live(c) /\ enc[c] < MaxSecurityEvents
    /\ enc' = [enc EXCEPT ![c] = @ + 1]
    /\ stale' = stale \ {peer[c]}
    /\ sentry_auth_conn_added(c)
    /\ UNCHANGED <<held, peer, advVars, tableVars, quietVars, cold_reboot_pending,
                   adv_work, unpairVars, rx, csVars>>

SecurityFailed(c) ==
    /\ rx.st = "idle"
    /\ Live(c) /\ enc[c] < MaxSecurityEvents
    /\ peer[c] \in FailingPeers
    /\ schedule_unpair(c)
    /\ bt_conn_disconnect({c})
    /\ UNCHANGED <<held, peer, enc, advVars, tableVars, quietVars, cold_reboot_pending,
                   adv_work, slots, rx, csVars>>

unchangedButAuth == <<held, peer, enc, advVars, stale, tableVars, quietVars,
                      cold_reboot_pending, adv_work, unpairVars>>

(* The auth characteristics ask for an encrypted link. *)
AuthAccess(c, i) == /\ rx.st = "idle"
                    /\ Live(c) /\ enc[c] > 0
                    /\ SlotFor(c, i)

ReadChallenge(c) ==
    /\ \E i \in Index :
         /\ AuthAccess(c, i)
         /\ slots[i].nonce_valid
         /\ slots' = [slots EXCEPT ![i].heard = @ \cup {peer[c]}]
    /\ UNCHANGED <<unchangedButAuth, link, rx, csVars>>

(* write_response_cb() up to the first signature check; a response of the
   wrong length or version, or one without a valid nonce, is refused. *)
WriteResponse(c) ==
    /\ \E i \in Index :
         /\ AuthAccess(c, i)
         /\ \/ /\ bt_conn_disconnect({c})
               /\ UNCHANGED rx
            \/ /\ slots[i].nonce_valid
               /\ rx' = [st |-> "cert", conn |-> c, slot |-> i, from |-> peer[c],
                         match |-> FALSE]
               /\ UNCHANGED link
    /\ UNCHANGED <<unchangedButAuth, slots, csVars>>

RefuseResponse ==
    /\ bt_conn_disconnect({rx.conn})
    /\ rx' = IdleRx
    /\ UNCHANGED <<unchangedButAuth, slots, csVars>>

(* The certificate signature is checked; if it is the CA's, the check of the
   nonce signature starts on the nonce the slot holds by then.  Only a peer
   that knows this nonce can have signed it. *)
CertChecked ==
    /\ rx.st = "cert"
    /\ \/ RefuseResponse
       \/ \E m \in BOOLEAN :
            /\ m => rx.from \in slots[rx.slot].heard
            /\ rx' = [rx EXCEPT !.st = "nonce", !.match = m]
            /\ UNCHANGED <<unchangedButAuth, link, slots, csVars>>

(* cs_reflector_conn_ready() fails on a link that is gone. *)
cs_reflector_conn_ready(c) ==
    /\ proved' = IF Live(c) THEN proved \cup {c} ELSE proved
    /\ UNCHANGED dirty

NonceChecked ==
    /\ rx.st = "nonce"
    /\ \/ ~rx.match /\ RefuseResponse
       \/ /\ rx.match
          /\ slots' = [slots EXCEPT ![rx.slot].authenticated = TRUE,
                                    ![rx.slot].nonce_valid = FALSE,
                                    ![rx.slot].timeout = FALSE]
          /\ cs_reflector_conn_ready(rx.conn)
          /\ rx' = IdleRx
          /\ UNCHANGED <<unchangedButAuth, link>>

----------------------------------------------------------------------------
(* System workqueue. *)

(* Mutant of Overdue: a slot whose nonce is still valid is left alone. *)
OverdueIfUsed(i) == slots[i].conn # NULL /\ ~slots[i].authenticated /\ ~slots[i].nonce_valid

Overdue(i) == slots[i].conn # NULL /\ ~slots[i].authenticated

AuthTimeout(i) ==
    /\ slots[i].timeout
    /\ slots' = [slots EXCEPT ![i].timeout = FALSE]
    /\ IF Overdue(i) THEN bt_conn_disconnect({slots[i].conn}) ELSE UNCHANGED link
    /\ UNCHANGED <<unchangedButAuth, rx, csVars>>

AdvWork ==
    /\ adv_work
    /\ adv_work' = FALSE
    /\ advertising_start(reconnect_quiet)
    /\ UNCHANGED <<stackVars, stale, tableVars, quietVars, cold_reboot_pending,
                   unpairVars, slots, rx, csVars>>

QuietWork ==
    /\ quiet_work
    /\ quiet_work' = FALSE
    /\ reconnect_quiet' = FALSE
    /\ advertising_start(FALSE)
    /\ UNCHANGED <<stackVars, stale, tableVars, cold_reboot_pending, adv_work,
                   unpairVars, slots, rx, csVars>>

(* Mutant of RetryUnpair: the handler retries without end. *)
RetryForever(attempts) == TRUE

(* unpair_work_handler(): bt_unpair() only once no link to the address, and no
   unfinished teardown of one, is left, after at most UnpairTries looks. *)
RetryUnpair(attempts) == attempts < UnpairTries
AddressInUse(p) == \E c \in Conns : Held(c) /\ peer[c] = p

UnpairWork ==
    /\ unpair_work
    /\ IF AddressInUse(unpair_addr)
       THEN /\ unpair_attempts' = unpair_attempts + 1
            /\ unpair_work' = RetryUnpair(unpair_attempts')
            /\ UNCHANGED stale
       ELSE /\ unpair_work' = FALSE
            /\ stale' = stale \ {unpair_addr}
            /\ UNCHANGED unpair_attempts
    /\ UNCHANGED <<stackVars, advVars, tableVars, quietVars, cold_reboot_pending,
                   adv_work, unpair_addr, slots, rx, csVars>>

----------------------------------------------------------------------------
Next ==
    \/ \E c \in Conns, p \in Peers : Connected(c, p)
    \/ \E c \in Conns, reason \in {"timeout", "other"} : Disconnected(c, reason)
    \/ \E c \in Conns : \/ Released(c)
                        \/ SecurityEstablished(c)
                        \/ SecurityFailed(c)
                        \/ ReadChallenge(c)
                        \/ WriteResponse(c)
    \/ CertChecked
    \/ NonceChecked
    \/ \E i \in Index : AuthTimeout(i)
    \/ AdvWork
    \/ QuietWork
    \/ UnpairWork

Spec == Init /\ [][Next]_vars

----------------------------------------------------------------------------
(* Safety *)

(* active_conn_count, which gates advertising and the reboot, is the number
   of occupied entries of connections[]: no path through the connection
   callbacks updates one without the other. *)
CountMatchesTable ==
    active_conn_count = Cardinality({i \in Index : connections[i] # NULL})

EntriesLive == \A i \in Index : connections[i] # NULL => Live(connections[i])
EntriesDistinct == \A i, j \in Index :
    connections[i] = connections[j] => i = j \/ connections[i] = NULL
UpLinksTracked == \A c \in Conns : link[c] = "up" => Tracked(c)

(* connections[] holds live links only, each once; and a link connected()
   did not turn away is in it, so the table never overflows before the
   stack's own pool does. *)
TableMirrorsLinks == EntriesLive /\ EntriesDistinct /\ UpLinksTracked

SlotsLive == \A i \in Index : slots[i].conn # NULL => Live(slots[i].conn)
SlotsDistinct == \A i, j \in Index :
    slots[i].conn = slots[j].conn => i = j \/ slots[i].conn = NULL
EncryptedHasSlot == \A c \in Conns : link[c] = "up" /\ enc[c] > 0 => ~NoSlotFor(c)

(* Each auth slot belongs to a link that is still there, no link has two, and
   an encrypted link that is up always has one: a slot is neither leaked to
   the next user of the connection object nor missing. *)
SlotsMirrorLinks == SlotsLive /\ SlotsDistinct /\ EncryptedHasSlot

(* sentry_auth_is_authenticated() holds only for a connection whose present
   link passed both signature checks, although connection objects and slots
   are reused and a link may go, or time out, while its response is checked. *)
AuthIsEarned ==
    \A c \in Conns : sentry_auth_is_authenticated(c) => c \in proved

(* Every encrypted link that is up and not authenticated has its 10 s timer
   running: no order of failures leaves one that nothing will ever close. *)
UnauthenticatedIsTimed ==
    \A c \in Conns : link[c] = "up" /\ enc[c] > 0 /\ ~sentry_auth_is_authenticated(c)
        => \E i \in Index : slots[i].conn = c /\ slots[i].timeout

(* A peer that reconnects before its half-dead link is gone never has two
   links in use at once (connected(), duplicate peer). *)
OneUsableLinkPerPeer ==
    \A c, d \in Conns : link[c] = "up" /\ link[d] = "up" /\ peer[c] = peer[d] => c = d

(* While reconnect_quiet is set SS1 does not advertise, and the work that
   ends the quiet period is scheduled. *)
QuietPeriod == reconnect_quiet => quiet_work /\ ~advertising

(* Whenever SS1 is not advertising there is a reason that ends: the table is
   full, a link is being torn down (its disconnected() restarts advertising),
   or one of the works that restart it is pending; or else the last start was
   refused.  That is all that can silence SS1: the works run once, and when
   bt_le_adv_start() fails, say because the teardown of a lost link still holds
   its object, advertising_start() prints the error and nobody tries again. *)
AdvertisingIsOwed ==
    \/ advertising \/ adv_work \/ quiet_work
    \/ active_conn_count = MaxConn
    \/ \E c \in Conns : link[c] = "closing"
    \/ start_failed

(* A pending cold reboot always has a tracked link to wait for: it is never
   left pending once the last one is gone. *)
RebootWaitsForLinks == cold_reboot_pending => active_conn_count > 0

(* Once a Channel Sounding link was lost to a supervision timeout, no further
   link is accepted until the controller was reset. *)
NoNewLinkOnDirtyController ==
    [][dirty => \A c \in Conns : Tracked(c)' => Tracked(c)]_vars

(* The bond of the last peer whose pairing failed is removed, or will be, or
   the handler has looked UnpairTries times since that failure and found a link
   to the peer or its teardown each time: failures of other peers, and looks
   that an earlier failure used up, do not cost it the removal. *)
LastFailedBondHandled ==
    unpair_addr \in stale => unpair_work \/ unpair_attempts = UnpairTries

(* What the rest of the program sees of the table and the authentication. *)
Table == INSTANCE LinkTable WITH
    authenticated <- {c \in Conns : sentry_auth_is_authenticated(c)}

(* SS1 implements LinkTable: every link starts unauthenticated on whatever
   object and slot it gets, stays authenticated until it ends, and keeps its
   entry of connections[]. *)
TableSpec == Table!TableSpec

(* What main.c:549-553 says of the quiet period: when SS1 advertises again, the
   two links of the duplicate peer are gone. *)
ResetDoneBeforeAdvertising ==
    advertising => \A c, d \in Conns : Tracked(c) /\ Tracked(d) /\ peer[c] = peer[d] => c = d

(* What main.c:284-285 says of a failed pairing: the bond that cannot encrypt
   any more is cleared, so none is left once the work is done. *)
StaleBondsCleared == ~unpair_work => stale = {}

----------------------------------------------------------------------------
(* Liveness.  Timers fire, works run, the verification returns, and the stack
   completes a teardown it was asked for and gives the object back in the end.
   Nothing is assumed of the peers. *)
Fairness ==
    /\ \A c \in Conns : WF_vars(link[c] = "closing" /\ \E r \in {"timeout", "other"} : Disconnected(c, r))
    /\ \A c \in Conns : WF_vars(Released(c))
    /\ WF_vars(CertChecked) /\ WF_vars(NonceChecked)
    /\ \A i \in Index : WF_vars(AuthTimeout(i))
    /\ WF_vars(AdvWork) /\ WF_vars(QuietWork) /\ WF_vars(UnpairWork)

FairSpec == Spec /\ Fairness

(* An encrypted link is authenticated or gone in the end, whatever its peer
   sends or does not send. *)
EncryptedLinkResolves ==
    \A c \in Conns : enc[c] > 0 ~> (enc[c] = 0 \/ sentry_auth_is_authenticated(c))

(* With room in the table SS1 advertises again, unless the reboot is pending or
   bt_le_adv_start() refuses: the works and the teardowns it waits for never
   wait for each other. *)
AdvertisingResumes ==
    active_conn_count < MaxConn
        ~> \/ advertising \/ active_conn_count = MaxConn \/ cold_reboot_pending
           \/ start_failed

(* If every link is left by its client, now and then, a pending cold reboot
   happens: links that come meanwhile do not postpone it for ever. *)
ClientsLeave == \A c \in Conns : []<>(link[c] # "up")
RebootHappens == ClientsLeave => (cold_reboot_pending ~> ~cold_reboot_pending)

(* What sentry_auth.c:11-13 says: a connection that does not authenticate in
   time is disconnected. *)
ConnectionResolves ==
    \A c \in Conns : link[c] = "up" ~> (link[c] # "up" \/ sentry_auth_is_authenticated(c))
=============================================================================
