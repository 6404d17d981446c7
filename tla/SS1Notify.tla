----------------------------- MODULE SS1Notify -----------------------------
(***************************************************************************)
(* The notify loops of SS1's main thread (notify_temperature(),            *)
(* notify_humidity() and, for the maintenance button, notify_led_state()   *)
(* in blinky/src/main.c).  They differ in the characteristic only.  Main   *)
(* is the thread of the lowest priority, so the connection callbacks and   *)
(* the authentication, which LinkTable stands for, may run between any two *)
(* of its reads of connections[i].                                         *)
(*                                                                         *)
(* External: the GATT server's subscriptions, and bt_gatt_notify(), which  *)
(* serves every subscribed connection when it is given none.               *)
(***************************************************************************)
EXTENDS LinkTable

ASSUME MaxConnAssumption == MaxConn \in Nat \ {0}

VARIABLES
    subscribed,     \* stack: connections that enabled the notifications
    pc,             \* the next read of main: "idle", "check", "authentication",
                    \* "subscription", "send"
    i,              \* the loop's index
    owed,           \* connections that could be notified since the loop began
    sent            \* connections the loop has notified

loopVars == <<pc, i, sent>>
vars == <<tableVars, subscribed, loopVars, owed>>

TypeOK ==
    /\ connections \in [Index -> Conns \cup {NULL}]
    /\ authenticated \in SUBSET Conns
    /\ subscribed \in SUBSET Conns
    /\ pc \in {"idle", "check", "authentication", "subscription", "send"}
    /\ i \in 1..(MaxConn + 1)
    /\ owed \in SUBSET Conns
    /\ sent \in SUBSET Conns

Init ==
    /\ TableInit
    /\ subscribed = {}
    /\ pc = "idle" /\ i = 1 /\ owed = {} /\ sent = {}

----------------------------------------------------------------------------
(* The callbacks, between two steps of main. *)

Ready == {c \in Conns : Tracked(c)} \cap authenticated \cap subscribed
StillOwed == owed' = owed \cap Ready'

Connected(c) ==
    /\ \E k \in Index : Store(c, k)
    /\ UNCHANGED <<subscribed, loopVars, owed>>

Authenticated(c) ==
    /\ Authenticate(c)
    /\ UNCHANGED <<subscribed, loopVars, owed>>

Disconnected(c) ==
    /\ Remove(c)
    /\ subscribed' = subscribed \ {c}
    /\ StillOwed
    /\ UNCHANGED loopVars

(* The descriptors ask for an encrypted link, not for an authenticated one. *)
CccWritten(c) ==
    /\ Tracked(c)
    /\ \/ subscribed' = subscribed \cup {c}
       \/ subscribed' = subscribed \ {c}
    /\ UNCHANGED <<tableVars, loopVars>>
    /\ StillOwed

(* sys_reboot() *)
Reboot ==
    /\ Restart
    /\ subscribed' = {}
    /\ pc' = "idle" /\ i' = 1 /\ owed' = {} /\ sent' = {}

----------------------------------------------------------------------------
(* The loop.  connections[i] is read again for every call. *)

Start ==
    /\ pc = "idle"
    /\ pc' = "check" /\ i' = 1
    /\ owed' = Ready /\ sent' = {}
    /\ UNCHANGED <<tableVars, subscribed>>

GoTo(step) == pc' = step /\ UNCHANGED i
(* Mutant of NextEntry: break instead of continue. *)
LeaveLoop == i' = MaxConn + 1 /\ pc' = "check"
NextEntry == i' = i + 1 /\ pc' = "check"

CheckEntry ==
    /\ pc = "check" /\ i <= MaxConn
    /\ IF connections[i] # NULL THEN GoTo("authentication") ELSE NextEntry
    /\ UNCHANGED <<tableVars, subscribed, owed, sent>>

(* sentry_auth_is_authenticated() of no connection looks at the first free
   slot, where a verification whose link went may have left its flag. *)
CheckAuthenticated ==
    /\ pc = "authentication"
    /\ \/ connections[i] \in authenticated \cup {NULL} /\ GoTo("subscription")
       \/ connections[i] \notin authenticated /\ NextEntry
    /\ UNCHANGED <<tableVars, subscribed, owed, sent>>

(* bt_gatt_is_subscribed() of no connection: it reads through the null pointer
   and may answer anything. *)
CheckSubscription ==
    /\ pc = "subscription"
    /\ \/ connections[i] \in subscribed \cup {NULL} /\ GoTo("send")
       \/ connections[i] \notin subscribed /\ NextEntry
    /\ UNCHANGED <<tableVars, subscribed, owed, sent>>

(* Whom bt_gatt_notify() serves. *)
Recipients(c) == IF c = NULL THEN subscribed ELSE {c} \cap subscribed

Send ==
    /\ pc = "send"
    /\ sent' = sent \cup Recipients(connections[i])
    /\ NextEntry
    /\ UNCHANGED <<tableVars, subscribed, owed>>

(* Mutant of LeaveAtEnd: the loop runs on behind the table. *)
RunOn == i' = i + 1 /\ UNCHANGED pc
LeaveAtEnd == GoTo("idle")

LoopDone ==
    /\ pc = "check" /\ i > MaxConn
    /\ LeaveAtEnd
    /\ UNCHANGED <<tableVars, subscribed, owed, sent>>

----------------------------------------------------------------------------
Next ==
    \/ \E c \in Conns : Connected(c) \/ Authenticated(c) \/ Disconnected(c) \/ CccWritten(c)
    \/ Reboot
    \/ Start \/ CheckEntry \/ CheckAuthenticated \/ CheckSubscription \/ Send \/ LoopDone

Spec == Init /\ [][Next]_vars

(* A connection that was authenticated and subscribed when the loop began and
   still is when it ends was notified, whoever came and went meanwhile: it
   never moves to an entry the loop has passed. *)
NobodyMissed == pc = "check" /\ i > MaxConn => owed \subseteq sent

(* sentry_auth.h:13-14: sensitive characteristics stay locked until
   sentry_auth_is_authenticated() is true for the connection.  So a value goes
   to authenticated connections only. *)
LockedUntilAuthenticated ==
    [][sent' \subseteq sent \cup authenticated]_vars
=============================================================================
