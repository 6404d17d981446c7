----------------------------- MODULE CsRanging -----------------------------
(***************************************************************************)
(* Channel Sounding on SS2: how subevent results of the controller and the *)
(* ranging data of the peer meet in the one step buffer that the semaphore *)
(* sem_local_steps guards (Blonky/src/cs_initiator.c).  All callbacks run  *)
(* in the Bluetooth receive thread, one after the other.                   *)
(*                                                                         *)
(* With RAS_FEAT_REALTIME_RD the peer sends the data of every procedure by *)
(* itself; without it the peer announces them and SS2 fetches them.  Its   *)
(* data may be late, when SS2 is at a later procedure, or early, before    *)
(* the last local result of their own: the callbacks check neither.        *)
(*                                                                         *)
(* External: the controller (proc, ended, subevents, measured), and the    *)
(* peer, its ranging service and transfers (ahead, outstanding, fetching). *)
(***************************************************************************)
EXTENDS Integers, FiniteSets

CONSTANTS
    ProcedureCounters,   \* values of the procedure counter (65536)
    RangingCounters,     \* values of the ranging counter (4096)
    MaxSubevents,        \* bound: subevents of a procedure
    Modes                \* the ways the peer may be set up, records of Mode

ASSUME CountersAssumption ==
    /\ RangingCounters \in Nat \ {0}
    /\ ProcedureCounters \in Nat \ {0}
    /\ ProcedureCounters % RangingCounters = 0
ASSUME BoundsAssumption ==
    /\ MaxSubevents \in Nat \ {0}
    /\ \A m \in Modes :
         /\ {m.realtime, m.lossy, m.keepsAborted, m.early} \subseteq BOOLEAN
         /\ m.capacity \in Nat \ {0} /\ m.relinks \in Nat
         /\ m.window \in Nat \ {0} /\ m.window < RangingCounters

None == -1
Procedures == 0..(ProcedureCounters - 1)
Steps == [proc : Procedures, sub : 1..MaxSubevents, old : BOOLEAN]
Step(p, n) == [proc |-> p, sub |-> n, old |-> FALSE]

VARIABLES
    mode,        \* realtime: RAS_FEAT_REALTIME_RD, which the peer announces
                 \* lossy: its transfers may fail
                 \* keepsAborted: it also reports the procedures that aborted
                 \* early: it may report one that has not ended here
                 \* relinks: bound, times the link is lost and replaced
                 \* window: bound, procedures it has still to report
                 \* capacity: subevents the buffer has room for
    sem_local_steps,
    latest_local_steps,                  \* the steps in the buffer, a set; old:
                                         \* measured on an earlier link
    most_recent_local_ranging_counter, dropped_ranging_counter,
    proc, subevents, ended,   \* controller: the present procedure
    measured,            \* controller: the steps it delivered, by procedure,
                         \* as long as the peer's data are to come
    ahead,               \* peer: it has reported the present procedure already
    outstanding,         \* peer: procedures it has still to report, in order
    fetching,            \* the procedure whose data are being transferred
    relinks,             \* how often the link has been replaced
    spoiled              \* history: what the buffer holds is not the doing of one
                         \* procedure alone (see Spoils), and none has taken it
                         \* empty since

bufferVars == <<sem_local_steps, latest_local_steps>>
counterVars == <<most_recent_local_ranging_counter, dropped_ranging_counter>>
controllerVars == <<proc, subevents, ended, measured>>
vars == <<mode, bufferVars, counterVars, controllerVars, ahead, outstanding, fetching,
          relinks, spoiled>>

TypeOK ==
    /\ mode \in Modes
    /\ sem_local_steps \in 0..1
    /\ latest_local_steps \in SUBSET Steps
    /\ most_recent_local_ranging_counter \in 0..(RangingCounters - 1) \cup {None}
    /\ dropped_ranging_counter \in Procedures \cup {None}
    /\ proc \in Procedures /\ subevents \in 0..MaxSubevents /\ ended \in BOOLEAN
    /\ measured \in SUBSET Steps
    /\ outstanding \in SUBSET Procedures
    /\ fetching \in Procedures \cup {None}
    /\ relinks \in 0..mode.relinks /\ ahead \in BOOLEAN /\ spoiled \in BOOLEAN

Init ==
    /\ mode \in Modes
    /\ sem_local_steps = 1 /\ latest_local_steps = {}
    /\ most_recent_local_ranging_counter = None /\ dropped_ranging_counter = None
    /\ proc = ProcedureCounters - 1 /\ subevents = 0 /\ ended = TRUE /\ measured = {}
    /\ ahead = FALSE /\ outstanding = {} /\ fetching = None /\ relinks = 0
    /\ spoiled = FALSE

----------------------------------------------------------------------------
(* bt_ras_rreq_get_ranging_counter(): the low bits of the procedure counter. *)
RangingCounter(p) == p % RangingCounters

(* Mutant of k_sem_give: K_SEM_DEFINE without the limit of 1. *)
SemGiveUnlimited == sem_local_steps' = sem_local_steps + 1
k_sem_give == sem_local_steps' = 1
ResetAndGive == latest_local_steps' = {} /\ k_sem_give

(* How long ago procedure p was, in procedures. *)
Age(p) == (proc - p) % ProcedureCounters
Waiting == outstanding \cup ({fetching} \ {None})
Oldest(p) == p \in outstanding /\ \A q \in outstanding : Age(q) <= Age(p)

----------------------------------------------------------------------------
(* subevent_result_cb() of procedure p, with the steps that were measured: none
   if the subevent aborted or came without step data. *)

(* Mutant of Dropped: the rest of a dropped procedure is not ignored. *)
NoneDropped(p) == FALSE
Dropped(p) == dropped_ranging_counter = p
NewProcedure(p) == most_recent_local_ranging_counter # RangingCounter(p)
NoBuffer(p) == NewProcedure(p) /\ sem_local_steps = 0

IgnoreResult(p) ==
    /\ Dropped(p)
    /\ UNCHANGED <<bufferVars, counterVars, spoiled>>

DropProcedure(p) ==
    /\ ~Dropped(p) /\ NoBuffer(p)
    /\ dropped_ranging_counter' = p
    /\ UNCHANGED <<bufferVars, most_recent_local_ranging_counter, spoiled>>

SemTaken(p) == IF NewProcedure(p) THEN 0 ELSE sem_local_steps

(* The buffer is spoiled if, and only if, a new link finds it as the last one left
   it; data of an earlier procedure, or early ones, or a failed fetch, have it reset
   and given back in the middle of the procedure that holds it; or the counter of a
   new procedure is that of the buffer, which then is not taken at all.  A procedure
   that takes it empty is alone in it again. *)
SpoiledByReset == ~ended /\ dropped_ranging_counter # proc
SpoiledByTaking(p) ==
    IF NewProcedure(p) THEN spoiled /\ latest_local_steps # {} ELSE spoiled \/ ended
Spoils(cause) == spoiled' = (spoiled \/ cause)

Fits(steps) == Cardinality(latest_local_steps) + Cardinality(steps) <= mode.capacity

StoreFails(p, steps) ==
    /\ ~Dropped(p) /\ ~NoBuffer(p)
    /\ ~Fits(steps)
    /\ spoiled' = SpoiledByTaking(p)
    /\ sem_local_steps' = SemTaken(p)
    /\ most_recent_local_ranging_counter' = RangingCounter(p)
    /\ latest_local_steps' = {}
    /\ dropped_ranging_counter' = p

StoreSteps(p, steps, done) ==
    /\ ~Dropped(p) /\ ~NoBuffer(p)
    /\ Fits(steps)
    /\ spoiled' = SpoiledByTaking(p)
    /\ most_recent_local_ranging_counter' = RangingCounter(p)
    /\ dropped_ranging_counter' = None
    /\ IF done = "aborted"
       THEN ResetAndGive
       ELSE /\ latest_local_steps' = latest_local_steps \cup steps
            /\ sem_local_steps' = SemTaken(p)

(* The controller goes on with its procedure or starts the next one, which is
   at most window procedures ahead of what the peer has reported; a procedure that
   ends will be reported, unless it has been already. *)
Subevent(p, n, done) ==
    /\ IF ended THEN p = (proc + 1) % ProcedureCounters /\ n = 1
                ELSE p = proc /\ n = subevents + 1
    /\ n = MaxSubevents => done # "partial"
    /\ ended => \A q \in Waiting : Age(q) + 1 < mode.window
    /\ proc' = p /\ subevents' = n /\ ended' = (done # "partial")
    /\ outstanding' = IF \/ done = "complete" /\ ~(ahead /\ ~ended)
                         \/ done = "aborted" /\ mode.keepsAborted /\ ~(ahead /\ ~ended)
                      THEN outstanding \cup {p} ELSE outstanding
    /\ ahead' = (ahead /\ ~ended)

Measure(p, steps) ==
    measured' = {s \in measured : s.proc \in Waiting \/ (s.proc = p /\ ~ended)} \cup steps

SubeventResult(p, n, done) ==
    /\ Subevent(p, n, done)
    /\ \E steps \in {{}, {Step(p, n)}} :
         /\ Measure(p, steps)
         /\ \/ IgnoreResult(p)
            \/ DropProcedure(p)
            \/ StoreSteps(p, steps, done)
            \/ StoreFails(p, steps)
    /\ UNCHANGED <<mode, fetching, relinks>>

(* The peer is done with the present procedure before the results are all here. *)
PeerIsEarly ==
    /\ mode.early /\ ~ended /\ ~ahead
    /\ ahead' = TRUE
    /\ outstanding' = outstanding \cup {proc}
    /\ UNCHANGED <<mode, bufferVars, counterVars, controllerVars, fetching, relinks, spoiled>>

----------------------------------------------------------------------------
(* ranging_data_ready_cb(): the peer announces the data of procedure p. *)

Fetch(p) ==
    /\ fetching = None
    /\ fetching' = p
    /\ UNCHANGED <<bufferVars, spoiled>>

FetchFails == ResetAndGive /\ Spoils(SpoiledByReset) /\ UNCHANGED fetching

IsMostRecent(p) == RangingCounter(p) = most_recent_local_ranging_counter

RangingDataReady(p) ==
    /\ ~mode.realtime /\ Oldest(p)
    /\ outstanding' = outstanding \ {p}
    /\ IF IsMostRecent(p) THEN Fetch(p) \/ FetchFails
                          ELSE UNCHANGED <<bufferVars, fetching, spoiled>>
    /\ UNCHANGED <<mode, counterVars, controllerVars, ahead, relinks>>

(* ranging_data_cb() with the data of procedure p. *)
Due(p) == IF mode.realtime THEN Oldest(p) ELSE fetching = p
Arrives(p) ==
    /\ Due(p)
    /\ IF mode.realtime THEN outstanding' = outstanding \ {p} /\ UNCHANGED fetching
                   ELSE fetching' = None /\ UNCHANGED outstanding

(* Mutant of MismatchEnds: the semaphore is not given back. *)
MismatchKeepsSem == latest_local_steps' = {} /\ UNCHANGED sem_local_steps
MismatchEnds == ResetAndGive

MatchEnds == ResetAndGive

(* Data of the procedure the buffer is for are parsed together with it, if it
   holds any steps; every outcome resets the buffer and gives it back. *)
Matches(p) == RangingCounter(p) = most_recent_local_ranging_counter
Parsed(p) == Due(p) /\ Matches(p) /\ latest_local_steps # {}

RangingData(p) ==
    /\ Arrives(p)
    /\ IF Matches(p) THEN MatchEnds ELSE MismatchEnds
    /\ Spoils(SpoiledByReset)
    /\ UNCHANGED <<mode, counterVars, controllerVars, ahead, relinks>>

(* A transfer ends with an error. *)
RangingDataFails(p) ==
    /\ mode.lossy
    /\ Arrives(p)
    /\ UNCHANGED <<mode, bufferVars, counterVars, controllerVars, ahead, relinks, spoiled>>

----------------------------------------------------------------------------
(* The link is lost, a new one is set up, and its procedures are counted from 0
   again.  Nothing in the code resets the buffer, the semaphore or the counters. *)
NewLink ==
    /\ relinks < mode.relinks
    /\ relinks' = relinks + 1
    /\ latest_local_steps' = {[s EXCEPT !.old = TRUE] : s \in latest_local_steps}
    /\ proc' = ProcedureCounters - 1 /\ subevents' = 0 /\ ended' = TRUE /\ measured' = {}
    /\ ahead' = FALSE /\ outstanding' = {} /\ fetching' = None
    /\ spoiled' = TRUE
    /\ UNCHANGED <<mode, sem_local_steps, counterVars>>

----------------------------------------------------------------------------
Next ==
    \/ \E p \in Procedures :
          \/ \E n \in 1..MaxSubevents, done \in {"partial", "complete", "aborted"} :
                SubeventResult(p, n, done)
          \/ RangingDataReady(p)
          \/ RangingData(p)
          \/ RangingDataFails(p)
    \/ PeerIsEarly
    \/ NewLink

Spec == Init /\ [][Next]_vars

(* Whenever the semaphore is free the buffer is empty, so a procedure never adds
   its steps to those of an earlier one, unless the buffer is spoiled. *)
FreeBufferIsEmpty == sem_local_steps = 1 /\ ~spoiled => latest_local_steps = {}

(* Whenever the peer's data of a procedure are parsed, the buffer holds exactly
   the steps measured in that procedure so far, however late, early, lost or of
   aborted procedures they are; and no procedure begins with the steps of another.
   A distance mixes two procedures or two links, or leaves a part of one out, only
   out of a buffer that was spoiled in one of the three ways, and the next procedure
   that takes it empty puts an end to that. *)
PairedSteps ==
    /\ FreeBufferIsEmpty
    /\ \A p \in Procedures :
         Parsed(p) /\ ~spoiled => latest_local_steps = {s \in measured : s.proc = p}

(* The controller keeps measuring and the peer keeps reporting; a transfer may
   fail, or a link be lost before it, again and again, but not for ever. *)
Fairness ==
    /\ WF_vars(\E p \in Procedures, n \in 1..MaxSubevents, done \in {"partial", "complete", "aborted"} :
                  SubeventResult(p, n, done))
    /\ WF_vars(\E p \in Procedures : RangingDataReady(p))
    /\ SF_vars(\E p \in Procedures : RangingData(p))

FairSpec == Spec /\ Fairness

(* On demand only data of the procedure in the buffer are fetched, so somebody has to
   be about to give it back: that procedure, or the peer with its data. *)
Forgotten ==
    /\ ~mode.realtime /\ sem_local_steps = 0
    /\ ended \/ ahead \/ NewProcedure(proc)
    /\ \A p \in Waiting : NewProcedure(p)

(* What makes the taken buffer forgotten: the transfer of its data fails, its
   procedure overflows it and aborts, or the link is lost. *)
ForgottenByFailure ==
    [][~Forgotten /\ Forgotten' =>
          \/ \E p \in Procedures : RangingDataFails(p) /\ ~NewProcedure(p)
          \/ ended' /\ proc' \notin Waiting' /\ dropped_ranging_counter' = proc'
          \/ relinks' # relinks]_vars

(* The buffer is given back in the end: ranging does not stop for good, except on
   demand for one of the failures above, and then until the counter comes round. *)
RangingGoesOn ==
    /\ sem_local_steps = 0 ~> sem_local_steps = 1 \/ Forgotten
    /\ ForgottenByFailure
=============================================================================
