------------------------------ MODULE CsSample ------------------------------
(***************************************************************************)
(* The two reference applications that range with each other:              *)
(* initiator/src/connected_cs_initiator.c, names with i_, and              *)
(* reflector/src/connected_cs_reflector.c, names with r_.  In each a main  *)
(* thread waits for semaphores that callbacks give, and a buffer holds the *)
(* steps of the latest procedure; the reflector writes its buffer to the   *)
(* initiator in one long write, which the stack sends in pieces, straight  *)
(* from the buffer.  Steps are known by the procedure they belong to.      *)
(*                                                                         *)
(* Time.  The results of one procedure are delivered at both ends before   *)
(* the next one ends, 100 connection events later.  Writes, discovery and  *)
(* estimates may take any time: nothing in the code waits for the other    *)
(* end or guards a buffer.                                                 *)
(*                                                                         *)
(* External: the stacks and controllers (link, pending, enabled, proc,     *)
(* i_results, r_results, discovering, transfer, writing, response).        *)
(***************************************************************************)
EXTENDS Integers, Sequences

CONSTANTS
    ProcedureCounters,     \* values of the procedure counter (65536)
    Pieces,                \* pieces of a long write
    Outcomes               \* how a procedure may end: records of i and r, the
                           \* results of its subevents at either end

Results == [done : {"partial", "complete", "aborted"}, stepsFit : BOOLEAN]

ASSUME SampleAssumption ==
    /\ ProcedureCounters \in Nat \ {0, 1} /\ Pieces \in Nat \ {0}
    /\ \A o \in Outcomes : {o.i, o.r} \subseteq Seq(Results) \ {<<>>}

None == -1
Nobody == "nothing"
Procedures == 0..(ProcedureCounters - 1)

(* The semaphore the initiator's main waits for after each of the set-up. *)
SetupOrder ==
    [sem_connected |-> "sem_acl_encryption_enabled",
     sem_acl_encryption_enabled |-> "sem_remote_capabilities_obtained",
     sem_remote_capabilities_obtained |-> "sem_config_created",
     sem_config_created |-> "sem_cs_security_enabled",
     sem_cs_security_enabled |-> "sem_procedure_done"]
SetupSems == DOMAIN SetupOrder
i_Sems == SetupSems \cup {"sem_procedure_done", "sem_data_received"}
r_Sems == {"sem_connected", "sem_discovered", "sem_procedure_done", "sem_written"}

VARIABLES
    link,                       \* "none", "connecting", "up", "over"
    pending,                    \* what main has asked for and waits for;
                                \* "refused": it was answered with an error
    enabled,                    \* procedures run
    proc,                       \* the latest procedure
    i_results, r_results,       \* results of it that are still to be delivered
    discovering,                \* the reflector's discovery is not answered yet
    transfer, writing,          \* the write: its pieces so far; it is under way
    response,                   \* its answer on the way, or Nobody
    i_main, i_sems, i_connection,
    i_latest_procedure_counter, i_latest_local_steps, latest_peer_steps,
    r_main, r_sems, r_connection,
    r_latest_procedure_counter, r_latest_local_steps,
    unmatched                   \* history: the two ends cannot be expected to pair
                                \* the present procedure (see Procedure and
                                \* on_attr_write_cb)

setupVars == <<link, pending, enabled, discovering>>
airVars == <<proc, i_results, r_results, unmatched>>
writeVars == <<transfer, writing, response>>
i_mainVars == <<i_main, i_sems, i_connection>>
i_dataVars == <<i_latest_procedure_counter, i_latest_local_steps, latest_peer_steps>>
r_mainVars == <<r_main, r_sems, r_connection>>
r_dataVars == <<r_latest_procedure_counter, r_latest_local_steps>>
sampleVars == <<setupVars, airVars, writeVars, i_mainVars, i_dataVars, r_mainVars, r_dataVars>>

SampleTypeOK ==
    /\ link \in {"none", "connecting", "up", "over"}
    /\ pending \in i_Sems \cup {Nobody, "refused"}
    /\ {enabled, discovering, writing, unmatched, i_connection, r_connection} \subseteq BOOLEAN
    /\ proc \in Procedures
    /\ Len(transfer) <= Pieces /\ \A k \in DOMAIN transfer : transfer[k] \in Procedures \cup {None}
    /\ response \in {Nobody, "success", "error"}
    /\ i_main \in i_Sems \cup {"estimate", "returned"} /\ i_sems \subseteq i_Sems
    /\ r_main \in r_Sems \cup {"returned"} /\ r_sems \subseteq r_Sems
    /\ {i_latest_procedure_counter, r_latest_procedure_counter} \subseteq Procedures
    /\ {i_latest_local_steps, r_latest_local_steps} \subseteq Procedures \cup {None}

SampleInit ==
    /\ link = "none" /\ pending = Nobody /\ enabled = FALSE /\ discovering = FALSE
    /\ proc = ProcedureCounters - 1 /\ i_results = <<>> /\ r_results = <<>>
    /\ transfer = <<>> /\ writing = FALSE /\ response = Nobody
    /\ i_main = "sem_connected" /\ i_sems = {} /\ i_connection = FALSE
    /\ i_latest_procedure_counter = ProcedureCounters - 1
    /\ i_latest_local_steps = None /\ latest_peer_steps = <<>>
    /\ r_main = "sem_connected" /\ r_sems = {} /\ r_connection = FALSE
    /\ r_latest_procedure_counter = ProcedureCounters - 1
    /\ r_latest_local_steps = None
    /\ unmatched = FALSE

(* Every semaphore has the limit 1. *)
i_give(s) == i_sems' = i_sems \cup {s}
r_give(s) == r_sems' = r_sems \cup {s}

----------------------------------------------------------------------------
(* The link. *)

(* device_found(): scanning stops, and does not start again. *)
DeviceFound ==
    /\ link = "none"
    /\ link' \in {"connecting", "over"}
    /\ UNCHANGED <<pending, enabled, discovering, airVars, writeVars, i_mainVars, i_dataVars,
                   r_mainVars, r_dataVars>>

(* connected_cb() of the initiator: main goes on even without a connection. *)
i_connected_cb ==
    /\ link = "connecting"
    /\ link' \in {"up", "over"}
    /\ i_connection' = (link' = "up")
    /\ i_give("sem_connected")
    /\ UNCHANGED <<pending, enabled, discovering, airVars, writeVars, i_main, i_dataVars,
                   r_mainVars, r_dataVars>>

r_connected_cb ==
    /\ link = "up" /\ ~r_connection /\ "sem_connected" \notin r_sems
    /\ r_main = "sem_connected"
    /\ r_connection' = TRUE
    /\ r_give("sem_connected")
    /\ UNCHANGED <<setupVars, airVars, writeVars, i_mainVars, i_dataVars, r_main, r_dataVars>>

(* disconnected_cb() at both ends; nothing starts again after it. *)
Disconnected ==
    /\ link = "up"
    /\ link' = "over" /\ enabled' = FALSE /\ pending' = Nobody /\ discovering' = FALSE
    /\ i_connection' = FALSE /\ r_connection' = FALSE
    /\ transfer' = <<>> /\ writing' = FALSE /\ response' = Nobody
    /\ UNCHANGED <<airVars, i_main, i_sems, i_dataVars, r_main, r_sems, r_dataVars>>

----------------------------------------------------------------------------
(* The initiator's main: set-up.  Each call may fail, which ends main. *)

i_MainSetsUp ==
    /\ i_main \in SetupSems /\ i_main \in i_sems
    /\ i_sems' = i_sems \ {i_main}
    /\ \/ /\ i_connection
          /\ i_main' = SetupOrder[i_main] /\ pending' = SetupOrder[i_main]
       \/ i_main' = "returned" /\ UNCHANGED pending
    /\ UNCHANGED <<link, enabled, discovering, airVars, writeVars, i_connection, i_dataVars,
                   r_mainVars, r_dataVars>>

(* security_changed_cb(), which gives its semaphore for a failure, too. *)
security_changed_cb ==
    /\ pending = "sem_acl_encryption_enabled"
    /\ i_give("sem_acl_encryption_enabled")
    /\ pending' = Nobody
    /\ UNCHANGED <<link, enabled, discovering, airVars, writeVars, i_main, i_connection,
                   i_dataVars, r_mainVars, r_dataVars>>

(* remote_capabilities_cb(), config_create_cb(), security_enable_cb(): after an
   error main waits for good. *)
SetupAnswered ==
    /\ pending \in SetupSems \ {"sem_connected", "sem_acl_encryption_enabled"}
    /\ \/ i_give(pending) /\ pending' = Nobody
       \/ pending' = "refused" /\ UNCHANGED i_sems
    /\ UNCHANGED <<link, enabled, discovering, airVars, writeVars, i_main, i_connection,
                   i_dataVars, r_mainVars, r_dataVars>>

(* procedure_enable_cb() *)
procedure_enable_cb ==
    /\ pending = "sem_procedure_done"
    /\ \/ enabled' = TRUE /\ pending' = Nobody
       \/ pending' = "refused" /\ UNCHANGED enabled
    /\ UNCHANGED <<link, discovering, airVars, writeVars, i_mainVars, i_dataVars, r_mainVars,
                   r_dataVars>>

----------------------------------------------------------------------------
(* The initiator's main: the loop. *)

i_Take(s, next) ==
    /\ i_main = s /\ s \in i_sems
    /\ i_sems' = i_sems \ {s}
    /\ i_main' = next
    /\ UNCHANGED <<setupVars, airVars, writeVars, i_connection, i_dataVars, r_mainVars, r_dataVars>>

i_TakeProcedureDone == i_Take("sem_procedure_done", "sem_data_received")
i_TakeDataReceived == i_Take("sem_data_received", "estimate")

(* estimate_distance() returns; it reads both buffers until then. *)
i_Estimated ==
    /\ i_main = "estimate"
    /\ i_main' = "sem_procedure_done"
    /\ UNCHANGED <<setupVars, airVars, writeVars, i_sems, i_connection, i_dataVars, r_mainVars,
                   r_dataVars>>

----------------------------------------------------------------------------
(* Procedures. *)

(* The work on the last procedure is done, nobody can take another step, and no data
   of it are left over. *)
AtRest ==
    /\ ~writing /\ response = Nobody
    /\ i_main \in {"sem_procedure_done", "sem_data_received"} /\ i_main \notin i_sems
    /\ "sem_data_received" \notin i_sems
    /\ r_main \in {"sem_procedure_done", "sem_written"} => r_main \notin r_sems

Ended(results) == results[1].done = "complete"
EndedWell(results) == Ended(results) /\ results[1].stepsFit

(* The next procedure ends, whatever the two programs are doing.  It is unmatched if
   they are still at work on an earlier one, or the reflector is not ready, or it
   ends well for the reflector but not so for the initiator, or leaves no steps with
   one of them.  The procedure after it may be matched again. *)
Procedure(o) ==
    /\ enabled /\ i_results = <<>> /\ r_results = <<>>
    /\ proc' = (proc + 1) % ProcedureCounters
    /\ i_results' = o.i /\ r_results' = o.r
    /\ unmatched' = \/ ~AtRest
                    \/ r_main \in {"sem_connected", "sem_discovered"}
                    \/ Ended(o.r) /\ ~(EndedWell(o.r) /\ EndedWell(o.i))
    /\ UNCHANGED <<setupVars, writeVars, i_mainVars, i_dataVars, r_mainVars, r_dataVars>>

(* Mutant of Repeated: the comparison is inverted. *)
NotRepeated(latest) == latest # proc
Repeated(latest) == latest = proc

(* Mutant of Complete: an aborted procedure is announced, too. *)
CompleteOrAborted(result) == result.done # "partial"
Complete(result) == result.done = "complete"

(* subevent_result_cb() of either end: the steps it leaves, and whether it gives
   sem_procedure_done.  A further subevent of a procedure is ignored, and steps
   that are missing or too long leave the old ones in the buffer. *)
StepsAfter(latest, steps, result) ==
    IF ~Repeated(latest) /\ result.stepsFit THEN proc ELSE steps
SemsAfter(latest, sems, result) ==
    IF ~Repeated(latest) /\ Complete(result) THEN sems \cup {"sem_procedure_done"} ELSE sems

i_subevent_result_cb ==
    /\ i_results # <<>>
    /\ i_results' = Tail(i_results)
    /\ i_latest_procedure_counter' = proc
    /\ i_latest_local_steps' =
         StepsAfter(i_latest_procedure_counter, i_latest_local_steps, Head(i_results))
    /\ i_sems' = SemsAfter(i_latest_procedure_counter, i_sems, Head(i_results))
    /\ UNCHANGED <<setupVars, proc, r_results, unmatched, writeVars, i_main, i_connection,
                   latest_peer_steps, r_mainVars, r_dataVars>>

r_subevent_result_cb ==
    /\ r_results # <<>>
    /\ r_results' = Tail(r_results)
    /\ r_latest_procedure_counter' = proc
    /\ r_latest_local_steps' =
         StepsAfter(r_latest_procedure_counter, r_latest_local_steps, Head(r_results))
    /\ r_sems' = SemsAfter(r_latest_procedure_counter, r_sems, Head(r_results))
    /\ UNCHANGED <<setupVars, proc, i_results, unmatched, writeVars, i_mainVars, i_dataVars,
                   r_main, r_connection>>

----------------------------------------------------------------------------
(* The reflector's main: discovery, then one write after the other. *)

r_MainDiscovers ==
    /\ r_main = "sem_connected" /\ "sem_connected" \in r_sems
    /\ r_sems' = r_sems \ {"sem_connected"}
    /\ \/ r_connection /\ r_main' = "sem_discovered" /\ discovering' = TRUE
       \/ r_main' = "returned" /\ UNCHANGED discovering
    /\ UNCHANGED <<link, pending, enabled, airVars, writeVars, i_mainVars, i_dataVars,
                   r_connection, r_dataVars>>

(* discover_func(): the characteristic is found, or it is not. *)
discover_func ==
    /\ discovering
    /\ discovering' = FALSE
    /\ r_give("sem_discovered") \/ UNCHANGED r_sems
    /\ UNCHANGED <<link, pending, enabled, airVars, writeVars, i_mainVars, i_dataVars, r_main,
                   r_connection, r_dataVars>>

r_TakeDiscovered ==
    /\ r_main = "sem_discovered" /\ "sem_discovered" \in r_sems
    /\ r_sems' = r_sems \ {"sem_discovered"}
    /\ r_main' = "sem_procedure_done"
    /\ UNCHANGED <<setupVars, airVars, writeVars, i_mainVars, i_dataVars, r_connection, r_dataVars>>

r_MainWrites ==
    /\ r_main = "sem_procedure_done" /\ "sem_procedure_done" \in r_sems
    /\ r_sems' = r_sems \ {"sem_procedure_done"}
    /\ \/ r_connection /\ r_main' = "sem_written" /\ writing' = TRUE
       \/ r_main' = "returned" /\ UNCHANGED writing
    /\ UNCHANGED <<setupVars, airVars, transfer, response, i_mainVars, i_dataVars, r_connection,
                   r_dataVars>>

r_TakeWritten ==
    /\ r_main = "sem_written" /\ "sem_written" \in r_sems
    /\ r_sems' = r_sems \ {"sem_written"}
    /\ r_main' = "sem_procedure_done"
    /\ UNCHANGED <<setupVars, airVars, writeVars, i_mainVars, i_dataVars, r_connection, r_dataVars>>

(* Ten seconds have passed, and main returns. *)
r_TimesOut ==
    /\ r_main \in {"sem_discovered", "sem_written"} /\ r_main \notin r_sems
    /\ r_main' = "returned"
    /\ UNCHANGED <<setupVars, airVars, writeVars, i_mainVars, i_dataVars, r_sems, r_connection,
                   r_dataVars>>

(* The stack sends the next piece of the buffer.  Mutant of MoreToSend: one
   piece too many. *)
OneMoreToSend == Len(transfer) <= Pieces
MoreToSend == Len(transfer) < Pieces

WritePiece ==
    /\ writing /\ MoreToSend
    /\ transfer' = Append(transfer, r_latest_local_steps)
    /\ UNCHANGED <<setupVars, airVars, writing, response, i_mainVars, i_dataVars, r_mainVars,
                   r_dataVars>>

(* on_attr_write_cb(): pieces are only acknowledged, the execution of the whole
   write copies them and gives the semaphore.  It may come before the initiator's
   own results, which are unmatched then. *)
on_attr_write_cb ==
    /\ writing /\ Len(transfer) = Pieces
    /\ unmatched' = (unmatched \/ i_results # <<>>)
    /\ writing' = FALSE /\ transfer' = <<>> /\ response' = "success"
    /\ latest_peer_steps' = transfer
    /\ i_give("sem_data_received")
    /\ UNCHANGED <<setupVars, proc, i_results, r_results, i_main, i_connection, i_latest_procedure_counter,
                   i_latest_local_steps, r_mainVars, r_dataVars>>

WriteFails ==
    /\ writing
    /\ writing' = FALSE /\ transfer' = <<>> /\ response' = "error"
    /\ UNCHANGED <<setupVars, airVars, i_mainVars, i_dataVars, r_mainVars, r_dataVars>>

(* write_func(): after an error main is left to its timeout. *)
write_func ==
    /\ response # Nobody
    /\ response' = Nobody
    /\ IF response = "success" THEN r_give("sem_written") ELSE UNCHANGED r_sems
    /\ UNCHANGED <<setupVars, airVars, transfer, writing, i_mainVars, i_dataVars, r_main,
                   r_connection, r_dataVars>>

----------------------------------------------------------------------------
i_Main == i_MainSetsUp \/ i_TakeProcedureDone \/ i_TakeDataReceived \/ i_Estimated
r_Main == r_MainDiscovers \/ r_TakeDiscovered \/ r_MainWrites \/ r_TakeWritten
Answers ==
    \/ security_changed_cb \/ SetupAnswered \/ procedure_enable_cb
    \/ discover_func \/ write_func
Transfer == WritePiece \/ on_attr_write_cb

SampleNext ==
    \/ DeviceFound \/ i_connected_cb \/ r_connected_cb \/ Disconnected
    \/ i_Main \/ r_Main \/ Answers
    \/ \E o \in Outcomes : Procedure(o)
    \/ i_subevent_result_cb \/ r_subevent_result_cb
    \/ r_TimesOut \/ Transfer \/ WriteFails

SampleSpec == SampleInit /\ [][SampleNext]_sampleVars

(* Whenever the initiator estimates a distance, its own steps and those of the
   reflector are of one procedure, and the reflector's are whole, although two
   semaphores that count to 1 are all that ties the two together and procedures
   are split, aborted, or lost for the reflector.  The exception is a procedure
   that the programs are not ready for, or that does not end well for both; the
   next one that finds them both waiting is paired again, whatever that one left
   in the buffers and semaphores. *)
PairedEstimates ==
    i_main = "estimate" /\ ~unmatched =>
        latest_peer_steps = [k \in 1..Pieces |-> i_latest_local_steps]

(* Both programs run and are answered; procedures go on, and of them again and
   again one ends well at both ends. *)
BothEndWell(o) == EndedWell(o.i) /\ EndedWell(o.r)
Connecting == DeviceFound \/ i_connected_cb \/ r_connected_cb
Delivery == i_subevent_result_cb \/ r_subevent_result_cb
SampleFairness ==
    /\ WF_sampleVars(Connecting \/ Answers) /\ WF_sampleVars(Delivery)
    /\ WF_sampleVars(i_Main) /\ WF_sampleVars(r_Main) /\ WF_sampleVars(Transfer)
    /\ SF_sampleVars(\E o \in Outcomes : BothEndWell(o) /\ Procedure(o))

SampleFairSpec == SampleSpec /\ SampleFairness

(* The link is gone, a main has returned, the set-up was refused, or the
   reflector waits for an answer that was an error. *)
WillTimeOut ==
    \/ r_main = "sem_discovered" /\ ~discovering /\ "sem_discovered" \notin r_sems
    \/ r_main = "sem_written" /\ ~writing /\ response # "success" /\ "sem_written" \notin r_sems
Stopped ==
    \/ link = "over" \/ pending = "refused"
    \/ i_main = "returned" \/ r_main = "returned" \/ WillTimeOut

(* Once connected, unless one of the two has stopped, estimates are made again
   and again: no semaphore is waited for that nobody gives. *)
EstimatesGoOn == link = "up" ~> i_main = "estimate" \/ Stopped
=============================================================================
