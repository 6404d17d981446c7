-------------------------- MODULE CsSampleProofs ---------------------------
(***************************************************************************)
(* Proofs about the two reference applications: the steps of the two ends  *)
(* belong together, for any counters, any outcomes of procedures and       *)
(* writes of any length, from every procedure on that finds both ends      *)
(* waiting for one.                                                        *)
(***************************************************************************)
EXTENDS CsSample, TLAPS

(* An end has taken notice of the present procedure. *)
i_Noticed == i_latest_procedure_counter = proc
r_Noticed == r_latest_procedure_counter = proc

(* The way of the reflector's steps: its callback will give the semaphore, has
   given it, main is writing, the initiator has been given its semaphore, and it
   makes an estimate of them. *)
Coming == ~r_Noticed /\ Complete(Head(r_results))
Announced == r_main = "sem_procedure_done" /\ "sem_procedure_done" \in r_sems
Received == "sem_data_received" \in i_sems
Estimating == i_main = "estimate"
UnderWay == Announced \/ writing \/ Received
Carrying == UnderWay \/ Estimating

(* The reflector waits for the end of a write that may still be a success. *)
Finishing ==
    r_main = "sem_written" /\ (writing \/ response # Nobody \/ "sem_written" \in r_sems)

(* What holds in any case: results of a procedure are all delivered before the
   next, and a write begins with nothing. *)
Always ==
    /\ i_results = <<>> => i_Noticed
    /\ r_results = <<>> => r_Noticed
    /\ ~writing => transfer = <<>>
(* What the reflector has for the initiator is of the present procedure, and
   before it has noticed that one it has nothing. *)
OfThisProcedure ==
    /\ Carrying => r_Noticed /\ r_latest_local_steps = proc
    /\ Finishing => r_Noticed /\ "sem_procedure_done" \notin r_sems
    /\ Coming => Head(r_results).stepsFit
(* It is in one place at a time. *)
OnePlace ==
    /\ Announced => ~writing
    /\ Announced \/ writing => ~Received
    /\ UnderWay => ~Estimating
(* The initiator has the steps of the same procedure or will get them, and was
   told, if it waits for that. *)
Partner ==
    Coming \/ Carrying =>
        IF i_Noticed THEN i_latest_local_steps = proc
        ELSE Complete(Head(i_results)) /\ Head(i_results).stepsFit
Told ==
    (Coming \/ UnderWay) /\ i_Noticed /\ i_main = "sem_procedure_done" =>
        "sem_procedure_done" \in i_sems
(* A write copies the buffer. *)
Copied ==
    /\ writing => \A k \in DOMAIN transfer : transfer[k] = proc
    /\ Received \/ Estimating => i_Noticed /\ latest_peer_steps = [k \in 1..Pieces |-> proc]
(* Before either end is set up nothing has happened to the data. *)
Unused ==
    i_results = <<>> /\ r_results = <<>> /\ "sem_procedure_done" \notin r_sems /\ ~Carrying
SetUp ==
    /\ i_main \in SetupSems => Unused /\ ~enabled /\ pending # "sem_procedure_done"
    /\ r_main \in {"sem_connected", "sem_discovered"} =>
         /\ r_results = <<>> /\ "sem_procedure_done" \notin r_sems
         /\ ~writing /\ response = Nobody /\ ~Received /\ ~Estimating

(* The types, the flags and the write apart from the other variables. *)
Flags == {enabled, discovering, writing, unmatched, i_connection, r_connection} \subseteq BOOLEAN
DataTypes ==
    /\ link \in {"none", "connecting", "up", "over"}
    /\ pending \in i_Sems \cup {Nobody, "refused"}
    /\ proc \in Procedures
    /\ response \in {Nobody, "success", "error"}
    /\ i_main \in i_Sems \cup {"estimate", "returned"} /\ i_sems \subseteq i_Sems
    /\ r_main \in r_Sems \cup {"returned"} /\ r_sems \subseteq r_Sems
    /\ i_latest_procedure_counter \in Procedures /\ r_latest_procedure_counter \in Procedures
    /\ i_latest_local_steps \in Procedures \cup {None}
    /\ r_latest_local_steps \in Procedures \cup {None}
    /\ i_results \in Seq(Results) /\ r_results \in Seq(Results)
TransferType == transfer \in Seq(Procedures \cup {None}) /\ Len(transfer) <= Pieces
SampleTypes == Flags /\ DataTypes /\ TransferType

Matched == OfThisProcedure /\ OnePlace /\ Partner /\ Told /\ Copied /\ SetUp

SampleInv == SampleTypes /\ Always /\ (~unmatched => Matched)

----------------------------------------------------------------------------
LEMMA NextCounter ==
    ASSUME NEW p \in Procedures
    PROVE  (p + 1) % ProcedureCounters \in Procedures /\ (p + 1) % ProcedureCounters # p
<1>1. (p + 1) % ProcedureCounters = IF p = ProcedureCounters - 1 THEN 0 ELSE p + 1
  BY SampleAssumption DEF Procedures
<1> QED BY <1>1, SampleAssumption DEF Procedures

LEMMA OutcomeTypes ==
    ASSUME NEW o \in Outcomes
    PROVE  o.i \in Seq(Results) /\ o.r \in Seq(Results) /\ o.i # <<>> /\ o.r # <<>>
           /\ Head(o.i) = o.i[1] /\ Head(o.r) = o.r[1]
<1>1. {o.i, o.r} \subseteq Seq(Results) \ {<<>>}
  BY SampleAssumption
<1> QED BY <1>1

LEMMA SetupSemaphores ==
    /\ SetupSems = {"sem_connected", "sem_acl_encryption_enabled",
                    "sem_remote_capabilities_obtained", "sem_config_created",
                    "sem_cs_security_enabled"}
    /\ \A s \in SetupSems : SetupOrder[s] \in i_Sems \ {"sem_connected", "sem_data_received"}
  BY DEF SetupSems, SetupOrder, i_Sems

LEMMA SampleTypesInit == SampleInit => SampleTypes
<1> SUFFICES ASSUME SampleInit PROVE Flags /\ DataTypes /\ TransferType
  BY DEF SampleTypes
<1>1. ProcedureCounters - 1 \in Procedures /\ 0 <= Pieces
  BY SampleAssumption DEF Procedures
<1>2. Flags
  BY Zenon DEF SampleInit, Flags
<1>3. DataTypes
  BY <1>1, SetupSemaphores DEF SampleInit, DataTypes, i_Sems, r_Sems
<1>4. TransferType
  BY <1>1 DEF SampleInit, TransferType
<1> QED BY <1>2, <1>3, <1>4

(* What each step does to the types. *)
LEMMA SampleTypesNext == SampleTypes /\ [SampleNext]_sampleVars => SampleTypes'
<1> SUFFICES ASSUME Flags, DataTypes, TransferType, [SampleNext]_sampleVars
             PROVE  Flags' /\ DataTypes' /\ TransferType'
  BY DEF SampleTypes
<1> USE DEF setupVars, airVars, writeVars, i_mainVars, i_dataVars, r_mainVars, r_dataVars,
        i_give, r_give
<1>1. CASE DeviceFound
  <2>1. Flags'
    BY <1>1, Zenon DEF DeviceFound, Flags
  <2>2. DataTypes'
    BY <1>1, SetupSemaphores DEF DeviceFound, DataTypes, i_Sems, r_Sems
  <2>3. TransferType'
    BY <1>1, SampleAssumption DEF DeviceFound, TransferType
  <2> QED BY <2>1, <2>2, <2>3
<1>2. CASE i_connected_cb
  <2>1. Flags'
    BY <1>2, Zenon DEF i_connected_cb, Flags
  <2>2. DataTypes'
    BY <1>2, SetupSemaphores DEF i_connected_cb, DataTypes, i_Sems, r_Sems
  <2>3. TransferType'
    BY <1>2, SampleAssumption DEF i_connected_cb, TransferType
  <2> QED BY <2>1, <2>2, <2>3
<1>3. CASE r_connected_cb
  <2>1. Flags'
    BY <1>3, Zenon DEF r_connected_cb, Flags
  <2>2. DataTypes'
    BY <1>3, SetupSemaphores DEF r_connected_cb, DataTypes, i_Sems, r_Sems
  <2>3. TransferType'
    BY <1>3, SampleAssumption DEF r_connected_cb, TransferType
  <2> QED BY <2>1, <2>2, <2>3
<1>4. CASE Disconnected
  <2>1. Flags'
    BY <1>4, Zenon DEF Disconnected, Flags
  <2>2. DataTypes'
    BY <1>4, SetupSemaphores DEF Disconnected, DataTypes, i_Sems, r_Sems
  <2>3. TransferType'
    BY <1>4, SampleAssumption DEF Disconnected, TransferType
  <2> QED BY <2>1, <2>2, <2>3
<1>5. CASE i_MainSetsUp
  <2>1. Flags'
    BY <1>5, Zenon DEF i_MainSetsUp, Flags
  <2>2. DataTypes'
    BY <1>5, SetupSemaphores DEF i_MainSetsUp, DataTypes, i_Sems, r_Sems
  <2>3. TransferType'
    BY <1>5, SampleAssumption DEF i_MainSetsUp, TransferType
  <2> QED BY <2>1, <2>2, <2>3
<1>6. CASE i_TakeProcedureDone \/ i_TakeDataReceived
  <2>1. Flags'
    BY <1>6, Zenon DEF i_TakeProcedureDone, i_TakeDataReceived, i_Take, Flags
  <2>2. DataTypes'
    BY <1>6, SetupSemaphores, ZenonT(60) DEF i_TakeProcedureDone, i_TakeDataReceived, i_Take, DataTypes,
       i_Sems, r_Sems
  <2>3. TransferType'
    BY <1>6, SampleAssumption DEF i_TakeProcedureDone, i_TakeDataReceived, i_Take, TransferType
  <2> QED BY <2>1, <2>2, <2>3
<1>7. CASE i_Estimated
  <2>1. Flags'
    BY <1>7, Zenon DEF i_Estimated, Flags
  <2>2. DataTypes'
    BY <1>7, SetupSemaphores DEF i_Estimated, DataTypes, i_Sems, r_Sems
  <2>3. TransferType'
    BY <1>7, SampleAssumption DEF i_Estimated, TransferType
  <2> QED BY <2>1, <2>2, <2>3
<1>8. CASE r_MainDiscovers
  <2>1. Flags'
    BY <1>8, Zenon DEF r_MainDiscovers, Flags
  <2>2. DataTypes'
    BY <1>8, SetupSemaphores DEF r_MainDiscovers, DataTypes, i_Sems, r_Sems
  <2>3. TransferType'
    BY <1>8, SampleAssumption DEF r_MainDiscovers, TransferType
  <2> QED BY <2>1, <2>2, <2>3
<1>9. CASE r_TakeDiscovered \/ r_TakeWritten
  <2>1. Flags'
    BY <1>9, Zenon DEF r_TakeDiscovered, r_TakeWritten, Flags
  <2>2. DataTypes'
    BY <1>9, SetupSemaphores, ZenonT(60) DEF r_TakeDiscovered, r_TakeWritten, DataTypes, i_Sems, r_Sems
  <2>3. TransferType'
    BY <1>9, SampleAssumption DEF r_TakeDiscovered, r_TakeWritten, TransferType
  <2> QED BY <2>1, <2>2, <2>3
<1>10. CASE r_MainWrites
  <2>1. Flags'
    BY <1>10, Zenon DEF r_MainWrites, Flags
  <2>2. DataTypes'
    BY <1>10, SetupSemaphores DEF r_MainWrites, DataTypes, i_Sems, r_Sems
  <2>3. TransferType'
    BY <1>10, SampleAssumption DEF r_MainWrites, TransferType
  <2> QED BY <2>1, <2>2, <2>3
<1>11. CASE security_changed_cb
  <2>1. Flags'
    BY <1>11, Zenon DEF security_changed_cb, Flags
  <2>2. DataTypes'
    BY <1>11, SetupSemaphores DEF security_changed_cb, DataTypes, i_Sems, r_Sems
  <2>3. TransferType'
    BY <1>11, SampleAssumption DEF security_changed_cb, TransferType
  <2> QED BY <2>1, <2>2, <2>3
<1>12. CASE SetupAnswered
  <2>1. Flags'
    BY <1>12, Zenon DEF SetupAnswered, Flags
  <2>2. DataTypes'
    BY <1>12, SetupSemaphores, ZenonT(60) DEF SetupAnswered, DataTypes, i_Sems, r_Sems
  <2>3. TransferType'
    BY <1>12, SampleAssumption DEF SetupAnswered, TransferType
  <2> QED BY <2>1, <2>2, <2>3
<1>13. CASE procedure_enable_cb
  <2>1. Flags'
    BY <1>13, Zenon DEF procedure_enable_cb, Flags
  <2>2. DataTypes'
    <3>1. pending' \in {Nobody, "refused"}
      BY <1>13, Zenon DEF procedure_enable_cb
    <3>2. UNCHANGED <<link, proc, response, i_main, i_sems, r_main, r_sems, i_results, r_results,
                      i_latest_procedure_counter, r_latest_procedure_counter,
                      i_latest_local_steps, r_latest_local_steps>>
      BY <1>13, Zenon DEF procedure_enable_cb
    <3> QED BY <3>1, <3>2 DEF DataTypes
  <2>3. TransferType'
    BY <1>13, SampleAssumption DEF procedure_enable_cb, TransferType
  <2> QED BY <2>1, <2>2, <2>3
<1>14. CASE discover_func
  <2>1. Flags'
    BY <1>14, Zenon DEF discover_func, Flags
  <2>2. DataTypes'
    <3>1. r_sems' = r_sems \cup {"sem_discovered"} \/ r_sems' = r_sems
      BY <1>14, Zenon DEF discover_func
    <3>2. UNCHANGED <<link, pending, proc, response, i_main, i_sems, r_main, i_results, r_results,
                      i_latest_procedure_counter, r_latest_procedure_counter,
                      i_latest_local_steps, r_latest_local_steps>>
      BY <1>14, Zenon DEF discover_func
    <3> QED BY <3>1, <3>2, ZenonT(60) DEF DataTypes, r_Sems
  <2>3. TransferType'
    BY <1>14, SampleAssumption DEF discover_func, TransferType
  <2> QED BY <2>1, <2>2, <2>3
<1>15. CASE write_func
  <2>1. Flags'
    BY <1>15, Zenon DEF write_func, Flags
  <2>2. DataTypes'
    BY <1>15, SetupSemaphores, ZenonT(60) DEF write_func, DataTypes, i_Sems, r_Sems
  <2>3. TransferType'
    BY <1>15, SampleAssumption DEF write_func, TransferType
  <2> QED BY <2>1, <2>2, <2>3
<1>16. ASSUME NEW o \in Outcomes, Procedure(o) PROVE Flags' /\ DataTypes' /\ TransferType'
  <2>1. Flags'
    BY <1>16, Zenon DEF Procedure, Flags
  <2>2. (proc + 1) % ProcedureCounters \in Procedures
    BY NextCounter DEF DataTypes
  <2>3. DataTypes'
    BY <1>16, <2>2, OutcomeTypes DEF Procedure, DataTypes
  <2>4. TransferType'
    BY <1>16, SampleAssumption DEF Procedure, TransferType
  <2> QED BY <2>1, <2>3, <2>4
<1>17. CASE i_subevent_result_cb
  <2>1. Flags'
    BY <1>17, Zenon DEF i_subevent_result_cb, Flags
  <2>2. DataTypes'
    BY <1>17 DEF i_subevent_result_cb, DataTypes, StepsAfter, SemsAfter, i_Sems, r_Sems
  <2>3. TransferType'
    BY <1>17, SampleAssumption DEF i_subevent_result_cb, TransferType
  <2> QED BY <2>1, <2>2, <2>3
<1>18. CASE r_subevent_result_cb
  <2>1. Flags'
    BY <1>18, Zenon DEF r_subevent_result_cb, Flags
  <2>2. DataTypes'
    BY <1>18 DEF r_subevent_result_cb, DataTypes, StepsAfter, SemsAfter, i_Sems, r_Sems
  <2>3. TransferType'
    BY <1>18, SampleAssumption DEF r_subevent_result_cb, TransferType
  <2> QED BY <2>1, <2>2, <2>3
<1>19. CASE r_TimesOut
  <2>1. Flags'
    BY <1>19, Zenon DEF r_TimesOut, Flags
  <2>2. DataTypes'
    BY <1>19, SetupSemaphores DEF r_TimesOut, DataTypes, i_Sems, r_Sems
  <2>3. TransferType'
    BY <1>19, SampleAssumption DEF r_TimesOut, TransferType
  <2> QED BY <2>1, <2>2, <2>3
<1>20. CASE WritePiece
  <2>1. Flags'
    BY <1>20, Zenon DEF WritePiece, Flags
  <2>2. DataTypes'
    BY <1>20, SetupSemaphores DEF WritePiece, DataTypes, i_Sems, r_Sems
  <2>3. TransferType'
    <3>1. transfer' = Append(transfer, r_latest_local_steps)
          /\ Len(transfer) < Pieces /\ r_latest_local_steps \in Procedures \cup {None}
      BY <1>20 DEF WritePiece, MoreToSend, DataTypes
    <3> QED BY <3>1, SampleAssumption DEF TransferType
  <2> QED BY <2>1, <2>2, <2>3
<1>21. CASE on_attr_write_cb
  <2>1. Flags'
    BY <1>21, Zenon DEF on_attr_write_cb, Flags
  <2>2. DataTypes'
    BY <1>21, SetupSemaphores DEF on_attr_write_cb, DataTypes, i_Sems, r_Sems
  <2>3. TransferType'
    BY <1>21, SampleAssumption DEF on_attr_write_cb, TransferType
  <2> QED BY <2>1, <2>2, <2>3
<1>22. CASE WriteFails
  <2>1. Flags'
    BY <1>22, Zenon DEF WriteFails, Flags
  <2>2. DataTypes'
    BY <1>22, SetupSemaphores DEF WriteFails, DataTypes, i_Sems, r_Sems
  <2>3. TransferType'
    BY <1>22, SampleAssumption DEF WriteFails, TransferType
  <2> QED BY <2>1, <2>2, <2>3
<1>23. CASE UNCHANGED sampleVars
  <2>1. Flags'
    BY <1>23, Zenon DEF sampleVars, Flags
  <2>2. DataTypes'
    BY <1>23, SetupSemaphores DEF sampleVars, DataTypes, i_Sems, r_Sems
  <2>3. TransferType'
    BY <1>23, SampleAssumption DEF sampleVars, TransferType
  <2> QED BY <2>1, <2>2, <2>3
<1> QED BY <1>1, <1>2, <1>3, <1>4, <1>5, <1>6, <1>7, <1>8, <1>9, <1>10, <1>11, <1>12, <1>13, <1>14, <1>15,
           <1>16, <1>17, <1>18, <1>19, <1>20, <1>21, <1>22, <1>23
        DEF SampleNext, i_Main, r_Main, Answers, Transfer

(* What holds in any case. *)
LEMMA AlwaysNext == SampleTypes /\ Always /\ [SampleNext]_sampleVars => Always'
<1> SUFFICES ASSUME SampleTypes, Always, [SampleNext]_sampleVars PROVE Always'
  OBVIOUS
<1> USE DEF Always, i_Noticed, r_Noticed
<1> USE DEF setupVars, airVars, writeVars, i_mainVars, i_dataVars, r_mainVars, r_dataVars
<1>1. CASE DeviceFound \/ i_connected_cb \/ r_connected_cb
  BY <1>1, Zenon DEF DeviceFound, i_connected_cb, r_connected_cb
<1>2. CASE Disconnected
  BY <1>2, Zenon DEF Disconnected
<1>3. CASE i_Main
  BY <1>3, Zenon DEF i_Main, i_MainSetsUp, i_TakeProcedureDone, i_TakeDataReceived, i_Take, i_Estimated
<1>4. CASE r_MainDiscovers \/ r_TakeDiscovered \/ r_TakeWritten \/ r_TimesOut
  BY <1>4, Zenon DEF r_MainDiscovers, r_TakeDiscovered, r_TakeWritten, r_TimesOut
<1>5. CASE r_MainWrites
  <2>1. UNCHANGED <<proc, i_results, r_results, i_latest_procedure_counter,
                    r_latest_procedure_counter, transfer>>
    BY <1>5, Zenon DEF r_MainWrites
  <2>2. ~writing' => ~writing
    BY <1>5, Zenon DEF r_MainWrites
  <2> QED BY <2>1, <2>2, Zenon
<1>6. CASE Answers
  BY <1>6, Zenon DEF Answers, security_changed_cb, SetupAnswered, procedure_enable_cb, discover_func,
     write_func
<1>7. ASSUME NEW o \in Outcomes, Procedure(o) PROVE Always'
  <2>1. i_results' # <<>> /\ r_results' # <<>>
    BY <1>7, OutcomeTypes DEF Procedure
  <2>2. UNCHANGED <<writing, transfer>>
    BY <1>7, Zenon DEF Procedure
  <2> QED BY <2>1, <2>2, Zenon
<1>8. CASE i_subevent_result_cb \/ r_subevent_result_cb
  BY <1>8, Zenon DEF i_subevent_result_cb, r_subevent_result_cb
<1>9. CASE Transfer \/ WriteFails
  <2>1. UNCHANGED <<proc, i_results, r_results, i_latest_procedure_counter,
                    r_latest_procedure_counter>>
    BY <1>9, Zenon DEF Transfer, WritePiece, on_attr_write_cb, WriteFails
  <2>2. ~writing' => transfer' = <<>>
    <3>1. CASE WritePiece
      <4>1. writing /\ writing' = writing
        BY <3>1, Zenon DEF WritePiece
      <4> QED BY <4>1, Zenon
    <3>2. CASE on_attr_write_cb
      BY <3>2, Zenon DEF on_attr_write_cb
    <3>3. CASE WriteFails
      BY <3>3, Zenon DEF WriteFails
    <3> QED BY <1>9, <3>1, <3>2, <3>3, Zenon DEF Transfer
  <2> QED BY <2>1, <2>2, Zenon
<1>10. CASE UNCHANGED sampleVars
  BY <1>10, Zenon DEF sampleVars
<1> QED BY <1>1, <1>2, <1>3, <1>4, <1>5, <1>6, <1>7, <1>8, <1>9, <1>10 DEF SampleNext, r_Main

(* The steps belong together at the beginning, and every step keeps them so. *)
LEMMA MatchedInit == SampleInit => Always /\ Matched
<1> SUFFICES ASSUME SampleInit PROVE Always /\ Matched
  OBVIOUS
<1> USE DEF SampleInit
<1>1. ~writing /\ ~unmatched /\ ~enabled /\ transfer = <<>>
  BY Zenon
<1>2. ~Coming /\ ~Carrying /\ ~Finishing
  BY <1>1 DEF Coming, Carrying, UnderWay, Announced, Received, Estimating, Finishing, r_Noticed
<1>3. Unused
  BY <1>2 DEF Unused
<1>4. Always
  BY <1>1 DEF Always, i_Noticed, r_Noticed
<1>5. OfThisProcedure /\ OnePlace /\ Partner /\ Told
  BY <1>2 DEF OfThisProcedure, OnePlace, Partner, Told, Carrying, UnderWay
<1>6. Copied
  BY <1>1, <1>2 DEF Copied, Carrying, UnderWay
<1>7. SetUp
  BY <1>1, <1>2, <1>3 DEF SetUp, Nobody, Carrying, UnderWay
<1> QED BY <1>4, <1>5, <1>6, <1>7 DEF Matched

(* The next procedure: nothing of an earlier one is left that could get mixed with
   it, however those ended. *)
LEMMA MatchedAnew ==
    ASSUME SampleTypes, Always, NEW o \in Outcomes, Procedure(o), ~unmatched'
    PROVE  Matched'
<1> USE DEF Matched, OfThisProcedure, OnePlace, Partner, Told, Copied, SetUp, Unused,
        i_Noticed, r_Noticed, Coming, Finishing, Carrying, UnderWay, Announced, Received, Estimating
<1> USE SetupSemaphores, SampleAssumption DEF SampleTypes, DataTypes, TransferType, i_Sems, r_Sems
<1> USE DEF setupVars, writeVars, i_mainVars, i_dataVars, r_mainVars, r_dataVars
<1>1. i_Noticed /\ r_Noticed
  BY DEF Procedure, Always
<1>2. ~Carrying /\ ~Finishing
  BY DEF Procedure, AtRest
<1>3. ~i_Noticed' /\ ~r_Noticed'
  BY <1>1, NextCounter DEF Procedure
<1>4. ~Carrying' /\ ~Finishing'
  BY <1>2 DEF Procedure
<1>5. Coming' => EndedWell(o.r) /\ EndedWell(o.i)
  BY OutcomeTypes DEF Procedure, Ended, EndedWell, Complete
<1>6. r_main \notin {"sem_connected", "sem_discovered"} /\ i_main \notin SetupSems
  BY DEF Procedure, AtRest
<1> QED BY <1>3, <1>4, <1>5, <1>6, OutcomeTypes DEF Procedure, Ended, EndedWell, Complete

(* Only three other kinds of steps move the steps of a procedure on: its results at
   either end, and the write. *)
LEMMA MatchedNext ==
    SampleTypes /\ Always /\ Matched /\ ~unmatched' /\ [SampleNext]_sampleVars => Matched'
<1> SUFFICES ASSUME SampleTypes, Always, Matched, ~unmatched', [SampleNext]_sampleVars PROVE Matched'
  OBVIOUS
<1> USE DEF Always, Matched, OfThisProcedure, OnePlace, Partner, Told, Copied, SetUp, Unused,
        i_Noticed, r_Noticed, Coming, Finishing, Carrying, UnderWay, Announced, Received, Estimating
<1> USE SetupSemaphores, SampleAssumption DEF SampleTypes, DataTypes, TransferType, i_Sems, r_Sems
<1> USE DEF setupVars, airVars, writeVars, i_mainVars, i_dataVars, r_mainVars, r_dataVars,
        i_give, r_give
<1>1. CASE DeviceFound
  BY <1>1 DEF DeviceFound
<1>2. CASE i_connected_cb
  BY <1>2 DEF i_connected_cb
<1>3. CASE r_connected_cb
  BY <1>3 DEF r_connected_cb
<1>4. CASE Disconnected
  <2>1. ~writing' /\ ~enabled' /\ transfer' = <<>> /\ response' = Nobody
    BY <1>4, Zenon DEF Disconnected
  <2>2. UNCHANGED <<airVars, i_main, i_sems, i_dataVars, r_main, r_sems, r_dataVars>>
    BY <1>4, Zenon DEF Disconnected
  <2>3. pending' = Nobody
    BY <1>4, Zenon DEF Disconnected
  <2> QED BY <2>1, <2>2, <2>3 DEF Nobody
<1>5. CASE i_MainSetsUp
  BY <1>5 DEF i_MainSetsUp
<1>6. CASE i_TakeProcedureDone
  BY <1>6 DEF i_TakeProcedureDone, i_Take
<1>7. CASE i_TakeDataReceived
  BY <1>7 DEF i_TakeDataReceived, i_Take
<1>8. CASE i_Estimated
  BY <1>8 DEF i_Estimated
<1>9. CASE r_MainDiscovers
  BY <1>9 DEF r_MainDiscovers
<1>10. CASE r_TakeDiscovered
  BY <1>10 DEF r_TakeDiscovered
<1>11. CASE r_TakeWritten
  BY <1>11 DEF r_TakeWritten
<1>12. CASE r_MainWrites
  BY <1>12 DEF r_MainWrites
<1>13. CASE security_changed_cb
  BY <1>13 DEF security_changed_cb, Nobody
<1>14. CASE SetupAnswered
  BY <1>14 DEF SetupAnswered, Nobody
<1>15. CASE procedure_enable_cb
  BY <1>15 DEF procedure_enable_cb
<1>16. CASE discover_func
  BY <1>16 DEF discover_func
<1>17. CASE write_func
  BY <1>17 DEF write_func
<1>18. ASSUME NEW o \in Outcomes, Procedure(o) PROVE Matched'
  BY <1>18, MatchedAnew
<1>19. CASE i_subevent_result_cb
  BY <1>19 DEF i_subevent_result_cb, Repeated, Complete, StepsAfter, SemsAfter
<1>20. CASE r_subevent_result_cb
  BY <1>20 DEF r_subevent_result_cb, Repeated, Complete, StepsAfter, SemsAfter
<1>21. CASE r_TimesOut
  BY <1>21 DEF r_TimesOut
<1>22. CASE WritePiece
  BY <1>22 DEF WritePiece
<1>23. CASE on_attr_write_cb
  <2>1. i_Noticed
    BY <1>23, Zenon DEF on_attr_write_cb
  <2>2. transfer = [k \in 1..Pieces |-> proc]
    BY <1>23 DEF on_attr_write_cb
  <2>3. ~writing' /\ latest_peer_steps' = transfer
    BY <1>23, Zenon DEF on_attr_write_cb
  <2> QED BY <1>23, <2>1, <2>2, <2>3 DEF on_attr_write_cb
<1>24. CASE WriteFails
  BY <1>24 DEF WriteFails
<1>25. CASE UNCHANGED sampleVars
  BY <1>25 DEF sampleVars
<1> QED BY <1>1, <1>2, <1>3, <1>4, <1>5, <1>6, <1>7, <1>8, <1>9, <1>10, <1>11, <1>12, <1>13, <1>14, <1>15,
           <1>16, <1>17, <1>18, <1>19, <1>20, <1>21, <1>22, <1>23, <1>24, <1>25
        DEF SampleNext, i_Main, r_Main, Answers, Transfer

LEMMA SampleInvariant == SampleSpec => []SampleInv
<1>1. SampleInit => SampleInv
  BY SampleTypesInit, MatchedInit DEF SampleInv
<1>2. SampleInv /\ [SampleNext]_sampleVars => SampleInv'
  <2> SUFFICES ASSUME SampleInv, [SampleNext]_sampleVars PROVE SampleInv'
    OBVIOUS
  <2>1. SampleTypes' /\ Always'
    BY SampleTypesNext, AlwaysNext DEF SampleInv
  <2>2. ASSUME ~unmatched' PROVE Matched'
    <3>1. ASSUME NEW o \in Outcomes, Procedure(o) PROVE Matched'
      BY <2>2, <3>1, MatchedAnew DEF SampleInv
    <3>2. CASE ~unmatched
      BY <2>2, <3>2, MatchedNext DEF SampleInv
    <3>3. CASE DeviceFound \/ i_connected_cb \/ r_connected_cb \/ Disconnected
      <4>1. ~unmatched
        BY <2>2, <3>3, Zenon DEF DeviceFound, i_connected_cb, r_connected_cb, Disconnected, airVars
      <4> QED BY <3>2, <4>1
    <3>4. CASE i_Main \/ r_Main \/ r_TimesOut
      <4>1. ~unmatched
        BY <2>2, <3>4, Zenon DEF i_Main, i_MainSetsUp, i_TakeProcedureDone, i_TakeDataReceived, i_Take,
           i_Estimated, r_Main, r_MainDiscovers, r_TakeDiscovered, r_MainWrites, r_TakeWritten,
           r_TimesOut, airVars
      <4> QED BY <3>2, <4>1
    <3>5. CASE Answers \/ Transfer \/ WriteFails
      <4>1. ~unmatched
        BY <2>2, <3>5, Zenon DEF Answers, security_changed_cb, SetupAnswered, procedure_enable_cb,
           discover_func, write_func, Transfer, WritePiece, on_attr_write_cb, WriteFails, airVars
      <4> QED BY <3>2, <4>1
    <3>6. CASE i_subevent_result_cb \/ r_subevent_result_cb \/ UNCHANGED sampleVars
      <4>1. ~unmatched
        BY <2>2, <3>6, Zenon DEF i_subevent_result_cb, r_subevent_result_cb, sampleVars, airVars
      <4> QED BY <3>2, <4>1
    <3> QED BY <3>1, <3>3, <3>4, <3>5, <3>6 DEF SampleNext
  <2> QED BY <2>1, <2>2 DEF SampleInv
<1> QED BY <1>1, <1>2, PTL DEF SampleSpec

(* The two buffers that a distance is estimated from hold the steps of one
   procedure, the peer's completely: for counters that wrap anywhere and writes in
   any number of pieces, and for every procedure that found both programs waiting,
   unless it ended well for the reflector only or without steps, or the write
   overtook the initiator's own results.  Nothing that an earlier procedure left
   behind, of these exceptions too, takes this from a later one. *)
THEOREM PairedCorrect == SampleSpec => []PairedEstimates
<1>1. SampleInv => PairedEstimates
  BY DEF SampleInv, Matched, Copied, Partner, Carrying, Estimating, PairedEstimates
<1> QED BY <1>1, SampleInvariant, PTL

(* Every variable of the two applications keeps its type; the write never has
   more pieces than it should. *)
THEOREM SampleTypeCorrect == SampleSpec => []SampleTypeOK
<1>1. SampleTypes => SampleTypeOK
  <2>1. TransferType =>
          /\ Len(transfer) <= Pieces
          /\ \A k \in DOMAIN transfer : transfer[k] \in Procedures \cup {None}
    BY DEF TransferType
  <2> QED BY <2>1, Zenon DEF SampleTypes, Flags, DataTypes, SampleTypeOK
<1> QED BY <1>1, SampleTypesInit, SampleTypesNext, PTL DEF SampleSpec

=============================================================================
