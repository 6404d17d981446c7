---------------------------- MODULE CsInitiator ----------------------------
(***************************************************************************)
(* Channel Sounding on SS2 (Blonky/src/cs_initiator.c): the buffer and the *)
(* semaphore (CsRanging), the set-up and the distance shown (CsSession),   *)
(* and the parse of a procedure (CsSteps).  They share no variable, so a   *)
(* behaviour shows one of them and leaves the others as they were at the   *)
(* start.                                                                  *)
(***************************************************************************)
EXTENDS CsRanging, CsSession, CsSteps

VARIABLE shown                  \* "buffer", "session" or "parse"

allVars == <<shown, vars, sessionVars, stepsVars>>

AllInit == Init /\ SessionInit /\ StepsInit /\ shown \in {"buffer", "session", "parse"}

AllNext ==
    /\ UNCHANGED shown
    /\ \/ shown = "buffer" /\ Next /\ UNCHANGED <<sessionVars, stepsVars>>
       \/ shown = "session" /\ SessionNext /\ UNCHANGED <<vars, stepsVars>>
       \/ shown = "parse" /\ StepsNext /\ UNCHANGED <<vars, sessionVars>>

AllSpec == AllInit /\ [][AllNext]_allVars

AllFairness == shown = "buffer" => Fairness

(* Every variable of the three parts keeps its type: the semaphore its limit, the
   window its places, and a procedure's samples are no more than its steps. *)
AllTypesOK == TypeOK /\ SessionTypeOK /\ StepsTypeOK
=============================================================================
