--------------------------- MODULE SS1MainThread ---------------------------
(***************************************************************************)
(* The main thread of SS1: the loop (SS1Main) and the notify loops it      *)
(* calls (SS1Notify).  They share no variable, so a behaviour shows one of *)
(* them and leaves the other as it was at the start.                       *)
(***************************************************************************)
EXTENDS SS1Main, SS1Notify

VARIABLE shown                  \* "main loop" or "notify loop"

allVars == <<shown, mainVars, vars>>

ThreadInit == Init /\ MainInit /\ shown \in {"main loop", "notify loop"}

ThreadNext ==
    \/ shown = "main loop" /\ MainNext /\ UNCHANGED <<shown, vars>>
    \/ shown = "notify loop" /\ Next /\ UNCHANGED <<shown, mainVars>>

ThreadSpec == ThreadInit /\ [][ThreadNext]_allVars

ThreadFairness == shown = "main loop" => MainFairness

(* Every variable of both loops keeps its type: the averages' ring and the packet
   numbers wrap, the made-up temperature stays in its range, and the index of a
   notify loop stays in the table. *)
AllTypesOK == TypeOK /\ MainTypeOK
=============================================================================
