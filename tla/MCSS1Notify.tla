---------------------------- MODULE MCSS1Notify ----------------------------
(* SS1Notify on small instances. *)
EXTENDS SS1Notify
=============================================================================
