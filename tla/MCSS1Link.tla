----------------------------- MODULE MCSS1Link -----------------------------
(* SS1Link on small instances.  Peers are interchangeable: no action or
   property tells one from another, so they may be permuted. *)
EXTENDS SS1Link, TLC

Symmetry == Permutations(Peers)
=============================================================================
