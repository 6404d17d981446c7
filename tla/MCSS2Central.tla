---------------------------- MODULE MCSS2Central ----------------------------
(* SS2Central on small instances. *)
EXTENDS SS2Central

=============================================================================
