----------------------------- MODULE MCJobResults -----------------------------
(***************************************************************************)
(* Model checking the delivery of results.                                 *)
(***************************************************************************)
EXTENDS JobResults, TLC

=============================================================================
