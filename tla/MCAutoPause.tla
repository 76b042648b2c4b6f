----------------------------- MODULE MCAutoPause -----------------------------
(***************************************************************************)
(* Model checking the pauses; the model is finite as it is.                *)
(***************************************************************************)
EXTENDS AutoPause, TLC

=============================================================================
