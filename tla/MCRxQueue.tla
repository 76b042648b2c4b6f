------------------------------ MODULE MCRxQueue ------------------------------
(***************************************************************************)
(* Model checking the dataset queue with three algorithms, two of which    *)
(* share their datasets.                                                   *)
(***************************************************************************)
EXTENDS RxQueue, TLC

=============================================================================
