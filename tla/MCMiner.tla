------------------------------- MODULE MCMiner -------------------------------
(***************************************************************************)
(* Model checking the engine.  The pool sends a first job, the same blob   *)
(* at another difficulty, a new blob, and a job of another seed hash.      *)
(***************************************************************************)
EXTENDS Miner, TLC

CONSTANTS h1, h2

MCHashes == {h1, h2}

Seed1 == [algo |-> RX_0, data |-> h1]
Seed2 == [algo |-> RX_0, data |-> h2]

First     == [id |-> 1, blob |-> "b1", diff |-> 1, seed |-> Seed1]
SameBlob  == [id |-> 2, blob |-> "b1", diff |-> 2, seed |-> Seed1]
NewBlob   == [id |-> 3, blob |-> "b2", diff |-> 1, seed |-> Seed1]
OtherSeed == [id |-> 4, blob |-> "b3", diff |-> 1, seed |-> Seed2]
OtherAlgo == [id |-> 5, blob |-> "b4", diff |-> 1, seed |-> [algo |-> RX_V2, data |-> h1]]

MCJobs == {First, OtherSeed, OtherAlgo}
MCBlobs == {First, SameBlob, NewBlob}
MCMixed == {First, NewBlob, OtherSeed, OtherAlgo}

=============================================================================
