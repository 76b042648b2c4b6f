---------------------------- MODULE MCWorkerJob ----------------------------
(***************************************************************************)
(* Model checking the nonce allocator with its callers.                    *)
(***************************************************************************)
EXTENDS WorkerJob, TLC

\* A job, the same template again, the next template, under the same seed or another.
MCJobs == { [blob |-> 1, turn |-> 1, seed |-> 1], [blob |-> 1, turn |-> 2, seed |-> 1],
            [blob |-> 2, turn |-> 1, seed |-> 1], [blob |-> 2, turn |-> 1, seed |-> 2] }

\* The threads are alike, and no property of the run is a liveness property.
MCSymmetry == Permutations(Workers)
============================================================================
