-------------------------------- MODULE RxSeed --------------------------------
(***************************************************************************)
(* The key of a RandomX dataset (crypto/rx/RxSeed.h): the algorithm and    *)
(* the seed hash of a job.  rx/0 and rx/2 build the same dataset.          *)
(***************************************************************************)

CONSTANTS
  Algos,    \* the algorithms of the RANDOM_X family in use
  Hashes,   \* the seed hashes pools send
  RX_0, RX_V2

ASSUME SeedAssumption == {RX_0, RX_V2} \subseteq Algos /\ "invalid" \notin Algos

Seed == [algo : Algos, data : Hashes]

\* A default constructed RxSeed: Algorithm::INVALID and an empty buffer,
\* equal to the seed of no job.
NoSeed == [algo |-> "invalid", data |-> "empty"]

EqualSeedAlgo(a, b) == a = b \/ {a, b} = {RX_0, RX_V2}

\* RxSeed::isEqual, of seeds of jobs
SameSeed(s, t) == EqualSeedAlgo(s.algo, t.algo) /\ s.data = t.data

=============================================================================
