---------------------------- MODULE DatasetService ----------------------------
(***************************************************************************)
(* What the RandomX dataset queue promises to the miner, without threads,  *)
(* locks or memory: one dataset, for the seed asked for last, rebuilt in   *)
(* the background, with a notice to the event loop after every build.      *)
(*                                                                         *)
(* RxQueue implements this specification, and Miner is written against it. *)
(***************************************************************************)
EXTENDS RxSeed

VARIABLES
  wanted,   \* the seed asked for last
  phase,    \* "none" before the first request, "building", "ready", "failed"
            \* when memory could not be allocated, "closed" at shutdown
  notice    \* a wake-up of the event loop that it has not yet handled

vars == <<wanted, phase, notice>>

\* Rx::isReady(s), and the condition under which Rx::dataset returns one.
Ready(s) == phase = "ready" /\ SameSeed(wanted, s)

\* A request for s is already being served.
InProgress(s) == phase = "building" /\ SameSeed(wanted, s)

Init ==
  /\ wanted = NoSeed
  /\ phase = "none"
  /\ notice = FALSE

\* RxQueue::enqueue, for a seed that was found not to be ready
Ask(s) ==
  /\ phase # "closed"
  /\ IF InProgress(s) THEN UNCHANGED <<wanted, phase>>
                      ELSE wanted' = s /\ phase' = "building"
  /\ UNCHANGED notice

\* The background thread publishes the outcome of the build.
Finish(outcome) ==
  /\ phase = "building"
  /\ phase' = outcome
  /\ notice' = TRUE
  /\ UNCHANGED wanted

\* The event loop consumes the notice.
Hear ==
  /\ notice
  /\ notice' = FALSE
  /\ UNCHANGED <<wanted, phase>>

Close ==
  /\ phase # "closed"
  /\ phase' = "closed"
  /\ UNCHANGED <<wanted, notice>>

Outcomes == {"ready", "failed"}

Next ==
  \/ \E s \in Seed : Ask(s)
  \/ \E outcome \in Outcomes : Finish(outcome)
  \/ Hear
  \/ Close

Spec == Init /\ [][Next]_vars

=============================================================================
