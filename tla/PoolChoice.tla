------------------------------ MODULE PoolChoice ------------------------------
(***************************************************************************)
(* What a pool strategy promises to the miner, without sockets, lookups,   *)
(* retries or the event loop: it mines for one pool that is logged on, or  *)
(* for none; while it does no other pool gets logged on but the first one, *)
(* which takes over at once.                                               *)
(*                                                                         *)
(* Network implements this specification (ImplementsChoice).               *)
(***************************************************************************)
EXTENDS Integers

CONSTANTS Pools,    \* in order of preference; the first one is 0
          None      \* no pool

VARIABLES
  active,   \* the pool the strategy has chosen, or None
  job,      \* the pool the miner works for, or None
  up,       \* the pools that are logged on
  retired   \* the strategy is deleted

vars == <<active, job, up, retired>>

Init == active = None /\ job = None /\ up = {} /\ retired = FALSE

\* onLoginSuccess: the pool's first job comes with it, and whoever was mined for
\* before is disconnected.
LogOn(p) ==
  /\ ~retired /\ p \notin up
  /\ p = 0 \/ up = {}
  /\ active' = p /\ job' = p /\ up' = {p}
  /\ UNCHANGED retired

\* onClose
Fail(p) ==
  /\ p \in up
  /\ active' = None /\ job' = None /\ up' = up \ {p}
  /\ UNCHANGED retired

Retire ==
  /\ ~retired /\ retired' = TRUE
  /\ active' = None /\ job' = None /\ up' = {}

Next == Retire \/ \E p \in Pools : LogOn(p) \/ Fail(p)

Spec == Init /\ [][Next]_vars

=============================================================================
