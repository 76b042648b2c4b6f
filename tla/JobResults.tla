------------------------------ MODULE JobResults ------------------------------
(***************************************************************************)
(* The way of a result from a hashing thread to the network                *)
(* (net/JobResults.cpp): a vector behind a mutex, an Async that wakes the  *)
(* event loop and coalesces its wake-ups, a listener called without the    *)
(* lock, and the order in which Controller::stop takes all this down.      *)
(***************************************************************************)
EXTENDS Naturals, Sequences

CONSTANTS
  Workers,      \* hashing threads
  MaxResults    \* bound of the model: results found

ASSUME MaxResultsAssumption == MaxResults \in Nat

VARIABLES
  handler,     \* "set", "dangling" after delete, "null"
  m_results, m_processingResults,    \* of the handler; results are numbered
  asyncSent,   \* m_async: written and not yet drained
  pc, result,  \* per thread: where it is, the result it submits
  main,        \* where the event loop is
  found,       \* history: results found so far
  pushed,      \* history: every result, in the order of push_back
  delivered    \* history: every result m_listener was called with

threadVars == <<pc, result, found>>
queueVars  == <<m_results, pushed>>
vars == <<handler, queueVars, m_processingResults, asyncSent, threadVars, main, delivered>>

Goto(w, label) == pc' = [pc EXCEPT ![w] = label]

-----------------------------------------------------------------------------
(* Hashing threads.                                                        *)

\* CpuWorker::start has a good hash, or a benchmark is over.
Find(w) ==
  /\ pc[w] = "hash" /\ found < MaxResults
  /\ found' = found + 1
  /\ result' = [result EXCEPT ![w] = found + 1]
  /\ Goto(w, "submit")
  /\ UNCHANGED <<handler, queueVars, m_processingResults, asyncSent, main, delivered>>

\* JobResults::submit: assert(handler != nullptr); if (handler)
Submit(w) ==
  /\ pc[w] = "submit"
  /\ Goto(w, IF handler = "null" THEN "hash" ELSE "push")
  /\ UNCHANGED <<handler, queueVars, m_processingResults, asyncSent, result, found, main, delivered>>

\* handler->submit, under the lock.  What a call on a deleted handler does is
\* undefined; in the model it does nothing.
Push(w) ==
  /\ pc[w] = "push"
  /\ IF handler = "set"
     THEN /\ m_results' = Append(m_results, result[w])
          /\ pushed' = Append(pushed, result[w])
          /\ asyncSent' = TRUE
     ELSE UNCHANGED <<queueVars, asyncSent>>
  /\ Goto(w, "hash")
  /\ UNCHANGED <<handler, m_processingResults, result, found, main, delivered>>

\* The thread sees the sequence 0 of Nonce::stop between two hashes.
Exit(w) ==
  /\ pc[w] = "hash" /\ main = "join"
  /\ Goto(w, "exit")
  /\ UNCHANGED <<handler, queueVars, m_processingResults, asyncSent, result, found, main, delivered>>

-----------------------------------------------------------------------------
(* The event loop.                                                         *)

\* Async drains the descriptor and then calls back.
Wake ==
  /\ main = "loop" /\ asyncSent
  /\ asyncSent' = FALSE
  /\ main' = "swap"
  /\ UNCHANGED <<handler, queueVars, m_processingResults, threadVars, delivered>>

SwapFaulty ==        \* copies instead of swapping
  /\ main = "swap"
  /\ m_processingResults' = m_results
  /\ main' = "deliver"
  /\ UNCHANGED <<handler, queueVars, asyncSent, threadVars, delivered>>

\* m_processingResults.swap(m_results), under the lock
Swap ==
  /\ main = "swap"
  /\ m_processingResults' = m_results
  /\ m_results' = m_processingResults
  /\ main' = "deliver"
  /\ UNCHANGED <<handler, pushed, asyncSent, threadVars, delivered>>

DeliverFaultyDrain ==    \* drains the descriptor after the callback
  /\ main = "deliver"
  /\ delivered' = delivered \o m_processingResults
  /\ m_processingResults' = <<>>
  /\ asyncSent' = FALSE
  /\ main' = "loop"
  /\ UNCHANGED <<handler, queueVars, threadVars>>

\* m_listener->onJobResult for each, then clear; no lock
Deliver ==
  /\ main = "deliver"
  /\ delivered' = delivered \o m_processingResults
  /\ m_processingResults' = <<>>
  /\ main' = "loop"
  /\ UNCHANGED <<handler, queueVars, asyncSent, threadVars>>

\* Controller::stop: m_network.reset() first, whose destructor calls
\* JobResults::stop: delete handler ...
Stop ==
  /\ main = "loop"
  /\ handler' = "dangling"
  /\ main' = "null"
  /\ UNCHANGED <<queueVars, m_processingResults, asyncSent, threadVars, delivered>>

\* ... handler = nullptr.
Forget ==
  /\ main = "null"
  /\ handler' = "null"
  /\ main' = "join"
  /\ UNCHANGED <<queueVars, m_processingResults, asyncSent, threadVars, delivered>>

\* m_miner->stop() joins the threads.
Join ==
  /\ main = "join"
  /\ \A w \in Workers : pc[w] = "exit"
  /\ main' = "stopped"
  /\ UNCHANGED <<handler, queueVars, m_processingResults, asyncSent, threadVars, delivered>>

Stopped == main = "stopped" /\ UNCHANGED vars

-----------------------------------------------------------------------------

Init ==
  /\ handler = "set"
  /\ m_results = <<>> /\ m_processingResults = <<>>
  /\ asyncSent = FALSE
  /\ pc = [w \in Workers |-> "hash"] /\ result = [w \in Workers |-> 0]
  /\ main = "loop"
  /\ found = 0 /\ pushed = <<>> /\ delivered = <<>>

Submission(w) == Submit(w) \/ Push(w) \/ Exit(w)
LoopStep == Wake \/ Swap \/ Deliver \/ Forget \/ Join

Next ==
  \/ \E w \in Workers : Find(w) \/ Submission(w)
  \/ LoopStep
  \/ Stop
  \/ Stopped

\* Threads and the loop are scheduled; nobody owes a result or a shutdown.
Fairness == WF_vars(LoopStep) /\ \A w \in Workers : WF_vars(Submission(w))

Spec == Init /\ [][Next]_vars /\ Fairness

-----------------------------------------------------------------------------

Results == Seq(1..MaxResults)

\* Types; and between two deliveries the second vector is empty, so that the
\* swap hands the threads an empty one (JobResults.cpp:79, 86).
TypeOK ==
  /\ handler \in {"set", "dangling", "null"}
  /\ m_results \in Results /\ m_processingResults \in Results
  /\ asyncSent \in BOOLEAN
  /\ pc \in [Workers -> {"hash", "submit", "push", "exit"}]
  /\ result \in [Workers -> 0..MaxResults]
  /\ main \in {"loop", "swap", "deliver", "null", "join", "stopped"}
  /\ found \in 0..MaxResults /\ pushed \in Results /\ delivered \in Results
  /\ main # "deliver" => m_processingResults = <<>>

\* A result reaches the network exactly once and in the order of submission,
\* although two vectors change places under the lock while threads append
\* (JobResults.cpp:61-87).
DeliveredOnceInOrder == pushed = delivered \o m_processingResults \o m_results

\* No result is left behind by a wake-up that came too early or was merged
\* with another (JobResults.cpp:64-66, Async.cpp:55-80), as long as the
\* application runs.
AllDelivered ==
  Len(pushed) > Len(delivered) ~> Len(pushed) = Len(delivered) \/ handler # "set"

\* "assert(handler != nullptr)" (JobResults.cpp:141): a thread that submits a
\* result finds the handler.
SubmitFindsHandler == \A w \in Workers : pc[w] = "submit" => handler # "null"

=============================================================================
