-------------------------------- MODULE Bench --------------------------------
(***************************************************************************)
(* The benchmark: Size nonces, shared out one by one among the hashing     *)
(* threads, and a checksum of their hashes. backend/common/benchmark keeps *)
(* count of the threads that are through (BenchState, one global object    *)
(* that BenchClient makes and deletes); the last of them wakes the event   *)
(* loop. An online benchmark mines a warm-up job until the server has      *)
(* given it the real one.                                                  *)
(***************************************************************************)
EXTENDS Naturals, FiniteSets

CONSTANTS
  Threads,     \* the hashing threads
  Size,        \* m_benchSize: nonces to hash
  Reserve,     \* kReserveCount, the range drawn for a job that is no benchmark
  MaxToggles   \* bound: pauses and resumptions by the user

ASSUME BenchAssumption ==
  /\ IsFiniteSet(Threads)
  /\ Size \in Nat \ {0} /\ Reserve \in Nat \ {0} /\ MaxToggles \in Nat

None == "none"

VARIABLES
  state,       \* d_ptr: "set", "null"
  remaining, benchAsync, holder,    \* in it: count, async, who has the mutex
  request,     \* BenchClient: "none", "create" (asked for the job), "start", "done"
  jobNow,      \* MinerPrivate::job: "warm" or "bench"
  drawn,       \* Nonce::m_nonces, which counts no further than Size here
  seqNow, paused,                   \* Nonce::m_sequence, m_paused
  loop,        \* where the event loop is
  toggles,     \* history: pauses and resumptions
  at,          \* per thread: where it is
  got, own,    \* per thread: the job consumeJob has fetched, and the one it hashes
  seq, nonce,  \* per thread: WorkerJob's m_sequence and its nonce
  current,     \* per thread: current_job_nonces[0]
  counted,     \* history: how often each nonce entered the checksum
  reported,    \* history: onBenchDone was called
  confused     \* history: a thread drew from the counter of the wrong job

stateVars == <<state, remaining, benchAsync, holder>>
loopVars  == <<request, jobNow, seqNow, paused, loop, toggles>>
ownVars   == <<got, own, seq, nonce, current>>
historyVars == <<counted, reported, confused>>
benchVars == <<stateVars, loopVars, drawn, at, ownVars, historyVars>>

To(w, label) == at' = [at EXCEPT ![w] = label]

-----------------------------------------------------------------------------
(* The event loop. It has just created the threads.                        *)

\* BenchState::start, from Workers::start; onBenchReady asks for the job.
BenchStart ==
  /\ loop = "start"
  /\ remaining' = Cardinality(Threads) /\ benchAsync' = "idle"
  /\ request' = IF jobNow = "warm" THEN "create" ELSE "none"
  /\ loop' = "touch"
  /\ UNCHANGED <<state, holder, jobNow, seqNow, paused, toggles, drawn, at, ownVars, historyVars>>

\* onCreateReply: Miner::setJob stores the job; the threads' settings are the same.
CreateReply ==
  /\ loop = "idle" /\ request = "create"
  /\ jobNow' = "bench" /\ request' = "start"
  /\ loop' = "reset"
  /\ UNCHANGED <<stateVars, seqNow, paused, toggles, drawn, at, ownVars, historyVars>>

\* handleJobChange: Nonce::reset ...
BenchReset ==
  /\ loop = "reset"
  /\ drawn' = 0
  /\ loop' = "touch"
  /\ UNCHANGED <<stateVars, request, jobNow, seqNow, paused, toggles, at, ownVars, historyVars>>

\* ... and Nonce::touch.
BenchTouch ==
  /\ loop = "touch"
  /\ seqNow' = seqNow + 1
  /\ loop' = "idle"
  /\ UNCHANGED <<stateVars, request, jobNow, paused, toggles, drawn, at, ownVars, historyVars>>

\* The user: Miner::setEnabled pauses or resumes, and then touches.
Toggle ==
  /\ loop = "idle" /\ state = "set" /\ toggles < MaxToggles
  /\ toggles' = toggles + 1
  /\ paused' = ~paused
  /\ loop' = "touch"
  /\ UNCHANGED <<stateVars, request, jobNow, seqNow, drawn, at, ownVars, historyVars>>

\* The answer to a request is an error: BenchClient::setError destroys the state.
RequestFails ==
  /\ loop = "idle" /\ request \in {"create", "start"}
  /\ request' = "none"
  /\ state' = "null"
  /\ UNCHANGED <<remaining, benchAsync, holder, jobNow, seqNow, paused, loop, toggles,
                 drawn, at, ownVars, historyVars>>

\* The Async's callback: onBenchDone, and destroy.
Report ==
  /\ loop = "idle" /\ state = "set" /\ benchAsync = "sent"
  /\ reported' = TRUE
  /\ request' = IF request = "none" THEN "none" ELSE "done"
  /\ state' = "null"
  /\ UNCHANGED <<remaining, benchAsync, holder, jobNow, seqNow, paused, loop, toggles,
                 drawn, at, ownVars, counted, confused>>

\* Benchmark::finish
Finished == state = "null"

\* Miner::onTimer: when the benchmark is over Miner::stop calls Nonce::stop ...
TimerStops ==
  /\ loop = "idle" /\ Finished
  /\ paused' = FALSE /\ seqNow' = 0
  /\ loop' = "join"
  /\ UNCHANGED <<stateVars, request, jobNow, toggles, drawn, at, ownVars, historyVars>>

\* ... and CpuBackend::stop joins the threads.
BenchJoin ==
  /\ loop = "join" /\ \A w \in Threads : at[w] \in {"exit", "failed"}
  /\ loop' = "stopped"
  /\ UNCHANGED <<stateVars, request, jobNow, seqNow, paused, toggles, drawn, at, ownVars, historyVars>>

\* Ticks of a timer that finds nothing, and the end.
Quiet ==
  /\ \/ loop = "idle" /\ state = "set"
     \/ loop = "stopped"
     \/ \E w \in Threads : at[w] = "crash"
  /\ UNCHANGED benchVars

-----------------------------------------------------------------------------
(* The hashing threads.                                                    *)

\* Workers::onReady: selfTest is false for N > 1.
SelfTest(w) ==
  /\ at[w] = "test"
  /\ \E result \in {"outer", "failed"} : To(w, result)
  /\ UNCHANGED <<stateVars, loopVars, drawn, ownVars, historyVars>>

\* Between two rounds of hashing: the sequence, the pause, and the job.
FetchJob(w) ==
  /\ at[w] = "outer" /\ seqNow # 0 /\ ~paused
  /\ got' = [got EXCEPT ![w] = jobNow]
  /\ To(w, "add")
  /\ UNCHANGED <<stateVars, loopVars, drawn, own, seq, nonce, current, historyVars>>

LeaveLoop(w) ==
  /\ at[w] = "outer" /\ seqNow = 0
  /\ To(w, "exit")
  /\ UNCHANGED <<stateVars, loopVars, drawn, ownVars, historyVars>>

AddJobFaulty(w) ==   \* draws again for the job the thread has
  /\ at[w] = "add"
  /\ seq' = [seq EXCEPT ![w] = seqNow]
  /\ own' = [own EXCEPT ![w] = got[w]] /\ got' = [got EXCEPT ![w] = None]
  /\ To(w, "save")
  /\ UNCHANGED <<stateVars, loopVars, drawn, nonce, current, historyVars>>

\* WorkerJob::add: a job the thread has already goes on where it was.
AddJob(w) ==
  /\ at[w] = "add"
  /\ seq' = [seq EXCEPT ![w] = seqNow]
  /\ own' = [own EXCEPT ![w] = got[w]] /\ got' = [got EXCEPT ![w] = None]
  /\ To(w, IF own[w] = got[w] THEN "hash" ELSE "save")
  /\ UNCHANGED <<stateVars, loopVars, drawn, nonce, current, historyVars>>

\* WorkerJob::save, or nextRound after the nonce in hand has been noted.
DrawNonce(w) ==
  /\ at[w] \in {"save", "round"}
  /\ nonce' = [nonce EXCEPT ![w] = drawn]
  /\ LET benched == own[w] = "bench"
         next == drawn + (IF benched THEN 1 ELSE Reserve)
     IN /\ drawn' = IF next < Size THEN next ELSE Size
        /\ confused' = (confused \/ (jobNow = "bench" /\ benched = (loop = "reset")))
        /\ IF at[w] = "round" /\ benched
           THEN To(w, "sum") /\ current' = [current EXCEPT ![w] = nonce[w]]
           ELSE To(w, "hash") /\ UNCHANGED current
  /\ UNCHANGED <<stateVars, loopVars, got, own, seq, counted, reported>>

\* The head of the hashing loop.
Hash(w) ==
  /\ at[w] = "hash"
  /\ \/ seq[w] # seqNow /\ To(w, "outer")
     \/ /\ seq[w] = seqNow
        /\ To(w, IF own[w] = "bench" /\ nonce[w] >= Size THEN "done" ELSE "round")
  /\ UNCHANGED <<stateVars, loopVars, drawn, ownVars, historyVars>>

\* BenchState::add, for the nonce the hash is of.
Sum(w) ==
  /\ at[w] = "sum"
  /\ counted' = [counted EXCEPT ![current[w]] = @ + 1]
  /\ current' = [current EXCEPT ![w] = 0]
  /\ To(w, "hash")
  /\ UNCHANGED <<stateVars, loopVars, drawn, got, own, seq, nonce, reported, confused>>

DoneFaulty(w) ==     \* tests the count before it is lowered
  /\ at[w] = "done"
  /\ state = "set" /\ benchAsync # None /\ holder = None
  /\ holder' = w
  /\ remaining' = remaining - 1
  /\ benchAsync' = IF remaining = 0 THEN "sent" ELSE benchAsync
  /\ To(w, "unlock")
  /\ UNCHANGED <<state, loopVars, drawn, ownVars, historyVars>>

\* BenchState::done, with the mutex. (That the loop has run BenchState::start
\* before a thread has hashed its share, is assumed.)
Done(w) ==
  /\ at[w] = "done"
  /\ state = "set" /\ benchAsync # None /\ holder = None
  /\ holder' = w
  /\ remaining' = remaining - 1
  /\ benchAsync' = IF remaining' = 0 THEN "sent" ELSE benchAsync
  /\ To(w, "unlock")
  /\ UNCHANGED <<state, loopVars, drawn, ownVars, historyVars>>

\* BenchState::done on a null pointer.
DoneOnNull(w) ==
  /\ at[w] = "done" /\ state = "null"
  /\ To(w, "crash")
  /\ UNCHANGED <<stateVars, loopVars, drawn, ownVars, historyVars>>

\* The guard's destructor; the mutex may have been deleted by then.
Unlock(w) ==
  /\ at[w] = "unlock"
  /\ holder' = None
  /\ To(w, "exit")
  /\ UNCHANGED <<state, remaining, benchAsync, loopVars, drawn, ownVars, historyVars>>

-----------------------------------------------------------------------------

BenchInit ==
  /\ jobNow \in {"warm", "bench"}
  /\ state = "set" /\ remaining = 0 /\ benchAsync = None /\ holder = None
  /\ request = "none" /\ drawn = 0 /\ seqNow = 1 /\ paused = FALSE
  /\ loop = "start" /\ toggles = 0
  /\ at = [w \in Threads |-> "test"]
  /\ got = [w \in Threads |-> None] /\ own = [w \in Threads |-> None]
  /\ seq = [w \in Threads |-> 0] /\ nonce = [w \in Threads |-> 0]
  /\ current = [w \in Threads |-> 0]
  /\ counted = [n \in 0..(Size - 1) |-> 0] /\ reported = FALSE /\ confused = FALSE

HashingStep(w) ==
  \/ SelfTest(w) \/ FetchJob(w) \/ LeaveLoop(w) \/ AddJob(w) \/ DrawNonce(w) \/ Hash(w)
  \/ Sum(w) \/ Done(w) \/ DoneOnNull(w) \/ Unlock(w)

BenchLoop == BenchStart \/ BenchReset \/ BenchTouch \/ Report \/ TimerStops \/ BenchJoin

BenchNext ==
  \/ BenchLoop
  \/ CreateReply \/ RequestFails \/ Toggle \/ Quiet
  \/ \E w \in Threads : HashingStep(w)

\* Threads and the loop are scheduled; nobody owes an answer or a pause.
BenchFairness ==
  /\ WF_benchVars(BenchLoop)
  /\ \A w \in Threads : WF_benchVars(HashingStep(w))

BenchSpec == BenchInit /\ [][BenchNext]_benchVars /\ BenchFairness

-----------------------------------------------------------------------------

\* When the result is reported, no thread is still hashing and every nonce is in
\* the checksum once, over pauses and the change from the warm-up job: one draw
\* a round (WorkerJob.h:128-140), the note of the nonce before it
\* (CpuWorker.cpp:148-206) and the count of threads (BenchState.cpp:113-127).
\* Excepted is a job that changes while a thread draws: one that has the new job
\* before Nonce::reset, or the old job after it (Miner.cpp:540, 105).
ResultComplete ==
  reported =>
    /\ \A w \in Threads : at[w] \in {"unlock", "exit"}
    /\ confused \/ \A n \in DOMAIN counted : counted[n] = 1

\* A thread that read the job before it was stored and the sequence after it was
\* touched (CpuWorker.cpp:262-271, WorkerJob.h:53) hashes the warm-up job for ever.
Overtaken(w) == own[w] = "warm" /\ jobNow = "bench" /\ seq[w] = seqNow

\* A benchmark comes to its end: the last thread wakes the loop, whichever it
\* is, and the timer stops the miner (BenchState.cpp:113-127, Miner.cpp:640).
\* Not if it stays paused, if the server never gives it the job, if a worker
\* failed its self-test and is waited for, was overtaken, or found the state
\* destroyed by a request that failed (BenchClient.cpp:171, BenchState.cpp:96).
BenchEnds ==
  \/ <>(loop = "stopped")
  \/ <>[](paused \/ jobNow = "warm")
  \/ \E w \in Threads : <>[](at[w] \in {"failed", "crash"} \/ Overtaken(w))
==============================================================================
