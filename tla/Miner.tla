-------------------------------- MODULE Miner --------------------------------
(***************************************************************************)
(* The mining engine: core/Miner.cpp on the event loop, the hashing        *)
(* threads of backend/cpu/CpuWorker.cpp, and what couples them: the pause  *)
(* flag and the sequence number of crypto/common/Nonce.h, the nonces, of   *)
(* which there is here whether any are left (see Nonce), the job behind    *)
(* Miner's mutex, and the dataset queue, of which only the promise of      *)
(* DatasetService is used.                                                 *)
(*                                                                         *)
(* The handlers of the event loop are sequences of small steps: `todo'     *)
(* holds what is left of the handler that runs, one element for each       *)
(* access to a variable the hashing threads share.                         *)
(***************************************************************************)
EXTENDS RxSeed, Integers, Sequences

CONSTANTS
  Workers,      \* the hashing threads of the CPU backend
  Jobs,         \* [id, blob, diff : ..., seed : Seed]
  NoJob,        \* a default constructed Job
  Configs,      \* CPU settings a configuration may hold; "off" disables it
  Commands,     \* the events that occur beside jobs and datasets
  MaxEvents     \* bound of the model: jobs, commands, configurations, and ends of
                \* the nonces

ASSUME MinerAssumption ==
  /\ NoJob \notin Jobs
  /\ \A j \in Jobs : j.seed \in Seed
  /\ "none" \notin Configs
  /\ Commands \subseteq {"pause", "enable", "disable", "stop", "config"}
  /\ MaxEvents \in Nat

VARIABLES
  paused, sequence,              \* Nonce: m_paused, m_sequence[CPU]
  space,       \* m_nonces is past the mask: "used", or not: "open"
  late,        \* history: since the flag last fell a thread has raised it for
               \* the end of nonces that had been reset in between
  job, reset, active, enabled,   \* MinerPrivate, under these names
  algorithm,
  cpuConfig, applied,            \* CPU settings: configured, and those the
                                 \* running threads were started with
  wanted, phase, notice,         \* the dataset: see DatasetService
  todo, incoming,                \* the handler in progress, its argument
  pc, ret,                       \* where each thread is, and where consumeJob
                                 \* returns to
  fetched, wjob, wseq, hasVm,    \* CpuWorker: job in consumeJob, m_job's job
                                 \* and sequence, m_vm
  overtaken,   \* history: the loop changed what consumeJob reads, in the
               \* window that `Overtake' describes
  intervened,  \* history: a "stop" call or a change of the configuration
  resetFor,    \* history: the blob the counter was last reset for
  events       \* history: events so far

nonceVars   == <<paused, sequence, space, late>>
minerVars   == <<job, reset, active, enabled, algorithm, incoming>>
backendVars == <<cpuConfig, applied>>
datasetVars == <<wanted, phase, notice>>
workerVars  == <<pc, ret, fetched, wjob, wseq, hasVm>>
historyVars == <<overtaken, intervened, resetFor, events>>

vars == <<nonceVars, minerVars, backendVars, datasetVars, workerVars, todo, historyVars>>

Dataset == INSTANCE DatasetService

HasDataset(j) == j # NoJob /\ Dataset!Ready(j.seed)

Running == applied # "none"

-----------------------------------------------------------------------------
(* Handlers of the event loop.                                             *)

\* Miner::stop: Nonce::stop, then the backend
Stop == <<"release", "zero">>

HandleJobChangeFaulty == <<"reset", "backend", "unpause">>     \* no touch
HandleJobChange == <<"quiet", "reset", "backend", "touch", "unpause">>

Idle == todo = <<>>
At(step) == ~Idle /\ Head(todo) = step

\* An event is handled when the loop is idle.
Begin(steps) == Idle /\ todo' = steps

Input == events < MaxEvents /\ events' = events + 1

\* Go on to the next step, after `extra'.
Continue(extra) == todo' = extra \o Tail(todo)

\* A thread in consumeJob has seen that it may go on (not paused, not
\* stopped) and has yet to read the job and the sequence.  If the loop
\* changes one of them now the thread may end up with the old job under the
\* new sequence number.
Window == {"consume", "fetch", "add"}
Overtake == overtaken' = [w \in Workers |-> overtaken[w] \/ pc[w] \in Window]

SetJobFaulty(j) ==      \* lets the threads run on while the dataset changes
  /\ Input
  /\ Begin((IF algorithm # j.seed.algo THEN Stop ELSE <<>>) \o <<"store">>)
  /\ incoming' = j
  /\ algorithm' = j.seed.algo
  /\ UNCHANGED <<job, reset, active, enabled, nonceVars, backendVars, datasetVars,
                 workerVars, overtaken, intervened, resetFor>>

SetJob(j) ==
  /\ Input
  /\ Begin((IF algorithm # j.seed.algo THEN Stop
            ELSE IF ~HasDataset(j) THEN <<"hold", "touch">>
            ELSE <<>>) \o <<"store">>)
  /\ incoming' = j
  /\ algorithm' = j.seed.algo
  /\ UNCHANGED <<job, reset, active, enabled, nonceVars, backendVars, datasetVars,
                 workerVars, overtaken, intervened, resetFor>>

\* Miner::pause, when no pool is active
Pause ==
  /\ "pause" \in Commands /\ Input
  /\ Begin(<<"hold", "touch">>)
  /\ active' = FALSE
  /\ UNCHANGED <<job, reset, enabled, algorithm, incoming, nonceVars, backendVars,
                 datasetVars, workerVars, overtaken, intervened, resetFor>>

SetEnabledFaulty(value) ==      \* acts when no job is active
  /\ (IF value THEN "enable" ELSE "disable") \in Commands /\ Input
  /\ enabled # value
  /\ enabled' = value
  /\ Begin(IF value THEN <<"release", "touch">> ELSE <<"hold", "touch">>)
  /\ UNCHANGED <<job, reset, active, algorithm, incoming, nonceVars, backendVars,
                 datasetVars, workerVars, overtaken, intervened, resetFor>>

\* Miner::setEnabled, past its tests of the battery (see AutoPause)
SetEnabled(value) ==
  /\ (IF value THEN "enable" ELSE "disable") \in Commands /\ Input
  /\ enabled # value
  /\ enabled' = value
  /\ Begin(IF ~active THEN <<>>
           ELSE IF value THEN <<"release", "touch">>
           ELSE <<"hold", "touch">>)
  /\ UNCHANGED <<job, reset, active, algorithm, incoming, nonceVars, backendVars,
                 datasetVars, workerVars, overtaken, intervened, resetFor>>

\* Miner::onRequest, the "stop" call
RequestStop ==
  /\ "stop" \in Commands /\ Input
  /\ Begin(Stop)
  /\ intervened' = TRUE
  /\ UNCHANGED <<minerVars, nonceVars, backendVars, datasetVars, workerVars, overtaken, resetFor>>

\* Miner::onConfigChanged; other pools will bring another job.
ConfigChanged(config, otherPools) ==
  /\ "config" \in Commands /\ Input
  /\ cpuConfig' = config
  /\ Begin(IF otherPools THEN <<>> ELSE <<"backend">>)
  /\ intervened' = TRUE
  /\ UNCHANGED <<minerVars, nonceVars, applied, datasetVars, workerVars, overtaken, resetFor>>

\* RxQueue::onReady and Miner::onDatasetReady; the queue is silent when a
\* new build has begun.
DatasetReady ==
  /\ Dataset!Hear
  /\ Begin(IF HasDataset(job) THEN HandleJobChange ELSE <<>>)
  /\ UNCHANGED <<minerVars, nonceVars, backendVars, workerVars, historyVars>>

-----------------------------------------------------------------------------
(* The steps of these handlers.                                            *)

SetPaused(value) ==
  /\ paused' = value /\ late' = (late /\ value)
  /\ Overtake
  /\ UNCHANGED <<sequence, space, minerVars, backendVars, datasetVars, workerVars, intervened, resetFor, events>>

Hold == At("hold") /\ Continue(<<>>) /\ SetPaused(TRUE)

Release == At("release") /\ Continue(<<>>) /\ SetPaused(FALSE)

\* handleJobChange
Quiet   == At("quiet") /\ Continue(<<>>) /\ SetPaused(paused \/ ~enabled)

UnpauseFaulty == At("unpause") /\ Continue(<<>>) /\ SetPaused(paused)    \* forgotten
Unpause == At("unpause") /\ Continue(<<>>) /\ SetPaused(paused /\ ~(active /\ enabled))

\* Nonce::touch
Touch ==
  /\ At("touch") /\ Continue(<<>>)
  /\ sequence' = sequence + 1
  /\ Overtake
  /\ UNCHANGED <<paused, space, late, minerVars, backendVars, datasetVars, workerVars, intervened,
                 resetFor, events>>

\* setJob, from the lock to initRX's test of the dataset: Rx::isReady
Store ==
  /\ At("store")
  /\ LET ready == HasDataset(incoming)
     IN /\ Continue(IF ready THEN HandleJobChange ELSE <<"ask">>)
        /\ reset' = (~ready \/ (job = NoJob \/ (job.id # incoming.id /\ job.blob # incoming.blob)))
  /\ job' = incoming
  /\ incoming' = NoJob
  /\ active' = TRUE
  /\ Overtake
  /\ resetFor' = IF job = NoJob \/ job.blob # incoming.blob THEN "nothing" ELSE resetFor
  /\ UNCHANGED <<enabled, algorithm, nonceVars, backendVars, datasetVars, workerVars,
                 intervened, events>>

\* RxQueue::enqueue, still under Miner's lock
Ask ==
  /\ At("ask") /\ Continue(<<>>)
  /\ Dataset!Ask(job.seed)
  /\ UNCHANGED <<minerVars, nonceVars, backendVars, workerVars, historyVars>>

\* Nonce::reset
Reset ==
  /\ At("reset") /\ Continue(<<>>)
  /\ IF reset THEN resetFor' = job.blob /\ space' = "open" ELSE UNCHANGED <<resetFor, space>>
  /\ UNCHANGED <<minerVars, paused, sequence, late, backendVars, datasetVars, workerVars, overtaken,
                 intervened, events>>

\* CpuBackend::setJob
Backend ==
  /\ At("backend")
  /\ LET stop == IF Running THEN <<"zero">> ELSE <<>>
     IN Continue(CASE cpuConfig = "off"                     -> stop
                   [] cpuConfig # "off" /\ applied = cpuConfig -> <<>>
                   [] cpuConfig # "off" /\ applied # cpuConfig ->
                        IF job = NoJob THEN stop ELSE stop \o <<"start">>)
  /\ UNCHANGED <<minerVars, nonceVars, backendVars, datasetVars, workerVars, historyVars>>

\* Nonce::stop, and Workers::stop up to the joins
Zero ==
  /\ At("zero")
  /\ Continue(IF Running THEN <<"join">> ELSE <<>>)
  /\ sequence' = 0
  /\ Overtake
  /\ UNCHANGED <<paused, space, late, minerVars, backendVars, datasetVars, workerVars, intervened,
                 resetFor, events>>

\* A CpuWorker as its constructor leaves it; none is left when they are deleted.
Fresh ==
  /\ ret' = [w \in Workers |-> "outer"]
  /\ fetched' = [w \in Workers |-> NoJob] /\ wjob' = [w \in Workers |-> NoJob]
  /\ wseq' = [w \in Workers |-> 0] /\ hasVm' = [w \in Workers |-> FALSE]
  /\ overtaken' = [w \in Workers |-> FALSE]

\* All threads are joined and deleted, then Nonce::touch
Join ==
  /\ At("join") /\ Continue(<<>>)
  /\ \A w \in Workers : pc[w] = "exit"
  /\ applied' = "none"
  /\ sequence' = sequence + 1
  /\ Fresh
  /\ UNCHANGED <<paused, space, late, minerVars, cpuConfig, datasetVars, pc, intervened, resetFor, events>>

\* Workers::start: new threads, each with a new CpuWorker
Start ==
  /\ At("start") /\ Continue(<<>>)
  /\ applied' = cpuConfig
  /\ sequence' = sequence + 1
  /\ pc' = [w \in Workers |-> "outer"]
  /\ Fresh
  /\ UNCHANGED <<paused, space, late, minerVars, cpuConfig, datasetVars, intervened, resetFor, events>>

HandlerStep ==
  \/ Hold \/ Release \/ Quiet \/ Unpause \/ Touch \/ Store \/ Ask \/ Reset
  \/ Backend \/ Zero \/ Join \/ Start

-----------------------------------------------------------------------------
(* The hashing threads: CpuWorker::start and what it calls.                *)

Goto(w, label) == pc' = [pc EXCEPT ![w] = label]

\* consumeJob, to return to `label'
Call(w, label) ==
  /\ Goto(w, "consume")
  /\ ret' = [ret EXCEPT ![w] = label]
  /\ overtaken' = [overtaken EXCEPT ![w] = FALSE]

Return(w) == Goto(w, ret[w]) /\ ret' = [ret EXCEPT ![w] = "outer"]

EngineUnchanged == UNCHANGED <<nonceVars, minerVars, backendVars, datasetVars, todo, intervened, resetFor, events>>

Outer(w) ==
  /\ pc[w] = "outer"
  /\ Goto(w, IF sequence = 0 THEN "exit" ELSE IF paused THEN "sleep" ELSE "inner")
  /\ EngineUnchanged /\ UNCHANGED <<ret, fetched, wjob, wseq, hasVm, overtaken>>

SleepFaulty(w) ==       \* a paused thread does not look at the sequence
  /\ pc[w] = "sleep" /\ ~paused
  /\ IF sequence = 0
     THEN Goto(w, "exit") /\ UNCHANGED <<ret, overtaken>>
     ELSE Call(w, "inner")
  /\ EngineUnchanged /\ UNCHANGED <<fetched, wjob, wseq, hasVm>>

Sleep(w) ==
  /\ pc[w] = "sleep" /\ (~paused \/ sequence = 0)
  /\ IF sequence = 0
     THEN Goto(w, "exit") /\ UNCHANGED <<ret, overtaken>>
     ELSE Call(w, "inner")
  /\ EngineUnchanged /\ UNCHANGED <<fetched, wjob, wseq, hasVm>>

InnerFaulty(w) ==       \* does not compare the job's algorithm with its own
  /\ pc[w] = "inner"
  /\ Goto(w, IF wseq[w] # sequence THEN "tail" ELSE "hash")
  /\ EngineUnchanged /\ UNCHANGED <<ret, fetched, wjob, wseq, hasVm, overtaken>>

\* The head of the hashing loop; a worker without a job leaves it, since the
\* empty job's algorithm has another cache size.
Inner(w) ==
  /\ pc[w] = "inner"
  /\ Goto(w, IF wseq[w] # sequence \/ wjob[w] = NoJob THEN "tail" ELSE "hash")
  /\ EngineUnchanged /\ UNCHANGED <<ret, fetched, wjob, wseq, hasVm, overtaken>>

\* The fetch of the last range that Nonce::next has to give.
TakesLast(w, label) == Input /\ space = "open" /\ space' = "used" /\ Goto(w, label)

RestUnchanged == UNCHANGED <<sequence, minerVars, backendVars, datasetVars, todo, intervened, resetFor,
                             ret, fetched, wjob, wseq, hasVm, overtaken>>

\* nextRound, one hash, and the result if it is a good one (see JobResults). The
\* thread's range may end here, and nextRound fail since no nonce is left.
Hash(w) ==
  /\ pc[w] = "hash"
  /\ \/ Goto(w, "inner") /\ UNCHANGED <<space, events>>
     \/ TakesLast(w, "raise")
     \/ space = "used" /\ Goto(w, "tail") /\ UNCHANGED <<space, events>>
  /\ UNCHANGED <<paused, late>> /\ RestUnchanged

\* Nonce::next's pause(true), with the range complete or too short
Raise(w) ==
  /\ \/ pc[w] = "raise" /\ (Goto(w, "inner") \/ Goto(w, "tail"))
     \/ pc[w] = "raiseSaved" /\ Goto(w, "vm")
  /\ paused' = TRUE /\ late' = (late \/ space = "open") /\ UNCHANGED <<space, events>>
  /\ RestUnchanged

EndOfJob(w) ==
  /\ pc[w] = "tail"
  /\ IF paused THEN Goto(w, "outer") /\ UNCHANGED <<ret, overtaken>>
               ELSE Call(w, "outer")
  /\ EngineUnchanged /\ UNCHANGED <<fetched, wjob, wseq, hasVm>>

Consume(w) ==
  /\ pc[w] = "consume"
  /\ IF sequence = 0 THEN Return(w) ELSE Goto(w, "fetch") /\ UNCHANGED ret
  /\ EngineUnchanged /\ UNCHANGED <<fetched, wjob, wseq, hasVm, overtaken>>

\* m_miner->job(); the lock is held during setJob's critical section.
Fetch(w) ==
  /\ pc[w] = "fetch" /\ ~At("ask")
  /\ Goto(w, "add")
  /\ fetched' = [fetched EXCEPT ![w] = job]
  /\ EngineUnchanged /\ UNCHANGED <<ret, wjob, wseq, hasVm, overtaken>>

\* WorkerJob::add, and save up to its Nonce::next
Add(w) ==
  /\ pc[w] = "add"
  /\ Goto(w, IF wjob[w] = fetched[w] THEN "vm" ELSE "save")
  /\ wseq' = [wseq EXCEPT ![w] = sequence]
  /\ wjob' = [wjob EXCEPT ![w] = fetched[w]]
  /\ fetched' = [fetched EXCEPT ![w] = NoJob]
  /\ EngineUnchanged /\ UNCHANGED <<ret, hasVm, overtaken>>

\* save does not look at what Nonce::next returns.
Save(w) ==
  /\ pc[w] = "save"
  /\ \/ Goto(w, "vm") /\ UNCHANGED <<space, events>>
     \/ TakesLast(w, "raiseSaved")
  /\ UNCHANGED <<paused, late>> /\ RestUnchanged

\* allocateRandomX_VM: poll for the dataset of the job, make the VM
Vm(w) ==
  /\ pc[w] = "vm"
  /\ IF HasDataset(wjob[w])
     THEN Return(w) /\ hasVm' = [hasVm EXCEPT ![w] = TRUE]
     ELSE Goto(w, "poll") /\ UNCHANGED <<ret, hasVm>>
  /\ EngineUnchanged /\ UNCHANGED <<fetched, wjob, wseq, overtaken>>

PollFaulty(w) ==        \* asks for the dataset once
  /\ pc[w] = "poll" /\ sequence = 0
  /\ Return(w)
  /\ EngineUnchanged /\ UNCHANGED <<fetched, wjob, wseq, hasVm, overtaken>>

Poll(w) ==
  /\ pc[w] = "poll"
  /\ IF sequence = 0 THEN Return(w) ELSE Goto(w, "vm") /\ UNCHANGED ret
  /\ EngineUnchanged /\ UNCHANGED <<fetched, wjob, wseq, hasVm, overtaken>>

WorkerStep(w) ==
  \/ Outer(w) \/ Sleep(w) \/ Inner(w) \/ Hash(w) \/ Raise(w) \/ EndOfJob(w)
  \/ Consume(w) \/ Fetch(w) \/ Add(w) \/ Save(w) \/ Vm(w) \/ Poll(w)

-----------------------------------------------------------------------------

\* The background thread of the dataset queue
Build(outcome) ==
  /\ Dataset!Finish(outcome)
  /\ UNCHANGED <<nonceVars, minerVars, backendVars, workerVars, todo, historyVars>>

Init ==
  /\ paused = TRUE /\ sequence = 1 /\ space = "open" /\ late = FALSE
  /\ job = NoJob /\ reset = TRUE /\ active = FALSE /\ enabled = TRUE
  /\ algorithm = NoSeed.algo /\ incoming = NoJob
  /\ cpuConfig \in Configs /\ applied = "none"
  /\ Dataset!Init
  /\ todo = <<>>
  /\ pc = [w \in Workers |-> "exit"] /\ ret = [w \in Workers |-> "outer"]
  /\ fetched = [w \in Workers |-> NoJob] /\ wjob = [w \in Workers |-> NoJob]
  /\ wseq = [w \in Workers |-> 0] /\ hasVm = [w \in Workers |-> FALSE]
  /\ overtaken = [w \in Workers |-> FALSE]
  /\ intervened = FALSE /\ resetFor = "nothing" /\ events = 0

Event ==
  \/ \E j \in Jobs : SetJob(j)
  \/ Pause
  \/ \E value \in BOOLEAN : SetEnabled(value)
  \/ RequestStop
  \/ \E config \in Configs, otherPools \in BOOLEAN : ConfigChanged(config, otherPools)
  \/ DatasetReady

Next ==
  \/ Event
  \/ HandlerStep
  \/ \E w \in Workers : WorkerStep(w)
  \/ \E outcome \in Dataset!Outcomes : Build(outcome)

\* Threads are scheduled, builds end and their notice is heard; nobody owes
\* the miner a job or a command.
Fairness ==
  /\ WF_vars(HandlerStep) /\ WF_vars(DatasetReady)
  /\ \A w \in Workers : WF_vars(WorkerStep(w))
  /\ WF_vars(\E outcome \in Dataset!Outcomes : Build(outcome))

Spec == Init /\ [][Next]_vars /\ Fairness

-----------------------------------------------------------------------------

Steps == {"hold", "release", "quiet", "unpause", "touch", "store", "ask", "reset",
          "backend", "zero", "join", "start"}
Places == {"outer", "sleep", "inner", "hash", "raise", "tail", "exit", "save", "raiseSaved",
           "vm", "poll"} \cup Window

TypeOK ==
  /\ paused \in BOOLEAN /\ sequence \in Nat /\ space \in {"open", "used"} /\ late \in BOOLEAN
  /\ job \in Jobs \cup {NoJob} /\ incoming \in Jobs \cup {NoJob}
  /\ reset \in BOOLEAN /\ active \in BOOLEAN /\ enabled \in BOOLEAN
  /\ cpuConfig \in Configs /\ applied \in Configs \cup {"none"}
  /\ \A i \in 1..Len(todo) : todo[i] \in Steps
  /\ pc \in [Workers -> Places] /\ ret \in [Workers -> Places]
  /\ fetched \in [Workers -> Jobs \cup {NoJob}]
  /\ wjob \in [Workers -> Jobs \cup {NoJob}]
  /\ wseq \in [Workers -> Nat] /\ hasVm \in [Workers -> BOOLEAN]

\* The one thread for which a stop goes wrong: it saw a sequence other than 0
\* in consumeJob, and WorkerJob::add then read the 0 of Nonce::stop.  Since
\* the loop it returns to compares for equality, it takes 0 for its job's
\* current sequence number.
MissedStop(w) == sequence = 0 /\ wseq[w] = 0 /\ wjob[w] # NoJob

\* In the hashing loop, past its head.
Hashing(w) == pc[w] \in {"hash", "raise"}

\* "machine is a pointer to a randomx_vm structure. Must not be NULL"
\* (crypto/randomx/randomx.h:317): a thread that computes a hash has a virtual
\* machine, and a job to compute it with.
HashHasVm == \A w \in Workers : Hashing(w) => hasVm[w] /\ wjob[w] # NoJob

\* The same but for a thread that missed the stop: stops, restarts and the
\* early returns of consumeJob let no other thread into the loop without a
\* virtual machine (CpuWorker.cpp:76-90, 136-140, 256-274).
HashHasVmUnlessStopMissed ==
  \A w \in Workers : Hashing(w) => MissedStop(w) \/ (hasVm[w] /\ wjob[w] # NoJob)

\* A hash computed without the dataset of its job is the last one of its
\* thread: the sequence has moved on, so the thread leaves its loop before it
\* computes another (Miner.cpp:515-518).  Otherwise every hash until the new
\* dataset is complete would be wrong.
OnlyLastHashIsStale ==
  \A w \in Workers :
    Hashing(w) /\ ~HasDataset(wjob[w]) /\ ~overtaken[w] => wseq[w] # sequence

\* When the loop has nothing left to do about the current job, a thread that
\* may go on hashing hashes this job and no other (the touch after the store,
\* Miner.cpp:112, 540, and the order of the reads in CpuWorker.cpp:262-270).
MinesCurrentJob ==
  Idle /\ ~notice /\ HasDataset(job) =>
    \A w \in Workers :
      Hashing(w) /\ wseq[w] = sequence /\ ~overtaken[w] => wjob[w] = job

\* While the user has disabled mining, or there is no active pool, running
\* threads are paused (Miner.cpp:101-103, 114-116, 463-504).  Nonce::stop
\* clears the flag, so this holds only until a "stop" call or a change of the
\* configuration intervenes: see NotWhileDisabled.
PausedUnlessWanted ==
  Idle /\ Running /\ ~(active /\ enabled) /\ ~intervened => paused

\* Stopping the backend ends, unless a thread missed the stop: no other thread
\* sleeps, polls for a dataset or hashes on while the event loop waits for it
\* in Thread's destructor (CpuWorker.cpp:76-90, 120-136).
JoinReturns == []<>(At("join") => \E w \in Workers : MissedStop(w))

Wanted == Idle /\ ~notice /\ Running /\ active /\ enabled /\ HasDataset(job)

\* Nonce::next has raised the flag: no nonce is left, or that was so until a reset.
Exhausted == paused /\ (space = "used" \/ late)

\* The pause flag is not up while mining is wanted and its dataset is there, but for
\* the end of the nonces (Nonce.cpp:46-47): whatever handlers have held the threads,
\* the last of them has let them go (Miner.cpp:114-116, 499-504). Excepted, too, is a
\* thread that raises the flag late, after the reset and the pause(false) that the
\* end of the nonces was for: wanted mining then sleeps until the next job.
PausedForCause == Wanted /\ paused => Exhausted

\* If mining is wanted and its dataset is there, every thread comes to hash,
\* or it waits for the dataset of a job that another seed has superseded, or
\* the nonces are used up, or mining is no longer wanted.  No order of pause,
\* touch, unpause and polling puts a thread to sleep for good: but for the
\* flag that another thread raises late (Exhausted).
Superseded(w) == pc[w] \in {"vm", "poll"} /\ ~HasDataset(wjob[w])
WantedMines ==
  \A w \in Workers : []<>(Wanted => Hashing(w) \/ Superseded(w) \/ Exhausted)

\* The nonce counter is reset at most once for one block template: "Don't
\* reset nonce if pool sends the same hashing blob again" (Miner.cpp:535).
\* A second reset hands out the nonces again that were hashed since the first.
ResetOncePerBlob == [][At("reset") /\ reset /\ todo' # todo => resetFor # job.blob]_vars

\* What the user is told: "paused, press r to resume" (Miner.cpp:494).  As
\* long as mining is disabled, no thread runs unpaused once the loop is idle.
NotWhileDisabled == Idle /\ Running /\ ~enabled => paused

=============================================================================
