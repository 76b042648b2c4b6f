------------------------------- MODULE RxQueue -------------------------------
(***************************************************************************)
(* The RandomX dataset queue (crypto/rx/RxQueue.cpp) with its storages     *)
(* (RxBasicStorage.cpp, RxNUMAStorage.cpp) and the one configuration of    *)
(* RandomX that all threads share: the event loop sets the algorithm of a  *)
(* job and asks for the dataset of its seed, one background thread builds  *)
(* it outside the lock and wakes the loop through an Async.  Every         *)
(* critical section of m_mutex is one action, and so is every step the     *)
(* background thread takes outside it.                                     *)
(***************************************************************************)
EXTENDS RxSeed, Naturals

CONSTANTS
  MaxRequests,   \* bound of the model: calls of Rx::init
  Nodes,         \* the NUMA nodes of m_nodeset
  Front          \* m_nodeset.front(), where the basic storage has its memory

ASSUME QueueAssumption == MaxRequests \in Nat /\ Front \in Nodes

VARIABLES
  mState,      \* m_state: "idle", "pending" or "shutdown"
  mSeed,       \* m_seed
  mPending,    \* m_pending: the seed of the item, or NoSeed
  storage,     \* m_storage is not null
  numa,        \* it is a RxNUMAStorage
  allocated,   \* m_isAllocated, m_allocated of the storage
  memory,      \* the nodes that have a dataset: the keys of m_datasets
  oneGb,       \* those of them with 1 GB pages, and so with a cache
  primary,     \* the node whose dataset is or was computed, not copied
  copying,     \* the nodes whose copies are under way
  sReady,      \* m_ready of the storage
  sSeed,       \* m_seed of the storage
  content,     \* history: the seed a node's memory holds the dataset of,
               \* or NoSeed
  bg,          \* where the background thread is
  item,        \* the item it works on
  main,        \* where the event loop is
  algorithm,   \* MinerPrivate::algorithm
  asking,      \* the seed of the last job
  asyncSent,   \* m_async: a send that the loop has not handled yet
  config,      \* the algorithms whose parameters RandomX_CurrentConfig may hold
  torn,        \* history: two threads were writing it at once
  spoiled,     \* history: it was of another algorithm during a build
  merged,      \* history: the last job came while the same dataset was
               \* pending for the other of rx/0 and rx/2
  requests     \* history: calls of Rx::init so far

queueVars   == <<mState, mSeed, mPending>>
memoryVars  == <<allocated, memory, oneGb, primary, copying>>
seedVars    == <<sReady, sSeed, content, spoiled>>
storageVars == <<storage, numa, memoryVars, seedVars>>
configVars  == <<config, torn>>
bgVars      == <<bg, item>>
mainVars    == <<main, algorithm, asking, merged, requests>>

vars == <<queueVars, storageVars, configVars, bgVars, mainVars, asyncSent>>

-----------------------------------------------------------------------------

\* RxQueue::isReadyUnsafe
IsReady(s) == storage /\ allocated /\ mState = "idle" /\ SameSeed(mSeed, s)

\* RxQueue::dataset returns a dataset for a job with seed s, not nullptr.
Serves(s) == IsReady(s) /\ sReady /\ SameSeed(sSeed, s)

\* The node whose dataset a thread on node n is given.
DatasetNode(n) == IF n \in memory THEN n ELSE Front

\* std::terminate: an exception has left the background thread.
Alive == bg # "crashed"

\* m_cv.notify_one, seen by the background thread
Wake == bg' = (IF bg = "waiting" THEN "check" ELSE bg)

-----------------------------------------------------------------------------
(* RandomX_CurrentConfig, one for all algorithms, without a lock.          *)

Fits(a, s) == EqualSeedAlgo(a, s.algo)

\* RxAlgo::apply(a) begins and ends; `other' tells whether the other thread is
\* in it, and b is the algorithm that one applies or has applied.  Of two
\* copies that overlap each field has either value.
BeginApply(a, other) ==
  /\ config' = config \cup {a}
  /\ torn' = other
  /\ spoiled' = (spoiled \/ (bg = "build" /\ ~Fits(a, sSeed)))

EndApply(a, other, b) ==
  /\ config' = IF torn THEN {a, b} ELSE {a}
  /\ torn' = other

-----------------------------------------------------------------------------
(* The event loop.                                                         *)

SetJobFaulty(s) ==        \* leaves the configuration to the storage
  /\ main = "loop" /\ Alive /\ requests < MaxRequests
  /\ requests' = requests + 1
  /\ asking' = s
  /\ algorithm' = s.algo
  /\ main' = "test"
  /\ UNCHANGED <<queueVars, storageVars, configVars, bgVars, merged, asyncSent>>

\* Miner::setJob, which stops all hashing threads when the algorithm changes
\* and applies the new one.
SetJob(s) ==
  /\ main = "loop" /\ Alive /\ requests < MaxRequests
  /\ requests' = requests + 1
  /\ asking' = s
  /\ algorithm' = s.algo
  /\ IF algorithm # s.algo
     THEN /\ main' = "apply"
          /\ BeginApply(s.algo, bg = "apply")
          /\ merged' = (mState = "pending" /\ SameSeed(mSeed, s) /\ mSeed # s)
     ELSE main' = "test" /\ UNCHANGED <<config, torn, spoiled, merged>>
  /\ UNCHANGED <<queueVars, storage, numa, memoryVars, sReady, sSeed, content, bgVars, asyncSent>>

Applied ==
  /\ main = "apply" /\ Alive
  /\ main' = "test"
  /\ EndApply(algorithm, bg = "apply", IF bg = "apply" THEN item.algo ELSE sSeed.algo)
  /\ UNCHANGED <<queueVars, storageVars, bgVars, algorithm, asking, merged, requests, asyncSent>>

\* The first critical section of Rx::init: RxQueue::isReady.
Test ==
  /\ main = "test" /\ Alive
  /\ main' = IF IsReady(asking) THEN "loop" ELSE "enqueue"
  /\ UNCHANGED <<queueVars, storageVars, configVars, bgVars, algorithm, asking, merged, requests, asyncSent>>

\* The critical section of RxQueue::enqueue; the nodes are those of the
\* configuration, unless there are none or too little memory is free.
Enqueue ==
  /\ main = "enqueue" /\ Alive
  /\ storage' = TRUE
  /\ numa' \in IF storage THEN {numa} ELSE BOOLEAN
  /\ IF mState = "pending" /\ SameSeed(mSeed, asking)
     THEN main' = "loop" /\ UNCHANGED <<queueVars, merged>>
     ELSE /\ mPending' = asking
          /\ mSeed' = asking
          /\ mState' = "pending"
          /\ main' = "notify"
          /\ merged' = FALSE
  /\ UNCHANGED <<memoryVars, seedVars, configVars, bgVars, algorithm, asking, requests, asyncSent>>

NotifyFaulty ==           \* nobody is notified
  /\ main = "notify" /\ Alive
  /\ main' = "loop"
  /\ UNCHANGED <<queueVars, storageVars, configVars, bgVars, algorithm, asking, merged, requests, asyncSent>>

\* m_cv.notify_one, after the lock is released
Notify ==
  /\ main = "notify" /\ Alive
  /\ main' = "loop"
  /\ Wake
  /\ UNCHANGED <<queueVars, storageVars, configVars, item, algorithm, asking, merged, requests, asyncSent>>

\* Async's callback: RxQueue::onReady.
OnReady ==
  /\ main = "loop" /\ Alive /\ asyncSent
  /\ asyncSent' = FALSE
  /\ main' = IF mState = "idle" THEN "callback" ELSE "loop"
  /\ UNCHANGED <<queueVars, storageVars, configVars, bgVars, algorithm, asking, merged, requests>>

\* m_listener->onDatasetReady(), outside the lock
OnDatasetReady ==
  /\ main = "callback" /\ Alive
  /\ main' = "loop"
  /\ UNCHANGED <<queueVars, storageVars, configVars, bgVars, algorithm, asking, merged, requests, asyncSent>>

\* RxQueue::~RxQueue
Shutdown ==
  /\ main = "loop" /\ Alive
  /\ mState' = "shutdown"
  /\ main' = "wake"
  /\ UNCHANGED <<mSeed, mPending, storageVars, configVars, bgVars, algorithm, asking, merged, requests, asyncSent>>

ShutdownNotifyFaulty ==
  /\ main = "wake" /\ Alive
  /\ main' = "join"
  /\ UNCHANGED <<queueVars, storageVars, configVars, bgVars, algorithm, asking, merged, requests, asyncSent>>

ShutdownNotify ==
  /\ main = "wake" /\ Alive
  /\ main' = "join"
  /\ Wake
  /\ UNCHANGED <<queueVars, storageVars, configVars, item, algorithm, asking, merged, requests, asyncSent>>

JoinFaulty ==             \* the thread is detached
  /\ main = "join" /\ Alive
  /\ main' = "gone"
  /\ storage' = FALSE
  /\ UNCHANGED <<queueVars, numa, memoryVars, seedVars, configVars, bgVars, algorithm, asking, merged, requests, asyncSent>>

\* m_thread.join() returns; delete m_storage.
Join ==
  /\ main = "join" /\ bg = "exited"
  /\ main' = "gone"
  /\ storage' = FALSE
  /\ UNCHANGED <<queueVars, numa, memoryVars, seedVars, configVars, bgVars, algorithm, asking, merged, requests, asyncSent>>

-----------------------------------------------------------------------------
(* The background thread, RxQueue::backgroundInit.                         *)

\* The wait tests its predicate under the lock; a wait that need not wait
\* goes on to leave the loop or to take the item, in the same section.
Check ==
  /\ bg = "check"
  /\ \/ mState = "idle" /\ bg' = "waiting" /\ UNCHANGED <<item, mPending>>
     \/ mState = "shutdown" /\ bg' = "exited" /\ UNCHANGED <<item, mPending>>
     \/ /\ mState = "pending"
        /\ item' = mPending
        /\ mPending' = NoSeed
        /\ bg' = "setSeed"
  /\ UNCHANGED <<mState, mSeed, storageVars, configVars, mainVars, asyncSent>>

\* A condition variable may wake up without a notification.
SpuriousWakeup ==
  /\ bg = "waiting"
  /\ Wake
  /\ UNCHANGED <<queueVars, storageVars, configVars, item, mainVars, asyncSent>>

\* What the storage does once it knows the seed
AfterSetSeed == IF allocated THEN "init" ELSE IF numa THEN "allocate" ELSE "create"

\* setSeed of both storages, up to RxAlgo::apply ...
SetSeed ==
  /\ bg = "setSeed"
  /\ sReady' = FALSE
  /\ IF sSeed.algo # item.algo
     THEN /\ BeginApply(item.algo, main = "apply")
          /\ bg' = "apply"
          /\ UNCHANGED sSeed
     ELSE /\ sSeed' = item
          /\ bg' = AfterSetSeed
          /\ UNCHANGED <<config, torn, spoiled>>
  /\ UNCHANGED <<queueVars, storage, numa, memoryVars, content, item, mainVars, asyncSent>>

\* ... and from its end on
AppliedSeed ==
  /\ bg = "apply"
  /\ EndApply(item.algo, main = "apply", algorithm)
  /\ sSeed' = item
  /\ bg' = AfterSetSeed
  /\ UNCHANGED <<queueVars, storage, numa, memoryVars, sReady, content, spoiled, item, mainVars, asyncSent>>

CreateDatasetFaulty(success) ==    \* a failure leaves m_isAllocated set
  /\ bg = "create"
  /\ allocated' = TRUE
  /\ memory' = {Front}
  /\ bg' = IF success THEN "init" ELSE "publish"
  /\ UNCHANGED <<queueVars, storage, numa, oneGb, primary, copying, seedVars, configVars, item, mainVars, asyncSent>>

\* RxBasicStoragePrivate::createDataset: the cache is allocated, or not;
\* without a dataset to fill it is used alone.
CreateDataset(success) ==
  /\ bg = "create"
  /\ allocated' = success
  /\ memory' = IF success THEN {Front} ELSE {}
  /\ bg' = IF success THEN "init" ELSE "publish"
  /\ UNCHANGED <<queueVars, storage, numa, oneGb, primary, copying, seedVars, configVars, item, mainVars, asyncSent>>

\* RxNUMAStoragePrivate::createDatasets starts a thread for each node and
\* joins them: `got' are the nodes that could be bound and had memory, `big'
\* those of them with 1 GB pages; a node that has a dataset keeps it.
AllocateDatasets(got, big) ==
  /\ bg = "allocate"
  /\ memory' = memory \cup got
  /\ oneGb' = oneGb \cup (big \ memory)
  /\ allocated' = (oneGb' # {})
  /\ bg' = IF oneGb' # {} THEN "init" ELSE "cache"
  /\ UNCHANGED <<queueVars, storage, numa, primary, copying, seedVars, configVars, item, mainVars, asyncSent>>

\* The cache for the first node's dataset: with no dataset at all it is used
\* alone; with datasets of other nodes only, map::at throws.
AllocateCache(success) ==
  /\ bg = "cache"
  /\ LET usable == success /\ (memory = {} \/ Front \in memory)
     IN /\ allocated' = usable
        /\ memory' = IF usable THEN memory \cup {Front} ELSE memory
        /\ bg' = IF usable THEN "init" ELSE IF success THEN "crashed" ELSE "publish"
  /\ UNCHANGED <<queueVars, storage, numa, oneGb, primary, copying, seedVars, configVars, item, mainVars, asyncSent>>

\* RxDataset::init, of a dataset with a cache, starts to overwrite the memory ...
BeginDataset(n) ==
  /\ bg = "init"
  /\ n \in IF oneGb = {} THEN {Front} ELSE oneGb
  /\ primary' = n
  /\ content' = [content EXCEPT ![n] = NoSeed]
  /\ spoiled' = \E a \in config : ~Fits(a, sSeed)
  /\ bg' = "build"
  /\ UNCHANGED <<queueVars, storage, numa, allocated, memory, oneGb, copying, sReady, sSeed,
                 configVars, item, mainVars, asyncSent>>

\* ... and all its threads are done.
EndDataset ==
  /\ bg = "build"
  /\ LET others == memory \ {primary}
     IN /\ content' = [n \in Nodes |->
                         IF n = primary THEN IF spoiled THEN NoSeed ELSE sSeed
                         ELSE IF n \in others THEN NoSeed ELSE content[n]]
        /\ copying' = others
  /\ bg' = "copy"
  /\ UNCHANGED <<queueVars, storage, numa, allocated, memory, oneGb, primary, sReady, sSeed, spoiled,
                 configVars, item, mainVars, asyncSent>>

\* RxNUMAStoragePrivate::copyDataset, one thread for each node
Copy(n) ==
  /\ n \in copying
  /\ copying' = copying \ {n}
  /\ content' = [content EXCEPT ![n] = content[primary]]
  /\ UNCHANGED <<queueVars, storage, numa, allocated, memory, oneGb, primary, sReady, sSeed, spoiled,
                 configVars, bgVars, mainVars, asyncSent>>

CopiedFaulty ==           \* does not wait for the threads it started
  /\ bg = "copy"
  /\ sReady' = TRUE
  /\ bg' = "publish"
  /\ UNCHANGED <<queueVars, storage, numa, memoryVars, sSeed, content, spoiled, configVars, item,
                 mainVars, asyncSent>>

\* The end of initDatasets and initDataset
Copied ==
  /\ bg = "copy" /\ copying = {}
  /\ sReady' = TRUE
  /\ bg' = "publish"
  /\ UNCHANGED <<queueVars, storage, numa, memoryVars, sSeed, content, spoiled, configVars, item,
                 mainVars, asyncSent>>

PublishSupersededFaulty ==    \* publishes whatever it has built
  /\ bg = "publish"
  /\ bg' = "check"
  /\ IF mState = "shutdown"
     THEN UNCHANGED <<mState, mSeed, asyncSent>>
     ELSE mSeed' = item /\ mState' = "idle" /\ asyncSent' = TRUE
  /\ UNCHANGED <<mPending, storageVars, configVars, item, mainVars>>

\* The second critical section: drop a result that was superseded.
Publish ==
  /\ bg = "publish"
  /\ bg' = "check"
  /\ IF mState = "shutdown" \/ mPending # NoSeed
     THEN UNCHANGED <<mState, mSeed, asyncSent>>
     ELSE mSeed' = item /\ mState' = "idle" /\ asyncSent' = TRUE
  /\ UNCHANGED <<mPending, storageVars, configVars, item, mainVars>>

-----------------------------------------------------------------------------

Init ==
  /\ mState = "idle" /\ mSeed = NoSeed /\ mPending = NoSeed
  /\ storage = FALSE /\ numa = FALSE /\ allocated = FALSE
  /\ memory = {} /\ oneGb = {} /\ primary = Front /\ copying = {}
  /\ sReady = FALSE /\ sSeed = NoSeed
  /\ content = [n \in Nodes |-> NoSeed] /\ spoiled = FALSE
  /\ config = {NoSeed.algo} /\ torn = FALSE
  /\ bg = "check" /\ item = NoSeed
  /\ main = "loop" /\ algorithm = NoSeed.algo /\ asking = NoSeed
  /\ merged = FALSE /\ requests = 0
  /\ asyncSent = FALSE

\* What the event loop does within a call it has begun.
MainStep == Applied \/ Test \/ Enqueue \/ Notify \/ OnDatasetReady \/ ShutdownNotify \/ Join

BgStep ==
  \/ Check
  \/ SetSeed
  \/ AppliedSeed
  \/ \E success \in BOOLEAN : CreateDataset(success)
  \/ \E got \in SUBSET Nodes : \E big \in SUBSET got : AllocateDatasets(got, big)
  \/ \E success \in BOOLEAN : AllocateCache(success)
  \/ \E n \in Nodes : BeginDataset(n)
  \/ EndDataset
  \/ \E n \in Nodes : Copy(n)
  \/ Copied
  \/ Publish

\* After the destructor, or std::terminate, nothing happens.
Gone == (main = "gone" \/ ~Alive) /\ UNCHANGED vars

Next ==
  \/ \E s \in Seed : SetJob(s)
  \/ OnReady
  \/ Shutdown
  \/ MainStep
  \/ BgStep
  \/ SpuriousWakeup
  \/ Gone

\* Both threads are scheduled, those that copy as well, and the loop handles a
\* signalled Async; nobody owes a job, a shutdown or a spurious wake-up.
Fairness == WF_vars(BgStep) /\ WF_vars(MainStep) /\ WF_vars(OnReady)

Spec == Init /\ [][Next]_vars /\ Fairness

-----------------------------------------------------------------------------

MaybeSeed == Seed \cup {NoSeed}

Building == {"setSeed", "apply", "create", "allocate", "cache", "init", "build", "copy", "publish"}
Working == bg \in Building

\* The types of the variables; in particular the background thread never
\* dereferences an empty m_pending (RxQueue.cpp:138): it always works on the
\* seed of a job.
TypeOK ==
  /\ mState \in {"idle", "pending", "shutdown"}
  /\ mSeed \in MaybeSeed /\ mPending \in MaybeSeed
  /\ {storage, numa, allocated, sReady, spoiled, torn, merged, asyncSent} \subseteq BOOLEAN
  /\ memory \subseteq Nodes /\ oneGb \subseteq memory /\ primary \in Nodes /\ copying \subseteq memory
  /\ sSeed \in MaybeSeed /\ content \in [Nodes -> MaybeSeed]
  /\ bg \in {"check", "waiting", "exited", "crashed"} \cup Building
  /\ item \in MaybeSeed /\ (Working => item \in Seed)
  /\ main \in {"loop", "apply", "test", "enqueue", "notify", "callback", "wake", "join", "gone"}
  /\ algorithm \in Algos \cup {NoSeed.algo} /\ config \subseteq Algos \cup {NoSeed.algo}
  /\ asking \in MaybeSeed /\ requests \in Nat

\* A hashing thread that is given a dataset (RxQueue::dataset), on whatever
\* node, is given one that is complete and was built for its seed, with the
\* parameters of its algorithm, however requests, builds, copies, failed
\* allocations and changes of the algorithm interleave: no lock is held while
\* the dataset is written or RandomX_CurrentConfig read (RxQueue.cpp:141-160,
\* RxNUMAStorage.cpp:186-215).  There are no threads for a seed of another
\* algorithm than the miner's, which has stopped them.
ServedIsComplete ==
  \A s \in Seed, n \in Nodes :
    Serves(s) /\ Fits(algorithm, s) /\ DatasetNode(n) \in memory
      => SameSeed(content[DatasetNode(n)], s)

\* The queue and the storage agree: when isReady says yes, dataset does not
\* return nullptr.  Otherwise Miner would start threads that poll for a
\* dataset forever (RxQueue.cpp:58-67, RxBasicStorage.cpp:156-163).
ReadyIsServed == \A s \in Seed : IsReady(s) => Serves(s)

\* Threads compute with the parameters of their job's algorithm: once its
\* dataset is served, RandomX_CurrentConfig is that algorithm's alone, though
\* the loop and the background thread both write it, at their own times
\* (Miner.cpp:514-517, RxBasicStorage.cpp:57-59, RxNUMAStorage.cpp:108-110).
\* The one exception: the job came while the same dataset was pending for the
\* other of rx/0 and rx/2; it relies on that request, which may apply the other
\* algorithm later.
ConfigOfJob ==
  main # "apply" /\ Serves(asking) /\ ~merged => config = {asking.algo}

\* The storage is written only while it is owned by the background thread:
\* m_state says so to everybody else, and the thread is joined before the
\* storage is deleted (RxQueue.cpp:43-55, 141-153).
StorageOwned == Working => storage /\ mState # "idle" /\ main # "gone"

\* The state of DatasetService that a state of the queue stands for.
Phase ==
  CASE mState = "shutdown" -> "closed"
    [] mState = "pending"  -> "building"
    [] mState = "idle"     -> IF mSeed = NoSeed THEN "none"
                              ELSE IF allocated THEN "ready" ELSE "failed"

Service == INSTANCE DatasetService
             WITH wanted <- mSeed, phase <- Phase, notice <- asyncSent

\* The queue implements what the miner is written against: a dataset that
\* becomes ready is the one for the seed asked for last, and each build that
\* is not superseded leaves a notice.
ImplementsService == Service!Spec

\* Every accepted request is answered: the loop calls the listener, though
\* the wake-up of either side may come early, late or coalesced, or the queue
\* is shut down (RxQueue.cpp:113, 128, 158); unless the first node has no
\* memory for a dataset when others have (RxNUMAStorage.cpp:139).
RequestAnswered == mState = "pending" ~> main = "callback" \/ mState = "shutdown" \/ ~Alive

\* The destructor returns although a build may be under way (RxQueue.cpp:43-55).
ShutdownReturns == main = "wake" ~> main = "gone" \/ ~Alive

=============================================================================
