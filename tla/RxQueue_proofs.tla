---------------------------- MODULE RxQueue_proofs ----------------------------
(***************************************************************************)
(* Proofs, for any algorithms, seed hashes, NUMA nodes and number of       *)
(* requests, that the dataset queue never serves an incomplete dataset,    *)
(* that the configuration is the job's own, and that the queue implements  *)
(* DatasetService.                                                         *)
(***************************************************************************)
EXTENDS RxQueue, TLAPS

\* The parts of the inductive invariant.

\* The miner's algorithm is that of its job.
AskingInv ==
  /\ algorithm = asking.algo
  /\ main \in {"apply", "test", "enqueue"} => asking \in Seed

\* Out of setJob's calls the queue has been asked for the job's dataset.
LoopInv == main \in {"loop", "notify", "callback"} => SameSeed(mSeed, asking)

\* m_state and where the two threads are.
StateInv ==
  /\ mState = "idle" => bg \in {"check", "waiting"} /\ mPending = NoSeed
  /\ mState = "shutdown" <=> main \in {"wake", "join", "gone"}
  /\ bg = "exited" => mState = "shutdown"
  /\ main = "gone" => bg = "exited"

\* What is being built or waits to be built is what m_seed promises.
PromiseInv ==
  mState = "pending" =>
    /\ storage /\ mSeed \in Seed
    /\ mPending # NoSeed => mSeed = mPending
    /\ mPending = NoSeed => (Working \/ ~Alive) /\ mSeed = item

\* How far the background thread has come with the storage.
SeedSet == {"create", "allocate", "cache", "init", "build", "copy", "publish"}

BuildInv ==
  /\ Working => storage
  /\ bg \in SeedSet => sSeed = item
  /\ bg \in {"init", "build", "copy"} => allocated
  /\ bg = "publish" /\ allocated => sReady
  /\ copying # {} => bg = "copy" /\ primary \notin copying
  /\ bg = "create" => ~numa
  /\ bg \in {"allocate", "cache"} => numa
  /\ oneGb # {} => numa /\ (storage \/ main = "gone")

\* The build under way is the one that the miner waits for.
Awaited == mState = "pending" /\ mPending = NoSeed /\ Fits(algorithm, item)

\* Then nobody spoils it, and the copies are as good as the original.
SoundInv ==
  Awaited =>
    /\ bg = "build" => ~spoiled
    /\ bg = "copy" => /\ content[primary] = item
                      /\ \A n \in memory \ copying : content[n] = item
    /\ bg = "publish" /\ allocated => \A n \in memory : content[n] = item

\* Nobody but the background thread touches a finished dataset.
FinishedInv ==
  mState = "idle" =>
    /\ sSeed = mSeed
    /\ allocated => sReady
    /\ allocated /\ Fits(algorithm, mSeed) => \A n \in memory : content[n] = mSeed

\* Who has written RandomX_CurrentConfig, when nobody writes it; while the
\* loop does, what it finds there is of the algorithm the queue was asked for.
WritersInv ==
  /\ config # {}
  /\ main # "apply" /\ bg # "apply" => config \subseteq {algorithm, sSeed.algo}
  /\ main = "apply" /\ bg # "apply" =>
       \A a \in config : a \in {algorithm, sSeed.algo} \/ Fits(a, mSeed)

\* A job that was not merged into another's request waits for a request of
\* its own algorithm, also when the background thread writes the
\* configuration beside the loop.
RelyInv ==
  (mState = "pending" \/ (main = "apply" /\ torn)) /\ ~merged /\ SameSeed(mSeed, asking)
    => mSeed.algo = algorithm

\* Once the request is answered the configuration is that of the job.
ConfigInv ==
  mState = "idle" /\ main # "apply" /\ ~merged /\ SameSeed(mSeed, asking)
    => config = {algorithm}

IInv ==
  /\ TypeOK /\ AskingInv /\ LoopInv /\ StateInv /\ PromiseInv /\ BuildInv /\ SoundInv
  /\ FinishedInv /\ WritersInv /\ RelyInv /\ ConfigInv

-----------------------------------------------------------------------------

LEMMA NoSeedIsNone == NoSeed \notin Seed /\ NoSeed.algo \notin Algos
BY SeedAssumption DEF NoSeed, Seed

LEMMA SeedAlgo == \A s \in Seed : s.algo \in Algos
BY DEF Seed

LEMMA SameAlgo ==
  /\ \A a : EqualSeedAlgo(a, a)
  /\ \A a, b : EqualSeedAlgo(a, b) => EqualSeedAlgo(b, a)
  /\ \A a, b, c : EqualSeedAlgo(a, b) /\ EqualSeedAlgo(b, c) => EqualSeedAlgo(a, c)
<1>1. \A a, b : EqualSeedAlgo(a, b) => EqualSeedAlgo(b, a)
  BY DEF EqualSeedAlgo
<1>2. \A a, b : EqualSeedAlgo(a, b) <=> a = b \/ (a = RX_0 /\ b = RX_V2) \/ (a = RX_V2 /\ b = RX_0)
  <2> TAKE a, b
  <2>1. {a, b} = {RX_0, RX_V2} => a = b \/ (a = RX_0 /\ b = RX_V2) \/ (a = RX_V2 /\ b = RX_0)
    <3> SUFFICES ASSUME {a, b} = {RX_0, RX_V2}
                 PROVE  a = b \/ (a = RX_0 /\ b = RX_V2) \/ (a = RX_V2 /\ b = RX_0)
      OBVIOUS
    <3>1. a \in {RX_0, RX_V2} /\ b \in {RX_0, RX_V2} /\ RX_0 \in {a, b} /\ RX_V2 \in {a, b}
      OBVIOUS
    <3> QED
      BY <3>1
  <2> QED
    BY <2>1 DEF EqualSeedAlgo
<1> QED
  BY <1>1, <1>2

LEMMA SameSeeds ==
  /\ \A s : SameSeed(s, s)
  /\ \A s, t : SameSeed(s, t) => SameSeed(t, s)
  /\ \A s, t, u : SameSeed(s, t) /\ SameSeed(t, u) => SameSeed(s, u)
BY SameAlgo DEF SameSeed

LEMMA InitInv == Init => IInv
<1> SUFFICES ASSUME Init PROVE IInv
  OBVIOUS
<1> USE DEF Init, Working, Building
<1>1. TypeOK
  BY QueueAssumption DEF TypeOK, MaybeSeed
<1>2. AskingInv /\ LoopInv /\ StateInv /\ PromiseInv
  BY SameSeeds DEF AskingInv, LoopInv, StateInv, PromiseInv
<1>3. BuildInv /\ SoundInv /\ FinishedInv
  BY DEF BuildInv, SoundInv, FinishedInv, Awaited, SeedSet
<1>4. WritersInv /\ RelyInv /\ ConfigInv
  BY DEF WritersInv, RelyInv, ConfigInv
<1> QED
  BY <1>1, <1>2, <1>3, <1>4 DEF IInv

-----------------------------------------------------------------------------
(* Steps of the event loop.                                                *)

LEMMA SetJobInv ==
  ASSUME IInv, NEW s \in Seed, SetJob(s)
  PROVE  IInv'
<1> USE DEF IInv
<1>1. /\ main = "loop" /\ main' \in {"apply", "test"} /\ requests' \in Nat
      /\ asking' = s /\ algorithm' = s.algo
      /\ UNCHANGED <<queueVars, storage, numa, memoryVars, sReady, sSeed, content, bgVars, asyncSent>>
  BY DEF SetJob, TypeOK
<1>2. /\ UNCHANGED <<mState, mSeed, mPending, allocated, memory, oneGb, primary, copying, bg, item>>
      /\ mState # "shutdown" /\ SameSeed(mSeed, asking)
  BY <1>1 DEF queueVars, memoryVars, bgVars, StateInv, LoopInv
<1>3. CASE algorithm # s.algo
  <2>1. /\ main' = "apply"
        /\ config' = config \cup {s.algo}
        /\ torn' = (bg = "apply")
        /\ spoiled' = (spoiled \/ (bg = "build" /\ ~Fits(s.algo, sSeed)))
        /\ merged' = (mState = "pending" /\ SameSeed(mSeed, s) /\ mSeed # s)
    BY <1>3 DEF SetJob, BeginApply
  <2>2. TypeOK'
    BY <1>1, <1>2, <2>1, SeedAlgo DEF TypeOK, MaybeSeed, Working
  <2>3. AskingInv' /\ LoopInv' /\ StateInv' /\ PromiseInv' /\ BuildInv'
    BY <1>1, <1>2, <2>1 DEF AskingInv, LoopInv, StateInv, PromiseInv, BuildInv, Working, Alive
  <2>4. SoundInv'
    <3> SUFFICES ASSUME Awaited' PROVE SoundInv'
      BY DEF SoundInv
    <3>1. mSeed = item /\ Fits(s.algo, item) /\ mState = "pending" /\ mPending = NoSeed
      BY <1>1, <1>2 DEF Awaited, PromiseInv, Fits
    <3>2. Awaited
      BY <1>2, <3>1, SameAlgo DEF Awaited, Fits, SameSeed, AskingInv
    <3> QED
      BY <1>1, <1>2, <2>1, <3>1, <3>2 DEF SoundInv, BuildInv, SeedSet
  <2>5. FinishedInv'
    BY <1>1, <1>2, SameAlgo DEF FinishedInv, Fits, SameSeed, AskingInv
  <2>6. WritersInv'
    BY <1>1, <1>2, <2>1, SameAlgo DEF WritersInv, Fits, SameSeed, AskingInv
  <2>7. RelyInv' /\ ConfigInv'
    <3>1. bg = "apply" => mState = "pending"
      BY <1>2 DEF StateInv, TypeOK
    <3> QED
      BY <1>1, <1>2, <2>1, <3>1 DEF RelyInv, ConfigInv
  <2> QED
    BY <2>2, <2>3, <2>4, <2>5, <2>6, <2>7
<1>4. CASE algorithm = s.algo
  <2>1. main' = "test" /\ UNCHANGED <<config, torn, spoiled, merged>>
    BY <1>4 DEF SetJob
  <2>2. TypeOK'
    BY <1>1, <1>2, <2>1, SeedAlgo DEF TypeOK, MaybeSeed, Working
  <2>3. AskingInv' /\ LoopInv' /\ StateInv' /\ PromiseInv' /\ BuildInv'
    BY <1>1, <1>2, <2>1 DEF AskingInv, LoopInv, StateInv, PromiseInv, BuildInv, Working, Alive
  <2>4. SoundInv' /\ FinishedInv' /\ WritersInv'
    BY <1>1, <1>2, <1>4, <2>1 DEF SoundInv, Awaited, FinishedInv, WritersInv
  <2>5. RelyInv' /\ ConfigInv'
    BY <1>1, <1>2, <1>4, <2>1 DEF RelyInv, ConfigInv
  <2> QED
    BY <2>2, <2>3, <2>4, <2>5
<1> QED
  BY <1>3, <1>4

LEMMA AppliedInv ==
  ASSUME IInv, Applied
  PROVE  IInv'
<1> USE DEF IInv
<1>1. /\ main = "apply" /\ main' = "test"
      /\ UNCHANGED <<queueVars, storageVars, bgVars, algorithm, asking, merged, requests, asyncSent>>
      /\ torn' = (bg = "apply")
      /\ bg # "apply" => config' = IF torn THEN {algorithm, sSeed.algo} ELSE {algorithm}
      /\ config' \in SUBSET {algorithm, sSeed.algo, item.algo} /\ config' # {}
  BY DEF Applied, EndApply
<1>2. UNCHANGED <<mState, mSeed, mPending, storage, numa, allocated, memory, oneGb, primary, copying,
                  sReady, sSeed, content, spoiled, bg, item>>
  BY <1>1 DEF queueVars, storageVars, memoryVars, seedVars, bgVars
<1>3. TypeOK'
  <2>1. {algorithm, sSeed.algo, item.algo} \subseteq Algos \cup {NoSeed.algo}
    BY SeedAlgo DEF TypeOK, MaybeSeed
  <2> QED
    BY <1>1, <1>2, <2>1 DEF TypeOK, MaybeSeed, Working
<1>4. AskingInv' /\ LoopInv' /\ StateInv' /\ PromiseInv' /\ BuildInv' /\ SoundInv' /\ FinishedInv'
  BY <1>1, <1>2 DEF AskingInv, LoopInv, StateInv, PromiseInv, BuildInv, SoundInv, Awaited,
                    FinishedInv, Working, Alive
<1>5. WritersInv' /\ RelyInv'
  BY <1>1, <1>2 DEF WritersInv, RelyInv
<1>6. ConfigInv'
  <2>1. mState = "idle" => bg # "apply" /\ sSeed = mSeed
    BY DEF StateInv, FinishedInv
  <2> QED
    BY <1>1, <1>2, <2>1 DEF ConfigInv, RelyInv
<1> QED
  BY <1>3, <1>4, <1>5, <1>6

LEMMA EnqueueInv ==
  ASSUME IInv, Enqueue
  PROVE  IInv'
<1> USE DEF IInv
<1>1. /\ main = "enqueue" /\ storage' = TRUE /\ numa' \in BOOLEAN /\ (storage => UNCHANGED numa)
      /\ UNCHANGED <<memoryVars, seedVars, configVars, bgVars, algorithm, asking, requests, asyncSent>>
  BY DEF Enqueue, TypeOK
<1>2. /\ UNCHANGED <<allocated, memory, oneGb, primary, copying, sReady, sSeed, content, spoiled,
                     config, torn, bg, item>>
      /\ asking \in Seed /\ mState # "shutdown" /\ algorithm = asking.algo
  BY <1>1 DEF memoryVars, seedVars, configVars, bgVars, AskingInv, StateInv
<1>3. CASE mState = "pending" /\ SameSeed(mSeed, asking)
  <2>1. main' = "loop" /\ UNCHANGED <<mState, mSeed, mPending, merged>>
    BY <1>3 DEF Enqueue, queueVars
  <2>2. TypeOK'
    BY <1>1, <1>2, <2>1 DEF TypeOK, MaybeSeed, Working
  <2>3. AskingInv' /\ LoopInv' /\ StateInv' /\ PromiseInv' /\ BuildInv'
    BY <1>1, <1>2, <1>3, <2>1 DEF AskingInv, LoopInv, StateInv, PromiseInv, BuildInv, Working, Alive
  <2>4. SoundInv' /\ FinishedInv' /\ WritersInv' /\ RelyInv' /\ ConfigInv'
    BY <1>1, <1>2, <1>3, <2>1 DEF SoundInv, Awaited, FinishedInv, WritersInv, RelyInv, ConfigInv
  <2> QED
    BY <2>2, <2>3, <2>4
<1>4. CASE ~(mState = "pending" /\ SameSeed(mSeed, asking))
  <2>1. main' = "notify" /\ mPending' = asking /\ mSeed' = asking /\ mState' = "pending" /\ merged' = FALSE
    BY <1>4 DEF Enqueue
  <2>2. TypeOK'
    BY <1>1, <1>2, <2>1 DEF TypeOK, MaybeSeed, Working
  <2>3. AskingInv' /\ LoopInv' /\ StateInv' /\ PromiseInv'
    BY <1>1, <1>2, <2>1, SameSeeds, NoSeedIsNone
    DEF AskingInv, LoopInv, StateInv, PromiseInv, Working, Alive
  <2>4. BuildInv'
    <3>1. bg \in {"create", "allocate", "cache"} => storage
      BY DEF BuildInv, Working, Building
    <3> QED
      BY <1>1, <1>2, <2>1, <3>1 DEF BuildInv, Working
  <2>5. SoundInv' /\ FinishedInv' /\ WritersInv' /\ RelyInv' /\ ConfigInv'
    BY <1>1, <1>2, <2>1, NoSeedIsNone DEF SoundInv, Awaited, FinishedInv, WritersInv, RelyInv, ConfigInv
  <2> QED
    BY <2>2, <2>3, <2>4, <2>5
<1> QED
  BY <1>3, <1>4

\* The other steps of the event loop change nothing but where it is, and
\* m_state at the end.
LEMMA OtherMainInv ==
  ASSUME IInv, Test \/ Notify \/ OnReady \/ OnDatasetReady \/ Shutdown \/ ShutdownNotify \/ Join
  PROVE  IInv'
<1> USE DEF IInv
<1>1. /\ UNCHANGED <<mSeed, mPending, numa, memoryVars, seedVars, configVars, item, algorithm,
                     asking, merged, requests>>
      /\ asyncSent' \in BOOLEAN
  BY DEF Test, Notify, OnReady, OnDatasetReady, Shutdown, ShutdownNotify, Join, queueVars,
         storageVars, bgVars, TypeOK
<1>2. UNCHANGED <<allocated, memory, oneGb, primary, copying, sReady, sSeed, content, spoiled, config, torn>>
  BY <1>1 DEF memoryVars, seedVars, configVars
<1>3. \/ UNCHANGED bg
      \/ bg = "waiting" /\ bg' = "check"
  BY DEF Test, Notify, OnReady, OnDatasetReady, Shutdown, ShutdownNotify, Join, bgVars, Wake
<1>4. \/ /\ UNCHANGED <<mState, storage>>
         /\ \/ main = "test" /\ main' = "enqueue"
            \/ main = "test" /\ main' = "loop" /\ mState = "idle" /\ SameSeed(mSeed, asking)
            \/ main \in {"loop", "notify", "callback"} /\ main' \in {"loop", "callback"}
            \/ main = "wake" /\ main' = "join"
      \/ mState' = "shutdown" /\ UNCHANGED storage /\ main = "loop" /\ main' = "wake"
      \/ UNCHANGED mState /\ storage' = FALSE /\ main = "join" /\ main' = "gone" /\ bg = "exited" /\ UNCHANGED bg
  BY DEF Test, Notify, OnReady, OnDatasetReady, Shutdown, ShutdownNotify, Join, queueVars, storageVars,
         bgVars, IsReady
<1>5. TypeOK'
  <2>1. storage' \in BOOLEAN /\ mState' \in {"idle", "pending", "shutdown"}
        /\ main' \in {"loop", "enqueue", "callback", "wake", "join", "gone"}
    BY <1>4 DEF TypeOK
  <2>2. bg' \in {"check", "waiting", "exited", "crashed"} \cup Building /\ (Working' => Working)
    BY <1>3 DEF TypeOK, Working, Building
  <2>3. {storage, numa, allocated, sReady, spoiled, torn, merged, asyncSent}' \subseteq BOOLEAN
    BY <1>1, <1>2, <2>1 DEF TypeOK
  <2> QED
    BY <1>1, <1>2, <2>1, <2>2, <2>3 DEF TypeOK, MaybeSeed
<1>6. AskingInv' /\ LoopInv'
  BY <1>1, <1>4 DEF AskingInv, LoopInv
<1>7. StateInv'
  BY <1>1, <1>3, <1>4 DEF StateInv, TypeOK
<1>8. PromiseInv' /\ BuildInv'
  BY <1>1, <1>2, <1>3, <1>4 DEF PromiseInv, BuildInv, StateInv, Working, Building, Alive, SeedSet
<1>9. SoundInv' /\ FinishedInv'
  BY <1>1, <1>2, <1>3, <1>4 DEF SoundInv, Awaited, FinishedInv
<1>10. WritersInv' /\ RelyInv' /\ ConfigInv'
  BY <1>1, <1>2, <1>3, <1>4 DEF WritersInv, RelyInv, ConfigInv, StateInv
<1> QED
  BY <1>5, <1>6, <1>7, <1>8, <1>9, <1>10

LEMMA MainInv ==
  ASSUME IInv, (\E s \in Seed : SetJob(s)) \/ OnReady \/ Shutdown \/ MainStep
  PROVE  IInv'
BY SetJobInv, AppliedInv, EnqueueInv, OtherMainInv DEF MainStep

-----------------------------------------------------------------------------
(* Steps of the background thread.                                         *)

LEMMA CheckInv ==
  ASSUME IInv, Check \/ SpuriousWakeup
  PROVE  IInv'
<1> USE DEF IInv
<1>1. /\ UNCHANGED <<mState, mSeed, storageVars, configVars, mainVars, asyncSent>>
      /\ \/ bg \in {"check", "waiting"} /\ UNCHANGED <<item, mPending>>
            /\ \/ bg' = "check"
               \/ mState = "idle" /\ bg' = "waiting"
               \/ mState = "shutdown" /\ bg' = "exited"
         \/ /\ bg = "check" /\ bg' = "setSeed"
            /\ mState = "pending" /\ item' = mPending /\ mPending' = NoSeed
  BY DEF Check, SpuriousWakeup, Wake, queueVars
<1>2. UNCHANGED <<storage, numa, allocated, memory, oneGb, primary, copying, sReady, sSeed, content,
                  spoiled, config, torn, main, algorithm, asking, merged, requests>>
  BY <1>1 DEF storageVars, memoryVars, seedVars, configVars, mainVars
<1>3. mState = "pending" /\ bg = "check" => mPending \in Seed /\ mSeed = mPending
  BY DEF PromiseInv, Working, Building, Alive, TypeOK, MaybeSeed
<1>4. TypeOK'
  BY <1>1, <1>2, <1>3, NoSeedIsNone DEF TypeOK, MaybeSeed, Working, Building
<1>5. AskingInv' /\ LoopInv' /\ StateInv' /\ PromiseInv'
  BY <1>1, <1>2, <1>3, NoSeedIsNone
  DEF AskingInv, LoopInv, StateInv, PromiseInv, Working, Building, Alive
<1>6. BuildInv' /\ SoundInv' /\ FinishedInv'
  BY <1>1, <1>2, <1>3 DEF BuildInv, SoundInv, Awaited, FinishedInv, Working, Building, SeedSet, PromiseInv
<1>7. WritersInv' /\ RelyInv' /\ ConfigInv'
  BY <1>1, <1>2 DEF WritersInv, RelyInv, ConfigInv
<1> QED
  BY <1>4, <1>5, <1>6, <1>7

\* What holds while the background thread works.
LEMMA AtWork ==
  ASSUME IInv, Working
  PROVE  /\ storage /\ item \in Seed /\ mState \in {"pending", "shutdown"}
         /\ main # "gone"
         /\ mState = "pending" /\ mPending = NoSeed => mSeed = item
         /\ main = "apply" => mState = "pending"
BY DEF IInv, TypeOK, BuildInv, StateInv, PromiseInv, Working, Building

\* Steps that only bring the work further.
LEMMA WorkInv ==
  ASSUME IInv, Working, Working',
         UNCHANGED <<queueVars, storage, numa, item, mainVars, asyncSent>>,
         TypeOK', BuildInv', SoundInv', WritersInv', RelyInv'
  PROVE  IInv'
<1> USE DEF IInv
<1>1. UNCHANGED <<mState, mSeed, mPending, main, algorithm, asking, merged>>
  BY DEF queueVars, mainVars
<1>2. mState # "idle" /\ bg # "exited" /\ bg' # "exited"
  BY AtWork DEF Working, Building
<1>3. AskingInv' /\ LoopInv' /\ StateInv' /\ PromiseInv'
  BY <1>1, <1>2, AtWork DEF AskingInv, LoopInv, StateInv, PromiseInv
<1>4. FinishedInv' /\ ConfigInv'
  BY <1>1, <1>2 DEF FinishedInv, ConfigInv
<1> QED
  BY <1>3, <1>4

LEMMA SetSeedInv ==
  ASSUME IInv, SetSeed
  PROVE  IInv'
<1> USE DEF IInv
<1>1. /\ bg = "setSeed" /\ sReady' = FALSE /\ Working /\ Working'
      /\ UNCHANGED <<queueVars, storage, numa, memoryVars, content, item, mainVars, asyncSent>>
  BY DEF SetSeed, AfterSetSeed, Working, Building
<1>2. UNCHANGED <<mState, mSeed, mPending, allocated, memory, oneGb, primary, copying, main, algorithm,
                  asking, merged, requests>>
  BY <1>1 DEF queueVars, memoryVars, mainVars
<1>3. CASE sSeed.algo # item.algo
  <2>1. bg' = "apply" /\ config' = config \cup {item.algo} /\ torn' = (main = "apply")
        /\ spoiled' = spoiled /\ UNCHANGED sSeed
    BY <1>1, <1>3 DEF SetSeed, BeginApply, TypeOK
  <2>2. TypeOK'
    <3>1. item \in Seed /\ item.algo \in Algos
      BY <1>1, SeedAlgo DEF TypeOK
    <3>2. config' \subseteq Algos \cup {NoSeed.algo} /\ torn' \in BOOLEAN /\ spoiled' \in BOOLEAN
      BY <2>1, <3>1 DEF TypeOK
    <3>3. bg' \in Building /\ sReady' \in BOOLEAN /\ sSeed' \in MaybeSeed
      BY <1>1, <2>1 DEF TypeOK, Building
    <3> QED
      BY <1>1, <1>2, <3>1, <3>2, <3>3 DEF TypeOK
  <2>3. BuildInv' /\ SoundInv'
    BY <1>1, <1>2, <2>1 DEF BuildInv, SoundInv, SeedSet
  <2>4. WritersInv' /\ RelyInv'
    BY <1>1, <1>2, <2>1, AtWork DEF WritersInv, RelyInv
  <2> QED
    BY <1>1, <2>2, <2>3, <2>4, WorkInv
<1>4. CASE sSeed.algo = item.algo
  <2>1. sSeed' = item /\ bg' = (IF allocated THEN "init" ELSE IF numa THEN "allocate" ELSE "create")
        /\ UNCHANGED <<config, torn, spoiled>>
    BY <1>4 DEF SetSeed, AfterSetSeed
  <2>2. TypeOK'
    BY <1>1, <1>2, <2>1, AtWork DEF TypeOK, MaybeSeed, Building
  <2>3. BuildInv' /\ SoundInv'
    BY <1>1, <1>2, <2>1 DEF BuildInv, SoundInv, SeedSet
  <2>4. WritersInv' /\ RelyInv'
    BY <1>1, <1>2, <1>4, <2>1 DEF WritersInv, RelyInv
  <2> QED
    BY <1>1, <2>2, <2>3, <2>4, WorkInv
<1> QED
  BY <1>3, <1>4

LEMMA AppliedSeedInv ==
  ASSUME IInv, AppliedSeed
  PROVE  IInv'
<1> USE DEF IInv
<1>1. /\ bg = "apply" /\ Working /\ Working' /\ sSeed' = item
      /\ bg' = (IF allocated THEN "init" ELSE IF numa THEN "allocate" ELSE "create")
      /\ UNCHANGED <<queueVars, storage, numa, memoryVars, sReady, content, spoiled, item, mainVars, asyncSent>>
      /\ config' \in SUBSET {algorithm, item.algo} /\ config' # {}
      /\ torn' = (main = "apply")
  BY DEF AppliedSeed, EndApply, AfterSetSeed, Working, Building
<1>2. UNCHANGED <<mState, mSeed, mPending, allocated, memory, oneGb, primary, copying, main, algorithm,
                  asking, merged, requests>>
  BY <1>1 DEF queueVars, memoryVars, mainVars
<1>3. TypeOK'
  <2>1. {algorithm, item.algo} \subseteq Algos \cup {NoSeed.algo}
    BY <1>1, AtWork, SeedAlgo DEF TypeOK
  <2> QED
    BY <1>1, <1>2, <2>1, AtWork DEF TypeOK, MaybeSeed, Building
<1>4. BuildInv' /\ SoundInv'
  BY <1>1, <1>2 DEF BuildInv, SoundInv, SeedSet
<1>5. WritersInv' /\ RelyInv'
  BY <1>1, <1>2, AtWork DEF WritersInv, RelyInv
<1> QED
  BY <1>1, <1>3, <1>4, <1>5, WorkInv

\* A node's memory is allocated, or not.
LEMMA AllocateInv ==
  ASSUME IInv,
         \/ \E success \in BOOLEAN : CreateDataset(success)
         \/ \E got \in SUBSET Nodes : \E big \in SUBSET got : AllocateDatasets(got, big)
         \/ \E success \in BOOLEAN : AllocateCache(success)
  PROVE  IInv'
<1> USE DEF IInv
<1>1. /\ bg \in {"create", "allocate", "cache"}
      /\ UNCHANGED <<queueVars, storage, numa, primary, copying, seedVars, configVars, item, mainVars, asyncSent>>
  BY DEF CreateDataset, AllocateDatasets, AllocateCache
<1>2. /\ UNCHANGED <<mState, mSeed, mPending, sReady, sSeed, content, spoiled, config, torn, main,
                     algorithm, asking, merged, requests>>
      /\ copying = {} /\ sSeed = item /\ Working
  BY <1>1 DEF queueVars, seedVars, configVars, mainVars, BuildInv, Working, Building, SeedSet
<1>3. /\ memory' \subseteq Nodes /\ oneGb' \subseteq memory' /\ allocated' \in BOOLEAN
      /\ \/ bg' \in {"init", "cache", "crashed"}
         \/ bg' = "publish" /\ allocated' = FALSE
      /\ bg' = "init" => allocated' = TRUE
      /\ oneGb' # {} => numa
      /\ bg' = "cache" => numa
  <2>1. CASE \E success \in BOOLEAN : CreateDataset(success)
    <3> PICK success \in BOOLEAN : CreateDataset(success)
      BY <2>1
    <3>1. oneGb = {}
      BY DEF CreateDataset, TypeOK, BuildInv
    <3> QED
      BY <3>1, QueueAssumption DEF CreateDataset
  <2>2. CASE \E got \in SUBSET Nodes : \E big \in SUBSET got : AllocateDatasets(got, big)
    BY <2>2 DEF AllocateDatasets, TypeOK, BuildInv
  <2>3. CASE \E success \in BOOLEAN : AllocateCache(success)
    BY <2>3, QueueAssumption DEF AllocateCache, TypeOK, BuildInv
  <2> QED
    BY <2>1, <2>2, <2>3
<1>4. TypeOK'
  BY <1>1, <1>2, <1>3, AtWork DEF TypeOK, MaybeSeed, Building
<1>5. AskingInv' /\ LoopInv' /\ StateInv' /\ PromiseInv'
  BY <1>1, <1>2, <1>3, AtWork DEF AskingInv, LoopInv, StateInv, PromiseInv, Alive, Working, Building
<1>6. BuildInv' /\ SoundInv'
  BY <1>1, <1>2, <1>3, AtWork DEF BuildInv, SoundInv, SeedSet
<1>7. FinishedInv' /\ WritersInv' /\ RelyInv' /\ ConfigInv'
  BY <1>1, <1>2, <1>3, AtWork DEF FinishedInv, WritersInv, RelyInv, ConfigInv
<1> QED
  BY <1>4, <1>5, <1>6, <1>7

LEMMA BeginDatasetInv ==
  ASSUME IInv, NEW n \in Nodes, BeginDataset(n)
  PROVE  IInv'
<1> USE DEF IInv
<1>1. /\ bg = "init" /\ bg' = "build" /\ Working /\ Working' /\ primary' = n
      /\ content' = [content EXCEPT ![n] = NoSeed]
      /\ spoiled' = \E a \in config : ~Fits(a, sSeed)
      /\ UNCHANGED <<queueVars, storage, numa, allocated, memory, oneGb, copying, sReady, sSeed,
                     configVars, item, mainVars, asyncSent>>
  BY DEF BeginDataset, Working, Building
<1>2. /\ UNCHANGED <<mState, mSeed, mPending, config, torn, main, algorithm, asking, merged, requests>>
      /\ sSeed = item /\ copying = {} /\ allocated
  BY <1>1 DEF queueVars, configVars, mainVars, BuildInv, SeedSet
<1>3. spoiled' \in BOOLEAN
  BY <1>1
<1>4. TypeOK'
  BY <1>1, <1>2, <1>3 DEF TypeOK, MaybeSeed, Working, Building
<1>5. BuildInv'
  BY <1>1, <1>2 DEF BuildInv, SeedSet
<1>6. SoundInv'
  <2> SUFFICES ASSUME Awaited', NEW a \in config PROVE Fits(a, sSeed)
    BY <1>1 DEF SoundInv
  <2>1. Fits(algorithm, item) /\ mSeed = item
    BY <1>1, <1>2, AtWork DEF Awaited, Fits
  <2>2. a \in {algorithm, sSeed.algo} \/ Fits(a, mSeed)
    BY <1>1 DEF WritersInv
  <2> QED
    BY <1>2, <2>1, <2>2, SameAlgo DEF Fits
<1>7. WritersInv' /\ RelyInv'
  BY <1>1, <1>2 DEF WritersInv, RelyInv
<1> QED
  BY <1>1, <1>4, <1>5, <1>6, <1>7, WorkInv

LEMMA EndDatasetInv ==
  ASSUME IInv, EndDataset
  PROVE  IInv'
<1> USE DEF IInv
<1>1. /\ bg = "build" /\ bg' = "copy" /\ Working /\ Working'
      /\ copying' = memory \ {primary}
      /\ content' = [n \in Nodes |->
                       IF n = primary THEN IF spoiled THEN NoSeed ELSE sSeed
                       ELSE IF n \in memory \ {primary} THEN NoSeed ELSE content[n]]
      /\ UNCHANGED <<queueVars, storage, numa, allocated, memory, oneGb, primary, sReady, sSeed,
                     spoiled, configVars, item, mainVars, asyncSent>>
  BY DEF EndDataset, Working, Building
<1>2. /\ UNCHANGED <<mState, mSeed, mPending, config, torn, main, algorithm, asking, merged, requests>>
      /\ sSeed = item /\ allocated
  BY <1>1 DEF queueVars, configVars, mainVars, BuildInv, SeedSet
<1>3. TypeOK'
  <2>1. content' \in [Nodes -> MaybeSeed]
    BY <1>1 DEF TypeOK, MaybeSeed
  <2> QED
    BY <1>1, <1>2, <2>1 DEF TypeOK, MaybeSeed, Working, Building
<1>4. BuildInv'
  BY <1>1, <1>2 DEF BuildInv, SeedSet
<1>5. SoundInv'
  <2> SUFFICES ASSUME Awaited' PROVE SoundInv'
    BY DEF SoundInv
  <2>1. ~spoiled
    BY <1>1, <1>2 DEF SoundInv, Awaited
  <2>2. content'[primary] = item
    BY <1>1, <1>2, <2>1 DEF TypeOK
  <2>3. memory' \ copying' \subseteq {primary}
    BY <1>1
  <2> QED
    BY <1>1, <2>2, <2>3 DEF SoundInv
<1>6. WritersInv' /\ RelyInv'
  BY <1>1, <1>2 DEF WritersInv, RelyInv
<1> QED
  BY <1>1, <1>3, <1>4, <1>5, <1>6, WorkInv

LEMMA CopyInv ==
  ASSUME IInv, NEW n \in Nodes, Copy(n)
  PROVE  IInv'
<1> USE DEF IInv
<1>1. /\ n \in copying /\ copying' = copying \ {n}
      /\ content' = [content EXCEPT ![n] = content[primary]]
      /\ UNCHANGED <<queueVars, storage, numa, allocated, memory, oneGb, primary, sReady, sSeed,
                     spoiled, configVars, bgVars, mainVars, asyncSent>>
  BY DEF Copy
<1>2. /\ UNCHANGED <<mState, mSeed, mPending, config, torn, bg, item, main, algorithm, asking, merged, requests>>
      /\ bg = "copy" /\ primary # n /\ Working /\ Working'
  BY <1>1 DEF queueVars, configVars, bgVars, mainVars, BuildInv, Working, Building
<1>3. TypeOK'
  BY <1>1, <1>2 DEF TypeOK, MaybeSeed, Working
<1>4. BuildInv'
  BY <1>1, <1>2 DEF BuildInv
<1>5. SoundInv'
  BY <1>1, <1>2 DEF SoundInv, Awaited, TypeOK
<1>6. WritersInv' /\ RelyInv'
  BY <1>1, <1>2 DEF WritersInv, RelyInv
<1> QED
  BY <1>1, <1>2, <1>3, <1>4, <1>5, <1>6, WorkInv

LEMMA CopiedInv ==
  ASSUME IInv, Copied
  PROVE  IInv'
<1> USE DEF IInv
<1>1. /\ bg = "copy" /\ copying = {} /\ sReady' = TRUE /\ bg' = "publish" /\ Working /\ Working'
      /\ UNCHANGED <<queueVars, storage, numa, memoryVars, sSeed, content, spoiled, configVars, item,
                     mainVars, asyncSent>>
  BY DEF Copied, Working, Building
<1>2. UNCHANGED <<mState, mSeed, mPending, allocated, memory, oneGb, primary, copying, config, torn, main,
                  algorithm, asking, merged, requests>>
  BY <1>1 DEF queueVars, memoryVars, configVars, mainVars
<1>3. TypeOK'
  BY <1>1, <1>2 DEF TypeOK, MaybeSeed, Working, Building
<1>4. BuildInv' /\ SoundInv'
  BY <1>1, <1>2 DEF BuildInv, SoundInv, Awaited, SeedSet
<1>5. WritersInv' /\ RelyInv'
  BY <1>1, <1>2 DEF WritersInv, RelyInv
<1> QED
  BY <1>1, <1>3, <1>4, <1>5, WorkInv

LEMMA PublishInv ==
  ASSUME IInv, Publish
  PROVE  IInv'
<1> USE DEF IInv
<1>1. /\ bg = "publish" /\ bg' = "check" /\ Working
      /\ UNCHANGED <<mPending, storageVars, configVars, item, mainVars>>
  BY DEF Publish, Working, Building
<1>2. /\ UNCHANGED <<storage, numa, allocated, memory, oneGb, primary, copying, sReady, sSeed, content,
                     spoiled, config, torn, main, algorithm, asking, merged, requests>>
      /\ sSeed = item /\ (allocated => sReady) /\ copying = {}
  BY <1>1 DEF storageVars, memoryVars, seedVars, configVars, mainVars, BuildInv, SeedSet
<1>3. CASE mState = "shutdown" \/ mPending # NoSeed
  <2>1. UNCHANGED <<mState, mSeed, asyncSent>> /\ mState # "idle"
    BY <1>1, <1>3, AtWork DEF Publish
  <2>2. TypeOK'
    BY <1>1, <1>2, <2>1 DEF TypeOK, MaybeSeed, Working, Building
  <2>3. AskingInv' /\ LoopInv' /\ StateInv' /\ PromiseInv' /\ BuildInv'
    BY <1>1, <1>2, <1>3, <2>1
    DEF AskingInv, LoopInv, StateInv, PromiseInv, BuildInv, Working, Building, SeedSet
  <2>4. SoundInv' /\ FinishedInv' /\ WritersInv' /\ RelyInv' /\ ConfigInv'
    BY <1>1, <1>2, <2>1 DEF SoundInv, FinishedInv, WritersInv, RelyInv, ConfigInv
  <2> QED
    BY <2>2, <2>3, <2>4
<1>4. CASE ~(mState = "shutdown" \/ mPending # NoSeed)
  <2>1. mState = "pending" /\ mPending = NoSeed /\ mSeed = item
    BY <1>1, <1>4, AtWork
  <2>2. mState' = "idle" /\ UNCHANGED mSeed /\ asyncSent' = TRUE
    BY <1>4, <2>1 DEF Publish
  <2>3. TypeOK'
    BY <1>1, <1>2, <2>2 DEF TypeOK, MaybeSeed, Working, Building
  <2>4. AskingInv' /\ LoopInv' /\ StateInv' /\ PromiseInv' /\ BuildInv' /\ SoundInv'
    BY <1>1, <1>2, <2>1, <2>2
    DEF AskingInv, LoopInv, StateInv, PromiseInv, BuildInv, SoundInv, Awaited, Working, Building, SeedSet
  <2>5. FinishedInv'
    BY <1>1, <1>2, <2>1, <2>2 DEF FinishedInv, SoundInv, Awaited
  <2>6. WritersInv' /\ RelyInv'
    BY <1>1, <1>2, <2>1, <2>2 DEF WritersInv, RelyInv
  <2>7. ConfigInv'
    BY <1>1, <1>2, <2>1, <2>2 DEF ConfigInv, WritersInv, RelyInv
  <2> QED
    BY <2>3, <2>4, <2>5, <2>6, <2>7
<1> QED
  BY <1>3, <1>4

LEMMA BgInv ==
  ASSUME IInv, BgStep \/ SpuriousWakeup
  PROVE  IInv'
BY CheckInv, SetSeedInv, AppliedSeedInv, AllocateInv, BeginDatasetInv, EndDatasetInv, CopyInv,
   CopiedInv, PublishInv DEF BgStep

LEMMA StutterInv == IInv /\ UNCHANGED vars => IInv'
<1> SUFFICES ASSUME IInv, UNCHANGED vars PROVE IInv'
  OBVIOUS
<1> USE DEF IInv
<1>1. UNCHANGED <<mState, mSeed, mPending, storage, numa, allocated, memory, oneGb, primary, copying,
                  sReady, sSeed, content, spoiled, config, torn, bg, item, main, algorithm, asking,
                  merged, requests, asyncSent>>
  BY DEF vars, queueVars, storageVars, memoryVars, seedVars, configVars, bgVars, mainVars
<1>2. TypeOK' /\ AskingInv' /\ LoopInv' /\ StateInv' /\ PromiseInv' /\ BuildInv'
  BY <1>1 DEF TypeOK, MaybeSeed, Working, Alive, AskingInv, LoopInv, StateInv, PromiseInv, BuildInv
<1>3. SoundInv' /\ FinishedInv' /\ WritersInv' /\ RelyInv' /\ ConfigInv'
  BY <1>1 DEF SoundInv, Awaited, FinishedInv, WritersInv, RelyInv, ConfigInv
<1> QED
  BY <1>2, <1>3

THEOREM Inductive == Spec => []IInv
<1>1. IInv /\ [Next]_vars => IInv'
  BY MainInv, BgInv, StutterInv DEF Next, Gone
<1> QED
  BY InitInv, <1>1, PTL DEF Spec

\* The variables keep their types, and the background thread never works on
\* an empty item.
THEOREM TypeCorrect == Spec => []TypeOK
<1>1. IInv => TypeOK
  BY DEF IInv
<1> QED
  BY Inductive, <1>1, PTL

\* A dataset given to a hashing thread is complete and built for its seed.
THEOREM ServedComplete == Spec => []ServedIsComplete
<1>1. IInv => ServedIsComplete
  <2> SUFFICES ASSUME IInv, NEW s \in Seed, NEW n \in Nodes,
                      Serves(s), Fits(algorithm, s), DatasetNode(n) \in memory
               PROVE  SameSeed(content[DatasetNode(n)], s)
    BY DEF ServedIsComplete
  <2>1. mState = "idle" /\ allocated /\ SameSeed(mSeed, s)
    BY DEF Serves, IsReady
  <2>2. Fits(algorithm, mSeed)
    BY <2>1, SameAlgo DEF Fits, SameSeed
  <2>3. content[DatasetNode(n)] = mSeed
    BY <2>1, <2>2 DEF IInv, FinishedInv
  <2> QED
    BY <2>1, <2>3
<1> QED
  BY Inductive, <1>1, PTL

\* The queue's answer that a dataset is ready is the storage's as well.
THEOREM ReadyServed == Spec => []ReadyIsServed
<1>1. IInv => ReadyIsServed
  BY DEF IInv, FinishedInv, ReadyIsServed, Serves, IsReady
<1> QED
  BY Inductive, <1>1, PTL

\* Once a job's dataset is served the global configuration is that of the
\* job's algorithm, unless the job was merged into another's request.
THEOREM OwnConfig == Spec => []ConfigOfJob
<1>1. IInv => ConfigOfJob
  BY SameSeeds DEF IInv, AskingInv, ConfigInv, ConfigOfJob, Serves, IsReady
<1> QED
  BY Inductive, <1>1, PTL

\* Only the background thread touches the storage while it works, and it is
\* not deleted under it.
THEOREM Owned == Spec => []StorageOwned
<1>1. IInv => StorageOwned
  BY AtWork DEF StorageOwned
<1> QED
  BY Inductive, <1>1, PTL

-----------------------------------------------------------------------------
(* The queue implements DatasetService.                                    *)

LEMMA PhaseFacts ==
  ASSUME IInv
  PROVE  /\ Phase = "closed" <=> mState = "shutdown"
         /\ Phase = "building" <=> mState = "pending"
BY DEF IInv, TypeOK, Phase

\* A step that leaves m_state, m_seed and the wake-up alone, and m_isAllocated
\* too when the queue is idle, is not visible.
LEMMA Invisible ==
  ASSUME UNCHANGED <<mState, mSeed, asyncSent>>, mState = "idle" => UNCHANGED allocated
  PROVE  UNCHANGED Service!vars
BY DEF Phase, Service!vars

\* Seeds are the same for the service.
LEMMA ServiceSeeds ==
  /\ Service!Seed = Seed
  /\ Service!NoSeed = NoSeed
  /\ \A s, t : Service!SameSeed(s, t) <=> SameSeed(s, t)
BY DEF Service!Seed, Seed, Service!NoSeed, NoSeed, Service!SameSeed, SameSeed,
       Service!EqualSeedAlgo, EqualSeedAlgo

LEMMA InitImplements == Init => Service!Init
BY ServiceSeeds DEF Init, Service!Init, Phase

LEMMA EnqueueImplements ==
  ASSUME IInv, Enqueue
  PROVE  Service!Ask(asking) /\ asking \in Seed
<1>1. asking \in Seed /\ Phase # "closed"
  BY PhaseFacts DEF Enqueue, IInv, AskingInv, StateInv
<1>2. CASE mState = "pending" /\ SameSeed(mSeed, asking)
  <2>1. UNCHANGED queueVars /\ UNCHANGED <<allocated, asyncSent>>
    BY <1>2 DEF Enqueue, memoryVars
  <2>2. UNCHANGED <<mSeed, Phase, asyncSent>>
    BY <2>1 DEF Phase, queueVars
  <2>3. Service!InProgress(asking)
    BY <1>2, PhaseFacts, ServiceSeeds DEF Service!InProgress
  <2> QED
    BY <1>1, <2>2, <2>3 DEF Service!Ask
<1>3. CASE ~(mState = "pending" /\ SameSeed(mSeed, asking))
  <2>1. mSeed' = asking /\ mState' = "pending" /\ UNCHANGED asyncSent
    BY <1>3 DEF Enqueue
  <2>2. Phase' = "building"
    BY <2>1 DEF Phase
  <2>3. ~Service!InProgress(asking)
    BY <1>3, PhaseFacts, ServiceSeeds DEF Service!InProgress
  <2> QED
    BY <1>1, <2>1, <2>2, <2>3 DEF Service!Ask
<1> QED
  BY <1>2, <1>3

LEMMA PublishImplements ==
  ASSUME IInv, Publish
  PROVE  (\E outcome \in Service!Outcomes : Service!Finish(outcome)) \/ UNCHANGED Service!vars
<1>1. CASE mState = "shutdown" \/ mPending # NoSeed
  BY <1>1, Invisible DEF Publish, storageVars, memoryVars
<1>2. CASE ~(mState = "shutdown" \/ mPending # NoSeed)
  <2>1. mState = "pending"
    BY <1>2 DEF Publish, IInv, TypeOK, StateInv
  <2>2. mSeed = item /\ mSeed \in Seed
    BY <1>2, <2>1 DEF IInv, PromiseInv
  <2>3. mState' = "idle" /\ mSeed' = mSeed /\ asyncSent' = TRUE /\ UNCHANGED allocated
    BY <1>2, <2>2 DEF Publish, storageVars, memoryVars
  <2>4. Phase' \in {"ready", "failed"}
    BY <2>2, <2>3, NoSeedIsNone DEF Phase
  <2>5. Service!Finish(Phase')
    BY <2>1, <2>3, PhaseFacts DEF Service!Finish
  <2> QED
    BY <2>4, <2>5 DEF Service!Outcomes
<1> QED
  BY <1>1, <1>2

LEMMA StepImplements ==
  ASSUME IInv, [Next]_vars
  PROVE  [Service!Next]_Service!vars
<1>1. CASE OnReady
  <2>1. asyncSent /\ asyncSent' = FALSE /\ UNCHANGED <<mState, mSeed, allocated>>
    BY <1>1 DEF OnReady, queueVars, storageVars, memoryVars
  <2>2. Service!Hear
    BY <2>1 DEF Service!Hear, Phase
  <2> QED
    BY <2>2 DEF Service!Next
<1>2. CASE Shutdown
  <2>1. mState # "shutdown"
    BY <1>2 DEF Shutdown, IInv, StateInv
  <2>2. mState' = "shutdown" /\ UNCHANGED <<mSeed, asyncSent>>
    BY <1>2 DEF Shutdown
  <2>3. Phase # "closed" /\ Phase' = "closed"
    BY <2>1, <2>2, PhaseFacts DEF Phase
  <2>4. Service!Close
    BY <2>2, <2>3 DEF Service!Close
  <2> QED
    BY <2>4 DEF Service!Next
<1>3. CASE Enqueue
  BY <1>3, EnqueueImplements, ServiceSeeds DEF Service!Next
<1>4. CASE Publish
  BY <1>4, PublishImplements DEF Service!Next
<1>5. CASE \/ \E success \in BOOLEAN : CreateDataset(success)
           \/ \E got \in SUBSET Nodes : \E big \in SUBSET got : AllocateDatasets(got, big)
           \/ \E success \in BOOLEAN : AllocateCache(success)
  <2>1. bg \in {"create", "allocate", "cache"} /\ UNCHANGED <<mState, mSeed, asyncSent>>
    BY <1>5 DEF CreateDataset, AllocateDatasets, AllocateCache, queueVars
  <2>2. mState # "idle"
    BY <2>1 DEF IInv, StateInv
  <2> QED
    BY <2>1, <2>2, Invisible
<1>6. CASE \/ \E s \in Seed : SetJob(s)
           \/ Applied \/ Test \/ Notify \/ OnDatasetReady \/ ShutdownNotify \/ Join
  <2>1. UNCHANGED <<mState, mSeed, allocated, asyncSent>>
    BY <1>6 DEF SetJob, Applied, Test, Notify, OnDatasetReady, ShutdownNotify, Join, queueVars,
                storageVars, memoryVars
  <2> QED
    BY <2>1, Invisible
<1>7. CASE \/ Check \/ SpuriousWakeup \/ SetSeed \/ AppliedSeed \/ EndDataset \/ Copied
           \/ \E n \in Nodes : BeginDataset(n) \/ Copy(n)
  <2>1. UNCHANGED <<mState, mSeed, allocated, asyncSent>>
    BY <1>7 DEF Check, SpuriousWakeup, SetSeed, AppliedSeed, EndDataset, Copied, BeginDataset, Copy,
                queueVars, storageVars, memoryVars
  <2> QED
    BY <2>1, Invisible
<1>8. CASE UNCHANGED vars
  BY <1>8, Invisible DEF vars, queueVars, storageVars, memoryVars
<1> QED
  BY <1>1, <1>2, <1>3, <1>4, <1>5, <1>6, <1>7, <1>8 DEF Next, MainStep, BgStep, Gone

\* Every behaviour of the queue, its lock, its threads and its storage is a
\* behaviour of the service the miner is written against: the dataset that
\* becomes ready is the one asked for last, and a build that is not
\* superseded leaves a notice.
THEOREM Implements == Spec => ImplementsService
<1>1. IInv /\ [Next]_vars => [Service!Next]_Service!vars
  BY StepImplements
<1> QED
  BY InitImplements, Inductive, <1>1, PTL DEF Spec, ImplementsService, Service!Spec

=============================================================================
