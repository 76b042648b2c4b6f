----------------------------- MODULE Miner_proofs -----------------------------
(***************************************************************************)
(* Proofs, for any number of hashing threads, jobs, events and             *)
(* configurations, of the safety invariants of the mining engine.          *)
(*                                                                         *)
(* The inductive invariant has three layers: which steps a handler of the  *)
(* event loop may have left (`Todos'), what each thread can rely on        *)
(* (`ThreadInv'), and what ties the handler in progress to all threads     *)
(* (`AskInv', `JobInv', `PauseInv', `CauseInv').                           *)
(***************************************************************************)
EXTENDS Miner, TLAPS, SequenceTheorems

\* What may be left of a handler, by the handler.
InSetJob == {<<"release", "zero", "store">>, <<"zero", "store">>, <<"join", "store">>,
             <<"hold", "touch", "store">>, <<"touch", "store">>, <<"store">>, <<"ask">>}
InChange == {HandleJobChange,
             <<"reset", "backend", "touch", "unpause">>, <<"backend", "touch", "unpause">>,
             <<"zero", "start", "touch", "unpause">>, <<"zero", "touch", "unpause">>,
             <<"join", "start", "touch", "unpause">>, <<"join", "touch", "unpause">>,
             <<"start", "touch", "unpause">>, <<"touch", "unpause">>}
InCommand == {<<"hold", "touch">>, <<"touch">>, <<"release", "touch">>}
InIntervention == {<<"release", "zero">>, <<"zero">>, <<"join">>, <<"backend">>,
                   <<"zero", "start">>, <<"join", "start">>, <<"start">>}
Todos == InSetJob \cup InChange \cup InCommand \cup InIntervention
           \cup {<<>>, <<"unpause">>}

\* The types, with what `todo' and `ret' may be.
Typed ==
  /\ TypeOK
  /\ todo \in Todos
  /\ ret \in [Workers -> {"outer", "inner"}]
  /\ overtaken \in [Workers -> BOOLEAN]

Live(w)    == pc[w] # "exit"
Polling(w) == pc[w] \in {"save", "raiseSaved", "vm", "poll"}

\* The thread works on what it took in consumeJob, under the present sequence
\* number, and the loop did not change the job while it took it.
Current(w) ==
  /\ Live(w) /\ pc[w] \notin Window /\ ~overtaken[w]
  /\ wseq[w] = sequence /\ sequence # 0

\* Unless it missed a stop, a thread whose number is the present one has made
\* its virtual machine or is waiting to make it.
VmInv(w) ==
  /\ Live(w) /\ ~Polling(w) /\ wseq[w] # 0 /\ wseq[w] = sequence => hasVm[w]
  /\ Hashing(w) => MissedStop(w) \/ (hasVm[w] /\ wjob[w] # NoJob)

\* A thread that missed a stop was overtaken by it in consumeJob; if it finds no
\* nonce left, it comes back to consumeJob and goes from there to its end.
MissedInv(w) ==
  /\ Live(w) /\ MissedStop(w) =>
       \/ pc[w] = "outer"
       \/ pc[w] = "consume" /\ ret[w] = "outer"
       \/ overtaken[w] /\ (Polling(w) \/ Hashing(w) \/ pc[w] \in {"inner", "tail"})
  /\ pc[w] \in {"fetch", "add"} /\ sequence = 0 => overtaken[w]
  /\ Live(w) /\ wseq[w] = 0 /\ sequence # 0 => wjob[w] = NoJob

ThreadInv(w) ==
  /\ ~Running => pc[w] = "exit"
  /\ Live(w) /\ sequence # 0 => wseq[w] <= sequence
  /\ VmInv(w)
  /\ MissedInv(w)
  /\ ~Polling(w) /\ Current(w) => HasDataset(wjob[w])
  /\ pc[w] = "add" /\ ~overtaken[w] => fetched[w] = job

\* The sequence is 0 only until the threads are joined.
ZeroInv == sequence = 0 /\ Running => At("join")

\* While the loop asks for another dataset, no thread is about to go on under
\* the present sequence number.
Silenced(w) == Live(w) => overtaken[w] \/ (pc[w] \notin Window /\ wseq[w] # sequence)
Silent == ~Running \/ (paused /\ \A w \in Workers : Silenced(w))

AskInv ==
  /\ todo = <<"touch", "store">> => paused
  /\ todo = <<"store">> => HasDataset(incoming) \/ Silent
  /\ todo = <<"ask">> => Silent

\* Once the change of the job has been made known, current threads have it.
HasJob(w) == Current(w) => wjob[w] = job
JobInv == todo \notin InChange /\ ~notice /\ HasDataset(job) => \A w \in Workers : HasJob(w)

\* The pause flag follows the pools and the user, but for the steps in which
\* a handler is about to set it or to stop the threads.
PauseInv ==
  /\ todo \in InIntervention => intervened
  /\ todo = <<"release", "touch">> => active /\ enabled
  /\ ~intervened /\ ~active =>
       paused \/ At("hold") \/ todo \in {<<"zero", "store">>, <<"join", "store">>, <<"store">>}
  /\ ~intervened /\ ~enabled /\ Running =>
       paused \/ At("hold") \/ At("quiet") \/ todo \in {<<"zero", "store">>, <<"join", "store">>}
  /\ ~intervened /\ ~enabled /\ todo \in (InChange \ {HandleJobChange}) \cup {<<"unpause">>} =>
       paused

\* The flag is up because no nonce is left, because somebody wants it up or there
\* is no dataset, or the handler in progress, or the next one, will see to it.
WillRelease == todo \in InSetJob \cup InChange \cup {<<"unpause">>, <<"release", "touch">>}
CauseInv ==
  /\ todo = <<"hold", "touch">> => ~(active /\ enabled)
  /\ paused => Exhausted \/ ~(active /\ enabled) \/ ~HasDataset(job) \/ notice \/ WillRelease

IInv ==
  /\ Typed /\ ZeroInv /\ AskInv /\ JobInv /\ PauseInv /\ CauseInv
  /\ \A w \in Workers : ThreadInv(w)

-----------------------------------------------------------------------------
(* The hashing threads.                                                    *)

\* What a step of one thread leaves to the event loop.
LoopUnchanged ==
  UNCHANGED <<sequence, minerVars, backendVars, datasetVars, todo, intervened, resetFor>>

\* A thread may raise the pause flag, for the end of the nonces, and take the last
\* of them; it neither lowers the flag nor takes its cause away.
FlagKept ==
  /\ paused => paused'
  /\ paused' => paused \/ Exhausted'
  /\ Exhausted => Exhausted'

\* A step of one thread leaves the others and the event loop alone.
LEMMA OneThread ==
  ASSUME Typed, NEW w \in Workers, WorkerStep(w)
  PROVE  /\ \A v \in Workers \ {w} :
              /\ pc'[v] = pc[v] /\ ret'[v] = ret[v] /\ fetched'[v] = fetched[v]
              /\ wjob'[v] = wjob[v] /\ wseq'[v] = wseq[v] /\ hasVm'[v] = hasVm[v]
              /\ overtaken'[v] = overtaken[v]
         /\ LoopUnchanged
         /\ FlagKept
         /\ pc[w] # "exit"
         /\ Typed'
<1> USE DEF Typed, TypeOK, Goto, Call, Return, Places, Window
<1>1. EngineUnchanged => LoopUnchanged /\ FlagKept /\ UNCHANGED nonceVars
  BY DEF EngineUnchanged, LoopUnchanged, FlagKept, Exhausted, nonceVars
<1>2. ASSUME EngineUnchanged, NEW label \in Places,
             Goto(w, label), UNCHANGED <<ret, fetched, wjob, wseq, hasVm, overtaken>>
      PROVE  Typed'
  BY <1>2 DEF EngineUnchanged, nonceVars, minerVars, backendVars
<1>3. CASE Outer(w)
  BY <1>1, <1>2, <1>3 DEF Outer
<1>4. CASE Sleep(w)
  <2>1. EngineUnchanged /\ pc[w] # "exit" /\ UNCHANGED <<fetched, wjob, wseq, hasVm>>
    BY <1>4 DEF Sleep
  <2>2. \/ Goto(w, "exit") /\ UNCHANGED <<ret, overtaken>>
        \/ Call(w, "inner")
    BY <1>4 DEF Sleep
  <2>3. /\ pc' \in [Workers -> Places] /\ ret' \in [Workers -> {"outer", "inner"}]
        /\ overtaken' \in [Workers -> BOOLEAN]
    BY <2>2
  <2>4. \A v \in Workers \ {w} :
          pc'[v] = pc[v] /\ ret'[v] = ret[v] /\ overtaken'[v] = overtaken[v]
    BY <2>2
  <2> QED
    BY <1>1, <2>1, <2>3, <2>4 DEF EngineUnchanged, nonceVars, minerVars, backendVars
<1>5. CASE Inner(w)
  BY <1>1, <1>2, <1>5 DEF Inner
<1>6. CASE Hash(w) \/ Raise(w) \/ Save(w)
  <2>1. RestUnchanged /\ pc[w] # "exit" /\ LoopUnchanged
    BY <1>6 DEF Hash, Raise, Save, RestUnchanged, LoopUnchanged
  <2>2. \E label \in Places : Goto(w, label)
    BY <1>6 DEF Hash, Raise, Save, TakesLast
  <2>3. \/ UNCHANGED <<paused, late>> /\ (UNCHANGED space \/ space' = "used")
        \/ paused' = TRUE /\ late' = (late \/ space = "open") /\ UNCHANGED space
    BY <1>6 DEF Hash, Raise, Save, TakesLast
  <2>4. FlagKept
    <3>1. /\ paused => paused'
          /\ late => late'
          /\ space = "used" => space' = "used"
      BY <2>3
    <3>2. paused' => paused \/ late' \/ space' = "used"
      BY <2>3
    <3> QED
      BY <3>1, <3>2 DEF FlagKept, Exhausted
  <2>5. /\ paused' \in BOOLEAN /\ late' \in BOOLEAN /\ space' \in {"open", "used"}
    BY <2>3
  <2>6. pc' \in [Workers -> Places] /\ \A v \in Workers \ {w} : pc'[v] = pc[v]
    <3>1. PICK label \in Places : pc' = [pc EXCEPT ![w] = label]
      BY <2>2
    <3> QED
      BY <3>1
  <2> QED
    BY <2>1, <2>4, <2>5, <2>6 DEF RestUnchanged, LoopUnchanged, minerVars, backendVars
<1>7. CASE EndOfJob(w)
  <2>1. EngineUnchanged /\ pc[w] # "exit" /\ UNCHANGED <<fetched, wjob, wseq, hasVm>>
    BY <1>7 DEF EndOfJob
  <2>2. \/ Goto(w, "outer") /\ UNCHANGED <<ret, overtaken>>
        \/ Call(w, "outer")
    BY <1>7 DEF EndOfJob
  <2>3. /\ pc' \in [Workers -> Places] /\ ret' \in [Workers -> {"outer", "inner"}]
        /\ overtaken' \in [Workers -> BOOLEAN]
    BY <2>2
  <2>4. \A v \in Workers \ {w} :
          pc'[v] = pc[v] /\ ret'[v] = ret[v] /\ overtaken'[v] = overtaken[v]
    BY <2>2
  <2> QED
    BY <1>1, <2>1, <2>3, <2>4 DEF EngineUnchanged, nonceVars, minerVars, backendVars
<1>8. CASE Consume(w) \/ Vm(w) \/ Poll(w)
  <2>1. /\ EngineUnchanged /\ pc[w] # "exit" /\ UNCHANGED <<fetched, wjob, wseq, overtaken>>
        /\ UNCHANGED hasVm \/ hasVm' = [hasVm EXCEPT ![w] = TRUE]
    BY <1>8 DEF Consume, Vm, Poll
  <2>2. Return(w) \/ (\E label \in Places : Goto(w, label) /\ UNCHANGED ret)
    BY <1>8, Zenon DEF Consume, Vm, Poll, Places, Window
  <2>3. ret[w] \in Places
    OBVIOUS
  <2>4. \E label \in Places : pc' = [pc EXCEPT ![w] = label]
    BY <2>2, <2>3
  <2>5. pc' \in [Workers -> Places] /\ \A v \in Workers \ {w} : pc'[v] = pc[v]
    <3>1. PICK label \in Places : pc' = [pc EXCEPT ![w] = label]
      BY <2>4
    <3> QED
      BY <3>1
  <2>6. /\ ret' \in [Workers -> {"outer", "inner"}]
        /\ \A v \in Workers \ {w} : ret'[v] = ret[v]
    BY <2>2
  <2>7. /\ hasVm' \in [Workers -> BOOLEAN]
        /\ \A v \in Workers \ {w} : hasVm'[v] = hasVm[v]
    BY <2>1
  <2> QED
    BY <1>1, <2>1, <2>5, <2>6, <2>7 DEF EngineUnchanged, nonceVars, minerVars, backendVars
<1>9. CASE Fetch(w)
  BY <1>1, <1>9 DEF Fetch, EngineUnchanged, nonceVars, minerVars, backendVars
<1>10. CASE Add(w)
  BY <1>1, <1>10 DEF Add, EngineUnchanged, nonceVars, minerVars, backendVars
<1> QED
  BY <1>3, <1>4, <1>5, <1>6, <1>7, <1>8, <1>9, <1>10 DEF WorkerStep

\* What a step of a thread does to what it can rely on itself.
LEMMA OwnStep ==
  ASSUME Typed, NEW w \in Workers, WorkerStep(w), ThreadInv(w)
  PROVE  /\ ThreadInv(w)'
         /\ paused /\ Silenced(w) => Silenced(w)'
         /\ HasJob(w) => HasJob(w)'
<1> USE DEF Typed, TypeOK, Goto, Call, Return, Places, Window, ThreadInv, VmInv, MissedInv,
            MissedStop, Live, Polling, Hashing, Current, Silenced, HasJob
<1>1. LoopUnchanged /\ pc[w] # "exit"
  BY OneThread
<1>2. UNCHANGED <<sequence, applied, job, wanted, phase>>
  BY <1>1 DEF LoopUnchanged, minerVars, backendVars, datasetVars
<1>3. \A j : HasDataset(j)' <=> HasDataset(j)
  BY <1>2 DEF HasDataset, Dataset!Ready, Dataset!SameSeed, Dataset!EqualSeedAlgo
<1> HIDE DEF Typed
<1>4. /\ pc \in [Workers -> Places] /\ ret \in [Workers -> {"outer", "inner"}]
      /\ fetched \in [Workers -> Jobs \cup {NoJob}] /\ wjob \in [Workers -> Jobs \cup {NoJob}]
      /\ wseq \in [Workers -> Nat] /\ hasVm \in [Workers -> BOOLEAN]
      /\ overtaken \in [Workers -> BOOLEAN] /\ sequence \in Nat
  BY DEF Typed
<1>5. CASE Outer(w)
  BY <1>1, <1>2, <1>3, <1>4, <1>5 DEF Outer, Running
<1>6. CASE Sleep(w)
  BY <1>1, <1>2, <1>3, <1>4, <1>6 DEF Sleep, Running
<1>7. CASE Inner(w)
  BY <1>1, <1>2, <1>3, <1>4, <1>7 DEF Inner, Running
<1>8. CASE Hash(w)
  BY <1>1, <1>2, <1>3, <1>4, <1>8 DEF Hash, TakesLast, RestUnchanged, Running
<1>9. CASE Raise(w)
  BY <1>1, <1>2, <1>3, <1>4, <1>9 DEF Raise, RestUnchanged, Running
<1>10. CASE EndOfJob(w)
  BY <1>1, <1>2, <1>3, <1>4, <1>10 DEF EndOfJob, Running
<1>11. CASE Consume(w)
  BY <1>1, <1>2, <1>3, <1>4, <1>11 DEF Consume, Running
<1>12. CASE Fetch(w)
  BY <1>1, <1>2, <1>3, <1>4, <1>12 DEF Fetch, Running
<1>13. CASE Add(w)
  BY <1>1, <1>2, <1>3, <1>4, <1>13 DEF Add, Running
<1>14. CASE Save(w)
  BY <1>1, <1>2, <1>3, <1>4, <1>14 DEF Save, TakesLast, RestUnchanged, Running
<1>15. CASE Vm(w)
  BY <1>1, <1>2, <1>3, <1>4, <1>15 DEF Vm, Running
<1>16. CASE Poll(w)
  BY <1>1, <1>2, <1>3, <1>4, <1>16 DEF Poll, Running
<1> QED
  BY <1>5, <1>6, <1>7, <1>8, <1>9, <1>10, <1>11, <1>12, <1>13, <1>14, <1>15, <1>16 DEF WorkerStep

-----------------------------------------------------------------------------
(* Sequences: what is left of a handler after each of its steps.           *)


LEMMA Concat ==
  ASSUME NEW S, NEW a \in Seq(S), NEW b \in Seq(S), NEW c \in Seq(S),
         Len(c) = Len(a) + Len(b),
         \A i \in 1..Len(a) : c[i] = a[i],
         \A i \in 1..Len(b) : c[Len(a) + i] = b[i]
  PROVE  a \o b = c
<1>1. a \o b \in Seq(S) /\ Len(a \o b) = Len(c)
  BY ConcatProperties
<1>2. \A i \in 1..Len(c) : (a \o b)[i] = c[i]
  <2> TAKE i \in 1..Len(c)
  <2>1. CASE i \in 1..Len(a)
    BY <2>1, ConcatProperties
  <2>2. CASE i > Len(a)
    <3> DEFINE k == i - Len(a)
    <3>1. k \in 1..Len(b) /\ i = Len(a) + k
      BY <2>2
    <3>2. (a \o b)[i] = b[k]
      BY <3>1, ConcatProperties
    <3> QED
      BY <3>1, <3>2
  <2> QED
    BY <2>1, <2>2
<1> QED
  BY <1>1, <1>2, SeqEqual

LEMMA Concat11 ==
  ASSUME NEW x, NEW y
  PROVE  <<x>> \o <<y>> = <<x, y>>
<1> DEFINE S == {x, y}
           a == <<x>>
           b == <<y>>
           c == <<x, y>>
<1>1. /\ a \in Seq(S) /\ b \in Seq(S) /\ c \in Seq(S)
      /\ Len(a) = 1 /\ Len(b) = 1 /\ Len(c) = 2
  OBVIOUS
<1>2. c[1] = a[1]
  OBVIOUS
<1>3. c[2] = b[1]
  OBVIOUS
<1> HIDE DEF S, a, b, c
<1>4. \A i \in 1..Len(a) : c[i] = a[i]
  BY <1>1, <1>2
<1>5. \A i \in 1..Len(b) : c[Len(a) + i] = b[i]
  BY <1>1, <1>3
<1>6. Len(c) = Len(a) + Len(b)
  BY <1>1
<1>7. a \o b = c
  BY <1>1, <1>4, <1>5, <1>6, Concat
<1> QED
  BY <1>7 DEF a, b, c

LEMMA Concat12 ==
  ASSUME NEW x, NEW y, NEW z
  PROVE  <<x>> \o <<y, z>> = <<x, y, z>>
<1> DEFINE S == {x, y, z}
           a == <<x>>
           b == <<y, z>>
           c == <<x, y, z>>
<1>1. /\ a \in Seq(S) /\ b \in Seq(S) /\ c \in Seq(S)
      /\ Len(a) = 1 /\ Len(b) = 2 /\ Len(c) = 3
  OBVIOUS
<1>2. c[1] = a[1]
  OBVIOUS
<1>3. c[2] = b[1] /\ c[3] = b[2]
  OBVIOUS
<1> HIDE DEF S, a, b, c
<1>4. \A i \in 1..Len(a) : c[i] = a[i]
  BY <1>1, <1>2
<1>5. \A i \in 1..Len(b) : c[Len(a) + i] = b[i]
  BY <1>1, <1>3
<1>6. Len(c) = Len(a) + Len(b)
  BY <1>1
<1>7. a \o b = c
  BY <1>1, <1>4, <1>5, <1>6, Concat
<1> QED
  BY <1>7 DEF a, b, c

LEMMA Concat21 ==
  ASSUME NEW x, NEW y, NEW z
  PROVE  <<x, y>> \o <<z>> = <<x, y, z>>
<1> DEFINE S == {x, y, z}
           a == <<x, y>>
           b == <<z>>
           c == <<x, y, z>>
<1>1. /\ a \in Seq(S) /\ b \in Seq(S) /\ c \in Seq(S)
      /\ Len(a) = 2 /\ Len(b) = 1 /\ Len(c) = 3
  OBVIOUS
<1>2. c[1] = a[1] /\ c[2] = a[2]
  OBVIOUS
<1>3. c[3] = b[1]
  OBVIOUS
<1> HIDE DEF S, a, b, c
<1>4. \A i \in 1..Len(a) : c[i] = a[i]
  BY <1>1, <1>2
<1>5. \A i \in 1..Len(b) : c[Len(a) + i] = b[i]
  BY <1>1, <1>3
<1>6. Len(c) = Len(a) + Len(b)
  BY <1>1
<1>7. a \o b = c
  BY <1>1, <1>4, <1>5, <1>6, Concat
<1> QED
  BY <1>7 DEF a, b, c

LEMMA Concat13 ==
  ASSUME NEW x, NEW y, NEW z, NEW u
  PROVE  <<x>> \o <<y, z, u>> = <<x, y, z, u>>
<1> DEFINE S == {x, y, z, u}
           a == <<x>>
           b == <<y, z, u>>
           c == <<x, y, z, u>>
<1>1. /\ a \in Seq(S) /\ b \in Seq(S) /\ c \in Seq(S)
      /\ Len(a) = 1 /\ Len(b) = 3 /\ Len(c) = 4
  OBVIOUS
<1>2. c[1] = a[1]
  OBVIOUS
<1>3. c[2] = b[1] /\ c[3] = b[2] /\ c[4] = b[3]
  OBVIOUS
<1> HIDE DEF S, a, b, c
<1>4. \A i \in 1..Len(a) : c[i] = a[i]
  BY <1>1, <1>2
<1>5. \A i \in 1..Len(b) : c[Len(a) + i] = b[i]
  BY <1>1, <1>3
<1>6. Len(c) = Len(a) + Len(b)
  BY <1>1
<1>7. a \o b = c
  BY <1>1, <1>4, <1>5, <1>6, Concat
<1> QED
  BY <1>7 DEF a, b, c

LEMMA Concat22 ==
  ASSUME NEW x, NEW y, NEW z, NEW u
  PROVE  <<x, y>> \o <<z, u>> = <<x, y, z, u>>
<1> DEFINE S == {x, y, z, u}
           a == <<x, y>>
           b == <<z, u>>
           c == <<x, y, z, u>>
<1>1. /\ a \in Seq(S) /\ b \in Seq(S) /\ c \in Seq(S)
      /\ Len(a) = 2 /\ Len(b) = 2 /\ Len(c) = 4
  OBVIOUS
<1>2. c[1] = a[1] /\ c[2] = a[2]
  OBVIOUS
<1>3. c[3] = b[1] /\ c[4] = b[2]
  OBVIOUS
<1> HIDE DEF S, a, b, c
<1>4. \A i \in 1..Len(a) : c[i] = a[i]
  BY <1>1, <1>2
<1>5. \A i \in 1..Len(b) : c[Len(a) + i] = b[i]
  BY <1>1, <1>3
<1>6. Len(c) = Len(a) + Len(b)
  BY <1>1
<1>7. a \o b = c
  BY <1>1, <1>4, <1>5, <1>6, Concat
<1> QED
  BY <1>7 DEF a, b, c

\* What may be left when a step is next.
LEMMA Heads ==
  ASSUME todo \in Todos
  PROVE  /\ At("hold") => todo \in {<<"hold", "touch", "store">>, <<"hold", "touch">>}
         /\ At("release") => todo \in {<<"release", "zero", "store">>, <<"release", "zero">>,
                                   <<"release", "touch">>}
         /\ At("quiet") => todo = HandleJobChange
         /\ At("unpause") => todo = <<"unpause">>
         /\ At("touch") => todo \in {<<"touch", "store">>, <<"touch">>, <<"touch", "unpause">>}
         /\ At("store") => todo = <<"store">>
         /\ At("ask") => todo = <<"ask">>
         /\ At("reset") => todo = <<"reset", "backend", "touch", "unpause">>
         /\ At("backend") => todo \in {<<"backend", "touch", "unpause">>, <<"backend">>}
         /\ At("zero") => todo \in {<<"zero", "store">>, <<"zero", "start", "touch", "unpause">>, <<"zero", "touch", "unpause">>,
                                <<"zero">>, <<"zero", "start">>}
         /\ At("join") => todo \in {<<"join", "store">>, <<"join", "start", "touch", "unpause">>, <<"join", "touch", "unpause">>,
                                <<"join">>, <<"join", "start">>}
         /\ At("start") => todo \in {<<"start", "touch", "unpause">>, <<"start">>}
<1> USE DEF Todos, InSetJob, InChange, InCommand, InIntervention, HandleJobChange, At, Idle
<1>1. CASE todo \in InSetJob
  BY <1>1
<1>2. CASE todo \in InChange
  BY <1>2
<1>3. CASE todo \in InCommand
  BY <1>3
<1>4. CASE todo \in InIntervention
  BY <1>4
<1>5. CASE todo \in {<<>>, <<"unpause">>}
  BY <1>5
<1> QED
  BY <1>1, <1>2, <1>3, <1>4, <1>5

\* What is left after the first step, when the step adds nothing.
LEMMA Tails ==
  /\ <<>> \o Tail(<<"hold", "touch", "store">>) = <<"touch", "store">>
  /\ <<>> \o Tail(<<"hold", "touch">>) = <<"touch">>
  /\ <<>> \o Tail(<<"release", "zero", "store">>) = <<"zero", "store">>
  /\ <<>> \o Tail(<<"release", "zero">>) = <<"zero">>
  /\ <<>> \o Tail(<<"release", "touch">>) = <<"touch">>
  /\ <<>> \o Tail(<<"quiet", "reset", "backend", "touch", "unpause">>) = <<"reset", "backend", "touch", "unpause">>
  /\ <<>> \o Tail(<<"unpause">>) = <<>>
  /\ <<>> \o Tail(<<"touch", "store">>) = <<"store">>
  /\ <<>> \o Tail(<<"touch">>) = <<>>
  /\ <<>> \o Tail(<<"touch", "unpause">>) = <<"unpause">>
  /\ <<>> \o Tail(<<"ask">>) = <<>>
  /\ <<>> \o Tail(<<"reset", "backend", "touch", "unpause">>) = <<"backend", "touch", "unpause">>
  /\ <<>> \o Tail(<<"start", "touch", "unpause">>) = <<"touch", "unpause">>
  /\ <<>> \o Tail(<<"start">>) = <<>>
  /\ <<>> \o Tail(<<"zero", "store">>) = <<"store">>
  /\ <<>> \o Tail(<<"zero", "start", "touch", "unpause">>) = <<"start", "touch", "unpause">>
  /\ <<>> \o Tail(<<"zero", "touch", "unpause">>) = <<"touch", "unpause">>
  /\ <<>> \o Tail(<<"zero">>) = <<>>
  /\ <<>> \o Tail(<<"zero", "start">>) = <<"start">>
  /\ <<>> \o Tail(<<"join", "store">>) = <<"store">>
  /\ <<>> \o Tail(<<"join", "start", "touch", "unpause">>) = <<"start", "touch", "unpause">>
  /\ <<>> \o Tail(<<"join", "touch", "unpause">>) = <<"touch", "unpause">>
  /\ <<>> \o Tail(<<"join">>) = <<>>
  /\ <<>> \o Tail(<<"join", "start">>) = <<"start">>
  /\ <<>> \o Tail(<<"backend", "touch", "unpause">>) = <<"touch", "unpause">>
  /\ <<>> \o Tail(<<"backend">>) = <<>>
OBVIOUS

LEMMA StoreTail ==
  /\ HandleJobChange \o Tail(<<"store">>) = HandleJobChange
  /\ <<"ask">> \o Tail(<<"store">>) = <<"ask">>
BY DEF HandleJobChange

\* The steps that go on with what is left, by what that is.
LEMMA Shapes ==
  ASSUME todo \in Todos
  PROVE  /\ Hold => \/ todo = <<"hold", "touch", "store">> /\ todo' = <<"touch", "store">>
                    \/ todo = <<"hold", "touch">> /\ todo' = <<"touch">>
         /\ Release => \/ todo = <<"release", "zero", "store">> /\ todo' = <<"zero", "store">>
                       \/ todo = <<"release", "zero">> /\ todo' = <<"zero">>
                       \/ todo = <<"release", "touch">> /\ todo' = <<"touch">>
         /\ Quiet => todo = HandleJobChange /\ todo' = <<"reset", "backend", "touch", "unpause">>
         /\ Unpause => todo = <<"unpause">> /\ todo' = <<>>
         /\ Touch => \/ todo = <<"touch", "store">> /\ todo' = <<"store">>
                     \/ todo = <<"touch">> /\ todo' = <<>>
                     \/ todo = <<"touch", "unpause">> /\ todo' = <<"unpause">>
         /\ Store => /\ todo = <<"store">>
                     /\ todo' = IF HasDataset(incoming) THEN HandleJobChange ELSE <<"ask">>
         /\ Ask => todo = <<"ask">> /\ todo' = <<>>
         /\ Reset => /\ todo = <<"reset", "backend", "touch", "unpause">>
                     /\ todo' = <<"backend", "touch", "unpause">>
         /\ Start => \/ todo = <<"start", "touch", "unpause">> /\ todo' = <<"touch", "unpause">>
                     \/ todo = <<"start">> /\ todo' = <<>>
<1>2. Hold => \/ todo = <<"hold", "touch", "store">> /\ todo' = <<"touch", "store">>
              \/ todo = <<"hold", "touch">> /\ todo' = <<"touch">>
  <2>1. Hold => At("hold") /\ todo' = <<>> \o Tail(todo)
    BY DEF Hold, Continue
  <2>2. Hold => todo \in {<<"hold", "touch", "store">>, <<"hold", "touch">>}
    BY <2>1, Heads
  <2> QED
    BY <2>1, <2>2, Tails
<1>3. Release => \/ todo = <<"release", "zero", "store">> /\ todo' = <<"zero", "store">>
                 \/ todo = <<"release", "zero">> /\ todo' = <<"zero">>
                 \/ todo = <<"release", "touch">> /\ todo' = <<"touch">>
  <2>1. Release => At("release") /\ todo' = <<>> \o Tail(todo)
    BY DEF Release, Continue
  <2>2. Release => todo \in {<<"release", "zero", "store">>, <<"release", "zero">>, <<"release", "touch">>}
    BY <2>1, Heads
  <2> QED
    BY <2>1, <2>2, Tails
<1>4. Quiet => todo = HandleJobChange /\ todo' = <<"reset", "backend", "touch", "unpause">>
  <2>1. Quiet => At("quiet") /\ todo' = <<>> \o Tail(todo)
    BY DEF Quiet, Continue
  <2>2. Quiet => todo = HandleJobChange
    BY <2>1, Heads
  <2> QED
    BY <2>1, <2>2, Tails DEF HandleJobChange
<1>5. Unpause => todo = <<"unpause">> /\ todo' = <<>>
  <2>1. Unpause => At("unpause") /\ todo' = <<>> \o Tail(todo)
    BY DEF Unpause, Continue
  <2>2. Unpause => todo = <<"unpause">>
    BY <2>1, Heads
  <2> QED
    BY <2>1, <2>2, Tails
<1>6. Touch => \/ todo = <<"touch", "store">> /\ todo' = <<"store">>
               \/ todo = <<"touch">> /\ todo' = <<>>
               \/ todo = <<"touch", "unpause">> /\ todo' = <<"unpause">>
  <2>1. Touch => At("touch") /\ todo' = <<>> \o Tail(todo)
    BY DEF Touch, Continue
  <2>2. Touch => todo \in {<<"touch", "store">>, <<"touch">>, <<"touch", "unpause">>}
    BY <2>1, Heads
  <2> QED
    BY <2>1, <2>2, Tails
<1>7. Store => /\ todo = <<"store">>
               /\ todo' = IF HasDataset(incoming) THEN HandleJobChange ELSE <<"ask">>
  <2>1. Store => At("store") /\ todo' = (IF HasDataset(incoming) THEN HandleJobChange ELSE <<"ask">>) \o Tail(todo)
    BY DEF Store, Continue
  <2>2. Store => todo = <<"store">>
    BY <2>1, Heads
  <2> QED
    BY <2>1, <2>2, StoreTail DEF HandleJobChange
<1>8. Ask => todo = <<"ask">> /\ todo' = <<>>
  <2>1. Ask => At("ask") /\ todo' = <<>> \o Tail(todo)
    BY DEF Ask, Continue
  <2>2. Ask => todo = <<"ask">>
    BY <2>1, Heads
  <2> QED
    BY <2>1, <2>2, Tails
<1>9. Reset => /\ todo = <<"reset", "backend", "touch", "unpause">>
               /\ todo' = <<"backend", "touch", "unpause">>
  <2>1. Reset => At("reset") /\ todo' = <<>> \o Tail(todo)
    BY DEF Reset, Continue
  <2>2. Reset => todo = <<"reset", "backend", "touch", "unpause">>
    BY <2>1, Heads
  <2> QED
    BY <2>1, <2>2, Tails
<1>10. Start => \/ todo = <<"start", "touch", "unpause">> /\ todo' = <<"touch", "unpause">>
                \/ todo = <<"start">> /\ todo' = <<>>
  <2>1. Start => At("start") /\ todo' = <<>> \o Tail(todo)
    BY DEF Start, Continue
  <2>2. Start => todo \in {<<"start", "touch", "unpause">>, <<"start">>}
    BY <2>1, Heads
  <2> QED
    BY <2>1, <2>2, Tails
<1> QED
  BY <1>2, <1>3, <1>4, <1>5, <1>6, <1>7, <1>8, <1>9, <1>10

\* Stopping and starting the threads.
LEMMA ZeroShapes ==
  ASSUME todo \in Todos, Zero
  PROVE  \/ todo = <<"zero", "store">> /\ todo' = IF Running THEN <<"join", "store">> ELSE <<"store">>
         \/ /\ todo = <<"zero", "start", "touch", "unpause">>
            /\ todo' = IF Running THEN <<"join", "start", "touch", "unpause">>
                                  ELSE <<"start", "touch", "unpause">>
         \/ /\ todo = <<"zero", "touch", "unpause">>
            /\ todo' = IF Running THEN <<"join", "touch", "unpause">> ELSE <<"touch", "unpause">>
         \/ todo = <<"zero">> /\ todo' = IF Running THEN <<"join">> ELSE <<>>
         \/ todo = <<"zero", "start">> /\ todo' = IF Running THEN <<"join", "start">> ELSE <<"start">>
<1>1. At("zero") /\ todo' = (IF Running THEN <<"join">> ELSE <<>>) \o Tail(todo)
  BY DEF Zero, Continue
<1>2. todo \in {<<"zero", "store">>, <<"zero", "start", "touch", "unpause">>,
               <<"zero", "touch", "unpause">>, <<"zero">>, <<"zero", "start">>}
  BY <1>1, Heads
<1>3. /\ Tail(<<"zero", "store">>) = <<"store">>
      /\ Tail(<<"zero", "start", "touch", "unpause">>) = <<"start", "touch", "unpause">>
      /\ Tail(<<"zero", "touch", "unpause">>) = <<"touch", "unpause">>
      /\ Tail(<<"zero">>) = <<>>
      /\ Tail(<<"zero", "start">>) = <<"start">>
  OBVIOUS
<1>4. /\ <<"join">> \o <<"store">> = <<"join", "store">>
      /\ <<"join">> \o <<"start", "touch", "unpause">> = <<"join", "start", "touch", "unpause">>
      /\ <<"join">> \o <<"touch", "unpause">> = <<"join", "touch", "unpause">>
      /\ <<"join">> \o <<>> = <<"join">>
      /\ <<"join">> \o <<"start">> = <<"join", "start">>
  <2>1. <<"join">> \o <<>> = <<"join">>
    OBVIOUS
  <2> QED
    BY <2>1, Concat11, Concat12, Concat13
<1> QED
  BY <1>1, <1>2, <1>3, <1>4, Tails

LEMMA JoinShapes ==
  ASSUME todo \in Todos, Join
  PROVE  \/ todo = <<"join", "store">> /\ todo' = <<"store">>
         \/ todo = <<"join", "start", "touch", "unpause">> /\ todo' = <<"start", "touch", "unpause">>
         \/ todo = <<"join", "touch", "unpause">> /\ todo' = <<"touch", "unpause">>
         \/ todo = <<"join">> /\ todo' = <<>>
         \/ todo = <<"join", "start">> /\ todo' = <<"start">>
<1>1. At("join") /\ todo' = <<>> \o Tail(todo)
  BY DEF Join, Continue
<1>2. todo \in {<<"join", "store">>, <<"join", "start", "touch", "unpause">>,
               <<"join", "touch", "unpause">>, <<"join">>, <<"join", "start">>}
  BY <1>1, Heads
<1> QED
  BY <1>1, <1>2, Tails

LEMMA BackendShapes ==
  ASSUME todo \in Todos, Backend
  PROVE  \/ /\ todo = <<"backend", "touch", "unpause">>
            /\ todo' \in {<<"touch", "unpause">>, <<"zero", "touch", "unpause">>,
                          <<"start", "touch", "unpause">>, <<"zero", "start", "touch", "unpause">>}
         \/ /\ todo = <<"backend">>
            /\ todo' \in {<<>>, <<"zero">>, <<"start">>, <<"zero", "start">>}
<1>1. /\ At("backend")
      /\ \E extra \in {<<>>, <<"zero">>, <<>> \o <<"start">>, <<"zero">> \o <<"start">>} :
           todo' = extra \o Tail(todo)
  BY DEF Backend, Continue
<1>2. todo \in {<<"backend", "touch", "unpause">>, <<"backend">>}
  BY <1>1, Heads
<1>3. /\ Tail(<<"backend", "touch", "unpause">>) = <<"touch", "unpause">>
      /\ Tail(<<"backend">>) = <<>>
      /\ <<>> \o <<"start">> = <<"start">>
  OBVIOUS
<1>4. <<"zero">> \o <<"start">> = <<"zero", "start">>
  BY Concat11
<1>5. /\ <<"zero">> \o <<"touch", "unpause">> = <<"zero", "touch", "unpause">>
      /\ <<"start">> \o <<"touch", "unpause">> = <<"start", "touch", "unpause">>
      /\ <<"zero", "start">> \o <<"touch", "unpause">> = <<"zero", "start", "touch", "unpause">>
  BY Concat12, Concat22
<1>6. /\ <<"zero">> \o <<>> = <<"zero">>
      /\ <<"start">> \o <<>> = <<"start">>
      /\ <<"zero", "start">> \o <<>> = <<"zero", "start">>
  OBVIOUS
<1>7. PICK extra \in {<<>>, <<"zero">>, <<"start">>, <<"zero", "start">>} : todo' = extra \o Tail(todo)
  BY <1>1, <1>3, <1>4
<1>8. CASE todo = <<"backend", "touch", "unpause">>
  <2>1. todo' = extra \o <<"touch", "unpause">>
    BY <1>3, <1>7, <1>8
  <2>2. <<>> \o <<"touch", "unpause">> = <<"touch", "unpause">>
    BY <1>3, Tails
  <2> QED
    BY <1>5, <1>7, <1>8, <2>1, <2>2
<1>9. CASE todo = <<"backend">>
  <2>1. todo' = extra \o <<>>
    BY <1>3, <1>7, <1>9
  <2>2. <<>> \o <<>> = <<>>
    BY <1>3, Tails
  <2> QED
    BY <1>6, <1>7, <1>9, <2>1, <2>2
<1> QED
  BY <1>2, <1>8, <1>9

LEMMA SetJobShapes ==
  ASSUME NEW j \in Jobs, SetJob(j)
  PROVE  /\ todo = <<>> /\ incoming' = j
         /\ \/ todo' = <<"release", "zero", "store">>
            \/ todo' = <<"hold", "touch", "store">>
            \/ todo' = <<"store">> /\ HasDataset(j)
<1>1. /\ todo = <<>> /\ incoming' = j
      /\ \/ todo' = <<"release", "zero">> \o <<"store">>
         \/ todo' = <<"hold", "touch">> \o <<"store">>
         \/ todo' = <<>> \o <<"store">> /\ HasDataset(j)
  BY DEF SetJob, Begin, Idle, Stop
<1>2. /\ <<"release", "zero">> \o <<"store">> = <<"release", "zero", "store">>
      /\ <<"hold", "touch">> \o <<"store">> = <<"hold", "touch", "store">>
  BY Concat21
<1>3. <<>> \o <<"store">> = <<"store">>
  OBVIOUS
<1> QED
  BY <1>1, <1>2, <1>3

LEMMA EventShapes ==
  /\ Pause => todo = <<>> /\ todo' = <<"hold", "touch">>
  /\ \A value \in BOOLEAN :
       SetEnabled(value) => /\ todo = <<>>
                            /\ todo' = IF ~active THEN <<>>
                                       ELSE IF value THEN <<"release", "touch">>
                                       ELSE <<"hold", "touch">>
  /\ RequestStop => todo = <<>> /\ todo' = <<"release", "zero">>
  /\ \A config \in Configs, otherPools \in BOOLEAN :
       ConfigChanged(config, otherPools) => todo = <<>> /\ todo' \in {<<>>, <<"backend">>}
  /\ DatasetReady => todo = <<>> /\ todo' = IF HasDataset(job) THEN HandleJobChange ELSE <<>>
BY DEF Pause, SetEnabled, RequestStop, ConfigChanged, DatasetReady, Begin, Idle, Stop

\* What is left is always one of the known sequences of known steps.
LEMMA TodosTyped == \A t \in Todos : \A i \in 1..Len(t) : t[i] \in Steps
<1> USE DEF HandleJobChange, Steps
<1>1. \A t \in InSetJob : \A i \in 1..Len(t) : t[i] \in Steps
  BY DEF InSetJob
<1>2. \A t \in InChange : \A i \in 1..Len(t) : t[i] \in Steps
  BY DEF InChange
<1>3. \A t \in InCommand : \A i \in 1..Len(t) : t[i] \in Steps
  BY DEF InCommand
<1>4. \A t \in InIntervention : \A i \in 1..Len(t) : t[i] \in Steps
  BY DEF InIntervention
<1>5. \A t \in {<<>>, <<"unpause">>} : \A i \in 1..Len(t) : t[i] \in Steps
  OBVIOUS
<1> QED
  BY <1>1, <1>2, <1>3, <1>4, <1>5 DEF Todos

LEMMA TodosStep ==
  ASSUME todo \in Todos, Event \/ HandlerStep
  PROVE  todo' \in Todos
<1> USE DEF Todos, InSetJob, InChange, InCommand, InIntervention
<1>1. CASE \E j \in Jobs : SetJob(j)
  BY <1>1, SetJobShapes
<1>2. CASE Event /\ ~\E j \in Jobs : SetJob(j)
  BY <1>2, EventShapes DEF Event
<1>3. CASE Backend
  BY <1>3, BackendShapes
<1>4. CASE Zero
  BY <1>4, ZeroShapes
<1>5. CASE Join
  BY <1>5, JoinShapes
<1>6. CASE HandlerStep /\ ~Backend /\ ~Zero /\ ~Join
  BY <1>6, Shapes DEF HandlerStep
<1> QED
  BY <1>1, <1>2, <1>3, <1>4, <1>5, <1>6

-----------------------------------------------------------------------------
(* What the steps of the event loop do to a thread.                        *)

\* The variables of a thread and what it reads keep their types.
LEMMA TypedStep ==
  ASSUME Typed, Event \/ HandlerStep \/ \E outcome \in Dataset!Outcomes : Build(outcome)
  PROVE  Typed'
<1> USE DEF Typed, TypeOK, minerVars, nonceVars, backendVars, datasetVars, workerVars, historyVars, Input
<1>1. todo' \in Todos /\ \A i \in 1..Len(todo') : todo'[i] \in Steps
  <2>1. todo' \in Todos
    BY TodosStep DEF Build
  <2> QED
    BY <2>1, TodosTyped
<1>2. overtaken' = overtaken \/ Overtake \/ overtaken' = [w \in Workers |-> FALSE] =>
        overtaken' \in [Workers -> BOOLEAN]
  BY DEF Overtake
<1> USE <1>1, <1>2
<1>3. CASE \E j \in Jobs : SetJob(j)
  BY <1>3 DEF SetJob
<1>4. CASE Pause
  BY <1>4 DEF Pause
<1>5. CASE \E value \in BOOLEAN : SetEnabled(value)
  BY <1>5 DEF SetEnabled
<1>6. CASE RequestStop
  BY <1>6 DEF RequestStop
<1>7. CASE \E config \in Configs, otherPools \in BOOLEAN : ConfigChanged(config, otherPools)
  BY <1>7 DEF ConfigChanged
<1>8. CASE DatasetReady
  BY <1>8 DEF DatasetReady
<1>9. CASE Hold \/ Release \/ Quiet \/ Unpause
  BY <1>9 DEF Hold, Release, Quiet, Unpause, SetPaused
<1>10. CASE Touch
  BY <1>10 DEF Touch
<1>11. CASE Store
  BY <1>11 DEF Store
<1>12. CASE Ask
  BY <1>12 DEF Ask
<1>13. CASE Reset
  BY <1>13 DEF Reset
<1>14. CASE Backend
  BY <1>14 DEF Backend
<1>15. CASE Zero
  BY <1>15 DEF Zero
<1>16. CASE Join
  <2>1. /\ UNCHANGED <<paused, space, late, minerVars, cpuConfig, pc>>
        /\ applied' = "none" /\ sequence' = sequence + 1
    BY <1>16 DEF Join
  <2>2. /\ ret' = [w \in Workers |-> "outer"]
        /\ fetched' = [w \in Workers |-> NoJob] /\ wjob' = [w \in Workers |-> NoJob]
        /\ wseq' = [w \in Workers |-> 0] /\ hasVm' = [w \in Workers |-> FALSE]
        /\ overtaken' = [w \in Workers |-> FALSE]
    BY <1>16 DEF Join, Fresh
  <2> QED
    BY <2>1, <2>2 DEF Places
<1>17. CASE Start
  BY <1>17 DEF Start, Fresh, Places
<1>18. CASE \E outcome \in Dataset!Outcomes : Build(outcome)
  BY <1>18 DEF Build
<1> QED
  BY <1>3, <1>4, <1>5, <1>6, <1>7, <1>8, <1>9, <1>10, <1>11, <1>12, <1>13, <1>14, <1>15,
     <1>16, <1>17, <1>18 DEF Event, HandlerStep

\* A step that changes neither the job nor the sequence, and takes no dataset
\* away, takes nothing from a thread either.
LEMMA Harmless ==
  ASSUME Typed, Typed', NEW w \in Workers, ThreadInv(w),
         UNCHANGED <<sequence, job, applied, workerVars>>,
         overtaken' = overtaken \/ Overtake,
         HasDataset(wjob[w]) => HasDataset(wjob[w])'
  PROVE  /\ ThreadInv(w)'
         /\ Silenced(w) => Silenced(w)'
         /\ HasJob(w) => HasJob(w)'
<1>1. /\ UNCHANGED <<sequence, job, applied, pc, ret, fetched, wjob, wseq, hasVm>>
      /\ overtaken[w] => overtaken'[w]
      /\ overtaken[w] \in BOOLEAN /\ overtaken'[w] \in BOOLEAN
  BY DEF workerVars, Overtake, Typed
<1>2. VmInv(w)' /\ MissedInv(w)'
  BY <1>1 DEF ThreadInv, VmInv, Hashing, MissedInv, MissedStop, Live, Polling
<1>3. Current(w)' => Current(w)
  BY <1>1 DEF Current, Live
<1>4. ThreadInv(w)'
  BY <1>1, <1>2, <1>3 DEF ThreadInv, Live, Polling, Running
<1> QED
  BY <1>1, <1>3, <1>4 DEF Silenced, HasJob, Live

\* A new sequence number is above every thread's: no thread is current, and
\* those in consumeJob are overtaken.
LEMMA Counted ==
  ASSUME Typed, Typed', NEW w \in Workers, ThreadInv(w),
         UNCHANGED <<job, applied, workerVars>>,
         sequence' = sequence + 1, Overtake, sequence = 0 => ~Running,
         HasDataset(wjob[w]) => HasDataset(wjob[w])'
  PROVE  ThreadInv(w)' /\ Silenced(w)' /\ HasJob(w)'
<1>1. /\ UNCHANGED <<job, applied, pc, ret, fetched, wjob, wseq, hasVm>>
      /\ overtaken'[w] <=> overtaken[w] \/ pc[w] \in Window
      /\ wseq[w] \in Nat /\ sequence \in Nat
  BY DEF workerVars, Overtake, Typed, TypeOK
<1>2. Live(w) => sequence # 0
  BY DEF ThreadInv, Live
<1>3. Live(w) => wseq[w] < sequence'
  BY <1>1, <1>2 DEF ThreadInv
<1>4. VmInv(w)' /\ MissedInv(w)'
  BY <1>1, <1>2, <1>3 DEF ThreadInv, VmInv, Hashing, MissedInv, MissedStop, Live, Polling
<1>5. ~Current(w)'
  BY <1>1, <1>3 DEF Current, Live
<1>6. ThreadInv(w)'
  BY <1>1, <1>3, <1>4, <1>5 DEF ThreadInv, Live, Polling, Running
<1> QED
  BY <1>1, <1>3, <1>5, <1>6 DEF Silenced, HasJob, Live

\* Nonce::stop: a thread in consumeJob may miss it, and is overtaken then.
LEMMA Stopped ==
  ASSUME Typed, Typed', NEW w \in Workers, ThreadInv(w),
         UNCHANGED <<job, applied, workerVars>>, sequence' = 0, Overtake
  PROVE  ThreadInv(w)' /\ HasJob(w)'
<1>1. /\ UNCHANGED <<job, applied, pc, ret, fetched, wjob, wseq, hasVm>>
      /\ overtaken'[w] <=> overtaken[w] \/ pc[w] \in Window
      /\ wseq[w] \in Nat /\ sequence \in Nat
  BY DEF workerVars, Overtake, Typed, TypeOK
<1>2. VmInv(w)' /\ MissedInv(w)'
  BY <1>1 DEF ThreadInv, VmInv, Hashing, MissedInv, MissedStop, Live, Polling, Window
<1>3. ~Current(w)'
  BY DEF Current
<1> QED
  BY <1>1, <1>2, <1>3 DEF ThreadInv, HasJob, Live, Polling, Running

\* The other steps: the store of the job, the request for its dataset, the
\* joins, and the start of new threads.
LEMMA Stored ==
  ASSUME Typed, Typed', NEW w \in Workers, ThreadInv(w), Store
  PROVE  ThreadInv(w)' /\ (Silenced(w) => Silenced(w)')
<1>1. /\ UNCHANGED <<sequence, applied, pc, ret, fetched, wjob, wseq, hasVm>>
      /\ overtaken'[w] <=> overtaken[w] \/ pc[w] \in Window
      /\ HasDataset(wjob[w])' <=> HasDataset(wjob[w])
  BY DEF Store, workerVars, nonceVars, backendVars, datasetVars, Overtake, Typed, HasDataset,
         Dataset!Ready
<1>2. VmInv(w)' /\ MissedInv(w)'
  BY <1>1 DEF ThreadInv, VmInv, Hashing, MissedInv, MissedStop, Live, Polling
<1>3. Current(w)' => Current(w)
  BY <1>1 DEF Current, Live
<1>4. ThreadInv(w)'
  BY <1>1, <1>2, <1>3 DEF ThreadInv, Live, Polling, Running, Window
<1> QED
  BY <1>1, <1>4 DEF Silenced, Live

LEMMA Asked ==
  ASSUME Typed, Typed', NEW w \in Workers, ThreadInv(w), Ask, Silenced(w) \/ ~Running
  PROVE  ThreadInv(w)' /\ HasJob(w)'
<1>1. UNCHANGED <<sequence, job, applied, pc, ret, fetched, wjob, wseq, hasVm, overtaken>>
  BY DEF Ask, workerVars, nonceVars, minerVars, backendVars, historyVars
<1>2. VmInv(w)' /\ MissedInv(w)'
  BY <1>1 DEF ThreadInv, VmInv, Hashing, MissedInv, MissedStop, Live, Polling
<1>3. ~Current(w)'
  BY <1>1 DEF Current, Live, Silenced, ThreadInv
<1> QED
  BY <1>1, <1>2, <1>3 DEF ThreadInv, HasJob, Live, Polling, Running

LEMMA Joined ==
  ASSUME Typed, Typed', NEW w \in Workers, ThreadInv(w), Join
  PROVE  ThreadInv(w)' /\ HasJob(w)' /\ ~Running'
<1>1. pc'[w] = "exit" /\ applied' = "none"
  BY DEF Join
<1> QED
  BY <1>1 DEF ThreadInv, VmInv, Hashing, MissedInv, HasJob, Current, Live, Running

LEMMA Started ==
  ASSUME Typed, Typed', NEW w \in Workers, Start
  PROVE  ThreadInv(w)' /\ HasJob(w)' /\ Running' /\ sequence' # 0
<1>1. /\ applied' # "none" /\ sequence' \in Nat \ {0}
      /\ pc'[w] = "outer" /\ wseq'[w] = 0 /\ wjob'[w] = NoJob /\ hasVm'[w] = FALSE
  BY MinerAssumption DEF Start, Fresh, Typed, TypeOK
<1> QED
  BY <1>1 DEF ThreadInv, VmInv, Hashing, MissedInv, MissedStop, HasJob, Current, Live, Polling, Running

-----------------------------------------------------------------------------
(* The steps of the event loop preserve the invariant.                            *)

\* Whether a seed has a dataset is the queue's business.
LEMMA SameDatasets == UNCHANGED <<wanted, phase>> => \A j : HasDataset(j)' <=> HasDataset(j)
BY DEF HasDataset, Dataset!Ready, Dataset!SameSeed, Dataset!EqualSeedAlgo

\* A step that changes only the pause flag and the handler in progress, or
\* what no thread reads.
CalmVars == <<sequence, job, applied, notice, wanted, phase, workerVars>>

LEMMA Calm ==
  ASSUME IInv, Typed', UNCHANGED CalmVars, overtaken' = overtaken \/ Overtake, ~At("join")
  PROVE  /\ \A w \in Workers : ThreadInv(w)'
         /\ ZeroInv'
         /\ todo \notin InChange \/ todo' \in InChange => JobInv'
         /\ (paused => paused') /\ Silent => Silent'
<1> USE DEF CalmVars
<1>1. \A w \in Workers : HasDataset(wjob[w]) => HasDataset(wjob[w])'
  BY SameDatasets DEF workerVars
<1>2. \A w \in Workers :
        ThreadInv(w)' /\ (Silenced(w) => Silenced(w)') /\ (HasJob(w) => HasJob(w)')
  BY <1>1, Harmless DEF IInv
<1>3. ZeroInv'
  BY DEF IInv, ZeroInv, Running
<1>4. ASSUME todo \notin InChange \/ todo' \in InChange PROVE JobInv'
  <2>1. HasDataset(job)' <=> HasDataset(job)
    BY SameDatasets
  <2> QED
    BY <1>2, <1>4, <2>1 DEF IInv, JobInv
<1>5. ASSUME paused => paused', Silent PROVE Silent'
  BY <1>2, <1>5 DEF Silent, Running
<1> QED
  BY <1>2, <1>3, <1>4, <1>5

\* A stop, a change of the configuration and the last touch do not lower the flag.
LEMMA NotReleasing == todo \in InIntervention \cup {<<>>, <<"touch">>} => ~WillRelease
<1>1. todo \in InIntervention \cup {<<>>, <<"touch">>} =>
        todo \notin {<<"unpause">>, <<"release", "touch">>}
  BY DEF InIntervention
<1>2. todo \in InIntervention \cup {<<>>, <<"touch">>} => todo \notin InSetJob
  BY DEF InIntervention, InSetJob
<1>3. todo \in InIntervention \cup {<<>>, <<"touch">>} => todo \notin InChange
  <2> USE DEF InChange, HandleJobChange
  <2>1. CASE todo \in {<<>>, <<"touch">>}
    BY <2>1
  <2>2. CASE todo = <<"zero">>
    BY <2>2
  <2>3. CASE todo = <<"zero", "start">>
    BY <2>3
  <2>4. CASE todo = <<"join">>
    BY <2>4
  <2>5. CASE todo = <<"join", "start">>
    BY <2>5
  <2>6. CASE todo \in {<<"release", "zero">>, <<"backend">>, <<"start">>}
    BY <2>6
  <2> QED
    BY <2>1, <2>2, <2>3, <2>4, <2>5, <2>6 DEF InIntervention
<1> QED
  BY <1>1, <1>2, <1>3 DEF WillRelease

\* What was the cause of the raised flag remains it, through a step that changes
\* nothing of it and is not one of a handler that will lower the flag.
LEMMA CauseKept ==
  ASSUME CauseInv, ~WillRelease, todo' # <<"hold", "touch">>,
         UNCHANGED <<paused, space, late, active, enabled, job, notice, wanted, phase>>
  PROVE  CauseInv'
<1>1. HasDataset(job)' <=> HasDataset(job)
  BY SameDatasets
<1> QED
  BY <1>1 DEF CauseInv, Exhausted

LEMMA HoldInv ==
  ASSUME IInv, Typed', Hold
  PROVE  IInv'
<1>1. /\ paused' = TRUE /\ Overtake
      /\ UNCHANGED CalmVars /\ UNCHANGED <<incoming, active, enabled, intervened>>
  BY DEF Hold, SetPaused, CalmVars, nonceVars, minerVars, backendVars, datasetVars, workerVars, historyVars
<1>2. \/ todo = <<"hold", "touch", "store">> /\ todo' = <<"touch", "store">>
      \/ todo = <<"hold", "touch">> /\ todo' = <<"touch">>
  BY Shapes DEF Hold, IInv, Typed
<1>3. ~At("join") /\ todo \notin InChange /\ todo' \notin InIntervention
  BY <1>2 DEF At, Idle, InChange, InIntervention, HandleJobChange
<1>4. (\A w \in Workers : ThreadInv(w)') /\ ZeroInv' /\ JobInv'
  BY <1>1, <1>3, Calm
<1>5. AskInv'
  BY <1>1, <1>2 DEF AskInv
<1>6. PauseInv'
  BY <1>1, <1>2, <1>3 DEF PauseInv
<1>7. CauseInv'
  BY <1>1, <1>2 DEF IInv, CauseInv, WillRelease, InSetJob
<1> QED
  BY <1>4, <1>5, <1>6, <1>7 DEF IInv

LEMMA ReleaseInv ==
  ASSUME IInv, Typed', Release
  PROVE  IInv'
<1>1. /\ paused' = FALSE /\ Overtake
      /\ UNCHANGED CalmVars /\ UNCHANGED <<incoming, active, enabled, intervened>>
  BY DEF Release, SetPaused, CalmVars, nonceVars, minerVars, backendVars, datasetVars, workerVars, historyVars
<1>2. \/ todo = <<"release", "zero", "store">> /\ todo' = <<"zero", "store">>
      \/ todo = <<"release", "zero">> /\ todo' = <<"zero">>
      \/ todo = <<"release", "touch">> /\ todo' = <<"touch">>
  BY Shapes DEF Release, IInv, Typed
<1>3. ~At("join") /\ todo \notin InChange /\ todo' \notin InChange
  <2>1. CASE todo = <<"release", "zero", "store">> /\ todo' = <<"zero", "store">>
    BY <2>1 DEF At, InChange, HandleJobChange
  <2>2. CASE todo = <<"release", "zero">> /\ todo' = <<"zero">>
    BY <2>2 DEF At, InChange, HandleJobChange
  <2>3. CASE todo = <<"release", "touch">> /\ todo' = <<"touch">>
    BY <2>3 DEF At, InChange, HandleJobChange
  <2> QED
    BY <1>2, <2>1, <2>2, <2>3
<1>4. (\A w \in Workers : ThreadInv(w)') /\ ZeroInv' /\ JobInv'
  BY <1>1, <1>3, Calm
<1>5. AskInv'
  BY <1>2 DEF AskInv
<1>6. PauseInv'
  <2>1. CASE todo = <<"release", "zero", "store">> /\ todo' = <<"zero", "store">>
    BY <2>1, <1>3 DEF PauseInv, InIntervention
  <2>2. CASE todo = <<"release", "zero">> /\ todo' = <<"zero">>
    <3>1. intervened'
      BY <1>1, <2>2 DEF IInv, PauseInv, InIntervention
    <3> QED
      BY <3>1, <2>2 DEF PauseInv
  <2>3. CASE todo = <<"release", "touch">> /\ todo' = <<"touch">>
    <3>1. active' /\ enabled'
      BY <1>1, <2>3 DEF IInv, PauseInv
    <3> QED
      BY <3>1, <2>3 DEF PauseInv, InIntervention
  <2> QED
    BY <1>2, <2>1, <2>2, <2>3
<1>7. CauseInv'
  BY <1>1, <1>2 DEF CauseInv
<1> QED
  BY <1>4, <1>5, <1>6, <1>7 DEF IInv

LEMMA QuietInv ==
  ASSUME IInv, Typed', Quiet
  PROVE  IInv'
<1>1. /\ paused' = (paused \/ ~enabled) /\ Overtake
      /\ UNCHANGED CalmVars /\ UNCHANGED <<incoming, active, enabled, intervened>>
  BY DEF Quiet, SetPaused, CalmVars, nonceVars, minerVars, backendVars, datasetVars, workerVars, historyVars
<1>2. /\ todo = HandleJobChange
      /\ todo' = <<"reset", "backend", "touch", "unpause">>
  BY Shapes DEF Quiet, IInv, Typed
<1>3. ~At("join") /\ todo' \in InChange /\ todo' \notin InIntervention
  BY <1>2 DEF At, Idle, InChange, InIntervention, HandleJobChange
<1>4. (\A w \in Workers : ThreadInv(w)') /\ ZeroInv' /\ JobInv'
  BY <1>1, <1>3, Calm
<1>5. AskInv'
  BY <1>2 DEF AskInv
<1>6. PauseInv'
  <2>1. /\ ~At("hold")
        /\ todo \notin {<<"zero", "store">>, <<"join", "store">>, <<"store">>}
    BY <1>2 DEF At, Idle, HandleJobChange
  <2>2. ~intervened /\ ~active => paused
    BY <2>1 DEF IInv, PauseInv
  <2> QED
    BY <1>1, <1>2, <1>3, <2>2 DEF PauseInv
<1>7. CauseInv'
  BY <1>2, <1>3 DEF CauseInv, WillRelease
<1> QED
  BY <1>4, <1>5, <1>6, <1>7 DEF IInv

LEMMA UnpauseInv ==
  ASSUME IInv, Typed', Unpause
  PROVE  IInv'
<1>1. /\ paused' = (paused /\ ~(active /\ enabled)) /\ Overtake
      /\ UNCHANGED CalmVars /\ UNCHANGED <<incoming, active, enabled, intervened>>
  BY DEF Unpause, SetPaused, CalmVars, nonceVars, minerVars, backendVars, datasetVars, workerVars, historyVars
<1>2. todo = <<"unpause">> /\ todo' = <<>>
  BY Shapes DEF Unpause, IInv, Typed
<1>3. ~At("join") /\ todo \notin InChange /\ todo' \notin InChange \cup InIntervention
  BY <1>2 DEF At, Idle, InChange, InIntervention, HandleJobChange
<1>4. (\A w \in Workers : ThreadInv(w)') /\ ZeroInv' /\ JobInv'
  BY <1>1, <1>3, Calm
<1>5. AskInv'
  BY <1>2 DEF AskInv
<1>6. PauseInv'
  <2>1. /\ ~At("hold") /\ ~At("quiet")
        /\ todo \notin {<<"zero", "store">>, <<"join", "store">>, <<"store">>}
    BY <1>2 DEF At, Idle
  <2>2. /\ ~intervened /\ ~active => paused
        /\ ~intervened /\ ~enabled => paused
    BY <1>2, <2>1 DEF IInv, PauseInv
  <2> QED
    BY <1>1, <1>2, <1>3, <2>2 DEF PauseInv
<1>7. CauseInv'
  BY <1>1, <1>2 DEF CauseInv
<1> QED
  BY <1>4, <1>5, <1>6, <1>7 DEF IInv

LEMMA ResetInv ==
  ASSUME IInv, Typed', Reset
  PROVE  IInv'
<1>1. /\ UNCHANGED CalmVars /\ UNCHANGED <<paused, overtaken, incoming, active, enabled, intervened>>
  BY DEF Reset, CalmVars, nonceVars, minerVars, backendVars, datasetVars, workerVars, historyVars
<1>2. /\ todo = <<"reset", "backend", "touch", "unpause">>
      /\ todo' = <<"backend", "touch", "unpause">>
  BY Shapes DEF IInv, Typed
<1>3. ~At("join") /\ todo' \in InChange /\ todo' \notin InIntervention
  BY <1>2 DEF At, Idle, InChange, InIntervention, HandleJobChange
<1>4. (\A w \in Workers : ThreadInv(w)') /\ ZeroInv' /\ JobInv'
  BY <1>1, <1>3, Calm
<1>5. AskInv'
  BY <1>2 DEF AskInv
<1>6. PauseInv'
  <2>1. /\ ~At("hold") /\ ~At("quiet")
        /\ todo \notin {<<"zero", "store">>, <<"join", "store">>, <<"store">>}
    BY <1>2 DEF At, Idle
  <2>2. /\ ~intervened /\ ~active => paused
        /\ ~intervened /\ ~enabled => paused
    BY <1>2, <2>1 DEF IInv, PauseInv, InChange, HandleJobChange
  <2> QED
    BY <1>1, <1>2, <1>3, <2>2 DEF PauseInv
<1>7. CauseInv'
  BY <1>2, <1>3 DEF CauseInv, WillRelease
<1> QED
  BY <1>4, <1>5, <1>6, <1>7 DEF IInv

LEMMA BackendInv ==
  ASSUME IInv, Typed', Backend
  PROVE  IInv'
<1>1. /\ UNCHANGED CalmVars /\ UNCHANGED <<paused, space, late, overtaken, incoming, active, enabled, intervened>>
  BY DEF Backend, CalmVars, nonceVars, minerVars, backendVars, datasetVars, workerVars, historyVars
<1>2. \/ /\ todo = <<"backend", "touch", "unpause">>
         /\ todo' \in {<<"touch", "unpause">>, <<"zero", "touch", "unpause">>,
                       <<"start", "touch", "unpause">>, <<"zero", "start", "touch", "unpause">>}
      \/ /\ todo = <<"backend">>
         /\ todo' \in {<<>>, <<"zero">>, <<"start">>, <<"zero", "start">>}
  BY BackendShapes DEF IInv, Typed
<1>3. /\ ~At("join") /\ ~At("hold") /\ ~At("quiet")
      /\ todo \notin {<<"zero", "store">>, <<"join", "store">>, <<"store">>}
  BY <1>2 DEF At, Idle
<1>4. todo \notin InChange \/ todo' \in InChange
  BY <1>2 DEF InChange, HandleJobChange
<1>5. (\A w \in Workers : ThreadInv(w)') /\ ZeroInv' /\ JobInv'
  BY <1>1, <1>3, <1>4, Calm
<1>6. AskInv'
  BY <1>2 DEF AskInv
<1>7. PauseInv'
  <2>1. ~intervened /\ ~active => paused
    BY <1>3 DEF IInv, PauseInv
  <2>2. CASE todo = <<"backend", "touch", "unpause">>
    <3>1. ~intervened /\ ~enabled => paused
      BY <2>2 DEF IInv, PauseInv, InChange, HandleJobChange
    <3>2. todo' \notin InIntervention /\ todo' # <<"release", "touch">>
      BY <1>2, <2>2 DEF InIntervention
    <3> QED
      BY <1>1, <2>1, <3>1, <3>2 DEF PauseInv
  <2>3. CASE todo = <<"backend">>
    <3>1. intervened'
      BY <1>1, <2>3 DEF IInv, PauseInv, InIntervention
    <3>2. todo' # <<"release", "touch">>
      BY <1>2, <2>3
    <3> QED
      BY <3>1, <3>2 DEF PauseInv
  <2> QED
    BY <1>2, <2>2, <2>3
<1>8. CauseInv'
  <2>1. CASE todo = <<"backend", "touch", "unpause">>
    <3>1. todo' \in InChange /\ todo' # <<"hold", "touch">>
      BY <1>2, <2>1 DEF InChange
    <3> QED
      BY <3>1 DEF CauseInv, WillRelease
  <2>2. CASE todo = <<"backend">>
    <3>1. ~WillRelease /\ todo' # <<"hold", "touch">>
      BY <1>2, <2>2, NotReleasing DEF InIntervention
    <3> QED
      BY <1>1, <3>1, CauseKept DEF IInv, CalmVars
  <2> QED
    BY <1>2, <2>1, <2>2
<1> QED
  BY <1>5, <1>6, <1>7, <1>8 DEF IInv

LEMMA TouchInv ==
  ASSUME IInv, Typed', Touch
  PROVE  IInv'
<1>1. /\ sequence' = sequence + 1 /\ Overtake
      /\ UNCHANGED <<paused, space, late, incoming, active, enabled, intervened, job, applied, notice,
                    wanted, phase, workerVars>>
  BY DEF Touch, nonceVars, minerVars, backendVars, datasetVars, workerVars, historyVars
<1>2. \/ todo = <<"touch", "store">> /\ todo' = <<"store">>
      \/ todo = <<"touch">> /\ todo' = <<>>
      \/ todo = <<"touch", "unpause">> /\ todo' = <<"unpause">>
  BY Shapes DEF IInv, Typed
<1>3. /\ ~At("join") /\ ~At("hold") /\ ~At("quiet")
      /\ todo \notin {<<"zero", "store">>, <<"join", "store">>, <<"store">>}
  BY <1>2 DEF At, Idle
<1>4. \A w \in Workers : ThreadInv(w)' /\ Silenced(w)' /\ HasJob(w)'
  <2>1. sequence = 0 => ~Running
    BY <1>3 DEF IInv, ZeroInv
  <2>2. \A w \in Workers : HasDataset(wjob[w]) => HasDataset(wjob[w])'
    BY <1>1, SameDatasets DEF workerVars
  <2> QED
    BY <1>1, <2>1, <2>2, Counted DEF IInv
<1>5. ZeroInv'
  BY <1>1 DEF ZeroInv, IInv, Typed, TypeOK
<1>6. AskInv'
  <2>1. CASE todo = <<"touch", "store">> /\ todo' = <<"store">>
    <3>1. paused'
      BY <1>1, <2>1 DEF IInv, AskInv
    <3> QED
      BY <2>1, <3>1, <1>4 DEF AskInv, Silent
  <2>2. CASE todo' \in {<<>>, <<"unpause">>}
    BY <2>2 DEF AskInv
  <2> QED
    BY <1>2, <2>1, <2>2
<1>7. JobInv'
  BY <1>4 DEF JobInv
<1>8. PauseInv'
  <2>1. /\ ~intervened /\ ~active => paused
        /\ ~intervened /\ ~enabled /\ Running => paused
    BY <1>3 DEF IInv, PauseInv
  <2>2. todo' = <<"unpause">> => todo \in InChange \ {HandleJobChange}
    BY <1>2 DEF InChange, HandleJobChange
  <2>3. todo' = <<"unpause">> /\ ~intervened /\ ~enabled => paused
    BY <2>2 DEF IInv, PauseInv
  <2>4. /\ todo' \notin InIntervention /\ todo' # <<"release", "touch">>
        /\ todo' \notin InChange
    BY <1>2 DEF InIntervention, InChange, HandleJobChange
  <2> QED
    BY <1>1, <2>1, <2>3, <2>4 DEF PauseInv, Running
<1>9. CauseInv'
  <2>1. CASE todo' \in {<<"store">>, <<"unpause">>}
    BY <2>1 DEF CauseInv, WillRelease, InSetJob
  <2>2. CASE todo = <<"touch">> /\ todo' = <<>>
    BY <1>1, <2>2, NotReleasing, CauseKept DEF IInv
  <2> QED
    BY <1>2, <2>1, <2>2
<1> QED
  BY <1>4, <1>5, <1>6, <1>7, <1>8, <1>9 DEF IInv

LEMMA StoreInv ==
  ASSUME IInv, Typed', Store
  PROVE  IInv'
<1>1. /\ job' = incoming /\ active' = TRUE /\ Overtake
      /\ UNCHANGED <<paused, enabled, intervened, sequence, applied, notice, wanted, phase, workerVars>>
  BY DEF Store, nonceVars, minerVars, backendVars, datasetVars, workerVars, historyVars
<1>2. /\ todo = <<"store">>
      /\ todo' = IF HasDataset(incoming) THEN HandleJobChange ELSE <<"ask">>
  BY Shapes DEF IInv, Typed
<1>3. ~At("join") /\ ~At("hold") /\ ~At("quiet") /\ HandleJobChange # <<"ask">>
  BY <1>2 DEF At, Idle, HandleJobChange
<1>4. \A w \in Workers : ThreadInv(w)' /\ (Silenced(w) => Silenced(w)')
  BY Stored DEF IInv
<1>5. ZeroInv'
  BY <1>1, <1>3 DEF IInv, ZeroInv, Running
<1>6. AskInv'
  <2>1. CASE HasDataset(incoming)
    BY <1>2, <2>1 DEF AskInv, HandleJobChange
  <2>2. CASE ~HasDataset(incoming)
    <3>1. Silent
      BY <1>2, <2>2 DEF IInv, AskInv
    <3>2. Silent'
      BY <1>1, <1>4, <3>1 DEF Silent, Running
    <3>3. todo' = <<"ask">> /\ todo' # <<"touch", "store">> /\ todo' # <<"store">>
      BY <1>2, <2>2
    <3> QED
      BY <3>2, <3>3 DEF AskInv
  <2> QED
    BY <2>1, <2>2
<1>7. JobInv'
  <2>1. HasDataset(job)' <=> HasDataset(incoming)
    BY <1>1 DEF HasDataset, Dataset!Ready, Dataset!SameSeed, Dataset!EqualSeedAlgo
  <2>2. HandleJobChange \in InChange
    BY DEF InChange
  <2> QED
    BY <1>2, <2>1, <2>2 DEF JobInv
<1>8. PauseInv'
  <2>1. ~intervened /\ ~enabled /\ Running => paused
    BY <1>2, <1>3 DEF IInv, PauseInv
  <2>2. todo' \notin InIntervention /\ todo' # <<"release", "touch">>
    BY <1>2 DEF InIntervention, HandleJobChange
  <2>3. todo' \notin (InChange \ {HandleJobChange}) \cup {<<"unpause">>}
    BY <1>2 DEF InChange, HandleJobChange
  <2> QED
    BY <1>1, <2>1, <2>2, <2>3 DEF PauseInv, Running
<1>9. CauseInv'
  <2>1. todo' \in InSetJob \cup InChange /\ todo' # <<"hold", "touch">>
    BY <1>2 DEF InSetJob, InChange, HandleJobChange
  <2> QED
    BY <2>1 DEF CauseInv, WillRelease
<1> QED
  BY <1>4, <1>5, <1>6, <1>7, <1>8, <1>9 DEF IInv

LEMMA AskStepInv ==
  ASSUME IInv, Typed', Ask
  PROVE  IInv'
<1>1. UNCHANGED <<paused, enabled, active, intervened, sequence, applied, notice, job, incoming,
                  overtaken, workerVars>>
  BY DEF Ask, Dataset!Ask, nonceVars, minerVars, backendVars, datasetVars, workerVars, historyVars
<1>2. todo = <<"ask">> /\ todo' = <<>>
  BY Shapes DEF IInv, Typed
<1>3. ~At("join") /\ ~At("hold") /\ ~At("quiet")
  BY <1>2 DEF At, Idle
<1>4. \A w \in Workers : Silenced(w) \/ ~Running
  BY <1>2 DEF IInv, AskInv, Silent
<1>5. \A w \in Workers : ThreadInv(w)' /\ HasJob(w)'
  BY <1>4, Asked DEF IInv
<1>6. ZeroInv'
  BY <1>1, <1>3 DEF IInv, ZeroInv, Running
<1>7. AskInv' /\ JobInv'
  BY <1>2, <1>5 DEF AskInv, JobInv
<1>8. PauseInv'
  <2>1. /\ ~intervened /\ ~active => paused
        /\ ~intervened /\ ~enabled /\ Running => paused
    BY <1>2, <1>3 DEF IInv, PauseInv
  <2>2. /\ todo' \notin InIntervention /\ todo' # <<"release", "touch">>
        /\ todo' \notin (InChange \ {HandleJobChange}) \cup {<<"unpause">>}
    BY <1>2 DEF InIntervention, InChange, HandleJobChange
  <2> QED
    BY <1>1, <2>1, <2>2 DEF PauseInv, Running
<1>9. CauseInv'
  <2>1. phase' = "building"
    BY DEF Ask, Dataset!Ask, Dataset!InProgress
  <2>2. ~HasDataset(job)'
    BY <2>1 DEF HasDataset, Dataset!Ready
  <2> QED
    BY <1>2, <2>2 DEF CauseInv
<1> QED
  BY <1>5, <1>6, <1>7, <1>8, <1>9 DEF IInv

LEMMA ZeroStepInv ==
  ASSUME IInv, Typed', Zero
  PROVE  IInv'
<1>1. /\ sequence' = 0 /\ Overtake
      /\ UNCHANGED <<paused, space, late, incoming, active, enabled, intervened, job, applied, notice,
                    wanted, phase, workerVars>>
  BY DEF Zero, nonceVars, minerVars, backendVars, datasetVars, workerVars, historyVars
<1>2. \/ todo = <<"zero", "store">> /\ todo' = IF Running THEN <<"join", "store">> ELSE <<"store">>
      \/ /\ todo = <<"zero", "start", "touch", "unpause">>
         /\ todo' = IF Running THEN <<"join", "start", "touch", "unpause">>
                               ELSE <<"start", "touch", "unpause">>
      \/ /\ todo = <<"zero", "touch", "unpause">>
         /\ todo' = IF Running THEN <<"join", "touch", "unpause">> ELSE <<"touch", "unpause">>
      \/ todo = <<"zero">> /\ todo' = IF Running THEN <<"join">> ELSE <<>>
      \/ todo = <<"zero", "start">> /\ todo' = IF Running THEN <<"join", "start">> ELSE <<"start">>
  BY ZeroShapes DEF IInv, Typed
<1>3. ~At("hold") /\ ~At("quiet")
  BY <1>2 DEF At, Idle
<1>4. \A w \in Workers : ThreadInv(w)' /\ HasJob(w)'
  BY <1>1, Stopped DEF IInv
<1>5. ZeroInv'
  <2>1. Running => todo' \in {<<"join", "store">>, <<"join", "start", "touch", "unpause">>,
                             <<"join", "touch", "unpause">>, <<"join">>, <<"join", "start">>}
    BY <1>2
  <2>2. todo' \in {<<"join", "store">>, <<"join", "start", "touch", "unpause">>,
                  <<"join", "touch", "unpause">>, <<"join">>, <<"join", "start">>} => At("join")'
    BY DEF At, Idle
  <2> QED
    BY <1>1, <2>1, <2>2 DEF ZeroInv, Running
<1>6. AskInv'
  <2>1. todo' \notin {<<"touch", "store">>, <<"ask">>} /\ (todo' = <<"store">> => ~Running)
    BY <1>2
  <2> QED
    BY <1>1, <2>1 DEF AskInv, Silent, Running
<1>7. JobInv'
  BY <1>4 DEF JobInv
<1>8. PauseInv'
  <2>1. CASE todo = <<"zero", "store">>
    <3>1. /\ todo' = IF Running THEN <<"join", "store">> ELSE <<"store">>
          /\ todo' \notin InIntervention /\ todo' # <<"release", "touch">>
          /\ todo' \notin (InChange \ {HandleJobChange}) \cup {<<"unpause">>}
      BY <1>2, <2>1 DEF InIntervention, InChange, HandleJobChange
    <3> QED
      BY <1>1, <3>1 DEF PauseInv, Running
  <2>2. CASE todo \in {<<"zero", "start", "touch", "unpause">>, <<"zero", "touch", "unpause">>}
    <3>1. /\ todo' \notin InIntervention /\ todo' # <<"release", "touch">>
          /\ todo \in (InChange \ {HandleJobChange})
          /\ todo \notin {<<"zero", "store">>, <<"join", "store">>, <<"store">>}
      BY <1>2, <2>2 DEF InIntervention, InChange, HandleJobChange
    <3>2. /\ ~intervened /\ ~active => paused
          /\ ~intervened /\ ~enabled => paused
      BY <1>3, <3>1 DEF IInv, PauseInv
    <3> QED
      BY <1>1, <3>1, <3>2 DEF PauseInv
  <2>3. CASE todo \in {<<"zero">>, <<"zero", "start">>}
    <3>1. todo \in InIntervention /\ todo' # <<"release", "touch">>
      BY <1>2, <2>3 DEF InIntervention
    <3>2. intervened'
      BY <1>1, <3>1 DEF IInv, PauseInv
    <3> QED
      BY <3>1, <3>2 DEF PauseInv
  <2> QED
    BY <1>2, <2>1, <2>2, <2>3
<1>9. CauseInv'
  <2>1. CASE todo \in {<<"zero", "store">>, <<"zero", "start", "touch", "unpause">>, <<"zero", "touch", "unpause">>}
    <3>1. todo' \in InSetJob \cup InChange /\ todo' # <<"hold", "touch">>
      BY <1>2, <2>1 DEF InSetJob, InChange
    <3> QED
      BY <3>1 DEF CauseInv, WillRelease
  <2>2. CASE todo \in {<<"zero">>, <<"zero", "start">>}
    <3>1. ~WillRelease /\ todo' # <<"hold", "touch">>
      BY <1>2, <2>2, NotReleasing DEF InIntervention
    <3> QED
      BY <1>1, <3>1, CauseKept DEF IInv
  <2> QED
    BY <1>2, <2>1, <2>2
<1> QED
  BY <1>4, <1>5, <1>6, <1>7, <1>8, <1>9 DEF IInv

LEMMA JoinInv ==
  ASSUME IInv, Typed', Join
  PROVE  IInv'
<1>1. /\ sequence' = sequence + 1
      /\ UNCHANGED <<paused, space, late, incoming, active, enabled, intervened, job, notice, wanted, phase>>
  BY DEF Join, nonceVars, minerVars, backendVars, datasetVars, workerVars, historyVars
<1>2. \/ todo = <<"join", "store">> /\ todo' = <<"store">>
      \/ todo = <<"join", "start", "touch", "unpause">> /\ todo' = <<"start", "touch", "unpause">>
      \/ todo = <<"join", "touch", "unpause">> /\ todo' = <<"touch", "unpause">>
      \/ todo = <<"join">> /\ todo' = <<>>
      \/ todo = <<"join", "start">> /\ todo' = <<"start">>
  BY JoinShapes DEF IInv, Typed
<1>3. ~At("hold") /\ ~At("quiet")
  BY <1>2 DEF At, Idle
<1>4. ~Running'
  BY DEF Join, Running
<1>5. \A w \in Workers : ThreadInv(w)' /\ HasJob(w)'
  BY Joined DEF IInv
<1>6. ZeroInv'
  BY <1>4 DEF ZeroInv
<1>7. AskInv'
  BY <1>2, <1>4 DEF AskInv, Silent
<1>8. JobInv'
  BY <1>5 DEF JobInv
<1>9. PauseInv'
  <2>1. CASE todo = <<"join", "store">>
    <3>1. /\ todo' = <<"store">>
          /\ todo' \notin InIntervention /\ todo' # <<"release", "touch">>
          /\ todo' \notin (InChange \ {HandleJobChange}) \cup {<<"unpause">>}
      BY <1>2, <2>1 DEF InIntervention, InChange, HandleJobChange
    <3> QED
      BY <1>1, <1>4, <3>1 DEF PauseInv
  <2>2. CASE todo \in {<<"join", "start", "touch", "unpause">>, <<"join", "touch", "unpause">>}
    <3>1. /\ todo' \notin InIntervention /\ todo' # <<"release", "touch">>
          /\ todo \in (InChange \ {HandleJobChange})
          /\ todo \notin {<<"zero", "store">>, <<"join", "store">>, <<"store">>}
      BY <1>2, <2>2 DEF InIntervention, InChange, HandleJobChange
    <3>2. /\ ~intervened /\ ~active => paused
          /\ ~intervened /\ ~enabled => paused
      BY <1>3, <3>1 DEF IInv, PauseInv
    <3> QED
      BY <1>1, <1>4, <3>1, <3>2 DEF PauseInv
  <2>3. CASE todo \in {<<"join">>, <<"join", "start">>}
    <3>1. todo \in InIntervention /\ todo' # <<"release", "touch">>
      BY <1>2, <2>3 DEF InIntervention
    <3>2. intervened'
      BY <1>1, <3>1 DEF IInv, PauseInv
    <3> QED
      BY <3>1, <3>2 DEF PauseInv
  <2> QED
    BY <1>2, <2>1, <2>2, <2>3
<1>10. CauseInv'
  <2>1. CASE todo \in {<<"join", "store">>, <<"join", "start", "touch", "unpause">>, <<"join", "touch", "unpause">>}
    <3>1. todo' \in InSetJob \cup InChange /\ todo' # <<"hold", "touch">>
      BY <1>2, <2>1 DEF InSetJob, InChange
    <3> QED
      BY <3>1 DEF CauseInv, WillRelease
  <2>2. CASE todo \in {<<"join">>, <<"join", "start">>}
    <3>1. ~WillRelease /\ todo' # <<"hold", "touch">>
      BY <1>2, <2>2, NotReleasing DEF InIntervention
    <3> QED
      BY <1>1, <3>1, CauseKept DEF IInv
  <2> QED
    BY <1>2, <2>1, <2>2
<1> QED
  BY <1>5, <1>6, <1>7, <1>8, <1>9, <1>10 DEF IInv

LEMMA StartInv ==
  ASSUME IInv, Typed', Start
  PROVE  IInv'
<1>1. UNCHANGED <<paused, space, late, incoming, active, enabled, intervened, job, notice, wanted, phase>>
  BY DEF Start, nonceVars, minerVars, backendVars, datasetVars, workerVars, historyVars
<1>2. \/ todo = <<"start", "touch", "unpause">> /\ todo' = <<"touch", "unpause">>
      \/ todo = <<"start">> /\ todo' = <<>>
  BY Shapes DEF IInv, Typed
<1>3. ~At("hold") /\ ~At("quiet")
  BY <1>2 DEF At, Idle
<1>4. \A w \in Workers : ThreadInv(w)' /\ HasJob(w)' /\ Running' /\ sequence' # 0
  BY Started DEF IInv
<1>5. ZeroInv'
  BY DEF Start, ZeroInv, IInv, Typed, TypeOK
<1>6. AskInv'
  BY <1>2 DEF AskInv
<1>7. JobInv'
  BY <1>4 DEF JobInv
<1>8. PauseInv'
  <2>1. CASE todo = <<"start", "touch", "unpause">>
    <3>1. /\ todo' \notin InIntervention /\ todo' # <<"release", "touch">>
          /\ todo \in (InChange \ {HandleJobChange})
          /\ todo \notin {<<"zero", "store">>, <<"join", "store">>, <<"store">>}
      BY <1>2, <2>1 DEF InIntervention, InChange, HandleJobChange
    <3>2. /\ ~intervened /\ ~active => paused
          /\ ~intervened /\ ~enabled => paused
      BY <1>3, <3>1 DEF IInv, PauseInv
    <3> QED
      BY <1>1, <3>1, <3>2 DEF PauseInv
  <2>2. CASE todo = <<"start">>
    <3>1. todo \in InIntervention /\ todo' # <<"release", "touch">>
      BY <1>2, <2>2 DEF InIntervention
    <3>2. intervened'
      BY <1>1, <3>1 DEF IInv, PauseInv
    <3> QED
      BY <3>1, <3>2 DEF PauseInv
  <2> QED
    BY <1>2, <2>1, <2>2
<1>9. CauseInv'
  <2>1. CASE todo = <<"start", "touch", "unpause">>
    <3>1. todo' \in InChange /\ todo' # <<"hold", "touch">>
      BY <1>2, <2>1 DEF InChange
    <3> QED
      BY <3>1 DEF CauseInv, WillRelease
  <2>2. CASE todo = <<"start">>
    <3>1. ~WillRelease /\ todo' # <<"hold", "touch">>
      BY <1>2, <2>2, NotReleasing DEF InIntervention
    <3> QED
      BY <1>1, <3>1, CauseKept DEF IInv
  <2> QED
    BY <1>2, <2>1, <2>2
<1> QED
  BY <1>4, <1>5, <1>6, <1>7, <1>8, <1>9 DEF IInv

\* An event begins when the loop is idle; the flag is right then.
LEMMA Quiescent ==
  ASSUME IInv, todo = <<>>
  PROVE  /\ todo \notin InChange /\ ~At("join")
         /\ ~intervened /\ ~active => paused
         /\ ~intervened /\ ~enabled /\ Running => paused
<1>1. todo \notin InChange
  BY DEF InChange, HandleJobChange
<1>2. /\ ~At("join") /\ ~At("hold") /\ ~At("quiet")
      /\ todo \notin {<<"zero", "store">>, <<"join", "store">>, <<"store">>}
  BY DEF At, Idle
<1> QED
  BY <1>1, <1>2 DEF IInv, PauseInv

LEMMA EventInv ==
  ASSUME IInv, Typed', Event
  PROVE  IInv'
<1>1. CASE \E j \in Jobs : SetJob(j)
  <2>1. PICK j \in Jobs : SetJob(j)
    BY <1>1
  <2>2. UNCHANGED CalmVars /\ UNCHANGED <<paused, overtaken, active, enabled, intervened>>
    BY <2>1 DEF SetJob, CalmVars, nonceVars, minerVars, backendVars, datasetVars, workerVars, historyVars
  <2>3. /\ todo = <<>> /\ incoming' = j
        /\ \/ todo' = <<"release", "zero", "store">>
           \/ todo' = <<"hold", "touch", "store">>
           \/ todo' = <<"store">> /\ HasDataset(j)
    BY <2>1, SetJobShapes
  <2>4. (\A w \in Workers : ThreadInv(w)') /\ ZeroInv' /\ JobInv'
    BY <2>2, <2>3, Calm, Quiescent
  <2>5. HasDataset(j)' <=> HasDataset(j)
    BY <2>2, SameDatasets DEF CalmVars
  <2>6. AskInv'
    <3>1. CASE todo' = <<"store">> /\ HasDataset(j)
      <4>1. HasDataset(incoming)'
        BY <2>3, <2>5, <3>1 DEF HasDataset, Dataset!Ready, Dataset!SameSeed, Dataset!EqualSeedAlgo
      <4> QED
        BY <3>1, <4>1 DEF AskInv
    <3>2. CASE todo' \in {<<"release", "zero", "store">>, <<"hold", "touch", "store">>}
      BY <3>2 DEF AskInv
    <3> QED
      BY <2>3, <3>1, <3>2
  <2>7. PauseInv'
    <3>1. /\ todo' \notin InIntervention /\ todo' # <<"release", "touch">>
          /\ todo' \notin (InChange \ {HandleJobChange}) \cup {<<"unpause">>}
      BY <2>3 DEF InIntervention, InChange, HandleJobChange
    <3> QED
      BY <2>2, <2>3, <3>1, Quiescent DEF PauseInv, CalmVars, Running
  <2>8. CauseInv'
    <3>1. todo' \in InSetJob /\ todo' # <<"hold", "touch">>
      BY <2>3 DEF InSetJob
    <3> QED
      BY <3>1 DEF CauseInv, WillRelease
  <2> QED
    BY <2>4, <2>6, <2>7, <2>8 DEF IInv
<1>2. CASE Pause
  <2>1. /\ UNCHANGED CalmVars /\ UNCHANGED <<paused, overtaken, enabled, intervened>>
        /\ active' = FALSE
    BY <1>2 DEF Pause, CalmVars, nonceVars, minerVars, backendVars, datasetVars, workerVars, historyVars
  <2>2. todo = <<>> /\ todo' = <<"hold", "touch">>
    BY <1>2, EventShapes
  <2>3. (\A w \in Workers : ThreadInv(w)') /\ ZeroInv' /\ JobInv'
    BY <2>1, <2>2, Calm, Quiescent
  <2>4. AskInv'
    BY <2>2 DEF AskInv
  <2>5. PauseInv'
    <3>1. /\ todo' \notin InIntervention /\ todo' # <<"release", "touch">> /\ At("hold")'
          /\ todo' \notin (InChange \ {HandleJobChange}) \cup {<<"unpause">>}
      BY <2>2 DEF InIntervention, InChange, HandleJobChange, At, Idle
    <3> QED
      BY <3>1 DEF PauseInv
  <2>6. CauseInv'
    BY <2>1 DEF CauseInv
  <2> QED
    BY <2>3, <2>4, <2>5, <2>6 DEF IInv
<1>3. CASE \E value \in BOOLEAN : SetEnabled(value)
  <2>1. PICK value \in BOOLEAN : SetEnabled(value)
    BY <1>3
  <2>2. /\ UNCHANGED CalmVars /\ UNCHANGED <<paused, overtaken, active, intervened>>
        /\ enabled' = value
    BY <2>1 DEF SetEnabled, CalmVars, nonceVars, minerVars, backendVars, datasetVars, workerVars, historyVars
  <2>3. /\ todo = <<>>
        /\ todo' = IF ~active THEN <<>> ELSE IF value THEN <<"release", "touch">>
                                        ELSE <<"hold", "touch">>
    BY <2>1, EventShapes
  <2>4. (\A w \in Workers : ThreadInv(w)') /\ ZeroInv' /\ JobInv'
    BY <2>2, <2>3, Calm, Quiescent
  <2>5. AskInv'
    BY <2>3 DEF AskInv
  <2>6. PauseInv'
    <3>1. /\ todo' \notin InIntervention
          /\ todo' \notin (InChange \ {HandleJobChange}) \cup {<<"unpause">>}
      BY <2>3 DEF InIntervention, InChange, HandleJobChange
    <3>2. CASE ~active
      <4>1. todo' = <<>>
        BY <2>3, <3>2
      <4> QED
        BY <2>2, <2>3, <3>1, <3>2, <4>1, Quiescent DEF PauseInv
    <3>3. CASE active /\ value
      <4>1. active' /\ enabled'
        BY <2>2, <3>3
      <4> QED
        BY <3>1, <4>1 DEF PauseInv
    <3>4. CASE active /\ ~value
      <4>1. todo' = <<"hold", "touch">>
        BY <2>3, <3>4
      <4>2. todo' # <<"release", "touch">> /\ At("hold")'
        BY <4>1 DEF At, Idle
      <4> QED
        BY <3>1, <4>2 DEF PauseInv
    <3> QED
      BY <3>2, <3>3, <3>4
  <2>7. CauseInv'
    <3>1. CASE ~active
      BY <2>2, <3>1 DEF CauseInv
    <3>2. CASE active /\ value
      <4>1. todo' = <<"release", "touch">>
        BY <2>3, <3>2
      <4> QED
        BY <4>1 DEF CauseInv, WillRelease
    <3>3. CASE active /\ ~value
      BY <2>2, <3>3 DEF CauseInv
    <3> QED
      BY <3>1, <3>2, <3>3
  <2> QED
    BY <2>4, <2>5, <2>6, <2>7 DEF IInv
<1>4. CASE RequestStop \/ \E config \in Configs, otherPools \in BOOLEAN : ConfigChanged(config, otherPools)
  <2>1. UNCHANGED CalmVars /\ overtaken' = overtaken /\ intervened' = TRUE
    BY <1>4 DEF RequestStop, ConfigChanged, CalmVars, nonceVars, minerVars, backendVars, datasetVars, workerVars, historyVars
  <2>2. todo = <<>> /\ todo' \in {<<"release", "zero">>, <<>>, <<"backend">>}
    BY <1>4, EventShapes
  <2>3. (\A w \in Workers : ThreadInv(w)') /\ ZeroInv' /\ JobInv'
    BY <2>1, <2>2, Calm, Quiescent
  <2>4. AskInv' /\ todo' # <<"release", "touch">>
    BY <2>2 DEF AskInv
  <2>5. PauseInv'
    BY <2>1, <2>4 DEF PauseInv
  <2>6. CauseInv'
    <3>1. ~WillRelease /\ todo' # <<"hold", "touch">>
      BY <2>2, NotReleasing
    <3>2. UNCHANGED <<paused, space, late, active, enabled>>
      BY <1>4 DEF RequestStop, ConfigChanged, nonceVars, minerVars
    <3> QED
      BY <2>1, <3>1, <3>2, CauseKept DEF IInv, CalmVars
  <2> QED
    BY <2>3, <2>4, <2>5, <2>6 DEF IInv
<1>5. CASE DatasetReady
  <2>1. UNCHANGED <<paused, sequence, job, incoming, active, enabled, applied, wanted, phase,
                    workerVars, overtaken, intervened>>
    BY <1>5 DEF DatasetReady, Dataset!Hear, nonceVars, minerVars, backendVars, datasetVars, workerVars, historyVars
  <2>2. todo = <<>> /\ todo' = IF HasDataset(job) THEN HandleJobChange ELSE <<>>
    BY <1>5, EventShapes
  <2>3. \A w \in Workers : ThreadInv(w)' /\ (HasJob(w) => HasJob(w)')
    <3>1. \A w \in Workers : HasDataset(wjob[w]) => HasDataset(wjob[w])'
      BY <2>1, SameDatasets DEF workerVars
    <3> QED
      BY <2>1, <3>1, Harmless DEF IInv
  <2>4. ZeroInv'
    BY <2>1, <2>2, Quiescent DEF IInv, ZeroInv, Running
  <2>5. AskInv'
    BY <2>2 DEF AskInv, HandleJobChange
  <2>6. JobInv'
    <3>1. HasDataset(job)' <=> HasDataset(job)
      BY <2>1, SameDatasets
    <3> QED
      BY <2>2, <3>1 DEF JobInv, InChange
  <2>7. PauseInv'
    <3>1. /\ todo' \notin InIntervention /\ todo' # <<"release", "touch">>
          /\ todo' \notin (InChange \ {HandleJobChange}) \cup {<<"unpause">>}
      BY <2>2 DEF InIntervention, InChange, HandleJobChange
    <3> QED
      BY <2>1, <2>2, <3>1, Quiescent DEF PauseInv, Running
  <2>8. CauseInv'
    <3>1. HasDataset(job)' <=> HasDataset(job)
      BY <2>1, SameDatasets
    <3>2. todo' # <<"hold", "touch">> /\ (todo' = HandleJobChange => WillRelease')
      BY <2>2 DEF WillRelease, InChange, HandleJobChange
    <3> QED
      BY <2>2, <3>1, <3>2 DEF CauseInv
  <2> QED
    BY <2>3, <2>4, <2>5, <2>6, <2>7, <2>8 DEF IInv
<1> QED
  BY <1>1, <1>2, <1>3, <1>4, <1>5 DEF Event

-----------------------------------------------------------------------------
(* The steps of the threads and of the dataset queue preserve it.          *)

LEMMA WorkerInv ==
  ASSUME IInv, NEW w \in Workers, WorkerStep(w)
  PROVE  IInv'
<1>1. /\ \A v \in Workers \ {w} :
           /\ pc'[v] = pc[v] /\ ret'[v] = ret[v] /\ fetched'[v] = fetched[v]
           /\ wjob'[v] = wjob[v] /\ wseq'[v] = wseq[v] /\ hasVm'[v] = hasVm[v]
           /\ overtaken'[v] = overtaken[v]
      /\ Typed'
  BY OneThread DEF IInv
<1>2. /\ UNCHANGED <<sequence, job, incoming, active, enabled, applied, wanted, phase, notice,
                     todo, intervened>>
      /\ FlagKept
  BY OneThread DEF IInv, LoopUnchanged, minerVars, backendVars, datasetVars
<1>3. \A j : HasDataset(j)' <=> HasDataset(j)
  BY <1>2, SameDatasets
<1>4. \A v \in Workers \ {w} : ThreadInv(v)' /\ (Silenced(v) => Silenced(v)') /\ (HasJob(v) => HasJob(v)')
  BY <1>1, <1>2, <1>3 DEF IInv, ThreadInv, VmInv, Hashing, MissedInv, MissedStop, Current, Silenced, HasJob,
       Live, Polling, Running
<1>5. ThreadInv(w)' /\ (paused /\ Silenced(w) => Silenced(w)') /\ (HasJob(w) => HasJob(w)')
  BY OwnStep DEF IInv
<1>6. ZeroInv'
  BY <1>2 DEF IInv, ZeroInv, At, Idle, Running
<1>7. AskInv'
  <2>1. Silent => Silent'
    BY <1>2, <1>4, <1>5 DEF Silent, Running, FlagKept
  <2>2. HasDataset(incoming)' <=> HasDataset(incoming)
    BY <1>2, <1>3 DEF HasDataset, Dataset!Ready, Dataset!SameSeed, Dataset!EqualSeedAlgo
  <2> QED
    BY <1>2, <2>1, <2>2 DEF IInv, AskInv, FlagKept
<1>8. JobInv'
  <2>1. HasDataset(job)' <=> HasDataset(job)
    BY <1>2, <1>3 DEF HasDataset, Dataset!Ready, Dataset!SameSeed, Dataset!EqualSeedAlgo
  <2> QED
    BY <1>2, <1>4, <1>5, <2>1 DEF IInv, JobInv
<1>9. PauseInv'
  BY <1>2 DEF IInv, PauseInv, At, Idle, Running, FlagKept
<1>10. CauseInv'
  <2>1. HasDataset(job)' <=> HasDataset(job)
    BY <1>2, SameDatasets
  <2> QED
    BY <1>2, <2>1 DEF IInv, CauseInv, WillRelease, FlagKept
<1> QED
  BY <1>1, <1>4, <1>5, <1>6, <1>7, <1>8, <1>9, <1>10 DEF IInv

LEMMA BuildInv ==
  ASSUME IInv, Typed', NEW outcome \in Dataset!Outcomes, Build(outcome)
  PROVE  IInv'
<1>1. /\ notice' = TRUE /\ phase = "building"
      /\ UNCHANGED <<paused, sequence, job, incoming, active, enabled, applied, todo, workerVars,
                    overtaken, intervened>>
  BY DEF Build, Dataset!Finish, nonceVars, minerVars, backendVars, datasetVars, workerVars, historyVars
<1>2. \A j : ~HasDataset(j)
  BY <1>1 DEF HasDataset, Dataset!Ready
<1>3. \A w \in Workers : ThreadInv(w)' /\ (Silenced(w) => Silenced(w)')
  BY <1>1, <1>2, Harmless DEF IInv
<1>4. ZeroInv' /\ PauseInv'
  BY <1>1 DEF IInv, ZeroInv, PauseInv, At, Idle, Running
<1>5. AskInv'
  BY <1>1, <1>2, <1>3 DEF IInv, AskInv, Silent, Running
<1>6. JobInv'
  BY <1>1 DEF JobInv
<1>7. CauseInv'
  BY <1>1 DEF IInv, CauseInv
<1> QED
  BY <1>3, <1>4, <1>5, <1>6, <1>7 DEF IInv

-----------------------------------------------------------------------------

LEMMA InitInv == Init => IInv
<1> SUFFICES ASSUME Init PROVE IInv
  OBVIOUS
<1>1. Typed
  <2>1. todo \in Todos /\ \A i \in 1..Len(todo) : todo[i] \in Steps
    <3>1. todo \in Todos
      BY DEF Init, Todos
    <3> QED
      BY <3>1, TodosTyped
  <2>2. /\ pc \in [Workers -> Places] /\ ret \in [Workers -> Places]
        /\ ret \in [Workers -> {"outer", "inner"}] /\ overtaken \in [Workers -> BOOLEAN]
    BY DEF Init, Places
  <2>3. /\ fetched \in [Workers -> Jobs \cup {NoJob}] /\ wjob \in [Workers -> Jobs \cup {NoJob}]
        /\ wseq \in [Workers -> Nat] /\ hasVm \in [Workers -> BOOLEAN]
    BY DEF Init
  <2> QED
    BY <2>1, <2>2, <2>3 DEF Init, Typed, TypeOK
<1>2. ZeroInv /\ AskInv
  BY DEF Init, ZeroInv, AskInv
<1>3. \A w \in Workers : ThreadInv(w) /\ HasJob(w)
  BY DEF Init, ThreadInv, HasJob, VmInv, Hashing, MissedInv, Current, Live
<1>4. JobInv
  BY <1>3 DEF JobInv
<1>5. PauseInv
  <2>1. <<>> \notin InIntervention /\ <<>> \notin InChange /\ <<>> # <<"release", "touch">>
        /\ <<>> # <<"unpause">>
    BY DEF InIntervention, InChange, HandleJobChange
  <2> QED
    BY <2>1 DEF Init, PauseInv
<1>6. CauseInv
  BY DEF Init, CauseInv
<1> QED
  BY <1>1, <1>2, <1>3, <1>4, <1>5, <1>6 DEF IInv

LEMMA StutterInv == IInv /\ UNCHANGED vars => IInv'
<1> SUFFICES ASSUME IInv, UNCHANGED vars PROVE IInv'
  OBVIOUS
<1> USE DEF vars, nonceVars, minerVars, backendVars, datasetVars, workerVars, historyVars
<1>1. Typed' /\ ZeroInv' /\ PauseInv'
  BY DEF IInv, Typed, TypeOK, ZeroInv, PauseInv, At, Idle, Running
<1>2. \A j : HasDataset(j)' <=> HasDataset(j)
  BY SameDatasets
<1>3. \A w \in Workers : ThreadInv(w)' /\ (Silenced(w) => Silenced(w)') /\ (HasJob(w) => HasJob(w)')
  BY <1>2 DEF IInv, ThreadInv, VmInv, Hashing, MissedInv, MissedStop, Current, Silenced, HasJob, Live,
       Polling, Running
<1>4. AskInv' /\ JobInv'
  BY <1>2, <1>3 DEF IInv, AskInv, JobInv, Silent, Running, HasDataset, Dataset!Ready,
       Dataset!SameSeed, Dataset!EqualSeedAlgo
<1>5. CauseInv'
  <2>1. HasDataset(job)' <=> HasDataset(job)
    BY <1>2
  <2> QED
    BY <2>1 DEF IInv, CauseInv, WillRelease, Exhausted
<1> QED
  BY <1>1, <1>3, <1>4, <1>5 DEF IInv

LEMMA HandlerInv ==
  ASSUME IInv, Typed', HandlerStep
  PROVE  IInv'
BY HoldInv, ReleaseInv, QuietInv, UnpauseInv, TouchInv, StoreInv, AskStepInv, ResetInv, BackendInv,
   ZeroStepInv, JoinInv, StartInv DEF HandlerStep

THEOREM Inductive == Spec => []IInv
<1>1. IInv /\ [Next]_vars => IInv'
  <2> SUFFICES ASSUME IInv, [Next]_vars PROVE IInv'
    OBVIOUS
  <2>1. CASE Event
    BY <2>1, TypedStep, EventInv DEF IInv
  <2>2. CASE HandlerStep
    BY <2>2, TypedStep, HandlerInv DEF IInv
  <2>3. CASE \E w \in Workers : WorkerStep(w)
    BY <2>3, WorkerInv
  <2>4. CASE \E outcome \in Dataset!Outcomes : Build(outcome)
    BY <2>4, TypedStep, BuildInv DEF IInv
  <2>5. CASE UNCHANGED vars
    BY <2>5, StutterInv
  <2> QED
    BY <2>1, <2>2, <2>3, <2>4, <2>5 DEF Next
<1> QED
  BY InitInv, <1>1, PTL DEF Spec

\* The variables keep their types: no handler leaves a step that the loop does
\* not know, no thread a place outside CpuWorker::start.
THEOREM TypeCorrect == Spec => []TypeOK
<1>1. IInv => TypeOK
  BY DEF IInv, Typed
<1> QED
  BY Inductive, <1>1, PTL

\* A thread that hashes has a virtual machine and a job, unless it is the one
\* that missed a stop in consumeJob.
THEOREM HashesWithVm == Spec => []HashHasVmUnlessStopMissed
<1>1. IInv => HashHasVmUnlessStopMissed
  BY DEF IInv, ThreadInv, VmInv, Hashing, HashHasVmUnlessStopMissed
<1> QED
  BY Inductive, <1>1, PTL

\* A hash computed without the dataset of its job is its thread's last one.
THEOREM StaleHashIsLast == Spec => []OnlyLastHashIsStale
<1>1. IInv => OnlyLastHashIsStale
  BY DEF IInv, Typed, TypeOK, ThreadInv, VmInv, Hashing, MissedInv, MissedStop, OnlyLastHashIsStale, Current,
       Live, Polling, Window
<1> QED
  BY Inductive, <1>1, PTL

\* When the loop is done with a change of the job, threads that may go on
\* have the new one.
THEOREM MinesTheJob == Spec => []MinesCurrentJob
<1>1. IInv => MinesCurrentJob
  <2> SUFFICES ASSUME IInv, Idle, ~notice, HasDataset(job), NEW w \in Workers,
                      Hashing(w), wseq[w] = sequence, ~overtaken[w]
               PROVE  wjob[w] = job
    BY DEF MinesCurrentJob
  <2>1. sequence # 0
    BY DEF IInv, Typed, TypeOK, ThreadInv, VmInv, Hashing, MissedInv, MissedStop, Live
  <2>2. Current(w)
    BY <2>1 DEF Hashing, Current, Live, Window
  <2>3. todo \notin InChange
    BY DEF Idle, InChange, HandleJobChange
  <2> QED
    BY <2>2, <2>3 DEF IInv, JobInv, HasJob
<1> QED
  BY Inductive, <1>1, PTL

\* Running threads are paused while the user has disabled mining or no pool is
\* active, until a stop intervenes.
THEOREM Pauses == Spec => []PausedUnlessWanted
<1>1. IInv => PausedUnlessWanted
  BY Quiescent DEF PausedUnlessWanted, Idle
<1> QED
  BY Inductive, <1>1, PTL

\* Wanted mining with a dataset is not paused but for the end of the nonces, however
\* many handlers have raised the flag before.
THEOREM PausesForCause == Spec => []PausedForCause
<1>1. IInv => PausedForCause
  BY NotReleasing DEF IInv, CauseInv, PausedForCause, Wanted, Idle
<1> QED
  BY Inductive, <1>1, PTL

=============================================================================
