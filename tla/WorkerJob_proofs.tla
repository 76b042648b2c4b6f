--------------------------- MODULE WorkerJob_proofs ---------------------------
(***************************************************************************)
(* Proofs, for every number of threads and every size of ranges, mask and  *)
(* word, that the nonce allocator hands out disjoint ranges that respect   *)
(* mask and word, that it pauses mining when the nonces are used up, and   *)
(* that the threads and the event loop that use it hash no nonce of a      *)
(* template twice.                                                         *)
(***************************************************************************)
EXTENDS WorkerJob, TLAPS

USE DEF Range

\* A range taken since the last reset lies below the counter, one taken
\* before it belongs to an earlier epoch.
Claimed(r) ==
  /\ r.epoch <= epoch
  /\ r.epoch = epoch => r.counter + ReserveCount <= counter

ClaimsBelowCounter ==
  /\ \A r \in granted : Claimed(r)
  /\ \A w \in Workers : InCall(w) => Claimed(call[w])

\* The inductive invariant of the ranges.
RangesInv == TypeOK /\ ClaimsBelowCounter /\ RangesDisjoint

\* The inductive invariant of the pause at the end of the nonce space.
Finishing(w) == InCall(w) /\ call[w].epoch = epoch /\ UsesUp(call[w].counter)

EndInv ==
  /\ TypeOK
  /\ counter > Mask => lastRange # "open"
  /\ lastRange = "taken" => paused \/ \E w \in Workers : Finishing(w)

-----------------------------------------------------------------------------

LEMMA TypeStep ==
  ASSUME TypeOK, [Next]_vars
  PROVE  TypeOK'
<1> USE NonceAssumption DEF TypeOK, Return
<1>1. ASSUME NEW w \in Workers, FetchAdd(w)
      PROVE /\ counter' \in Nat
            /\ call' \in [Workers -> Range \cup {NoCall}]
            /\ lastRange' \in {"open", "taken", "overruled"}
  BY <1>1 DEF FetchAdd
<1>2. CASE \E w \in Workers : Fetch(w)
  BY <1>1, <1>2 DEF Fetch
<1>3. CASE \E w \in Workers : Refetch(w)
  BY <1>1, <1>3 DEF Refetch
<1>4. CASE \E w \in Workers : Refuse(w)
  BY <1>4 DEF Refuse
<1>5. CASE \E w \in Workers : TakeLast(w)
  <2>1. PICK w \in Workers : TakeLast(w)
    BY <1>5
  <2>2. call[w] \in Range
    BY <2>1 DEF TakeLast, InCall
  <2> QED
    BY <2>1, <2>2 DEF TakeLast
<1>6. CASE \E w \in Workers : Grant(w)
  <2>1. PICK w \in Workers : Grant(w)
    BY <1>6
  <2>2. call[w] \in Range
    BY <2>1 DEF Grant, InCall
  <2> QED
    BY <2>1, <2>2 DEF Grant
<1>7. CASE Reset
  BY <1>7 DEF Reset
<1>8. CASE \E value \in BOOLEAN : Pause(value)
  BY <1>8 DEF Pause
<1>9. CASE UNCHANGED vars
  BY <1>9 DEF vars
<1> QED
  BY <1>2, <1>3, <1>4, <1>5, <1>6, <1>7, <1>8, <1>9 DEF Next, Finish

\* The variables keep their types.
THEOREM TypeCorrect == Init /\ [][Next]_vars => []TypeOK
<1>1. Init => TypeOK
  BY NonceAssumption DEF Init, TypeOK
<1> QED
  BY <1>1, TypeStep, PTL

-----------------------------------------------------------------------------

\* One step keeps every claim below the counter.
LEMMA ClaimsStep ==
  ASSUME TypeOK, ClaimsBelowCounter, [Next]_vars
  PROVE  ClaimsBelowCounter'
<1> USE NonceAssumption DEF TypeOK, ClaimsBelowCounter, Claimed, InCall
<1>1. CASE \E w \in Workers : Fetch(w)
  BY <1>1 DEF Fetch, FetchAdd, InCall
<1>2. CASE \E w \in Workers : Refetch(w)
  BY <1>2 DEF Refetch, FetchAdd, InCall
<1>3. CASE \E w \in Workers : Refuse(w)
  BY <1>3 DEF Refuse, Return
<1>4. CASE \E w \in Workers : TakeLast(w)
  BY <1>4 DEF TakeLast, Return
<1>5. CASE \E w \in Workers : Grant(w)
  BY <1>5 DEF Grant, Return
<1>6. CASE Reset
  <2>1. \A r \in Range : Claimed(r) => Claimed(r)'
    BY <1>6 DEF Reset
  <2>2. \A w \in Workers : InCall(w) => call[w] \in Range
    OBVIOUS
  <2> QED
    BY <1>6, <2>1, <2>2 DEF Reset
<1>7. CASE \E value \in BOOLEAN : Pause(value)
  BY <1>7 DEF Pause
<1>8. CASE UNCHANGED vars
  BY <1>8 DEF vars
<1> QED
  BY <1>1, <1>2, <1>3, <1>4, <1>5, <1>6, <1>7, <1>8 DEF Next, Finish

\* A value fetched from the counter is apart from every claim made so far.
LEMMA FreshIsApart ==
  ASSUME TypeOK, NEW r \in Range, Claimed(r), r.epoch = epoch
  PROVE  Apart(counter, r.counter) /\ Apart(r.counter, counter)
BY NonceAssumption DEF TypeOK, Claimed, Apart

\* One step keeps the ranges of an epoch disjoint.
LEMMA DisjointStep ==
  ASSUME TypeOK, TypeOK', ClaimsBelowCounter, RangesDisjoint, [Next]_vars
  PROVE  RangesDisjoint'
<1> USE NonceAssumption DEF SameEpoch
<1>1. ASSUME NEW w \in Workers, FetchAdd(w), UNCHANGED <<granted, epoch>>
      PROVE  RangesDisjoint'
  <2>1. \A r \in granted : r.epoch = epoch => Apart(counter, r.counter)
    BY FreshIsApart DEF ClaimsBelowCounter, TypeOK
  <2>2. \A v \in Workers : InCall(v) /\ call[v].epoch = epoch
                             => Apart(counter, call[v].counter) /\ Apart(call[v].counter, counter)
    BY FreshIsApart DEF ClaimsBelowCounter, TypeOK, InCall
  <2>3. call'[w] = [counter |-> counter, epoch |-> epoch]
    BY <1>1 DEF FetchAdd, TypeOK
  <2>4. \A v \in Workers \ {w} : call'[v] = call[v]
    BY <1>1 DEF FetchAdd, TypeOK
  <2> QED
    BY <1>1, <2>1, <2>2, <2>3, <2>4 DEF RangesDisjoint, InCall, Apart
<1>2. ASSUME NEW w \in Workers, InCall(w), Return(w),
             granted' = granted \/ granted' = granted \cup {call[w]}
      PROVE  RangesDisjoint'
  <2>1. ~InCall(w)'
    BY <1>2 DEF Return, InCall, TypeOK
  <2>2. \A v \in Workers \ {w} : call'[v] = call[v]
    BY <1>2 DEF Return, TypeOK
  <2>3. \A r \in granted : SameEpoch(call[w], r)
                             => Apart(call[w].counter, r.counter) /\ Apart(r.counter, call[w].counter)
    BY <1>2 DEF RangesDisjoint, Apart
  <2>4. \A v \in Workers \ {w} : InCall(v) /\ SameEpoch(call[v], call[w])
                                   => Apart(call[v].counter, call[w].counter)
    BY <1>2 DEF RangesDisjoint
  <2> QED
    BY <1>2, <2>1, <2>2, <2>3, <2>4 DEF RangesDisjoint, InCall
<1>3. ASSUME UNCHANGED <<call, granted>>
      PROVE  RangesDisjoint'
  BY <1>3 DEF RangesDisjoint, InCall
<1> QED
  BY <1>1, <1>2, <1>3
  DEF Next, Finish, Fetch, Refetch, Refuse, TakeLast, Grant, Reset, Pause, vars

\* No two ranges taken since the same reset share a nonce: threads do not
\* repeat each other's work, whatever the order of their fetch_adds.
THEOREM DisjointRanges == Init /\ [][Next]_vars => []RangesDisjoint
<1>1. Init => RangesInv
  BY NonceAssumption
  DEF Init, RangesInv, TypeOK, ClaimsBelowCounter, RangesDisjoint, InCall
<1>2. RangesInv /\ TypeOK' /\ [Next]_vars => RangesInv'
  BY ClaimsStep, DisjointStep DEF RangesInv
<1>3. RangesInv => RangesDisjoint
  BY DEF RangesInv
<1> QED
  BY <1>1, <1>2, <1>3, TypeCorrect, PTL

-----------------------------------------------------------------------------

\* A range that is handed out ends at the mask or below it.
THEOREM FitsMask == Init /\ [][Next]_vars => []RangesFitMask
<1>1. Init => RangesFitMask
  BY DEF Init, RangesFitMask
<1>2. TypeOK /\ RangesFitMask /\ [Next]_vars => RangesFitMask'
  <2> SUFFICES ASSUME TypeOK, RangesFitMask, [Next]_vars PROVE RangesFitMask'
    OBVIOUS
  <2> USE NonceAssumption DEF TypeOK, RangesFitMask
  <2>1. ASSUME NEW w \in Workers, InCall(w), ~Beyond(call[w].counter),
               ~TooShort(call[w].counter)
        PROVE  call[w].counter + ReserveCount - 1 <= Mask
    BY <2>1 DEF InCall, Beyond, TooShort, Room
  <2>2. CASE \E w \in Workers : Grant(w)
    <3>1. PICK w \in Workers : Grant(w)
      BY <2>2
    <3>2. call[w] \in Range
      BY <3>1 DEF Grant, InCall
    <3>3. ~TooShort(call[w].counter)
      BY <3>1, <3>2 DEF Grant, UsesUp, TooShort, Beyond, Room
    <3> QED
      BY <2>1, <3>1, <3>3 DEF Grant
  <2>3. CASE \E w \in Workers : TakeLast(w)
    BY <2>1, <2>3 DEF TakeLast, UsesUp
  <2>4. CASE UNCHANGED granted
    BY <2>4
  <2> QED
    BY <2>2, <2>3, <2>4 DEF Next, Finish, Fetch, Refetch, Refuse, Reset, Pause, vars
<1> QED
  BY <1>1, <1>2, TypeCorrect, PTL

\* Division with remainder.
LEMMA Remainder ==
  ASSUME NEW a \in Nat, NEW k \in Nat, NEW l \in Nat \ {0}, k <= a, a % l >= k
  PROVE  (a - k) % l = (a % l) - k
OBVIOUS

\* No round on a range that is handed out carries into the high word.
THEOREM KeepsHighWord == Init /\ [][Next]_vars => []RangesKeepHighWord
<1>1. Init => RangesKeepHighWord
  BY DEF Init, RangesKeepHighWord
<1>2. TypeOK /\ RangesKeepHighWord /\ [Next]_vars => RangesKeepHighWord'
  <2> SUFFICES ASSUME TypeOK, RangesKeepHighWord, [Next]_vars PROVE RangesKeepHighWord'
    OBVIOUS
  <2>1. CASE \E w \in Workers : Grant(w)
    BY <2>1, NonceAssumption
    DEF Grant, TypeOK, RangesKeepHighWord, Straddles, InCall
  <2>2. CASE \E w \in Workers : TakeLast(w)
    <3>1. PICK w \in Workers : TakeLast(w)
      BY <2>2
    <3> DEFINE c == call[w].counter
    <3>2. call[w] \in Range
      BY <3>1 DEF TakeLast, InCall, TypeOK
    <3>3. CASE ~TooShort(c)
      <4>1. c = Mask - (ReserveCount - 1)
        BY <3>1, <3>2, <3>3, NonceAssumption
        DEF TakeLast, UsesUp, Beyond, TooShort, Room
      <4> DEFINE k == ReserveCount - 1
      <4>0. k \in Nat /\ k <= Mask /\ Mask % LowWord >= k
        BY NonceAssumption
      <4>5. (Mask - k) % LowWord = (Mask % LowWord) - k
        BY <4>0, Remainder, NonceAssumption
      <4>2. c % LowWord = (Mask % LowWord) - (ReserveCount - 1)
        BY <4>1, <4>5
      <4>3. Mask % LowWord \in 0..(LowWord - 1)
        BY NonceAssumption
      <4>4. (c % LowWord) + ReserveCount - 1 < LowWord
        BY <4>2, <4>3, NonceAssumption
      <4> QED
        BY <3>1, <4>4 DEF TakeLast, RangesKeepHighWord
    <3> QED
      BY <3>1, <3>3 DEF TakeLast, RangesKeepHighWord
  <2>3. CASE UNCHANGED granted
    BY <2>3 DEF RangesKeepHighWord
  <2> QED
    BY <2>1, <2>2, <2>3 DEF Next, Finish, Fetch, Refetch, Refuse, Reset, Pause, vars
<1> QED
  BY <1>1, <1>2, TypeCorrect, PTL

-----------------------------------------------------------------------------

\* While the counter is past the mask and nobody has unpaused since, mining is
\* paused or the thread that will pause it is still inside Nonce::next.
LEMMA EndStep ==
  ASSUME EndInv, TypeOK', [Next]_vars
  PROVE  EndInv'
<1> USE NonceAssumption DEF EndInv, Finishing
<1>1. ASSUME NEW w \in Workers, FetchAdd(w), UNCHANGED <<paused, epoch>>,
             Finishing(w) => FALSE
      PROVE  EndInv'
  <2>1. call'[w] = [counter |-> counter, epoch |-> epoch]
    BY <1>1 DEF FetchAdd, TypeOK
  <2>2. \A v \in Workers : Finishing(v) => call'[v] = call[v]
    BY <1>1 DEF FetchAdd, TypeOK
  <2>3. InCall(w)'
    BY <2>1 DEF InCall, TypeOK
  <2>4. CASE UsesUp(counter)
    BY <1>1, <2>1, <2>3, <2>4 DEF FetchAdd, UsesUp, Beyond, Room
  <2>5. CASE ~UsesUp(counter)
    <3>1. counter' > Mask => counter > Mask
      BY <1>1, <2>5 DEF FetchAdd, UsesUp, Beyond, Room, TypeOK
    <3>2. \A v \in Workers : Finishing(v) => Finishing(v)'
      BY <1>1, <2>2 DEF InCall, UsesUp, Beyond, Room
    <3> QED
      BY <1>1, <2>5, <3>1, <3>2 DEF FetchAdd
  <2> QED
    BY <2>4, <2>5
<1>2. ASSUME NEW w \in Workers, Return(w), UNCHANGED <<counter, epoch, lastRange>>,
             paused' \/ (paused' = paused /\ ~Finishing(w))
      PROVE  EndInv'
  <2>1. \A v \in Workers : v # w => call'[v] = call[v]
    BY <1>2 DEF Return, TypeOK
  <2>2. \A v \in Workers : Finishing(v) /\ v # w => Finishing(v)'
    BY <1>2, <2>1 DEF InCall, UsesUp, Beyond, Room
  <2> QED
    BY <1>2, <2>2
<1>3. CASE Reset
  BY <1>3 DEF Reset
<1>4. CASE \E value \in BOOLEAN : Pause(value)
  BY <1>4 DEF Pause, InCall, UsesUp, Beyond, Room
<1>5. CASE UNCHANGED vars
  BY <1>5 DEF vars, InCall, UsesUp, Beyond, Room
<1>6. CASE \E w \in Workers : Fetch(w) \/ Refetch(w)
  BY <1>1, <1>6 DEF Fetch, Refetch
<1>7. CASE \E w \in Workers : Refuse(w) \/ TakeLast(w) \/ Grant(w)
  BY <1>2, <1>7 DEF Refuse, TakeLast, Grant, UsesUp
<1> QED
  BY <1>3, <1>4, <1>5, <1>6, <1>7 DEF Next, Finish

\* When the nonces are used up mining is paused, unless it was unpaused
\* afterwards, as soon as the threads that saw the end have left Nonce::next.
THEOREM PauseAtEnd == Init /\ [][Next]_vars => []ExhaustionPauses
<1>1. Init => EndInv
  BY NonceAssumption DEF Init, EndInv, TypeOK
<1>2. EndInv /\ TypeOK' /\ [Next]_vars => EndInv'
  BY EndStep
<1>3. EndInv => ExhaustionPauses
  BY DEF EndInv, ExhaustionPauses, Finishing, TypeOK
<1> QED
  BY <1>1, <1>2, <1>3, TypeCorrect, PTL

-----------------------------------------------------------------------------
(* The threads and the event loop.                                         *)

WorkerTypeOK ==
  /\ job \in Jobs \cup {NoJob} /\ enabled \in BOOLEAN /\ sequence \in Nat /\ events \in Nat
  /\ reset \in BOOLEAN /\ ready \in BOOLEAN /\ notice \in BOOLEAN
  /\ todo \in Seq({"store", "hold", "reset", "touch", "release"})
  /\ incoming \in Jobs \cup {NoJob}
  /\ pc \in [Workers -> {"outer", "sleep", "loop", "tail", "consume", "save", "vm", "round"}]
  /\ ret \in [Workers -> {"loop", "outer"}]
  /\ wjob \in [Workers -> Jobs \cup {NoJob}] /\ wseq \in [Workers -> Nat]
  /\ rounds \in [Workers -> 0..(ReserveCount - 1)]
  /\ nonce \in [Workers -> Nat] /\ stray \in [Workers -> BOOLEAN]
  /\ drawn \in BOOLEAN /\ early \in BOOLEAN /\ hashed \in SUBSET Nat

\* The store ends its handler, and nothing is reset before it.
Storing ==
  /\ Follows(incoming, job)
  /\ todo \in {<<"store">>, <<"touch", "store">>, <<"hold", "touch", "store">>}
HandlerInv == Storing \/ \A i \in DOMAIN todo : todo[i] # "store"

\* Where a thread calls Nonce::next from; no thread is ahead of the event loop.
ThreadInv ==
  \A w \in Workers :
    /\ InCall(w) => pc[w] \in {"save", "round"}
    /\ pc[w] \in {"save", "round"} => wjob[w] # NoJob /\ rounds[w] = 0
    /\ wjob[w].blob <= job.blob

Mines(w) == Current(w) /\ wjob[w] # NoJob

\* Until a range is drawn for it nobody works on a template, unless early nothing is
\* drawn for it until its reset, and every range that is fetched for it is of the
\* current epoch.
ResetInv ==
  /\ ~drawn => hashed = {} /\ \A w \in Workers : Mines(w) => pc[w] = "save" /\ ~InCall(w)
  /\ ~early => /\ ResetDue => ~drawn
               /\ \A w \in Workers : Mines(w) /\ InCall(w) => call[w].epoch = epoch

\* A thread that has saved the current template and not been refused a range
\* since works through a range of its own, from Base(w).
Works(w) == Mines(w) /\ ~stray[w] /\ pc[w] # "save"
Base(w) == nonce[w] - (IF pc[w] = "round" THEN ReserveCount - 1 ELSE rounds[w])
OwnRange(w) == [counter |-> Base(w), epoch |-> epoch]

WorkInv ==
  ~early =>
    /\ \A w \in Workers : Works(w) => OwnRange(w) \in granted
    /\ \A v, w \in Workers : v # w /\ Works(v) /\ Works(w) => Base(v) # Base(w)
    /\ \A w \in Workers : Works(w) => \A n \in hashed : n < nonce[w] \/ n >= Base(w) + ReserveCount
    /\ \A n \in hashed : \E r \in granted : /\ r.epoch = epoch
                                            /\ r.counter <= n /\ n < r.counter + ReserveCount

\* Once a thread was refused a range for this template nobody gets another.
StrayInv ==
  ~early => \A w \in Workers :
    Mines(w) /\ stray[w] /\ pc[w] # "save" =>
      counter > Mask /\ (InCall(w) => Beyond(call[w].counter))

OnceInv == WorkerTypeOK /\ HandlerInv /\ ThreadInv /\ ResetInv /\ WorkInv /\ StrayInv

-----------------------------------------------------------------------------

\* Every step of the threads and the event loop is a step of the allocator, or
\* leaves it alone.
LEMMA AllocatorStep ==
  ASSUME [WorkerNext]_allVars
  PROVE  [Next]_vars
<1>1. CASE UNCHANGED vars
  BY <1>1
<1>2. CASE LoopCalls
  BY <1>2 DEF LoopCalls, Next
<1>3. CASE \E w \in Workers : Draw(w)
  BY <1>3 DEF Draw, Next
<1>4. CASE \E w \in Workers : InNext(w)
  BY <1>4 DEF InNext, DrawAgain, Drawn, Refused, Next, Finish
<1> QED
  BY <1>1, <1>2, <1>3, <1>4
  DEF WorkerNext, allVars, SetJob, SetEnabled, Store, DatasetReady, Touch, Build, Outer, Consume, Vm,
      NextRound

\* The threads and the event loop implement the allocator's specification, but
\* for its fairness.
THEOREM ImplementsAllocator == WorkerSpec => Init /\ [][Next]_vars
<1>1. WorkerInit => Init
  BY DEF WorkerInit
<1>2. [WorkerNext]_allVars => [Next]_vars
  BY AllocatorStep
<1> QED
  BY <1>1, <1>2, PTL DEF WorkerSpec

\* The handler of a job change resets only when it is told to.
LEMMA HandlerShape ==
  ASSUME enabled \in BOOLEAN, NEW again \in BOOLEAN
  PROVE  LET s == HandleJobChange(again)
         IN /\ s \in Seq({"store", "hold", "reset", "touch", "release"})
            /\ \A i \in DOMAIN s : s[i] # "store" /\ (~again => s[i] # "reset")
<1> DEFINE Rest == {"hold", "touch", "release"} \cup (IF again THEN {"reset"} ELSE {})
           t == HandleJobChange(again)
<1>1. t \in Seq(Rest)
  <2>1. /\ <<>> \in Seq(Rest) /\ <<"hold">> \in Seq(Rest)
        /\ <<"touch">> \in Seq(Rest) /\ <<"release">> \in Seq(Rest)
    OBVIOUS
  <2>2. again => <<"reset">> \in Seq(Rest)
    OBVIOUS
  <2>3. /\ (IF enabled THEN <<>> ELSE <<"hold">>) \in Seq(Rest)
        /\ (IF enabled THEN <<"release">> ELSE <<>>) \in Seq(Rest)
    <3> HIDE DEF Rest
    <3> QED BY <2>1, Zenon
  <2>4. (IF again THEN <<"reset">> ELSE <<>>) \in Seq(Rest)
    <3> HIDE DEF Rest
    <3> QED BY <2>1, <2>2, Zenon
  <2>5. \A a, b \in Seq(Rest) : a \o b \in Seq(Rest)
    OBVIOUS
  <2> QED
    <3> HIDE DEF Rest
    <3> QED BY <2>1, <2>3, <2>4, <2>5 DEF HandleJobChange
<1>2. \A i \in DOMAIN t : t[i] # "store" /\ (~again => t[i] # "reset")
  BY <1>1
<1>3. t \in Seq({"store", "hold", "reset", "touch", "release"})
  BY <1>1
<1> QED
  BY <1>2, <1>3

\* What is left of a handler after a step of it.
LEMMA TodoTail ==
  ASSUME NEW s \in Seq({"store", "hold", "reset", "touch", "release"}), s # <<>>
  PROVE  /\ Tail(s) \in Seq({"store", "hold", "reset", "touch", "release"})
         /\ \A i \in DOMAIN Tail(s) : \E j \in DOMAIN s : Tail(s)[i] = s[j]
<1>1. /\ Tail(s) \in Seq({"store", "hold", "reset", "touch", "release"})
      /\ Len(Tail(s)) = Len(s) - 1
      /\ \A i \in 1..Len(Tail(s)) : Tail(s)[i] = s[i + 1]
  OBVIOUS
<1>2. ASSUME NEW i \in DOMAIN Tail(s)
      PROVE  i + 1 \in DOMAIN s /\ Tail(s)[i] = s[i + 1]
  BY <1>1
<1> QED
  BY <1>1, <1>2

\* What a job's handler does before its store.
LEMMA SetJobHandler ==
  ASSUME NEW j, SetJob(j)
  PROVE  /\ todo' \in {<<"store">>, <<"hold", "touch", "store">>}
         /\ todo' \in Seq({"store", "hold", "reset", "touch", "release"})
<1>1. todo' = <<"store">> \/ todo' = <<"hold", "touch", "store">>
  BY Zenon DEF SetJob
<1>2. <<"store">> \in Seq({"store", "hold", "reset", "touch", "release"})
  OBVIOUS
<1>3. <<"hold", "touch", "store">> \in Seq({"store", "hold", "reset", "touch", "release"})
  OBVIOUS
<1> QED
  BY <1>1, <1>2, <1>3

\* The handler of a job that Store leaves.
LEMMA StoreHandler ==
  ASSUME WorkerTypeOK, HandlerInv, Store
  PROVE  /\ Follows(incoming, job)
         /\ todo' \in Seq({"store", "hold", "reset", "touch", "release"})
         /\ \A i \in DOMAIN todo' : /\ todo'[i] # "store"
                                    /\ incoming.blob = job.blob => todo'[i] # "reset"
<1>1. At("store")
  BY DEF Store
<1>2. Storing
  <2>1. 1 \in DOMAIN todo /\ todo[1] = "store"
    BY <1>1 DEF At, WorkerTypeOK
  <2> QED
    BY <2>1 DEF HandlerInv
<1> DEFINE again == incoming.blob # job.blob
<1>3. again \in BOOLEAN
  OBVIOUS
<1>4. todo' = <<>> \/ todo' = HandleJobChange(again)
  BY Zenon DEF Store
<1> HIDE DEF again
<1>5. /\ todo' \in Seq({"store", "hold", "reset", "touch", "release"})
      /\ \A i \in DOMAIN todo' : todo'[i] # "store" /\ (~again => todo'[i] # "reset")
  <2>1. CASE todo' = <<>>
    BY <2>1
  <2>2. CASE todo' = HandleJobChange(again)
    BY <1>3, <2>2, HandlerShape DEF WorkerTypeOK
  <2> QED
    BY <1>4, <2>1, <2>2
<1> QED
  BY <1>2, <1>5 DEF again, Storing

\* The handler that the notice of a dataset starts.
LEMMA ReadyHandler ==
  ASSUME WorkerTypeOK, DatasetReady
  PROVE  /\ todo' \in Seq({"store", "hold", "reset", "touch", "release"})
         /\ \A i \in DOMAIN todo' : todo'[i] # "store" /\ (todo'[i] = "reset" => ready /\ reset)
<1>1. CASE ready
  <2>1. todo' = HandleJobChange(reset)
    BY <1>1 DEF DatasetReady
  <2> QED
    BY <1>1, <2>1, HandlerShape DEF WorkerTypeOK
<1>2. CASE ~ready
  <2>1. todo' = <<>>
    BY <1>2 DEF DatasetReady
  <2> QED
    BY <2>1
<1> QED
  BY <1>1, <1>2

LEMMA ExceptType ==
  ASSUME NEW D, NEW S, NEW f \in [D -> S], NEW d \in D, NEW e \in S
  PROVE  [f EXCEPT ![d] = e] \in [D -> S]
OBVIOUS

\* What the head of the hashing loop does: leave it, end the range, or go on
\* to the next nonce.
LEMMA NextRoundCases ==
  ASSUME WorkerTypeOK, NEW w \in Workers, NextRound(w)
  PROVE  /\ pc[w] = "loop"
         /\ UNCHANGED <<vars, mainVars, ret, wjob, wseq, stray, drawn, early>>
         /\ \/ Goto(w, "tail") /\ UNCHANGED <<rounds, nonce, hashed>>
            \/ /\ wjob[w] # NoJob /\ LastRound(w) /\ Goto(w, "round")
               /\ rounds' = [rounds EXCEPT ![w] = 0] /\ UNCHANGED <<nonce, hashed>>
            \/ /\ wjob[w] # NoJob /\ ~LastRound(w) /\ ~stray[w] /\ UNCHANGED pc
               /\ rounds' = [rounds EXCEPT ![w] = @ + 1]
               /\ nonce' = [nonce EXCEPT ![w] = @ + 1] /\ Finished(w)
<1>1. rounds[w] \in 0..(ReserveCount - 1) /\ ReserveCount \in Nat \ {0}
  BY NonceAssumption DEF WorkerTypeOK
<1>2. LastRound(w) => (rounds[w] + 1) % ReserveCount = 0
  BY <1>1 DEF LastRound
<1>3. ~LastRound(w) => (rounds[w] + 1) % ReserveCount = rounds[w] + 1
  BY <1>1 DEF LastRound
<1>4. CASE wseq[w] # sequence \/ wjob[w] = NoJob
  BY <1>4, Zenon DEF NextRound
<1>5. CASE ~(wseq[w] # sequence \/ wjob[w] = NoJob)
  BY <1>2, <1>3, <1>5, Zenon DEF NextRound
<1> QED
  BY <1>4, <1>5

LEMMA WorkerTypeStep ==
  ASSUME TypeOK, WorkerTypeOK, HandlerInv, [WorkerNext]_allVars
  PROVE  WorkerTypeOK'
<1> USE NonceAssumption, WorkerJobAssumption DEF WorkerTypeOK, Goto, NoJob
<1>1. CASE \E j \in Jobs : SetJob(j)
  <2>1. PICK j \in Jobs : SetJob(j)
    BY <1>1
  <2>3. todo' \in Seq({"store", "hold", "reset", "touch", "release"})
    BY <2>1, SetJobHandler
  <2>4. incoming' = j /\ events' = events + 1
    BY <2>1 DEF SetJob, Event
  <2>5. UNCHANGED <<job, enabled, reset, ready, notice, sequence, threadVars, templateVars>>
    BY <2>1 DEF SetJob
  <2>6. UNCHANGED <<pc, ret, wjob, wseq, rounds, nonce, stray, drawn, early, hashed>>
    BY <2>5 DEF threadVars, templateVars
  <2>7. incoming' \in Jobs \cup {NoJob} /\ events' \in Nat
    BY <2>4
  <2> QED
    BY <2>3, <2>5, <2>6, <2>7, Zenon
<1>2. CASE \E value \in BOOLEAN : SetEnabled(value)
  BY <1>2 DEF SetEnabled, Event, threadVars, templateVars, vars
<1>3. ASSUME todo # <<>>, Continue
      PROVE  todo' \in Seq({"store", "hold", "reset", "touch", "release"})
  BY <1>3, TodoTail DEF Continue
<1>4. CASE Store
  <2>1. todo' \in Seq({"store", "hold", "reset", "touch", "release"})
    BY <1>4, StoreHandler
  <2>2. ready' \in BOOLEAN /\ reset' \in BOOLEAN
    <3> HIDE DEF NoJob, WorkerTypeOK
    <3>1. ready' = IsReady(incoming) /\ IsReady(incoming) \in BOOLEAN
      BY <1>4, Zenon DEF Store, IsReady
    <3>2. reset' = (incoming.blob # job.blob \/ ~IsReady(incoming))
      BY <1>4, Zenon DEF Store
    <3> QED
      BY <3>1, <3>2, Zenon
  <2>3. job' = incoming /\ incoming' = NoJob
    BY <1>4 DEF Store
  <2>4. drawn' \in BOOLEAN /\ early' \in BOOLEAN /\ hashed' \in SUBSET Nat
    BY <1>4 DEF Store, templateVars
  <2>5. UNCHANGED <<enabled, notice, sequence, events, threadVars>>
    BY <1>4 DEF Store
  <2> QED
    BY <2>1, <2>2, <2>3, <2>4, <2>5 DEF threadVars
<1>5. CASE Touch
  <2>1. todo' \in Seq({"store", "hold", "reset", "touch", "release"})
    BY <1>3, <1>5 DEF Touch, At
  <2>2. sequence' \in Nat
    BY <1>5 DEF Touch
  <2> QED
    BY <1>5, <2>1, <2>2, Zenon DEF Touch, threadVars, templateVars
<1>6. CASE LoopCalls
  BY <1>3, <1>6 DEF LoopCalls, At, threadVars, templateVars
<1>15. CASE DatasetReady
  <2>1. todo' \in Seq({"store", "hold", "reset", "touch", "release"})
    BY <1>15, ReadyHandler
  <2>2. early' \in BOOLEAN
    BY <1>15, Zenon DEF DatasetReady
  <2> QED
    BY <1>15, <2>1, <2>2 DEF DatasetReady, threadVars, vars
<1>16. CASE Build
  BY <1>16 DEF Build, threadVars, templateVars, vars
<1>17. CASE \E w \in Workers : Vm(w)
  <2>1. PICK w \in Workers : Vm(w)
    BY <1>17
  <2>2. pc' = [pc EXCEPT ![w] = ret[w]]
    BY <2>1 DEF Vm
  <2>3. UNCHANGED <<mainVars, wjob, wseq, rounds, nonce, stray, templateVars, ret>>
    BY <2>1 DEF Vm
  <2> QED
    BY <2>2, <2>3 DEF mainVars, templateVars
<1>7. CASE \E w \in Workers : Outer(w)
  <2>1. PICK w \in Workers : Outer(w)
    BY <1>7
  <2>2. UNCHANGED <<mainVars, wjob, wseq, rounds, nonce, stray, templateVars>>
    BY <2>1, Zenon DEF Outer
  <2>3. \E label \in {"sleep", "loop", "consume"} : pc' = [pc EXCEPT ![w] = label]
    <3>1. \/ Goto(w, IF paused THEN "sleep" ELSE "loop")
          \/ Goto(w, "sleep") \/ Goto(w, "consume")
      BY <2>1, Zenon DEF Outer, Consumes
    <3> QED
      BY <3>1
  <2>4. pc' \in [Workers -> {"outer", "sleep", "loop", "tail", "consume", "save", "vm", "round"}]
    BY <2>3
  <2>5. \/ ret' = ret
        \/ \E label \in {"loop", "outer"} : ret' = [ret EXCEPT ![w] = label]
    BY <2>1, Zenon DEF Outer, Consumes
  <2>6. ret' \in [Workers -> {"loop", "outer"}]
    BY <2>5
  <2> QED
    BY <2>2, <2>4, <2>6 DEF mainVars, templateVars
<1>8. CASE \E w \in Workers : Consume(w)
  <2>1. PICK w \in Workers : Consume(w)
    BY <1>8
  <2>2. CASE wjob[w] = job
    BY <2>1, <2>2 DEF Consume, mainVars, templateVars
  <2>3. CASE wjob[w] # job
    <3> HIDE DEF NoJob
    <3>1. wjob' \in [Workers -> Jobs \cup {NoJob}] /\ wseq' \in [Workers -> Nat]
      <4>1. wjob' = [wjob EXCEPT ![w] = job] /\ wseq' = [wseq EXCEPT ![w] = sequence]
        BY <2>1, <2>3, Zenon DEF Consume
      <4>2. job \in Jobs \cup {NoJob} /\ sequence \in Nat
        OBVIOUS
      <4> QED
        BY <4>1, <4>2, ExceptType
    <3>2. pc' \in [Workers -> {"outer", "sleep", "loop", "tail", "consume", "save", "vm", "round"}]
      <4>1. pc' = [pc EXCEPT ![w] = "save"]
        BY <2>1, <2>3, Zenon DEF Consume
      <4> QED
        BY <4>1
    <3>3. rounds' \in [Workers -> 0..(ReserveCount - 1)] /\ nonce' \in [Workers -> Nat]
      <4>1. 0 \in 0..(ReserveCount - 1)
        OBVIOUS
      <4>2. rounds' = [rounds EXCEPT ![w] = 0] /\ nonce' = [nonce EXCEPT ![w] = 0]
        BY <2>1, <2>3, Zenon DEF Consume
      <4> QED
        BY <4>1, <4>2, ExceptType
    <3>4. UNCHANGED <<mainVars, ret, stray, templateVars>>
      BY <2>1 DEF Consume
    <3> QED
      BY <3>1, <3>2, <3>3, <3>4 DEF mainVars, templateVars
  <2> QED
    BY <2>2, <2>3
<1>9. CASE \E w \in Workers : Draw(w)
  <2>1. drawn' \in BOOLEAN /\ early' \in BOOLEAN
    BY <1>9, Zenon DEF Draw
  <2>2. PICK w \in Workers : Draw(w)
    BY <1>9
  <2>3. UNCHANGED <<mainVars, threadVars, hashed>>
    BY <2>2 DEF Draw
  <2> QED
    BY <2>1, <2>3 DEF mainVars, threadVars
<1>10. CASE \E w \in Workers : NextRound(w)
  <2>1. PICK w \in Workers : NextRound(w)
    BY <1>10
  <2>2. UNCHANGED <<mainVars, ret, wjob, wseq, stray, drawn, early>>
    BY <2>1 DEF NextRound
  <2> HIDE DEF NoJob
  <2>3. pc' \in [Workers -> {"outer", "sleep", "loop", "tail", "consume", "save", "vm", "round"}]
    BY <2>1, NextRoundCases
  <2>0. /\ \/ UNCHANGED rounds
           \/ rounds' = [rounds EXCEPT ![w] = 0]
           \/ ~LastRound(w) /\ rounds' = [rounds EXCEPT ![w] = @ + 1]
        /\ UNCHANGED nonce \/ nonce' = [nonce EXCEPT ![w] = @ + 1]
    <3> HIDE DEF WorkerTypeOK, Goto
    <3> QED
      BY <2>1, NextRoundCases, Zenon
  <2>4. nonce' \in [Workers -> Nat]
    <3>1. nonce \in [Workers -> Nat] /\ nonce[w] + 1 \in Nat
      OBVIOUS
    <3>2. [nonce EXCEPT ![w] = @ + 1] \in [Workers -> Nat]
      BY <3>1, ExceptType
    <3> QED
      BY <2>0, <3>1, <3>2, Zenon
  <2>5. rounds' \in [Workers -> 0..(ReserveCount - 1)]
    <3>1. \/ UNCHANGED rounds
          \/ rounds' = [rounds EXCEPT ![w] = 0]
          \/ rounds[w] # ReserveCount - 1 /\ rounds' = [rounds EXCEPT ![w] = @ + 1]
      BY <2>0 DEF LastRound
    <3>2. rounds[w] \in 0..(ReserveCount - 1) /\ 0 \in 0..(ReserveCount - 1)
      OBVIOUS
    <3>3. rounds[w] # ReserveCount - 1 => rounds[w] + 1 \in 0..(ReserveCount - 1)
      BY <3>2
    <3>4. rounds \in [Workers -> 0..(ReserveCount - 1)]
      OBVIOUS
    <3>5. \A e \in 0..(ReserveCount - 1) : [rounds EXCEPT ![w] = e] \in [Workers -> 0..(ReserveCount - 1)]
      BY <3>4, ExceptType
    <3> QED
      BY <3>1, <3>2, <3>3, <3>4, <3>5, Zenon
  <2>6. hashed' \in SUBSET Nat
    <3>1. nonce[w] \in Nat
      OBVIOUS
    <3>2. hashed' = hashed \/ hashed' = hashed \cup {nonce[w]}
      BY <2>1, NextRoundCases, Zenon DEF Finished
    <3> QED
      BY <3>1, <3>2
  <2> QED
    BY <2>2, <2>3, <2>4, <2>5, <2>6 DEF mainVars
<1>11. CASE \E w \in Workers : DrawAgain(w)
  BY <1>11 DEF DrawAgain, mainVars, threadVars, templateVars
<1>12. CASE \E w \in Workers : Drawn(w)
  <2>1. PICK w \in Workers : Drawn(w)
    BY <1>12
  <2>2. call[w].counter \in Nat
    BY <2>1 DEF Drawn, Grant, TakeLast, InCall, TypeOK
  <2>3. hashed' \in SUBSET Nat
    <3>1. nonce[w] \in Nat
      OBVIOUS
    <3>2. hashed' = hashed \/ hashed' = hashed \cup {nonce[w]}
      BY <2>1, Zenon DEF Drawn, Finished
    <3> QED
      BY <3>1, <3>2
  <2>4. pc' \in [Workers -> {"outer", "sleep", "loop", "tail", "consume", "save", "vm", "round"}]
    <3>1. pc' = [pc EXCEPT ![w] = "vm"] \/ pc' = [pc EXCEPT ![w] = "loop"]
      BY <2>1, Zenon DEF Drawn
    <3> QED
      BY <3>1
  <2> QED
    BY <2>1, <2>2, <2>3, <2>4 DEF Drawn, mainVars
<1>13. CASE \E w \in Workers : Refused(w)
  <2>1. PICK w \in Workers : Refused(w)
    BY <1>13
  <2>2. /\ UNCHANGED <<mainVars, ret, wjob, wseq, rounds, nonce, templateVars>>
        /\ stray' = [stray EXCEPT ![w] = TRUE]
    BY <2>1 DEF Refused
  <2>3. \E label \in {"vm", "tail"} : pc' = [pc EXCEPT ![w] = label]
    BY <2>1, Zenon DEF Refused
  <2>4. pc' \in [Workers -> {"outer", "sleep", "loop", "tail", "consume", "save", "vm", "round"}]
    BY <2>3
  <2> QED
    BY <2>2, <2>4 DEF mainVars, templateVars
<1>14. CASE UNCHANGED allVars
  BY <1>14 DEF allVars, mainVars, threadVars, templateVars
<1> QED
  BY <1>1, <1>2, <1>4, <1>5, <1>6, <1>7, <1>8, <1>9, <1>10, <1>11, <1>12, <1>13, <1>14, <1>15,
     <1>16, <1>17
  DEF WorkerNext, InNext

LEMMA HandlerStep ==
  ASSUME WorkerTypeOK, HandlerInv, [WorkerNext]_allVars
  PROVE  HandlerInv'
<1> USE DEF WorkerTypeOK
<1>1. CASE \E j \in Jobs : SetJob(j)
  <2>1. PICK j \in Jobs : SetJob(j)
    BY <1>1
  <2>2. todo' \in {<<"store">>, <<"hold", "touch", "store">>} /\ incoming' = j /\ job' = job
    BY <2>1, SetJobHandler DEF SetJob
  <2>3. Follows(j, job)
    BY <2>1 DEF SetJob
  <2> QED
    BY <2>2, <2>3 DEF HandlerInv, Storing, Follows
<1>2. CASE \E value \in BOOLEAN : SetEnabled(value)
  BY <1>2 DEF SetEnabled, HandlerInv
<1>3. CASE Store
  BY <1>3, StoreHandler DEF HandlerInv
<1>4. CASE DatasetReady
  BY <1>4, ReadyHandler DEF HandlerInv
<1>5. ASSUME todo # <<>>, Head(todo) # "store", Continue, UNCHANGED <<incoming, job>>
      PROVE  HandlerInv'
  <2>1. CASE Storing
    <3>1. todo' = Tail(todo) /\ (todo = <<"touch", "store">> \/ todo = <<"hold", "touch", "store">>)
      BY <1>5, <2>1 DEF Storing, Continue
    <3>2. /\ Tail(<<"touch", "store">>) = <<"store">>
          /\ Tail(<<"hold", "touch", "store">>) = <<"touch", "store">>
      OBVIOUS
    <3>3. todo' \in {<<"store">>, <<"touch", "store">>}
      BY <3>1, <3>2, Zenon
    <3> QED
      BY <1>5, <2>1, <3>3 DEF HandlerInv, Storing, Follows
  <2>2. CASE \A i \in DOMAIN todo : todo[i] # "store"
    BY <1>5, <2>2, TodoTail DEF HandlerInv, Continue
  <2> QED
    BY <2>1, <2>2 DEF HandlerInv
<1>6. CASE Touch \/ LoopCalls
  BY <1>5, <1>6 DEF Touch, LoopCalls, At
<1>7. CASE UNCHANGED <<todo, incoming, job>>
  BY <1>7 DEF HandlerInv, Storing, Follows
<1> QED
  BY <1>1, <1>2, <1>3, <1>4, <1>6, <1>7
  DEF WorkerNext, InNext, allVars, mainVars, Build, Outer, Consume, Vm, Draw, NextRound, DrawAgain, Drawn,
      Refused

LEMMA ThreadStep ==
  ASSUME TypeOK, WorkerTypeOK, HandlerInv, ThreadInv, [WorkerNext]_allVars
  PROVE  ThreadInv'
<1> USE NonceAssumption, WorkerJobAssumption DEF TypeOK, WorkerTypeOK, ThreadInv, Goto, InCall, NoJob
<1>1. CASE \E j \in Jobs : SetJob(j)
  BY <1>1 DEF SetJob, threadVars, vars
<1>2. CASE \E value \in BOOLEAN : SetEnabled(value)
  BY <1>2 DEF SetEnabled, threadVars, vars
<1>4. CASE Store
  <2>2. job.blob \in Nat /\ job'.blob \in Nat /\ \A w \in Workers : wjob[w].blob \in Nat
    BY <1>4 DEF Store
  <2>1. job.blob <= job'.blob
    <3>1. Follows(incoming, job) /\ job' = incoming
      BY <1>4, StoreHandler DEF Store
    <3>2. incoming.blob = job.blob \/ incoming.blob = job.blob + 1
      BY <3>1 DEF Follows
    <3> HIDE DEF WorkerTypeOK, ThreadInv
    <3> QED
      BY <2>2, <3>1, <3>2
  <2> QED
    BY <1>4, <2>1, <2>2 DEF Store, threadVars, vars
<1>5. CASE Touch
  BY <1>5 DEF Touch, threadVars, vars
<1>15. CASE DatasetReady \/ Build
  BY <1>15 DEF DatasetReady, Build, threadVars, vars
<1>16. CASE \E w \in Workers : Vm(w)
  <2>1. PICK w \in Workers : Vm(w)
    BY <1>16
  <2>2. UNCHANGED <<call, job, wjob, rounds>> /\ pc[w] = "vm" /\ pc' = [pc EXCEPT ![w] = ret[w]]
    BY <2>1 DEF Vm, mainVars, vars
  <2>3. pc'[w] \notin {"save", "round"} /\ ~InCall(w)
    BY <2>2
  <2>4. \A v \in Workers \ {w} : pc'[v] = pc[v]
    BY <2>2
  <2> QED
    BY <2>2, <2>3, <2>4
<1>6. CASE LoopCalls
  BY <1>6 DEF LoopCalls, threadVars, Reset, Pause
<1>7. CASE \E w \in Workers : Outer(w)
  <2>1. PICK w \in Workers : Outer(w)
    BY <1>7
  <2>2. UNCHANGED <<call, job, wjob, rounds>> /\ pc[w] \in {"outer", "sleep", "tail"}
    BY <2>1 DEF Outer, mainVars, vars
  <2>3. \E label \in {"sleep", "loop", "consume"} : pc' = [pc EXCEPT ![w] = label]
    BY <2>1, Zenon DEF Outer, Consumes
  <2>4. pc'[w] \notin {"save", "round"} /\ ~InCall(w) /\ \A v \in Workers \ {w} : pc'[v] = pc[v]
    BY <2>2, <2>3
  <2> QED
    BY <2>2, <2>4
<1>8. CASE \E w \in Workers : Consume(w)
  <2>1. PICK w \in Workers : Consume(w)
    BY <1>8
  <2>2. job.blob \in Nat /\ (job.blob = 0 => job = NoJob)
    OBVIOUS
  <2>3. wjob[w].blob \in Nat /\ (wjob[w].blob = 0 => wjob[w] = NoJob)
    OBVIOUS
  <2>4. wjob[w] # job => job # NoJob
    BY <2>2, <2>3
  <2> HIDE DEF NoJob
  <2>5. \A v \in Workers \ {w} : pc'[v] = pc[v] /\ wjob'[v] = wjob[v] /\ rounds'[v] = rounds[v]
    BY <2>1 DEF Consume
  <2>6. UNCHANGED <<call, job>> /\ ~InCall(w)
    BY <2>1 DEF Consume, vars, mainVars
  <2>7. CASE wjob[w] = job
    <3>1. pc'[w] = "vm" /\ wjob' = wjob
      BY <2>1, <2>7 DEF Consume
    <3> QED
      BY <2>5, <2>6, <3>1
  <2>8. CASE wjob[w] # job
    <3>1. pc'[w] = "save" /\ wjob'[w] = job /\ rounds'[w] = 0
      BY <2>1, <2>8 DEF Consume
    <3>2. /\ InCall(w)' => pc'[w] \in {"save", "round"}
          /\ wjob'[w] # NoJob /\ rounds'[w] = 0 /\ wjob'[w].blob <= job'.blob
      BY <2>2, <2>4, <2>6, <2>8, <3>1
    <3>3. \A v \in Workers \ {w} :
             /\ InCall(v)' => pc'[v] \in {"save", "round"}
             /\ pc'[v] \in {"save", "round"} => wjob'[v] # NoJob /\ rounds'[v] = 0
             /\ wjob'[v].blob <= job'.blob
      BY <2>5, <2>6
    <3> QED
      BY <3>2, <3>3
  <2> QED
    BY <2>7, <2>8
<1>9. CASE \E w \in Workers : Draw(w)
  <2>1. PICK w \in Workers : Draw(w)
    BY <1>9
  <2>2. UNCHANGED <<pc, wjob, rounds, job>> /\ pc[w] \in {"save", "round"}
    BY <2>1 DEF Draw, mainVars, threadVars
  <2>3. \A v \in Workers \ {w} : call'[v] = call[v]
    BY <2>1 DEF Draw, Fetch, FetchAdd
  <2> QED
    BY <2>2, <2>3
<1>10. CASE \E w \in Workers : NextRound(w)
  <2>1. PICK w \in Workers : NextRound(w)
    BY <1>10
  <2>2. \A v \in Workers \ {w} : pc'[v] = pc[v] /\ rounds'[v] = rounds[v]
    BY <2>1 DEF NextRound
  <2>3. UNCHANGED <<call, job, wjob>> /\ ~InCall(w)
    BY <2>1 DEF NextRound, vars, mainVars
  <2>4. pc'[w] # "save" /\ (pc'[w] = "round" => wjob[w] # NoJob /\ rounds'[w] = 0)
    <3> HIDE DEF NoJob
    <3> QED
      BY <2>1, NextRoundCases
  <2> QED
    BY <2>2, <2>3, <2>4
<1>11. CASE \E w \in Workers : DrawAgain(w)
  BY <1>11 DEF DrawAgain, Refetch, FetchAdd, mainVars, threadVars
<1>12. CASE \E w \in Workers : Drawn(w)
  <2>1. PICK w \in Workers : Drawn(w)
    BY <1>12
  <2>2. \A v \in Workers \ {w} : pc'[v] = pc[v] /\ call'[v] = call[v]
    BY <2>1 DEF Drawn, Grant, TakeLast, Return
  <2>3. UNCHANGED <<rounds, job, wjob>> /\ ~InCall(w)' /\ pc'[w] \in {"loop", "vm"}
    BY <2>1 DEF Drawn, Grant, TakeLast, Return, mainVars
  <2> QED
    BY <2>2, <2>3
<1>13. CASE \E w \in Workers : Refused(w)
  <2>1. PICK w \in Workers : Refused(w)
    BY <1>13
  <2>2. \A v \in Workers \ {w} : pc'[v] = pc[v] /\ call'[v] = call[v]
    BY <2>1 DEF Refused, Refuse, TakeLast, Return
  <2>3. UNCHANGED <<rounds, job, wjob>> /\ ~InCall(w)' /\ pc'[w] \in {"vm", "tail"}
    BY <2>1 DEF Refused, Refuse, TakeLast, Return, mainVars
  <2> QED
    BY <2>2, <2>3
<1>14. CASE UNCHANGED allVars
  BY <1>14 DEF allVars, mainVars, threadVars, vars
<1> QED
  BY <1>1, <1>2, <1>4, <1>5, <1>6, <1>7, <1>8, <1>9, <1>10, <1>11, <1>12, <1>13, <1>14, <1>15, <1>16
  DEF WorkerNext, InNext

-----------------------------------------------------------------------------

OnceCore == ResetInv /\ WorkInv /\ StrayInv

\* What the invariants say of a thread depends on its own variables, the job and
\* the epoch.
ThreadOf(w) == <<pc[w], wjob[w], rounds[w], nonce[w], stray[w], call[w]>>

LEMMA SameThread ==
  ASSUME NEW w \in Workers, UNCHANGED <<job, epoch, ThreadOf(w)>>
  PROVE  /\ Mines(w)' <=> Mines(w)
         /\ Works(w)' <=> Works(w)
         /\ UNCHANGED <<Base(w), OwnRange(w)>>
         /\ InCall(w)' <=> InCall(w)
<1>1. UNCHANGED <<job, epoch, pc[w], wjob[w], rounds[w], nonce[w], stray[w], call[w]>>
  BY DEF ThreadOf
<1>2. (Mines(w)' <=> Mines(w)) /\ (InCall(w)' <=> InCall(w))
  BY <1>1 DEF Mines, Current, InCall
<1>3. Works(w)' <=> Works(w)
  BY <1>1, <1>2 DEF Works
<1>4. UNCHANGED Base(w)
  BY <1>1 DEF Base
<1> QED
  BY <1>1, <1>2, <1>3, <1>4 DEF OwnRange

\* A step of the event loop that leaves the job, the counter and the threads alone.
LEMMA QuietStep ==
  ASSUME OnceCore, UNCHANGED <<counter, epoch, granted, call, job, threadVars, drawn, hashed>>,
         ~early' => ~early /\ (ResetDue' => ResetDue \/ ~drawn)
  PROVE  OnceCore'
<1>1. \A w \in Workers : UNCHANGED ThreadOf(w)
  BY DEF threadVars, ThreadOf
<1>2. /\ \A w \in Workers : /\ Mines(w)' <=> Mines(w)
                            /\ Works(w)' <=> Works(w)
                            /\ UNCHANGED <<Base(w), OwnRange(w)>>
                            /\ InCall(w)' <=> InCall(w)
      /\ UNCHANGED <<drawn, hashed, pc, stray, nonce>>
  BY <1>1, SameThread DEF threadVars
<1>3. ResetInv'
  BY <1>2 DEF OnceCore, ResetInv
<1>4. WorkInv'
  BY <1>2 DEF OnceCore, WorkInv
<1>5. StrayInv'
  BY <1>2 DEF OnceCore, StrayInv, Beyond
<1> QED
  BY <1>3, <1>4, <1>5 DEF OnceCore

\* The handler forgets its first step: what was due after it is still due.
LEMMA StillDue ==
  ASSUME WorkerTypeOK, todo # <<>>, Continue, ResetDue'
  PROVE  ResetDue
<1>1. \A i \in DOMAIN todo' : \E j \in DOMAIN todo : todo'[i] = todo[j]
  BY TodoTail DEF WorkerTypeOK, Continue
<1> QED
  BY <1>1 DEF ResetDue

\* Reset: nobody has got anything for the new template yet.
LEMMA OnceReset ==
  ASSUME WorkerTypeOK, OnceCore, LoopCalls, At("reset"), Reset
  PROVE  OnceCore'
<1>1. ResetDue
  <2>1. todo # <<>> /\ todo[1] = "reset" /\ 1 \in DOMAIN todo
    BY DEF At, WorkerTypeOK
  <2> QED
    BY <2>1 DEF ResetDue
<1>2. UNCHANGED <<call, job, threadVars, templateVars, granted>>
  BY DEF LoopCalls, Reset
<1>3. UNCHANGED <<drawn, early, hashed, pc, stray>>
  BY <1>2 DEF threadVars, templateVars
<1>4. \A w \in Workers : (Mines(w)' <=> Mines(w)) /\ (InCall(w)' <=> InCall(w))
  BY <1>2 DEF Mines, Current, InCall, threadVars
<1>5. ~early => /\ ~drawn /\ hashed = {}
                /\ \A w \in Workers : Mines(w) => pc[w] = "save" /\ ~InCall(w)
  BY <1>1 DEF OnceCore, ResetInv
<1>6. \A w \in Workers : Works(w)' => Mines(w)' /\ pc'[w] # "save"
  BY DEF Works
<1>7. ResetInv'
  BY <1>3, <1>4, <1>5 DEF OnceCore, ResetInv
<1>8. WorkInv'
  BY <1>3, <1>4, <1>5, <1>6 DEF WorkInv
<1>9. StrayInv'
  BY <1>3, <1>4, <1>5 DEF StrayInv
<1> QED
  BY <1>7, <1>8, <1>9 DEF OnceCore

\* Store: nobody works on the new template, or the template is the same and the
\* counter is not reset.
LEMMA OnceStore ==
  ASSUME WorkerTypeOK, HandlerInv, ThreadInv, OnceCore, Store
  PROVE  OnceCore'
<1>1. UNCHANGED <<vars, pc, ret, wjob, wseq, rounds, nonce, stray>> /\ job' = incoming
  BY DEF Store, threadVars
<1>2. CASE incoming.blob # job.blob
  <2>1. \A w \in Workers : ~Mines(w)'
    <3>1. Follows(incoming, job)
      BY StoreHandler
    <3>2. job.blob \in Nat /\ incoming.blob \in Nat /\ \A w \in Workers : wjob[w].blob \in Nat
      BY WorkerJobAssumption DEF WorkerTypeOK, NoJob
    <3>3. job.blob < incoming.blob
      BY <1>2, <3>1, <3>2 DEF Follows
    <3> QED
      BY <1>1, <3>2, <3>3 DEF Mines, Current, ThreadInv
  <2>2. hashed' = {} /\ ~drawn' /\ ~early'
    BY <1>2 DEF Store
  <2>3. \A w \in Workers : ~Works(w)'
    BY <2>1 DEF Works
  <2> QED
    BY <2>1, <2>2, <2>3 DEF OnceCore, ResetInv, WorkInv, StrayInv
<1>3. CASE incoming.blob = job.blob
  <2>1. \A i \in DOMAIN todo' : todo'[i] # "reset"
    BY <1>3, StoreHandler
  <2>2. ~ResetDue'
    BY <2>1 DEF ResetDue
  <2>3. UNCHANGED <<drawn, early, hashed, counter, epoch, granted, pc, stray, nonce, call, job.blob>>
    BY <1>1, <1>3 DEF Store, templateVars, vars
  <2>4. \A w \in Workers : (Mines(w)' <=> Mines(w)) /\ (InCall(w)' <=> InCall(w))
    BY <1>1, <2>3 DEF Mines, Current, InCall, vars
  <2>5. \A w \in Workers : (Works(w)' <=> Works(w)) /\ UNCHANGED <<Base(w), OwnRange(w)>>
    BY <1>1, <2>3, <2>4 DEF Works, Base, OwnRange
  <2>6. ResetInv'
    BY <2>2, <2>3, <2>4 DEF OnceCore, ResetInv
  <2>7. WorkInv'
    BY <2>3, <2>5 DEF OnceCore, WorkInv
  <2>8. StrayInv'
    BY <2>3, <2>4 DEF OnceCore, StrayInv, Beyond
  <2> QED
    BY <2>6, <2>7, <2>8 DEF OnceCore
<1> QED
  BY <1>2, <1>3

\* A thread moves between the places where it neither hashes nor draws.
Ambles(w) ==
  /\ ~InCall(w)
  /\ pc[w] \notin {"save", "round"} /\ pc'[w] \notin {"save", "round"}
  /\ \A v \in Workers \ {w} : pc'[v] = pc[v]
  /\ UNCHANGED <<vars, job, todo, wjob, rounds, nonce, stray, templateVars>>

LEMMA OnceAmble ==
  ASSUME OnceCore, NEW w \in Workers, Ambles(w)
  PROVE  OnceCore'
<1>1. UNCHANGED <<counter, epoch, granted, call, job, todo, wjob, rounds, nonce, stray, drawn, early, hashed>>
  BY DEF Ambles, templateVars, vars
<1>2. /\ ResetDue' <=> ResetDue
      /\ \A v \in Workers : (Mines(v)' <=> Mines(v)) /\ (InCall(v)' <=> InCall(v))
  BY <1>1 DEF ResetDue, Mines, Current, InCall
<1>3. \A v \in Workers : pc'[v] = pc[v] \/ v = w
  BY DEF Ambles
<1>4. \A v \in Workers : (pc'[v] = "save" <=> pc[v] = "save") /\ (pc'[v] = "round" <=> pc[v] = "round")
  BY <1>3 DEF Ambles
<1>5. \A v \in Workers : (Works(v)' <=> Works(v)) /\ UNCHANGED <<Base(v), OwnRange(v)>>
  BY <1>1, <1>2, <1>4 DEF Works, Base, OwnRange
<1>6. ResetInv'
  BY <1>1, <1>2, <1>4 DEF OnceCore, ResetInv
<1>7. WorkInv'
  BY <1>1, <1>5 DEF OnceCore, WorkInv
<1>8. StrayInv'
  BY <1>1, <1>2, <1>4 DEF OnceCore, StrayInv, Beyond
<1> QED
  BY <1>6, <1>7, <1>8 DEF OnceCore

\* A thread that takes over another job has no range for it yet.
LEMMA OnceConsume ==
  ASSUME TypeOK, WorkerTypeOK, ThreadInv, OnceCore, NEW w \in Workers, Consume(w)
  PROVE  OnceCore'
<1>1. ~InCall(w) /\ pc[w] = "consume"
  BY DEF ThreadInv, Consume
<1>2. CASE wjob[w] = job
  <2>1. pc'[w] = "vm" /\ \A v \in Workers \ {w} : pc'[v] = pc[v]
    BY <1>2 DEF Consume, Goto, WorkerTypeOK
  <2>2. Ambles(w)
    BY <1>1, <1>2, <2>1 DEF Consume, Ambles, mainVars
  <2> QED
    BY <2>2, OnceAmble
<1>3. CASE wjob[w] # job
  <2>1. UNCHANGED <<counter, epoch, granted, call, job, todo, stray, drawn, early, hashed>>
    BY DEF Consume, vars, mainVars, templateVars
  <2>2. pc'[w] = "save" /\ ~InCall(w)' /\ (ResetDue' <=> ResetDue)
    BY <1>1, <1>3, <2>1 DEF Consume, Goto, WorkerTypeOK, InCall, ResetDue
  <2>3. \A v \in Workers \ {w} : UNCHANGED ThreadOf(v)
    BY <1>3, <2>1 DEF Consume, Goto, ThreadOf, WorkerTypeOK
  <2>4. \A v \in Workers \ {w} : /\ Mines(v)' <=> Mines(v)
                                 /\ Works(v)' <=> Works(v)
                                 /\ UNCHANGED <<Base(v), OwnRange(v)>>
                                 /\ InCall(v)' <=> InCall(v)
    BY <2>1, <2>3, SameThread
  <2>5. ~Works(w)' /\ \A v \in Workers \ {w} : UNCHANGED <<pc[v], nonce[v]>>
    BY <2>2, <2>3 DEF Works, ThreadOf
  <2>6. ResetInv'
    BY <2>1, <2>2, <2>4, <2>5 DEF OnceCore, ResetInv
  <2>7. WorkInv'
    BY <2>1, <2>4, <2>5 DEF OnceCore, WorkInv
  <2>8. StrayInv'
    BY <2>1, <2>2, <2>4, <2>5 DEF OnceCore, StrayInv, Beyond
  <2> QED
    BY <2>6, <2>7, <2>8 DEF OnceCore
<1> QED
  BY <1>2, <1>3

\* A thread fetches a range, at first or again: it is of the current epoch, and past
\* the mask when one was refused before.
LEMMA OnceFetch ==
  ASSUME TypeOK, OnceCore, NEW w \in Workers, FetchAdd(w),
         UNCHANGED <<epoch, granted, job, todo, pc, wjob, rounds, nonce, stray, hashed>>,
         drawn' \in BOOLEAN, drawn' => drawn \/ Mines(w), drawn \/ Mines(w) => drawn',
         ~early' => ~early /\ (Mines(w) => ~ResetDue)
  PROVE  OnceCore'
<1>1. call'[w] = [counter |-> counter, epoch |-> epoch] /\ counter' = counter + ReserveCount
  BY DEF FetchAdd, TypeOK
<1>2. \A v \in Workers \ {w} : call'[v] = call[v]
  BY DEF FetchAdd, TypeOK
<1>3. /\ ResetDue' <=> ResetDue
      /\ \A v \in Workers : /\ Mines(v)' <=> Mines(v)
                            /\ Works(v)' <=> Works(v)
                            /\ UNCHANGED <<Base(v), OwnRange(v)>>
  BY DEF ResetDue, Mines, Current, Works, Base, OwnRange
<1>4. \A v \in Workers \ {w} : InCall(v)' <=> InCall(v)
  BY <1>2 DEF InCall
<1>5. ResetInv'
  BY <1>1, <1>2, <1>3, <1>4 DEF OnceCore, ResetInv
<1>6. WorkInv'
  BY <1>3 DEF OnceCore, WorkInv
<1>7. StrayInv'
  <2>1. counter > Mask => counter' > Mask /\ Beyond(call'[w].counter)
    BY <1>1, NonceAssumption DEF Beyond, TypeOK
  <2>2. Beyond(call'[w].counter) <=> Mask < call'[w].counter
    BY DEF Beyond
  <2>3. \A v \in Workers \ {w} : Beyond(call[v].counter) => Mask < call'[v].counter
    BY <1>2 DEF Beyond
  <2> QED
    BY <1>1, <1>2, <1>3, <1>4, <2>1, <2>2, <2>3 DEF OnceCore, StrayInv, Beyond
<1> QED
  BY <1>5, <1>6, <1>7 DEF OnceCore

LEMMA OnceDraw ==
  ASSUME TypeOK, WorkerTypeOK, ThreadInv, OnceCore, NEW w \in Workers, Draw(w)
  PROVE  OnceCore'
<1>1. FetchAdd(w) /\ UNCHANGED <<epoch, granted, job, todo, pc, wjob, rounds, nonce, stray, hashed>>
  BY DEF Draw, Fetch, mainVars, threadVars
<1>2. Mines(w) <=> Current(w)
  BY DEF Draw, Mines, ThreadInv
<1>3. ~early' => ~early /\ (Mines(w) => ~ResetDue)
  BY Zenon DEF Draw, Mines
<1>4. drawn' \in BOOLEAN /\ (drawn' => drawn \/ Mines(w)) /\ (drawn \/ Mines(w) => drawn')
  BY <1>2, Zenon DEF Draw
<1> QED
  BY <1>1, <1>3, <1>4, OnceFetch

LEMMA OnceDrawAgain ==
  ASSUME TypeOK, WorkerTypeOK, OnceCore, NEW w \in Workers, DrawAgain(w)
  PROVE  OnceCore'
<1>1. /\ FetchAdd(w) /\ InCall(w)
      /\ UNCHANGED <<epoch, granted, job, todo, pc, wjob, rounds, nonce, stray, hashed, drawn, early>>
  BY DEF DrawAgain, Refetch, mainVars, threadVars, templateVars
<1>2. Mines(w) => drawn
  BY <1>1 DEF OnceCore, ResetInv
<1>3. ~early => (Mines(w) => ~ResetDue)
  BY <1>1, <1>2 DEF OnceCore, ResetInv
<1> QED
  BY <1>1, <1>2, <1>3, OnceFetch DEF WorkerTypeOK

\* A thread at work is on a nonce of its own range.
LEMMA OnNonce ==
  ASSUME TypeOK, WorkerTypeOK, OnceCore, ~early, NEW w \in Workers, Works(w)
  PROVE  /\ Base(w) \in Nat /\ nonce[w] \in Nat
         /\ Base(w) <= nonce[w] /\ nonce[w] < Base(w) + ReserveCount
         /\ OwnRange(w) \in granted
<1>1. OwnRange(w) \in granted
  BY DEF OnceCore, WorkInv
<1>2. Base(w) \in Nat
  BY <1>1 DEF TypeOK, OwnRange
<1>3. nonce[w] \in Nat /\ rounds[w] \in 0..(ReserveCount - 1) /\ ReserveCount \in Nat \ {0}
  BY NonceAssumption DEF WorkerTypeOK
<1> QED
  BY <1>1, <1>2, <1>3 DEF Base

\* Two threads at work are on ranges that share no nonce.
LEMMA OwnApart ==
  ASSUME TypeOK, RangesDisjoint, OnceCore, ~early,
         NEW v \in Workers, NEW w \in Workers, v # w, Works(v), Works(w)
  PROVE  Apart(Base(v), Base(w))
<1>1. OwnRange(v) \in granted /\ OwnRange(w) \in granted /\ Base(v) # Base(w)
  BY DEF OnceCore, WorkInv
<1> QED
  BY <1>1 DEF RangesDisjoint, SameEpoch, OwnRange

\* A thread at work finishes the hash of its nonce: nobody else has that one.
LEMMA OnceFinished ==
  ASSUME TypeOK, WorkerTypeOK, RangesDisjoint, OnceCore, ~early, NEW w \in Workers, Works(w)
  PROVE  /\ nonce[w] \notin hashed
         /\ \A v \in Workers \ {w} : Works(v) => \A n \in hashed \cup {nonce[w]} :
                                       n < nonce[v] \/ n >= Base(v) + ReserveCount
         /\ \A n \in hashed \cup {nonce[w]} : \E r \in granted :
              r.epoch = epoch /\ r.counter <= n /\ n < r.counter + ReserveCount
<1>1. /\ Base(w) \in Nat /\ nonce[w] \in Nat
      /\ Base(w) <= nonce[w] /\ nonce[w] < Base(w) + ReserveCount
      /\ OwnRange(w) \in granted
  BY OnNonce
<1>2. \A v \in Workers : Works(v) => \A n \in hashed : n < nonce[v] \/ n >= Base(v) + ReserveCount
  BY DEF OnceCore, WorkInv
<1>3. nonce[w] \notin hashed
  <2>1. nonce[w] \in hashed => nonce[w] < nonce[w] \/ nonce[w] >= Base(w) + ReserveCount
    BY <1>2
  <2>2. ~(nonce[w] < nonce[w]) /\ ~(nonce[w] >= Base(w) + ReserveCount)
    BY <1>1, NonceAssumption
  <2> QED
    BY <2>1, <2>2
<1>4. ASSUME NEW v \in Workers \ {w}, Works(v)
      PROVE  nonce[w] < nonce[v] \/ nonce[w] >= Base(v) + ReserveCount
  <2>1. Base(v) \in Nat /\ nonce[v] \in Nat /\ Base(v) <= nonce[v]
    BY <1>4, OnNonce
  <2>2. Apart(Base(v), Base(w))
    BY <1>4, OwnApart
  <2> QED
    BY <1>1, <2>1, <2>2, NonceAssumption DEF Apart
<1>5. OwnRange(w).epoch = epoch /\ OwnRange(w).counter = Base(w)
  BY DEF OwnRange
<1>6. \A n \in hashed : \E r \in granted :
        r.epoch = epoch /\ r.counter <= n /\ n < r.counter + ReserveCount
  BY DEF OnceCore, WorkInv
<1> QED
  BY <1>1, <1>2, <1>3, <1>4, <1>5, <1>6

LEMMA OnceNextRound ==
  ASSUME TypeOK, WorkerTypeOK, RangesDisjoint, ThreadInv, OnceCore, NEW w \in Workers, NextRound(w)
  PROVE  OnceCore'
<1>1. /\ pc[w] = "loop" /\ ~InCall(w)
      /\ UNCHANGED <<vars, counter, epoch, granted, call, job, todo, wjob, stray, drawn, early>>
  BY NextRoundCases DEF ThreadInv, mainVars, vars
<1>2. (ResetDue' <=> ResetDue) /\ (Mines(w) => drawn)
  BY <1>1 DEF ResetDue, OnceCore, ResetInv
<1>3. CASE Goto(w, "tail") /\ UNCHANGED <<rounds, nonce, hashed>>
  <2>1. pc'[w] = "tail" /\ \A v \in Workers \ {w} : pc'[v] = pc[v]
    BY <1>3 DEF Goto, WorkerTypeOK
  <2> QED
    BY <1>1, <1>3, <2>1, OnceAmble DEF Ambles, templateVars
<1>4. ASSUME /\ UNCHANGED pc \/ Goto(w, "round")
             /\ \A v \in Workers \ {w} : rounds'[v] = rounds[v] /\ nonce'[v] = nonce[v]
      PROVE  /\ \A v \in Workers \ {w} : UNCHANGED ThreadOf(v)
             /\ \A v \in Workers \ {w} : /\ Mines(v)' <=> Mines(v)
                                         /\ Works(v)' <=> Works(v)
                                         /\ UNCHANGED <<Base(v), OwnRange(v), pc[v], nonce[v]>>
                                         /\ InCall(v)' <=> InCall(v)
             /\ (Mines(w)' <=> Mines(w)) /\ (Works(w)' <=> Works(w)) /\ ~InCall(w)'
             /\ pc'[w] \in {"loop", "round"}
  <2>1. pc'[w] \in {"loop", "round"} /\ \A v \in Workers \ {w} : pc'[v] = pc[v]
    BY <1>1, <1>4 DEF Goto, WorkerTypeOK
  <2>2. \A v \in Workers \ {w} : UNCHANGED ThreadOf(v)
    BY <1>1, <1>4, <2>1 DEF ThreadOf
  <2>3. \A v \in Workers \ {w} : UNCHANGED <<pc[v], nonce[v]>>
    BY <1>4, <2>1
  <2>4. (Mines(w)' <=> Mines(w)) /\ ~InCall(w)'
    BY <1>1 DEF Mines, Current, InCall
  <2>5. Works(w)' <=> Works(w)
    BY <1>1, <2>1, <2>4 DEF Works
  <2> QED
    BY <1>1, <2>1, <2>2, <2>3, <2>4, <2>5, SameThread
<1>5. CASE /\ wjob[w] # NoJob /\ LastRound(w) /\ Goto(w, "round")
           /\ rounds' = [rounds EXCEPT ![w] = 0] /\ UNCHANGED <<nonce, hashed>>
  <2>1. rounds'[w] = 0 /\ pc'[w] = "round" /\ \A v \in Workers \ {w} : rounds'[v] = rounds[v] /\ nonce'[v] = nonce[v]
    BY <1>5 DEF WorkerTypeOK, Goto
  <2>2. UNCHANGED <<Base(w), OwnRange(w)>>
    BY <1>1, <1>5, <2>1 DEF Base, OwnRange, LastRound
  <2>3. ResetInv'
    BY <1>1, <1>2, <1>4, <1>5, <2>1 DEF OnceCore, ResetInv
  <2>4. WorkInv'
    <3>1. \A v \in Workers : (Works(v)' <=> Works(v)) /\ UNCHANGED <<Base(v), OwnRange(v), nonce[v]>>
      BY <1>4, <1>5, <2>1, <2>2
    <3> QED
      BY <1>1, <1>5, <3>1 DEF OnceCore, WorkInv
  <2>5. StrayInv'
    BY <1>1, <1>4, <1>5, <2>1 DEF OnceCore, StrayInv, Beyond
  <2> QED
    BY <2>3, <2>4, <2>5 DEF OnceCore
<1>6. CASE /\ wjob[w] # NoJob /\ ~LastRound(w) /\ ~stray[w] /\ UNCHANGED pc
           /\ rounds' = [rounds EXCEPT ![w] = @ + 1]
           /\ nonce' = [nonce EXCEPT ![w] = @ + 1] /\ Finished(w)
  <2>1. /\ rounds'[w] = rounds[w] + 1 /\ nonce'[w] = nonce[w] + 1
        /\ rounds[w] \in Nat /\ nonce[w] \in Nat
        /\ \A v \in Workers \ {w} : rounds'[v] = rounds[v] /\ nonce'[v] = nonce[v]
    BY <1>6, NonceAssumption DEF WorkerTypeOK
  <2>2. UNCHANGED <<Base(w), OwnRange(w)>>
    BY <1>1, <1>6, <2>1 DEF Base, OwnRange
  <2>3. Mines(w) <=> Current(w)
    BY <1>6 DEF Mines
  <2>4. Current(w) => drawn
    BY <1>2, <2>3
  <2>5. ~Current(w) => hashed' = hashed
    BY <1>6 DEF Finished
  <2>6. Current(w) => hashed' = hashed \cup {nonce[w]}
    BY <1>6 DEF Finished
  <2>7. ResetInv'
    BY <1>1, <1>2, <1>4, <1>6, <2>1, <2>4, <2>5 DEF OnceCore, ResetInv
  <2>8. WorkInv'
    <3>1. \A v \in Workers : (Works(v)' <=> Works(v)) /\ UNCHANGED <<Base(v), OwnRange(v)>>
      BY <1>4, <1>6, <2>1, <2>2
    <3> SUFFICES ASSUME ~early PROVE WorkInv'
      BY <1>1 DEF WorkInv
    <3>2. CASE ~Current(w)
      <4>1. ~Works(w)
        BY <2>3, <3>2 DEF Works
      <4>2. \A v \in Workers : Works(v) => nonce'[v] = nonce[v]
        BY <2>1, <4>1
      <4> QED
        BY <1>1, <2>5, <3>1, <3>2, <4>2 DEF OnceCore, WorkInv
    <3>3. CASE Current(w)
      <4>1. Works(w)
        BY <1>1, <1>6, <2>3, <3>3 DEF Works
      <4>2. /\ \A v \in Workers \ {w} : Works(v) => \A n \in hashed \cup {nonce[w]} :
                                       n < nonce[v] \/ n >= Base(v) + ReserveCount
            /\ \A n \in hashed \cup {nonce[w]} : \E r \in granted :
                 r.epoch = epoch /\ r.counter <= n /\ n < r.counter + ReserveCount
        BY <4>1, OnceFinished
      <4>3. \A n \in hashed \cup {nonce[w]} : n < nonce'[w] \/ n >= Base(w) + ReserveCount
        <5>1. \A n \in hashed : n \in Nat /\ (n < nonce[w] \/ n >= Base(w) + ReserveCount)
          BY <4>1 DEF OnceCore, WorkInv, WorkerTypeOK
        <5> QED
          BY <2>1, <5>1
      <4>4. \A v \in Workers : Works(v) => \A n \in hashed' : n < nonce'[v] \/ n >= Base(v)' + ReserveCount
        BY <2>1, <2>6, <3>1, <3>3, <4>2, <4>3
      <4>5. /\ \A v \in Workers : Works(v) => OwnRange(v) \in granted
            /\ \A u, v \in Workers : u # v /\ Works(u) /\ Works(v) => Base(u) # Base(v)
        BY DEF OnceCore, WorkInv
      <4>6. /\ \A v \in Workers : Works(v)' => OwnRange(v)' \in granted'
            /\ \A u, v \in Workers : u # v /\ Works(u)' /\ Works(v)' => Base(u)' # Base(v)'
        BY <1>1, <3>1, <4>5
      <4>7. \A n \in hashed' : \E r \in granted' :
                 r.epoch = epoch' /\ r.counter <= n /\ n < r.counter + ReserveCount
        BY <1>1, <2>6, <3>3, <4>2
      <4> QED
        BY <3>1, <4>4, <4>6, <4>7 DEF WorkInv
    <3> QED
      BY <3>2, <3>3
  <2>9. StrayInv'
    BY <1>1, <1>4, <1>6, <2>1 DEF OnceCore, StrayInv, Beyond
  <2> QED
    BY <2>7, <2>8, <2>9 DEF OnceCore
<1> QED
  BY <1>3, <1>5, <1>6, NextRoundCases, Zenon

LEMMA OnceRefused ==
  ASSUME TypeOK, WorkerTypeOK, ClaimsBelowCounter, ThreadInv, OnceCore, NEW w \in Workers, Refused(w)
  PROVE  OnceCore'
<1>1. /\ InCall(w) /\ Return(w)
      /\ UNCHANGED <<counter, epoch, granted, job, todo, wjob, rounds, nonce, drawn, early, hashed>>
      /\ stray' = [stray EXCEPT ![w] = TRUE]
  BY DEF Refused, Refuse, TakeLast, mainVars, templateVars
<1>2. stray'[w] /\ ~InCall(w)' /\ (ResetDue' <=> ResetDue) /\ (Mines(w)' <=> Mines(w))
  BY <1>1 DEF Return, WorkerTypeOK, TypeOK, InCall, ResetDue, Mines, Current
<1>3. pc'[w] \in {"vm", "tail"} /\ \A v \in Workers \ {w} : pc'[v] = pc[v]
  BY DEF Refused, Goto, WorkerTypeOK
<1>4. \A v \in Workers \ {w} : UNCHANGED ThreadOf(v)
  BY <1>1, <1>3 DEF ThreadOf, Return, WorkerTypeOK, TypeOK
<1>5. \A v \in Workers \ {w} : /\ Mines(v)' <=> Mines(v)
                               /\ Works(v)' <=> Works(v)
                               /\ UNCHANGED <<Base(v), OwnRange(v), pc[v], nonce[v], stray[v], call[v]>>
                               /\ InCall(v)' <=> InCall(v)
  BY <1>1, <1>4, SameThread DEF ThreadOf
<1>6. ~Works(w)'
  BY <1>2 DEF Works
<1>7. (Mines(w) => drawn) /\ (~early /\ Mines(w) => call[w].epoch = epoch)
  BY <1>1 DEF OnceCore, ResetInv
<1>8. ~early /\ Mines(w) => counter > Mask
  <2> SUFFICES ASSUME ~early, Mines(w) PROVE counter > Mask
    OBVIOUS
  <2>1. call[w].counter + ReserveCount <= counter
    BY <1>1, <1>7 DEF ClaimsBelowCounter, Claimed
  <2>2. call[w].counter \in Nat /\ counter \in Nat
    BY <1>1 DEF InCall, TypeOK
  <2>3. CASE Beyond(call[w].counter)
    BY <2>1, <2>2, <2>3, NonceAssumption DEF Beyond
  <2>4. CASE ~Beyond(call[w].counter) /\ TooShort(call[w].counter)
    BY <2>1, <2>2, <2>4, NonceAssumption DEF Beyond, TooShort, Room
  <2> QED
    BY <2>3, <2>4 DEF Refused, Refuse, TakeLast, UsesUp
<1>9. ResetInv'
  BY <1>1, <1>2, <1>5, <1>7 DEF OnceCore, ResetInv
<1>10. WorkInv'
  BY <1>1, <1>5, <1>6 DEF OnceCore, WorkInv
<1>11. StrayInv'
  BY <1>1, <1>2, <1>5, <1>8 DEF OnceCore, StrayInv, Beyond
<1> QED
  BY <1>9, <1>10, <1>11 DEF OnceCore

\* A thread that is handed a range for the current template was not refused one before.
LEMMA NotRefusedBefore ==
  ASSUME OnceCore, NEW w \in Workers, InCall(w), ~Beyond(call[w].counter), ~early, Mines(w), pc[w] # "save"
  PROVE  Works(w)
BY DEF OnceCore, StrayInv, Works

\* A thread is handed a range: nobody works on it, and no nonce of it was hashed.
LEMMA OnceDrawn ==
  ASSUME TypeOK, WorkerTypeOK, RangesDisjoint, ThreadInv, OnceCore, NEW w \in Workers, Drawn(w)
  PROVE  OnceCore'
<1>1. /\ InCall(w) /\ Return(w) /\ ~Beyond(call[w].counter)
      /\ granted' = granted \cup {call[w]}
      /\ UNCHANGED <<counter, epoch, job, todo, wjob, rounds, drawn, early>>
      /\ stray' = [stray EXCEPT ![w] = FALSE]
      /\ nonce' = [nonce EXCEPT ![w] = call[w].counter]
  BY DEF Drawn, Grant, TakeLast, UsesUp, mainVars
<1>2. call[w] \in Range
  BY <1>1 DEF TypeOK, InCall
<1>3. /\ pc[w] \in {"save", "round"} /\ wjob[w] # NoJob /\ rounds[w] = 0
      /\ ~stray'[w] /\ nonce'[w] = call[w].counter
  BY <1>1 DEF ThreadInv, WorkerTypeOK
<1>4. ~InCall(w)' /\ (ResetDue' <=> ResetDue) /\ (Mines(w)' <=> Mines(w)) /\ (Mines(w) <=> Current(w))
  BY <1>1, <1>3 DEF Return, TypeOK, InCall, ResetDue, Mines, Current
<1>5. pc'[w] \in {"loop", "vm"} /\ \A v \in Workers \ {w} : pc'[v] = pc[v]
  BY DEF Drawn, Goto, WorkerTypeOK
<1>6. \A v \in Workers \ {w} : UNCHANGED ThreadOf(v)
  BY <1>1, <1>5 DEF ThreadOf, Return, WorkerTypeOK, TypeOK
<1>7. \A v \in Workers \ {w} : /\ Mines(v)' <=> Mines(v)
                               /\ Works(v)' <=> Works(v)
                               /\ UNCHANGED <<Base(v), OwnRange(v), pc[v], nonce[v], stray[v], call[v]>>
                               /\ InCall(v)' <=> InCall(v)
  BY <1>1, <1>6, SameThread DEF ThreadOf
<1>8. Works(w)' <=> Mines(w)
  BY <1>3, <1>4, <1>5 DEF Works
<1>9. (Mines(w) => drawn) /\ (~early /\ Mines(w) => call[w].epoch = epoch)
  BY <1>1 DEF OnceCore, ResetInv
<1>10. /\ pc[w] = "save" \/ ~Mines(w) => hashed' = hashed
       /\ pc[w] = "round" /\ Mines(w) => hashed' = hashed \cup {nonce[w]}
  BY <1>3, <1>4, Zenon DEF Drawn, Finished
<1>11. ResetInv'
  BY <1>1, <1>3, <1>4, <1>5, <1>7, <1>9, <1>10 DEF OnceCore, ResetInv
<1>12. StrayInv'
  BY <1>1, <1>3, <1>4, <1>7 DEF OnceCore, StrayInv, Beyond
<1>13. WorkInv'
  <2> SUFFICES ASSUME ~early PROVE WorkInv'
    BY <1>1 DEF WorkInv
  <2>1. /\ \A v \in Workers : Works(v) => OwnRange(v) \in granted
        /\ \A u, v \in Workers : u # v /\ Works(u) /\ Works(v) => Base(u) # Base(v)
        /\ \A v \in Workers : Works(v) => \A n \in hashed : n < nonce[v] \/ n >= Base(v) + ReserveCount
        /\ \A n \in hashed : \E r \in granted :
             r.epoch = epoch /\ r.counter <= n /\ n < r.counter + ReserveCount
    BY DEF OnceCore, WorkInv
  <2>2. CASE ~Mines(w)
    <3>1. hashed' = hashed /\ ~Works(w)'
      BY <1>8, <1>10, <2>2
    <3> QED
      BY <1>1, <1>7, <2>1, <3>1 DEF WorkInv
  <2>3. CASE Mines(w)
    <3> DEFINE c == call[w].counter
    <3>1. c \in Nat /\ call[w].epoch = epoch
      BY <1>2, <1>9, <2>3
    <3>2. Base(w)' = c /\ OwnRange(w)' = call[w]
      <4>1. Base(w)' = c - 0
        BY <1>1, <1>3, <1>5 DEF Base
      <4>2. call[w] = [counter |-> c, epoch |-> epoch]
        BY <1>2, <3>1
      <4> QED
        BY <1>1, <3>1, <4>1, <4>2 DEF OwnRange
    <3>3. pc[w] = "round" => Works(w)
      BY <1>1, <2>3, NotRefusedBefore
    <3>4. /\ \A v \in Workers \ {w} : Works(v) => \A n \in hashed' :
                                    n < nonce[v] \/ n >= Base(v) + ReserveCount
          /\ \A n \in hashed' : \E r \in granted :
                r.epoch = epoch /\ r.counter <= n /\ n < r.counter + ReserveCount
      <4>1. CASE pc[w] = "save"
        BY <1>10, <2>1, <4>1
      <4>2. CASE pc[w] = "round"
        BY <1>10, <2>3, <3>3, <4>2, OnceFinished
      <4> QED
        BY <1>3, <4>1, <4>2
    <3>5. \A r \in granted : r.epoch = epoch => Apart(c, r.counter)
      BY <1>1, <3>1 DEF RangesDisjoint, SameEpoch
    <3>6. ASSUME NEW n \in hashed'
          PROVE  n < c \/ n >= c + ReserveCount
      <4>1. n \in Nat
        <5>1. nonce[w] \in Nat /\ \A m \in hashed : m \in Nat
          BY DEF WorkerTypeOK
        <5> QED
          BY <1>3, <1>10, <2>3, <3>6, <5>1
      <4>2. PICK r \in granted : r.epoch = epoch /\ r.counter <= n /\ n < r.counter + ReserveCount
        BY <3>4, <3>6
      <4>3. Apart(c, r.counter) /\ r.counter \in Nat
        BY <3>5, <4>2 DEF TypeOK
      <4> QED
        BY <3>1, <4>1, <4>2, <4>3, NonceAssumption DEF Apart
    <3>7. ASSUME NEW v \in Workers \ {w}, Works(v)
          PROVE  Base(v) # c
      <4>1. OwnRange(v) \in granted /\ OwnRange(v).epoch = epoch /\ OwnRange(v).counter = Base(v)
        BY <2>1, <3>7 DEF OwnRange
      <4>2. Apart(c, Base(v))
        BY <3>5, <4>1
      <4> QED
        BY <3>1, <4>2, NonceAssumption DEF Apart
    <3>8. \A v \in Workers : Works(v)' => OwnRange(v)' \in granted'
      BY <1>1, <1>7, <2>1, <3>2
    <3>9. \A u, v \in Workers : u # v /\ Works(u)' /\ Works(v)' => Base(u)' # Base(v)'
      BY <1>7, <2>1, <3>2, <3>7
    <3>10. \A v \in Workers : Works(v)' => \A n \in hashed' : n < nonce'[v] \/ n >= Base(v)' + ReserveCount
      BY <1>3, <1>7, <3>2, <3>4, <3>6
    <3>11. \A n \in hashed' : \E r \in granted' :
                r.epoch = epoch' /\ r.counter <= n /\ n < r.counter + ReserveCount
      BY <1>1, <3>4
    <3> QED
      BY <3>8, <3>9, <3>10, <3>11 DEF WorkInv
  <2> QED
    BY <2>2, <2>3
<1> QED
  BY <1>11, <1>12, <1>13 DEF OnceCore

\* The allocator keeps its promises to the threads and the event loop that use it.
THEOREM WorkersKeepRanges ==
  WorkerSpec => [](RangesDisjoint /\ RangesFitMask /\ RangesKeepHighWord /\ ExhaustionPauses)
BY ImplementsAllocator, DisjointRanges, FitsMask, KeepsHighWord, PauseAtEnd, PTL

LEMMA OnceStep ==
  ASSUME RangesInv, OnceInv, [WorkerNext]_allVars
  PROVE  OnceInv'
<1> USE DEF OnceInv, RangesInv
<1>1. WorkerTypeOK' /\ HandlerInv' /\ ThreadInv'
  BY WorkerTypeStep, HandlerStep, ThreadStep
<1>2. OnceCore'
  <2>0. OnceCore /\ TypeOK /\ WorkerTypeOK /\ HandlerInv /\ ThreadInv /\ RangesDisjoint /\ ClaimsBelowCounter
    BY DEF OnceCore
  <2> USE <2>0
  <2>1. CASE \E j \in Jobs : SetJob(j)
    <3>1. UNCHANGED <<counter, epoch, granted, call, job, threadVars, drawn, early, hashed>>
      BY <2>1 DEF SetJob, vars, templateVars
    <3>2. todo' \in {<<"store">>, <<"hold", "touch", "store">>}
      BY <2>1, SetJobHandler
    <3>3. ~ResetDue'
      BY <3>2 DEF ResetDue
    <3> QED
      BY <3>1, <3>3, QuietStep
  <2>2. CASE \E value \in BOOLEAN : SetEnabled(value)
    <3>1. UNCHANGED <<counter, epoch, granted, call, job, threadVars, drawn, early, hashed>>
      BY <2>2 DEF SetEnabled, vars, templateVars
    <3>2. todo' = <<"release", "touch">> \/ todo' = <<"hold", "touch">>
      BY <2>2, Zenon DEF SetEnabled
    <3>3. ~ResetDue'
      BY <3>2 DEF ResetDue
    <3> QED
      BY <3>1, <3>3, QuietStep
  <2>3. CASE Store
    BY <2>3, OnceStore
  <2>4. CASE Touch
    <3>1. UNCHANGED <<counter, epoch, granted, call, job, threadVars, drawn, early, hashed>> /\ todo # <<>> /\ Continue
      BY <2>4 DEF Touch, At, vars, templateVars
    <3> QED
      BY <3>1, QuietStep, StillDue
  <2>5. CASE LoopCalls
    <3>1. CASE At("reset") /\ Reset
      BY <2>5, <3>1, OnceReset
    <3>2. CASE (At("hold") /\ Pause(TRUE)) \/ (At("release") /\ Pause(FALSE))
      <4>1. UNCHANGED <<counter, epoch, granted, call, job, threadVars, drawn, early, hashed>> /\ todo # <<>> /\ Continue
        BY <2>5, <3>2 DEF LoopCalls, Pause, At, templateVars
      <4> QED
        BY <4>1, QuietStep, StillDue
    <3> QED
      BY <2>5, <3>1, <3>2 DEF LoopCalls
  <2>6. CASE \E w \in Workers : Outer(w)
    <3>1. PICK w \in Workers : Outer(w)
      BY <2>6
    <3>2. /\ pc[w] \in {"outer", "sleep", "tail"} /\ pc'[w] \in {"sleep", "loop", "consume"}
          /\ \A v \in Workers \ {w} : pc'[v] = pc[v]
      BY <3>1 DEF Outer, Goto, Consumes, WorkerTypeOK
    <3>3. Ambles(w)
      BY <3>1, <3>2 DEF Outer, Ambles, ThreadInv, mainVars
    <3> QED
      BY <3>3, OnceAmble
  <2>7. CASE \E w \in Workers : Consume(w)
    BY <2>7, OnceConsume
  <2>8. CASE \E w \in Workers : Draw(w)
    BY <2>8, OnceDraw
  <2>9. CASE \E w \in Workers : NextRound(w)
    BY <2>9, OnceNextRound
  <2>10. CASE \E w \in Workers : DrawAgain(w)
    BY <2>10, OnceDrawAgain
  <2>11. CASE \E w \in Workers : Drawn(w)
    BY <2>11, OnceDrawn
  <2>12. CASE \E w \in Workers : Refused(w)
    BY <2>12, OnceRefused
  <2>13. CASE UNCHANGED allVars
    <3>1. UNCHANGED <<counter, epoch, granted, call, job, threadVars, drawn, early, hashed>> /\ UNCHANGED todo
      BY <2>13 DEF allVars, mainVars, vars, templateVars
    <3> QED
      BY <3>1, QuietStep DEF ResetDue
  <2>14. CASE DatasetReady
    <3>1. UNCHANGED <<counter, epoch, granted, call, job, threadVars, drawn, hashed>>
      BY <2>14 DEF DatasetReady, vars
    <3>2. ~early' => ~early /\ ~(ready /\ reset /\ drawn)
      BY <2>14, Zenon DEF DatasetReady
    <3>3. ResetDue' => ready /\ reset
      BY <2>14, ReadyHandler DEF ResetDue
    <3> QED
      BY <3>1, <3>2, <3>3, QuietStep
  <2>15. CASE Build
    <3>1. UNCHANGED <<counter, epoch, granted, call, job, threadVars, drawn, early, hashed>> /\ UNCHANGED todo
      BY <2>15 DEF Build, vars, templateVars
    <3> QED
      BY <3>1, QuietStep DEF ResetDue
  <2>16. CASE \E w \in Workers : Vm(w)
    <3>1. PICK w \in Workers : Vm(w)
      BY <2>16
    <3>2. /\ pc[w] = "vm" /\ pc'[w] \in {"loop", "outer"}
          /\ \A v \in Workers \ {w} : pc'[v] = pc[v]
      BY <3>1 DEF Vm, Goto, WorkerTypeOK
    <3>3. Ambles(w)
      BY <3>1, <3>2 DEF Vm, Ambles, ThreadInv, mainVars
    <3> QED
      BY <3>3, OnceAmble
  <2> QED
    BY <2>1, <2>2, <2>3, <2>4, <2>5, <2>6, <2>7, <2>8, <2>9, <2>10, <2>11, <2>12, <2>13, <2>14,
       <2>15, <2>16
    DEF WorkerNext, InNext
<1> QED
  BY <1>1, <1>2 DEF OnceCore

\* A step that finishes a hash of the current template finishes a new one.
LEMMA FinishesOnce ==
  ASSUME RangesInv, OnceInv, [WorkerNext]_allVars,
         NEW w \in Workers, pc[w] \in {"loop", "round"}, pc'[w] = "loop", nonce'[w] # nonce[w],
         Current(w), ~early
  PROVE  nonce[w] \notin hashed
<1>0. OnceCore /\ TypeOK /\ WorkerTypeOK /\ ThreadInv /\ RangesDisjoint
  BY DEF OnceCore, OnceInv, RangesInv
<1>1. CASE NextRound(w)
  <2>1. wjob[w] # NoJob /\ ~stray[w] /\ pc[w] = "loop"
    BY <1>0, <1>1, NextRoundCases
  <2>2. Works(w)
    BY <2>1 DEF Works, Mines
  <2> QED
    BY <1>0, <2>2, OnceFinished
<1>2. CASE Drawn(w)
  <2>1. InCall(w) /\ ~Beyond(call[w].counter)
    BY <1>2 DEF Drawn, Grant, TakeLast, UsesUp
  <2>2. Mines(w) /\ pc[w] # "save"
    BY <1>0, <2>1 DEF Mines, ThreadInv
  <2>3. Works(w)
    BY <1>0, <2>1, <2>2, NotRefusedBefore
  <2> QED
    BY <1>0, <2>3, OnceFinished
<1>3. CASE Consume(w)
  BY <1>3 DEF Consume
<1>4. ASSUME NEW v \in Workers, v # w, NextRound(v) \/ Drawn(v) \/ Consume(v)
      PROVE  FALSE
  <2>1. UNCHANGED nonce \/ (\E e : nonce' = [nonce EXCEPT ![v] = e])
    BY <1>0, <1>4, NextRoundCases, Zenon DEF Drawn, Consume
  <2>2. nonce'[w] = nonce[w]
    BY <1>0, <1>4, <2>1 DEF WorkerTypeOK
  <2> QED
    BY <2>2
<1>5. CASE UNCHANGED nonce
  BY <1>5
<1> QED
  BY <1>1, <1>2, <1>3, <1>4, <1>5
  DEF WorkerNext, InNext, allVars, threadVars, SetJob, SetEnabled, Store, DatasetReady, Touch,
      LoopCalls, Build, Outer, Vm, Draw, DrawAgain, Refused

\* No nonce of a template is hashed twice by all the threads together, over pauses,
\* repeated jobs of a template, new templates and seeds, and the handler that a
\* dataset's notice runs again (Miner.cpp:525-550, 687-693 with WorkerJob.h:51-108),
\* for every number of threads, range size, mask and word: but for the templates that
\* are reset under the threads' ranges, in the two ways that HashedOnce excepts.
THEOREM HashesOnce == WorkerSpec => HashedOnce
<1>1. WorkerInit => Init /\ OnceInv
  <2> SUFFICES ASSUME WorkerInit PROVE Init /\ OnceInv
    OBVIOUS
  <2> USE NonceAssumption, WorkerJobAssumption DEF WorkerInit
  <2>1. WorkerTypeOK
    <3>1. 0 \in 0..(ReserveCount - 1)
      OBVIOUS
    <3>2. /\ rounds \in [Workers -> 0..(ReserveCount - 1)] /\ nonce \in [Workers -> Nat]
          /\ wseq \in [Workers -> Nat] /\ stray \in [Workers -> BOOLEAN]
      BY <3>1
    <3>3. /\ pc \in [Workers -> {"outer", "sleep", "loop", "tail", "consume", "save", "vm", "round"}]
          /\ ret \in [Workers -> {"loop", "outer"}]
          /\ wjob \in [Workers -> Jobs \cup {NoJob}]
      OBVIOUS
    <3>4. /\ job \in Jobs \cup {NoJob} /\ incoming \in Jobs \cup {NoJob}
          /\ enabled \in BOOLEAN /\ reset \in BOOLEAN /\ ready \in BOOLEAN /\ notice \in BOOLEAN
          /\ drawn \in BOOLEAN /\ early \in BOOLEAN /\ hashed \in SUBSET Nat
          /\ sequence \in Nat /\ events \in Nat
      OBVIOUS
    <3>5. todo \in Seq({"store", "hold", "reset", "touch", "release"})
      OBVIOUS
    <3> QED
      BY <3>2, <3>3, <3>4, <3>5 DEF WorkerTypeOK
  <2>2. HandlerInv
    BY DEF HandlerInv
  <2>3. ThreadInv
    BY DEF ThreadInv, InCall, Init, NoJob
  <2>4. \A w \in Workers : ~Mines(w)
    BY DEF Mines
  <2>5. ResetInv /\ WorkInv /\ StrayInv
    BY <2>4 DEF ResetInv, WorkInv, StrayInv, Works
  <2> QED
    BY <2>1, <2>2, <2>3, <2>5 DEF OnceInv
<1>2. Init => RangesInv
  BY NonceAssumption
  DEF Init, RangesInv, TypeOK, ClaimsBelowCounter, RangesDisjoint, InCall
<1>3. RangesInv /\ [WorkerNext]_allVars => RangesInv'
  BY AllocatorStep, TypeStep, ClaimsStep, DisjointStep DEF RangesInv
<1>4. RangesInv /\ OnceInv /\ [WorkerNext]_allVars => OnceInv'
  BY OnceStep
<1>5. RangesInv /\ OnceInv /\ [WorkerNext]_allVars =>
        [\A w \in Workers :
           /\ pc[w] \in {"loop", "round"} /\ pc'[w] = "loop" /\ nonce'[w] # nonce[w]
           /\ Current(w) /\ ~early
           => nonce[w] \notin hashed]_allVars
  BY FinishesOnce
<1> QED
  BY <1>1, <1>2, <1>3, <1>4, <1>5, PTL DEF WorkerSpec, HashedOnce

=============================================================================
