-------------------------------- MODULE Nonce --------------------------------
(***************************************************************************)
(* The nonce allocator of crypto/common/Nonce.{h,cpp}: one atomic counter  *)
(* from which every hashing thread takes ranges of ReserveCount nonces,    *)
(* reset by the main thread when a new block template arrives, and the     *)
(* global pause flag that the allocator raises when the nonce space below  *)
(* Mask is used up.                                                        *)
(*                                                                         *)
(* Nonce::next is not one atomic step: between the fetch_add that takes a  *)
(* value of the counter and the test of that value, other threads take     *)
(* theirs and the main thread may reset the counter.  It is therefore      *)
(* split into Fetch and the four ways in which the fetched value is        *)
(* disposed of.                                                            *)
(***************************************************************************)
EXTENDS Integers, FiniteSets

CONSTANTS
  Workers,        \* the threads that call Nonce::next
  ReserveCount,   \* kReserveCount (32768; 1 in a benchmark)
  Mask,           \* Job::nonceMask: 0xFFFFFFFF, or 0xFFFFFF for nicehash
  LowWord,        \* 2^32: a range must not straddle a carry into the high word
  Wide,           \* 2^64: the counter and its arithmetic are uint64_t
  MaxCounter,     \* bound of the model: no call starts beyond this counter
  MaxResets,      \* bound of the model: number of Nonce::reset calls
  NoCall          \* the value of call[w] while w is outside Nonce::next

\* Nonce::next returns at once, touching nothing, when reserveCount = 0 or
\* mask < reserveCount - 1; no caller of this program passes such values.
ASSUME NonceAssumption ==
  /\ ReserveCount \in Nat \ {0}
  /\ Mask \in Nat /\ ReserveCount - 1 <= Mask
  /\ LowWord \in Nat \ {0}
  /\ Mask % LowWord >= ReserveCount - 1    \* both masks are 2^k - 1
  /\ Wide \in Nat
  /\ MaxCounter \in Nat /\ MaxCounter + ReserveCount <= Wide
  /\ MaxResets \in Nat
  /\ NoCall \notin [counter : Nat, epoch : Nat]

VARIABLES
  counter,    \* m_nonces[index]
  paused,     \* m_paused
  call,       \* per thread: the value its fetch_add returned, or NoCall
  epoch,      \* history: number of resets so far
  granted,    \* history: the ranges handed out, each with its epoch
  lastRange   \* history: what became of the range that uses up the space:
              \* "open", "taken" by some thread, then "overruled" by an unpause

vars == <<counter, paused, call, epoch, granted, lastRange>>

Range == [counter : Nat, epoch : Nat]

-----------------------------------------------------------------------------
(* The tests of Nonce::next on a fetched counter value c.                  *)

\* mask - counter, in unsigned arithmetic
Room(c) == IF c <= Mask THEN Mask - c ELSE Wide - (c - Mask)

BeyondFaulty(c) == FALSE                         \* the test forgotten
Beyond(c)       == Mask < c

UsesUpFaulty(c) == Room(c) < ReserveCount - 1    \* < for <=
UsesUp(c)       == ~Beyond(c) /\ Room(c) <= ReserveCount - 1

TooShort(c)     == Room(c) < ReserveCount - 1

StraddlesFaulty(c) == LowWord - (c % LowWord) < ReserveCount - 1
Straddles(c)       == (LowWord - 1) - (c % LowWord) < ReserveCount - 1

InCall(w) == call[w] # NoCall

FetchAddFaulty(w) ==     \* a claim that is not advanced by the whole range
  /\ call' = [call EXCEPT ![w] = [counter |-> counter, epoch |-> epoch]]
  /\ counter' = counter + 1
  /\ UNCHANGED lastRange

\* m_nonces[index].fetch_add(reserveCount)
FetchAdd(w) ==
  /\ call' = [call EXCEPT ![w] = [counter |-> counter, epoch |-> epoch]]
  /\ counter' = counter + ReserveCount
  /\ lastRange' = IF UsesUp(counter) THEN "taken" ELSE lastRange

Return(w) == call' = [call EXCEPT ![w] = NoCall]

-----------------------------------------------------------------------------
(* The threads inside Nonce::next.                                         *)

Fetch(w) ==
  /\ ~InCall(w)
  /\ counter <= MaxCounter
  /\ FetchAdd(w)
  /\ UNCHANGED <<paused, epoch, granted>>

\* mask < counter: nothing left, return false.
Refuse(w) ==
  /\ InCall(w)
  /\ Beyond(call[w].counter)
  /\ Return(w)
  /\ UNCHANGED <<counter, paused, epoch, granted, lastRange>>

\* The last range: raise the pause flag, and hand the range out only if it
\* is complete.
TakeLast(w) ==
  /\ InCall(w)
  /\ UsesUp(call[w].counter)
  /\ paused' = TRUE
  /\ granted' = IF TooShort(call[w].counter) THEN granted
                                             ELSE granted \cup {call[w]}
  /\ Return(w)
  /\ UNCHANGED <<counter, epoch, lastRange>>

\* The range would carry into the high word: drop it and fetch another.
Refetch(w) ==
  /\ InCall(w)
  /\ ~Beyond(call[w].counter) /\ ~UsesUp(call[w].counter)
  /\ Straddles(call[w].counter)
  /\ FetchAdd(w)
  /\ UNCHANGED <<paused, epoch, granted>>

Grant(w) ==
  /\ InCall(w)
  /\ ~Beyond(call[w].counter) /\ ~UsesUp(call[w].counter)
  /\ ~Straddles(call[w].counter)
  /\ granted' = granted \cup {call[w]}
  /\ Return(w)
  /\ UNCHANGED <<counter, paused, epoch, lastRange>>

-----------------------------------------------------------------------------
(* The main thread.                                                        *)

\* Nonce::reset
Reset ==
  /\ epoch < MaxResets
  /\ counter' = 0
  /\ epoch' = epoch + 1
  /\ lastRange' = "open"
  /\ UNCHANGED <<paused, call, granted>>

\* Nonce::pause, as called by Miner (and by Nonce::stop, with FALSE).
Pause(value) ==
  /\ paused' = value
  /\ lastRange' = IF ~value /\ lastRange = "taken" THEN "overruled" ELSE lastRange
  /\ UNCHANGED <<counter, call, epoch, granted>>

-----------------------------------------------------------------------------

Init ==
  /\ counter = 0
  /\ paused = TRUE
  /\ call = [w \in Workers |-> NoCall]
  /\ epoch = 0
  /\ granted = {}
  /\ lastRange = "open"

Finish(w) == Refuse(w) \/ TakeLast(w) \/ Refetch(w) \/ Grant(w)

Next ==
  \/ \E w \in Workers : Fetch(w) \/ Finish(w)
  \/ Reset
  \/ \E value \in BOOLEAN : Pause(value)

\* A thread inside Nonce::next runs on; it may never call it (again), and the
\* main thread owes it nothing.
Fairness == \A w \in Workers : WF_vars(Finish(w))

Spec == Init /\ [][Next]_vars /\ Fairness

-----------------------------------------------------------------------------

TypeOK ==
  /\ counter \in Nat
  /\ paused \in BOOLEAN
  /\ call \in [Workers -> Range \cup {NoCall}]
  /\ epoch \in Nat
  /\ granted \in SUBSET Range
  /\ lastRange \in {"open", "taken", "overruled"}

Apart(a, b) == a + ReserveCount <= b \/ b + ReserveCount <= a

SameEpoch(r, s) == r.epoch = s.epoch

\* Two ranges taken from the counter since the same reset share no nonce,
\* whether they have been handed out already or are still being examined by
\* Nonce::next: no thread repeats the work of another (fetch_add and the
\* refetch loop, Nonce.cpp:40-57).
RangesDisjoint ==
  /\ \A r, s \in granted : r # s /\ SameEpoch(r, s) => Apart(r.counter, s.counter)
  /\ \A w \in Workers, r \in granted :
        InCall(w) /\ SameEpoch(call[w], r) => Apart(call[w].counter, r.counter)
  /\ \A v, w \in Workers :
        v # w /\ InCall(v) /\ InCall(w) /\ SameEpoch(call[v], call[w])
          => Apart(call[v].counter, call[w].counter)

\* A range that was handed out lies wholly below the mask, so adding a round
\* to the nonce never reaches the bits the pool fixed (the nicehash byte,
\* Nonce.cpp:41-52 with WorkerJob::nextRound).
RangesFitMask == \A r \in granted : r.counter + ReserveCount - 1 <= Mask

\* ... and no round carries out of the low 32-bit word (Nonce.cpp:54-57).
RangesKeepHighWord ==
  \A r \in granted : (r.counter % LowWord) + ReserveCount - 1 < LowWord

\* Once the space is used up, and every thread that saw it is out of
\* Nonce::next, mining is paused unless the main thread unpaused it
\* afterwards (the pause(true) of Nonce.cpp:46).
ExhaustionPauses ==
  /\ counter > Mask
  /\ lastRange # "overruled"
  /\ \A w \in Workers :
       InCall(w) /\ call[w].epoch = epoch => ~UsesUp(call[w].counter)
  => paused

=============================================================================
