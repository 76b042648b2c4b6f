------------------------------ MODULE WorkerJob ------------------------------
(***************************************************************************)
(* The nonce allocator at work: the hashing threads with the job each has  *)
(* taken over (backend/common/WorkerJob.h, for N = 1 and the one slot that *)
(* is used), who draw ranges in save and nextRound, and the event loop     *)
(* that stores jobs, resets the counter and pauses (core/Miner.cpp), for   *)
(* jobs of one algorithm.  Of the dataset there is whether that of the     *)
(* job's seed is complete, and the notice of it.  Stops, restarts and the  *)
(* job that changes while a thread reads it are in Miner.                  *)
(***************************************************************************)
EXTENDS Nonce, Sequences

CONSTANTS Jobs,         \* the pool's jobs, [blob, turn, seed]: the template's number,
                        \* which of its jobs it is (at another difficulty, say), and
                        \* the number of its seed
          MaxEvents     \* bound: jobs, pauses and resumptions

ASSUME WorkerJobAssumption ==
  /\ Jobs \subseteq [blob : Nat \ {0}, turn : Nat, seed : Nat \ {0}]
  /\ MaxEvents \in Nat /\ 2 * MaxEvents <= MaxResets

NoJob == [blob |-> 0, turn |-> 0, seed |-> 0]

\* The pool's next job, of the same template or of the next one, under another id.
Follows(j, k) ==
  \/ j.blob = k.blob /\ j.turn = k.turn + 1 /\ j.seed = k.seed
  \/ j.blob = k.blob + 1 /\ j.turn = 1 /\ j.seed \in {k.seed, k.seed + 1}

VARIABLES
  job, enabled, reset,   \* MinerPrivate; enabled: mining is not paused by the user
  ready, notice,     \* the dataset of the job's seed is complete; the notice of it
                     \* is under way
  sequence,          \* Nonce::m_sequence
  todo,              \* what is left of the loop's handler
  incoming,          \* its argument
  pc, ret,           \* where a thread is; where consumeJob returns to
  wjob, wseq,        \* m_jobs[0], m_sequence
  rounds,            \* m_rounds[0], modulo the size of a range
  nonce,             \* the nonce in the thread's blob, from the low end of the mask
  stray,             \* history: the thread was refused a range
  drawn,             \* history: a range for this template was drawn
  early,             \* history: it was drawn before the template's reset, or before
                     \* the one that the notice of the dataset made
  hashed,            \* history: the nonces of this template that were hashed
  events             \* history: events so far

mainVars == <<job, enabled, reset, ready, notice, sequence, todo, incoming, events>>
threadVars == <<pc, ret, wjob, wseq, rounds, nonce, stray>>
templateVars == <<drawn, early, hashed>>
allVars == <<vars, mainVars, threadVars, templateVars>>

-----------------------------------------------------------------------------
(* The event loop.                                                         *)

At(step) == todo # <<>> /\ Head(todo) = step
Event == todo = <<>> /\ events < MaxEvents /\ events' = events + 1
Continue == todo' = Tail(todo)
ResetDue == \E i \in DOMAIN todo : todo[i] = "reset"

HandleJobChangeFaulty(again) ==     \* the counter is reset for every job
  <<"reset", "touch", "release">>
HandleJobChange(again) ==
  (IF enabled THEN <<>> ELSE <<"hold">>) \o (IF again THEN <<"reset">> ELSE <<>>)
  \o <<"touch">> \o (IF enabled THEN <<"release">> ELSE <<>>)

\* Rx::isReady
IsReady(j) == ready /\ j.seed = job.seed

SetJob(j) ==
  /\ Event
  /\ Follows(j, job)
  /\ incoming' = j
  /\ todo' = IF IsReady(j) THEN <<"store">> ELSE <<"hold", "touch", "store">>
  /\ UNCHANGED <<vars, job, enabled, reset, ready, notice, sequence, threadVars, templateVars>>

SetEnabled(value) ==
  /\ Event /\ job # NoJob
  /\ enabled # value /\ enabled' = value
  /\ todo' = <<IF value THEN "release" ELSE "hold", "touch">>
  /\ UNCHANGED <<vars, job, reset, ready, notice, sequence, incoming, threadVars, templateVars>>

\* setJob under the lock, to the second test of the dataset, in initRX
Store ==
  /\ At("store")
  /\ LET there == IsReady(incoming)
     IN /\ ready' = there
        /\ reset' = (incoming.blob # job.blob \/ ~there)
        /\ todo' = IF there THEN HandleJobChange(incoming.blob # job.blob) ELSE <<>>
  /\ job' = incoming /\ incoming' = NoJob
  /\ IF incoming.blob # job.blob THEN drawn' = FALSE /\ early' = FALSE /\ hashed' = {}
                                 ELSE UNCHANGED templateVars
  /\ UNCHANGED <<vars, enabled, notice, sequence, events, threadVars>>

\* onDatasetReady: the job's handler again, with what setJob left in reset
DatasetReady ==
  /\ todo = <<>> /\ notice /\ notice' = FALSE
  /\ todo' = IF ready THEN HandleJobChange(reset) ELSE <<>>
  /\ early' = (early \/ (ready /\ reset /\ drawn))
  /\ UNCHANGED <<vars, job, enabled, reset, ready, sequence, incoming, events, threadVars, drawn, hashed>>

Touch ==
  /\ At("touch") /\ Continue
  /\ sequence' = sequence + 1
  /\ UNCHANGED <<vars, job, enabled, reset, ready, notice, incoming, events, threadVars, templateVars>>

LoopCalls ==
  /\ \/ At("reset") /\ Reset
     \/ At("hold") /\ Pause(TRUE)
     \/ At("release") /\ Pause(FALSE)
  /\ Continue
  /\ UNCHANGED <<job, enabled, reset, ready, notice, sequence, incoming, events, threadVars, templateVars>>

\* The background thread has completed the dataset of the stored job.
Build ==
  /\ job # NoJob /\ ~ready
  /\ ready' = TRUE /\ notice' = TRUE
  /\ UNCHANGED <<vars, job, enabled, reset, sequence, todo, incoming, events, threadVars, templateVars>>

-----------------------------------------------------------------------------
(* The threads.                                                            *)

Current(w) == wjob[w].blob = job.blob

Goto(w, label) == pc' = [pc EXCEPT ![w] = label]
Consumes(w, label) == Goto(w, "consume") /\ ret' = [ret EXCEPT ![w] = label]

Outer(w) ==
  /\ \/ pc[w] = "outer" /\ Goto(w, IF paused THEN "sleep" ELSE "loop") /\ UNCHANGED ret
     \/ pc[w] = "sleep" /\ ~paused /\ Consumes(w, "loop")
     \/ pc[w] = "tail" /\ paused /\ Goto(w, "sleep") /\ UNCHANGED ret
     \/ pc[w] = "tail" /\ ~paused /\ Consumes(w, "outer")
  /\ UNCHANGED <<vars, mainVars, wjob, wseq, rounds, nonce, stray, templateVars>>

\* consumeJob and add: a job the thread has already is carried on with, another
\* one is saved, with the nonce that the pool has put into its blob.
Consume(w) ==
  /\ pc[w] = "consume"
  /\ wseq' = [wseq EXCEPT ![w] = sequence]
  /\ IF wjob[w] = job
     THEN Goto(w, "vm") /\ UNCHANGED <<wjob, rounds, nonce>>
     ELSE /\ Goto(w, "save")
          /\ wjob' = [wjob EXCEPT ![w] = job]
          /\ rounds' = [rounds EXCEPT ![w] = 0]
          /\ nonce' = [nonce EXCEPT ![w] = 0]
  /\ UNCHANGED <<vars, mainVars, ret, stray, templateVars>>

\* save and nextRound call Nonce::next.
Draw(w) ==
  /\ pc[w] \in {"save", "round"}
  /\ Fetch(w)
  /\ drawn' = (drawn \/ Current(w))
  /\ early' = (early \/ (ResetDue /\ Current(w)))
  /\ UNCHANGED <<mainVars, threadVars, hashed>>

DrawAgain(w) == Refetch(w) /\ UNCHANGED <<mainVars, threadVars, templateVars>>

Finished(w) == hashed' = IF Current(w) THEN hashed \cup {nonce[w]} ELSE hashed

\* Nonce::next has returned a range: save is done, or one more hash is.
Drawn(w) ==
  /\ Grant(w) \/ (TakeLast(w) /\ ~TooShort(call[w].counter))
  /\ nonce' = [nonce EXCEPT ![w] = call[w].counter]
  /\ stray' = [stray EXCEPT ![w] = FALSE]
  /\ IF pc[w] = "save" THEN Goto(w, "vm") /\ UNCHANGED hashed
                       ELSE Goto(w, "loop") /\ Finished(w)
  /\ UNCHANGED <<mainVars, ret, wjob, wseq, rounds, drawn, early>>

\* Nonce::next returned false, which save does not look at.
Refused(w) ==
  /\ Refuse(w) \/ (TakeLast(w) /\ TooShort(call[w].counter))
  /\ stray' = [stray EXCEPT ![w] = TRUE]
  /\ Goto(w, IF pc[w] = "save" THEN "vm" ELSE "tail")
  /\ UNCHANGED <<mainVars, ret, wjob, wseq, rounds, nonce, templateVars>>

\* allocateRandomX_VM waits for the dataset of the thread's job.
Vm(w) ==
  /\ pc[w] = "vm" /\ IsReady(wjob[w])
  /\ Goto(w, ret[w])
  /\ UNCHANGED <<vars, mainVars, ret, wjob, wseq, rounds, nonce, stray, templateVars>>

LastRound(w) == rounds[w] = ReserveCount - 1

\* The head of the hashing loop and nextRound: a new range when the old one is
\* used up, otherwise the next nonce and the hash of the last one. (A thread
\* that goes on past a range it was refused is not followed: a bound.)
NextRound(w) ==
  /\ pc[w] = "loop"
  /\ IF wseq[w] # sequence \/ wjob[w] = NoJob
     THEN Goto(w, "tail") /\ UNCHANGED <<rounds, nonce, hashed>>
     ELSE /\ rounds' = [rounds EXCEPT ![w] = (@ + 1) % ReserveCount]
          /\ IF LastRound(w)
             THEN Goto(w, "round") /\ UNCHANGED <<nonce, hashed>>
             ELSE /\ ~stray[w]
                  /\ nonce' = [nonce EXCEPT ![w] = @ + 1]
                  /\ Finished(w) /\ UNCHANGED pc
  /\ UNCHANGED <<vars, mainVars, ret, wjob, wseq, stray, drawn, early>>

-----------------------------------------------------------------------------

WorkerInit ==
  /\ Init
  /\ job = NoJob /\ enabled = TRUE /\ reset = TRUE /\ ready = FALSE /\ notice = FALSE
  /\ incoming = NoJob /\ sequence = 1 /\ todo = <<>> /\ events = 0
  /\ pc = [w \in Workers |-> "outer"] /\ ret = [w \in Workers |-> "outer"]
  /\ wjob = [w \in Workers |-> NoJob]
  /\ wseq = [w \in Workers |-> 0] /\ rounds = [w \in Workers |-> 0]
  /\ nonce = [w \in Workers |-> 0] /\ stray = [w \in Workers |-> FALSE]
  /\ drawn = FALSE /\ early = FALSE /\ hashed = {}

InNext(w) == DrawAgain(w) \/ Drawn(w) \/ Refused(w)

WorkerNext ==
  \/ \E j \in Jobs : SetJob(j)
  \/ \E value \in BOOLEAN : SetEnabled(value)
  \/ DatasetReady \/ Store \/ Touch \/ LoopCalls \/ Build
  \/ \E w \in Workers :
       Outer(w) \/ Consume(w) \/ Vm(w) \/ Draw(w) \/ NextRound(w) \/ InNext(w)

\* A thread inside Nonce::next is scheduled.
WorkerSpec ==
  /\ WorkerInit /\ [][WorkerNext]_allVars
  /\ \A w \in Workers : WF_allVars(InNext(w))

-----------------------------------------------------------------------------

\* No nonce of the current template is hashed twice, by whichever threads, over
\* pauses, repeated jobs of one template, new templates, new seeds and resets: the
\* order of store, reset and touch (Miner.cpp:525-550, 105-112) with add, save and
\* nextRound (WorkerJob.h:51-108). Excepted are a thread that was refused a range
\* and goes on past it (WorkerJob.h:107), which the model does not follow, and
\* templates that are reset under the threads' ranges (early), in one of two ways:
\* a range was drawn after the store and before the reset of the job's own handler,
\* or the notice of the dataset ran the handler again while reset was still set
\* (Miner.cpp:687-693).
HashedOnce ==
  [][\A w \in Workers :
       /\ pc[w] \in {"loop", "round"} /\ pc'[w] = "loop" /\ nonce'[w] # nonce[w]
       /\ Current(w) /\ ~early
       => nonce[w] \notin hashed]_allVars
==============================================================================
