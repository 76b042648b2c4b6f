# A TLA+ model of rxs

rxs mines RandomX: it takes jobs from a pool or a node, hashes them on the CPU, and
sends the results back. These modules model the parts of it that are hard to
test: the engine between the event loop, the hashing threads and the thread that
builds the RandomX dataset; the clients and the strategy that keep it supplied with
jobs; the ways in which news reaches the event loop; and the bookkeeping of the
compilers and of the generator of RandomX programs. TLC checks them on small
instances, TLAPS proves the safety properties for all sizes, but for one of which it
proves a part. Paths below are relative to `src/src/`.

## The system

One event loop (libuv) runs everything but three kinds of threads: the hashing
threads, the background thread of the dataset queue with the threads it starts
to fill the memory, and some short-lived helpers.

| Component | State | Operations | Hard parts |
|---|---|---|---|
| Nonce allocator `crypto/common/Nonce` | counter, pause flag, sequence number, all atomic and global | next, reset, pause, touch, stop | concurrent `fetch_add`, boundaries of the nonce space, flag and sequence changed by both sides |
| Dataset queue `crypto/rx/RxQueue`, storages `RxBasicStorage`, `RxNUMAStorage` | `m_state`, `m_seed`, `m_pending`, the memory of each node and the seed it was built for, the global RandomX configuration | enqueue, isReady, dataset, backgroundInit, onReady | memory written outside the lock, superseded requests, failed allocation, a configuration written by two threads, shutdown during a build |
| Miner `core/Miner` | current job, `reset`, `active`, `enabled`, `auto_pause` | setJob, pause, setEnabled, stop, onConfigChanged, onDatasetReady, onTimer, execCommand, onRequest | order of its writes against threads that read them without a lock |
| CPU backend `backend/cpu/CpuBackend`, `backend/common/Workers` | the settings its threads run with, the threads | setJob, stop, start | blocking joins on the event loop |
| Hashing thread `backend/cpu/CpuWorker`, `backend/common/WorkerJob` | its job, range, sequence number and virtual machine | start, consumeJob, allocateRandomX_VM, add, nextRound | check-then-act on the global flags, polling |
| Result queue `net/JobResults`, `base/io/Async` | two vectors, a mutex, an eventfd | submit, onAsync, stop | swap, coalesced wake-ups, life time of the handler |
| Benchmark `backend/common/benchmark`, `BenchClient` | threads left, sum, requests | start, done, destroy | life time of the state its threads use, a job that changes under them |
| Network `net/Network`, strategies, Client, DaemonClient | socket state, failures, time-outs, active pool | connect, login, submit, tick, close | late answers, retries, re-entrant callbacks, deletion |
| DNS `base/net/dns` | queue of listeners, cached result | resolve, notify | listeners that resolve again inside notify |
| LineReader | partial line | parse, reset | chunks against lines |
| Configuration and Watcher | the options, the file, the watch, a timer | reload, save, PUT | changes during a reload, files replaced or gone |
| RandomX program: interpreter and four compilers | last modification of each register, position in the code | compile, CBRANCH, CFROUND | four kinds of bookkeeping that must agree |
| SuperscalarHash generator | ports, registers, decode buffer | generateSuperscalar | plans across buffers, ports and cycles |
| Controller, App, Base | who exists | start, stop | order of destruction |
| HTTP server, API, Hashrate, memory pools, other cryptography, hardware, third party | none that others decide by | input, output, pure computation | |

How they interact. The strategy passes the active pool's job to Network, which
calls `Miner::setJob` on the event loop. Miner asks
`Rx::init` for the dataset of the job's seed; the queue's background thread
builds it and wakes the loop through an `Async`, which calls
`Miner::onDatasetReady`. Miner tells the hashing threads what to do only
through the pause flag, the sequence number (a change means: fetch the job
again, 0 means: exit) and the job behind its mutex. A thread asks the queue for
the dataset, polling, draws ranges of nonces from the allocator, and hands results
to JobResults, whose `Async` brings them back to Network on the event loop.

## The modules

| Module | Models | Built on |
|---|---|---|
| `Nonce` | `Nonce::next`, reset, pause | |
| `WorkerJob` | job slot, rounds and ranges of the threads, jobs and resets of the loop | extends and refines `Nonce` |
| `RxSeed` | `RxSeed` and its equality (rx/0 and rx/2 build the same dataset) | |
| `DatasetService` | abstract specification: what the queue promises to the miner | `RxSeed` |
| `RxQueue` | the queue, both storages and the global configuration, lock by lock | `RxSeed`; refines `DatasetService` |
| `Miner` | Miner, CpuBackend, Workers, CpuWorker, the sequence number | over `DatasetService` |
| `AutoPause` | console, battery and user activity | |
| `ConfigWatcher` | the configuration file, its watcher, reload and PUT | |
| `JobResults` | the way of a result to the network, and the shutdown around it | |
| `Bench` | the benchmark's state, its client and the threads that hash it | |
| `LineReader` | chunks of a stream put together into lines | |
| `Client` | stratum and daemon client: a record, an operator for each handler | |
| `PoolChoice` | abstract specification: whom the miner works for, and who may take over | |
| `Network` | strategy, clients, resolver and libuv's close callbacks | extends `Client`; refines `PoolChoice` |
| `RandomxProgram` | targets of branches and removed roundings, in five back ends | |
| `Superscalar` | the generator of SuperscalarHash programs | |
| `WorkerJob_proofs` | theorems about `Nonce` and `WorkerJob` | |
| `Events_proofs` | theorems about `JobResults`, `LineReader` and `Bench` | |
| `RxQueue_proofs`, `Miner_proofs`, `AutoPause_proofs`, `Network_proofs`, `RandomxProgram_proofs`, `Superscalar_proofs` | theorems about the module of the name | |
| `MC*` | instances for TLC | |

The compositions. `Miner` runs over `DatasetService` instead of `RxQueue`: the run
`rxqueue` checks, and the theorem `Implements` proves, that the queue
implements the service, so the miner need not be checked against the queue's
inner steps. `WorkerJob` puts the threads and the loop around `Nonce`, and
`ImplementsAllocator` proves that each of its steps is one of the allocator's or leaves it alone. `Network` puts
clients, strategy, resolver and event loop together. What the miner gets of it is `PoolChoice`
(`ImplementsPoolChoice`). `MCEvents`, `MCOptions` and
`MCRandomxProgram` are of another kind: their parts share nothing, and each
behaviour is of one part.

**Nonce.** Variables: `counter` (`m_nonces`), `paused`, and per thread the value
its `fetch_add` returned. `Nonce::next` is split at the `fetch_add`; the tests
and the return that follow touch nothing shared but the flag. `granted`,
`epoch` and `lastRange` are history. `mask - counter` is the
unsigned subtraction of the code (`Room`).

**WorkerJob.** The loop's handlers are sequences of steps (`todo`): store, reset,
touch, hold, release. `ready` is whether the dataset of the job's seed is complete,
`notice` that the loop has yet to hear of it, `reset` the flag that `setJob` leaves set: so
`DatasetReady` may run the job's handler a second time, with another reset of the counter. A
thread consumes the job (one step, its window is in `Miner`), adds it, waits for the dataset, draws, hashes and
counts rounds modulo the reserve; the slot is used again for the same job. `drawn` and `hashed` are history: whether a range of this template was
drawn, and the nonces of it that were hashed, on which `HashedOnce` counts.
`early` marks templates that are reset under ranges already drawn, in one of the code's two ways: a thread drew between the store
of the job and the reset of its handler (the window at `Miner.cpp:540`), or it drew before
the notice of the dataset ran the handler again. A thread that goes on past a range it
was refused (`stray`) is not followed further. Only index 0 of the nonces; the threads exist from the start; jobs are of one algorithm, and the next
template may bring the next seed.

**RxQueue.** Each critical section of `m_mutex` is one action, and so is each
step of the background thread outside it. `main` and `bg` are the places of
the two threads; `content` is history: the seed the memory was built for.
`Rx::init` takes the lock twice (`Test`, `Enqueue`), so builds may end in
between. `config` is the global configuration written by `RxAlgo::apply`, on the loop for
each job and in the storage for each build; `torn` says that it changed while the
memory was filled, `merged` that enqueue's early return took a job
of the other algorithm into a pending request. The NUMA storage allocates on each
node, computes one dataset and copies it.

**Miner.** Handlers of the event loop are sequences of steps, one step for each
access to a variable shared with the threads; `todo` holds the steps left.
`SetJob` starts with what precedes the lock, `Store` and `Ask` are
the critical section (a thread that calls `Miner::job` waits for its end), and
`HandleJobChange`, `Backend`, `Zero`, `Join`, `Start` follow the calls of
`handleJobChange`, `CpuBackend::setJob` and `Workers`. A hashing thread has one
action for each test of the sequence and the flag, for the fetch of the job,
for `WorkerJob::add`, for the draws in `save` and `nextRound` and for each attempt to get the dataset. Of the nonces there is
whether any are left (`space`): `TakesLast` is the `fetch_add` that uses them up, `Raise` the `pause(true)` that follows it, which
may come after the loop has reset the counter and lowered the flag. `late` records that; it,
`overtaken`, `intervened`, `resetFor` and `events` are history.

**AutoPause.** One action for the timer, the console's keys, the options and the
world. `Check` is the lambda `autoPause` of `Miner::onTimer`.

**ConfigWatcher.** Editors save in place, by renaming, or remove the file first; the
API writes it too. A reload is three steps: the file is read, the listeners are
called (which may join threads), the watch is stopped and started. Stopping it
drops the reports of the kernel; starting it without a file fails unnoticed.

**JobResults.** Threads find, submit and push; the loop wakes, swaps, delivers;
`Stop`, `Forget`, `Join` are `Controller::stop` as far as it meets the threads.

**Bench.** Begins when the threads have been created, which `Workers::start` does
before `BenchState::start`. A thread tests itself, fetches the job, draws, hashes,
adds to the sum, is done (under the mutex) and leaves. The counter saturates at
`Size`. The online benchmark asks a server for its
job while threads hash a warm-up job. `confused` marks a draw made with one job from
the counter meant for the other.

**LineReader.** A byte is its position in the stream, a line the position of the
newline it ends with (`newlines`, any set). A chunk is what one read returns, cut anywhere; `EndOfLine`
and `Rest` are the turns of `getline`'s loop, `Reset` a connection that breaks in the middle of a
line. `Add` drops what does not fit, as the code does. `received` is history: what `onLine` was called with, and for
which line.

**Client and Network.** A client is a record, a handler is an operator from record to
record, and a call that leads from client to strategy to the next client is a chain of
such operators. One action of `Network` is one callback
of the loop with everything it calls, but for `DnsUvBackend::notify`: it tells one client after the other how
a lookup ended, and a client that is told of a failure may, over the strategy and the next
pool, lead back into `notify`. Each client it tells is an action, `Tell`, and `telling` is the stack of its
unfinished calls; nothing else happens until the stack is empty. Sockets that are closed wait on libuv's stack
of closing handles (last closed, first called). A client's time-out may expire whenever it
is armed. The strategies are `FailoverStrategy` and, for one pool,
`SinglePoolStrategy`. The daemon
polls a chain that grows; answers come late and in any order.

**RandomxProgram.** A program is drawn instruction by instruction while all five
back ends do their bookkeeping: index marks in the interpreter, positions in the
code of x86, A64, RV64 and RV64 vector, counted in instructions that
emit something (which ones do differs: IMUL_RCP by zero or a power of two, ISWAP of a register with itself,
rotations by 0 on A64). x86 removes a CFROUND when the next follows without a
rounding instruction between; the second version of RandomX makes it conditional and removes
none. Then the program runs; a branch tests a field of a register to which the code added
a constant that guarantees the field changes.

**Superscalar.** The generator plays a processor with three ports: it picks a
decode buffer, fills its slots with macro-ops of the drawn instruction, chooses
source and destination among the registers that are ready in time, and places
micro-ops on ports. A random draw is any value.

Definitions whose names contain `Faulty` stand beside the definition they vary.
They are plausible mistakes (a forgotten test, a step in the wrong order) and
are used to make sure that each property would notice; no specification uses
them.

## What is checked

| Run | Module | Shows | Bounds |
|---|---|---|---|
| `nonce` | `MCWorkerJob` | ranges disjoint, within the mask and the low word; a pause at the end; no nonce of a template hashed twice | 2 threads (symmetric), ranges of 2, space 0..5, word of 3, 4 jobs (two of one template, the next one with the same seed or another), 3 events; 9.8 million states |
| `rxqueue` | `MCRxQueue` | the queue implements `DatasetService`, serves only complete datasets with the right configuration, answers every request, shuts down | 2 storages, 2 nodes, 3 requests over 3 algorithms (two of equal seeds) and 2 seed hashes; 583 000 states |
| `miner` | `MCMiner` | the engine against every order of jobs, builds, pauses, stops, restarts and ends of the nonces | 1 thread, 4 events out of 4 jobs (another blob, seed, algorithm), 5 commands and the end of the nonces, 2 settings; 2.0 million states |
| `jobresults` | `MCEvents` | results: once, in order, always; a benchmark ends with every nonce in its sum once; lines intact | 2 threads and 4 results; 2 threads, 3 nonces, reserve 2, one pause; streams of up to 9 bytes with newlines anywhere, buffer and chunks of up to 3; 780 000 states |
| `autopause` | `MCOptions` | no mining on battery, pauses end; the file becomes the configuration | pauses: none, finite; 4 saves of the file; 9 000 states |
| `network` | `MCNetwork` | implements `PoolChoice`, prefers the first pool, a working one is found, clients go away cleanly, a daemon follows its chain | six configurations of up to 3 pools on up to 2 hosts, 2 retries, a tip of 2; 213 000 states |
| `randomx` | `MCRandomxProgram` | branch targets agree, no rounding changes, iterations end; generated programs can be decoded and wait for operands | 4 instructions, 2 registers, fields of 4 values; latency 8, 3 registers (r5 among them); 511 000 states |
| `miner_vm`, `miner_reset`, `miner_disabled`, `autopause_manual`, `jobresults_stop` | | the disagreements below | |

These properties deserve a remark.

* `HashedOnce` excepts templates that are reset under ranges already drawn, by the job's own handler or by
  the second one that the notice of the dataset runs (`early`), and threads that go on past a range they were refused. It says that
  there is no other way; without either exception TLC finds the nonces that are hashed twice.
* `ImplementsService` is the refinement. `Phase` maps `m_state`, `m_seed` and
  `m_isAllocated` to what the miner sees.
* `ConfigOfJob`: two threads write the configuration without a lock. That hashing
  finds its own rests on the order of apply, enqueue and build, and fails only for a `merged` job
  (below).
* `HashHasVmUnlessStopMissed` says who may be in the hashing loop:
  only a thread with a virtual machine for its job, or one that missed a stop
  (`miner_vm`). The first time a thread enters the loop it has neither
  job nor machine, and the test of the cache size must turn it away.
* `OnlyLastHashIsStale`: the dataset is rebuilt under running threads by
  design. What must hold is that a thread that computes such a hash
  will see a new sequence number before the next.
* `MinesCurrentJob` excludes a thread whose `consumeJob` was overtaken: one
  that had tested the flag and was still reading when the loop changed
  something. `overtaken` is cleared at the next `consumeJob`.
  So it does not say how long such a thread keeps the old job (see below).
* `WantedMines` allows a thread that polls for the dataset of a superseded
  seed. The code really has this case: mining enabled during
  a build lets a thread fetch a job whose dataset never comes. It also allows a pause for the end of the nonces
  (`Exhausted`), even one that is raised late, when the counter has been reset and the flag lowered: mining then
  sleeps until the next job, which the code really does.
* `PausedForCause` says that this end is the only cause left once mining is wanted and its dataset
  there: whatever else raises the flag is followed by a step that lowers it.
* `BenchEnds` and `ResultComplete` except what the code does not survive: a thread that
  draws with the new job before the reset or with the old one after it
  (`confused`); one overtaken between reading job and sequence, which
  hashes the warm-up job for ever; a failed self-test, which is never counted down; a
  failing request that deletes the state under the threads.
* `LinesIntact`: a line too long for the buffer is passed on cut and harms no other.
* `Recovers`: a pool that works in the end is mined on in the end, whatever failed before; except after a
  request that got lost in `HttpClient::onResolved` (below). It assumes that
  a pool that took a login request answers it or closes: the time-out of the answer is cleared
  in the line after it is set (`Client.cpp:567`).
* `ImplementsChoice` is the refinement of `PoolChoice`. The pools that are `up` there are the clients logged on
  that have not failed since (`LoggedOn`), and its `job` is the pool whose job Miner has: so the job of a
  backup that logs in late, of a pool that is being closed, or of a node that answers after it was given up does not
  get through, and a pool takes over in the same step in which it logs on. A backup let go in the middle of
  a lookup connects all the same and may log on unasked (`again`); it is `up` only if the strategy made it active.
  The mapping ends (`Retire`) where the strategy is deleted, where a client has overwritten a socket,
  and where a single pool has sent `client.reconnect`: it is still mined over
  its old socket while the strategy counts it closed. `FirstPoolHoldsOne` and `GoneIsSilent`
  say that such a notice is the only way to that second socket.
* `FollowsChain` holds because the job time-out forgets both hashes; until then an old
  template answered last keeps the client on an old block.
* `ConfigFollowsFile` excepts two things the code really does: what is
  written between the read and the restart of the watch is not loaded, and a watch
  restarted without a file is gone for good, while PUT goes on answering 204. It says
  that there is no third.
* `TargetsAgree` also justifies that the model executes interpreter and x86 in step.
* `OperandsReady`: the multiplication of IMULH is searched for again from the head of the
  next buffer, not from the cycle its destination was waited for; on the
  instances it never comes too early.

Why the bounds suffice. Hashing threads share nothing with each other in
`Miner`, only with the event loop, so a second thread adds combinations and no
new cases; in `WorkerJob`, `Bench` and `JobResults`, where they do meet, there are two. The
invariants of `Miner` that are proved do not depend on the bounds at all; four events
are enough for a job, its dataset, a pause or a stop, a change, and what undoes it. In
`WorkerJob` the space has a straddling range, a last complete range and fetches
beyond the end; with resets, calls from before one end after it, and six resets are as many as
three events can cause, with the notices of their datasets.
`rxqueue` has enough requests for one being built, one pending and one superseding
it, in between the two locks included. `network` has each shape of configuration: a pool with TLS, a
daemon, backups on the same host and on another, daemon and pool as each other's
backup; each has its own limits of faults and notices, at least enough to fail over and back. In
`randomx`, four instructions are two branches with something between, or a
rounding, a branch around it and another; `MaxThrowaway` is 1 so that the
generator gives up a buffer (with the code's 256 it hardly ever does: ports are full first).

Deadlock is checked in `rxqueue`, `jobresults`, `autopause_manual` and `randomx` (with
explicit last states). In the others it is not: the bounds on events end
the input, and in `network` the model also ends with a deleted strategy or with a socket
overwritten after a notice.

### Fairness

Weak fairness of each thread's own steps (the operating system schedules it), of
the steps of a handler the event loop has begun, and of handling a signalled
`Async` (libuv polls it). A build ends, with or without memory. Nobody owes a
job, a command, a save, a `next` call, a shutdown or a spurious wake-up. A thread's
20 ms sleep is a step that is enabled when its condition holds; a thread that
polls may see a flag late but not never. `AutoPause` assumes that the timer repeats,
`ConfigWatcher` that half a second passes. In `Network`, armed time-outs expire,
close callbacks run, lookups end and `notify` goes on telling; pools, up to the limit of faults, may do
anything. It is written `[]<>~due \/ []<><<A>>_vars`, which is weak fairness for
an action whose `due` is its guard. `randomx` needs that the processor goes on;
`Superscalar` none.

### Disagreements between the code and what it says

Each is a run that TLC ends with a counterexample.

* `miner_vm`: *"Must not be NULL"* (`crypto/randomx/randomx.h:317`). `consumeJob`
  sees a sequence other than 0, `Nonce::stop` sets it to 0, `WorkerJob::add`
  records the 0, `allocateRandomX_VM` gives up because of the 0, and the loop
  compares the two zeros, finds the job current and hashes without a virtual
  machine. With one, it hashes on while the event loop waits to join it.
* `miner_reset`: *"Don't reset nonce if pool sends the same hashing blob again"*
  (`core/Miner.cpp:535`). `reset` is sticky: a job between the end of
  a build and its notice is handled twice, with two resets.
* `miner_disabled`: *"paused, press r to resume"* (`core/Miner.cpp:494`).
  `Nonce::stop` clears the flag, and `onConfigChanged` restarts the threads
  without asking whether mining is enabled.
* `autopause_manual`: the same line. The timer ends a pause of the user when
  another cause goes away.
* `jobresults_stop`: *`assert(handler != nullptr)`* (`net/JobResults.cpp:141`).
  `Controller::stop` destroys Network before it joins the threads.

### Seen while modelling

In the models or next to them, without a run of their own:

* A thread that the loop overtakes in `consumeJob`, after it fetched the job (`CpuWorker.cpp:262`) and before `WorkerJob::add` reads
  the sequence, has the old job under the new number: it mines it until the next job or pause.
* A thread that has used up the nonces may call `pause(true)` (`Nonce.cpp:47`) after the loop has reset the counter
  for the next job and called `pause(false)`: mining then sleeps until the job after that.
* A job of rx/0 (or rx/2) that arrives while the same dataset is pending for the other is
  merged; the background thread then applies the other's configuration, and hashes are
  wrong until the algorithm changes.
* `RxNUMAStorage`: when the first node has no dataset while others have one, `map::at`
  throws; on the background thread this ends the process. After a failed cache, a retry
  allocates the datasets again and leaks them.
* `Client::parseResponse` compares `m_id` with 1, so a refused login on the first
  client leaves it connected without a time-out. A client deleted during a lookup while
  it still holds an old socket violates `assert(m_listener)` (`Client.cpp:325`, `884`).
* `HttpClient::onResolved` tells nobody of a DNS error; a daemon client in state
  Connecting is then never tried again.
* `DnsUvBackend::notify` may append to the list it iterates over; failures of pools
  on one host count twice.
* After a finished benchmark, a reload of the configuration restarts threads whose
  `BenchState::start` has no state (`assert`, `BenchState.cpp:89`).
* The RV64 vector compiler loads literals of IMUL_RCP with a 12-bit offset, which the 257th
  of a program exceeds (`jit_compiler_rv64_vector.cpp:514`); a program of 384 instructions may have as
  many, though hardly ever does. ISUB_R with an immediate of −2^31 differs between interpreter and
  the A64 and RV64 compilers in the sign.

## What is proved

For any threads, nonce spaces, seeds, nodes, requests, results, jobs, streams, pools, programs and latencies, from the
named assumptions on the constants (`NonceAssumption`, `WorkerJobAssumption`, `SeedAssumption`,
`QueueAssumption`, `MinerAssumption`, `MaxResultsAssumption`, `BenchAssumption`, `LineReaderAssumption`,
`LastPoolAssumption`, `ConfigsAssumption`, `RandomxAssumption`, `SuperscalarAssumption`); TLC evaluates these on its
instances. Type invariants are proved, not run.

* `WorkerJob_proofs`, about the allocator: `TypeCorrect`, `DisjointRanges`, `FitsMask`, `KeepsHighWord`,
  `PauseAtEnd`. The argument for disjointness: every claim, granted or still in
  a call, of the current epoch lies wholly below `counter`, and claims of one epoch
  are pairwise apart; a `fetch_add` yields the counter itself, so the new claim
  is apart from all old ones. Epochs of claims never exceed the current one,
  so a reset starts with no claim of its own. `PauseAtEnd` needs in addition that
  the claim which uses up the space, once made, is either still in a call, or has
  raised the flag, or was overruled. About the threads around it: `ImplementsAllocator`, and with
  it `WorkersKeepRanges` (the four invariants hold there too), and `HashesOnce`. A thread that has saved
  the current template works through a range of its own, whose start `Base` is computed from its
  nonce and rounds: that range has been granted in this epoch, no two threads have the same one, and what is
  hashed lies in granted ranges but not in what is left of anyone's (`WorkInv`). Whenever a reset is due
  nobody has drawn for the template (`ResetInv`), unless `early` says so; once a range was refused, no fetch
  succeeds any more (`StrayInv`). `HandlerInv` is about the job a handler is about to store: the next one of the pool.
* `RxQueue_proofs`: `TypeCorrect`, `ServedComplete`, `ReadyServed`, `OwnConfig`, `Owned` and
  `Implements`. The properties do not mention the stages of a build and are not
  inductive without the other parts of `IInv`: the seed being asked for is a job's; where
  the loop can be; where the threads can be in each `m_state`; while pending, either the item
  that waits or the one being built is what `m_seed` promises; how far the thread
  has come with the storage, and what it has spoiled; a finished dataset is sound and
  untouched; and, for `OwnConfig`, who wrote the configuration last and for whom (`WritersInv`, `RelyInv`).
  `Implements` has one lemma for each step the service can see and shows that
  all others are invisible.
* `Miner_proofs`: `TypeCorrect`, `HashesWithVm`, `StaleHashIsLast`,
  `MinesTheJob`, `Pauses`, `PausesForCause`. The types alone need that `todo` is the rest of one of the
  28 handlers. The other parts: `ZeroInv` (while threads run, the sequence is 0 only before the
  joins), `AskInv` and `JobInv` (what the miner knows of the dataset while it holds the lock and
  after), `PauseInv` (the flag follows pools and user, but for the steps in which a handler is about to set it), `CauseInv` (a raised flag has a cause:
  no nonce left, nobody who wants mining, no dataset, or a handler, begun or announced, that will see to it), and for each thread
  `ThreadInv`: where it can be with which number, job and machine.
* `AutoPause_proofs`: `TypeCorrect` (auto_pause is exactly the number of noted causes)
  and `StaysOff`; the strengthening: a tick on battery has noted the battery, and what is noted keeps mining off.
* `Events_proofs`. Results: `TypeCorrect`, `OnceInOrder`, from three lemmas about
  concatenation, one for each step that moves results. Lines: `PassesLinesOn`; the invariant says where the unfinished line
  begins (`Begun`) and that the buffer holds what was parsed of it, if it fits
  (`Kept`); what was received ends in lines already parsed, in order. Benchmark: `CompleteWhenReported`,
  `RemainingCounts`. `CountInv` ties
  `remaining` to the set of threads not through, `JobInv` the draws to the job, and
  `LedgerInv` accounts for every nonce: not drawn, in the hands of one thread, or in the sum.
* `Network_proofs`: `NetCorrect` (the inductive invariant), `MinesActive`, `PrefersFirst`, `FirstHoldsOne`,
  `LetGoIsSilent`; on top of it `ChoiceCorrect`, `HandsOver` and `ImplementsPoolChoice`. `ClientOK` lists, for the stratum client and the daemon client, what each may have in
  each state: a lookup only without a socket (unless it has connected over one it held, `again`), a login only over a socket that has connected, nothing but a closing socket once
  it is let go. `MinerOK` is about the first pool alone: when it leads it is active, and the miner's
  job is the active pool's. Each handler of a client is shown to keep both and never to make a client
  lead, or give a job, that did not (`Keeps`), but for an accepted login, which tells the strategy. From there the proof follows the calls: states of
  clients, strategy, resolver, `notify`, actions. The second invariant, `ChoiceInv`, holds until the strategy
  is deleted: whoever is active is logged on (or has overwritten its socket), whoever is logged on without `again`
  is active (`Fits`), and `m_index` is the active pool's (`IndexOK`), without which `onClose` would
  try the wrong backup. It needs `NetInv`: that a client closed has no login left, that the daemon client's state
  is `Connected` only from its first template. Every handler either leaves both (`Follows`) or is a login
  (`ChosenFits`), so the active pool changes only to none, from none, or from a backup to the first (`Handed`).
  The refinement follows from the two invariants: the mapped `up` is the active pool alone (`UpIs`), and what
  ended the mapping stays (`RetiredStays`), for which `notify` must be known not to forget an overwritten socket.
* `RandomxProgram_proofs`: `TypeCorrect`, `SameTargets`, `SameRounding`, `ThirdTestFails`. All bookkeepings
  are shown to be images of the interpreter's marks under the position map, which is
  monotone (`InOrder`); a removed rounding is covered by a later one with nothing that rounds between
  (`DroppedCovered`), wherever branches lead on the way. `ThirdTestFails` is the arithmetic of CBRANCH: the same branch is
  not taken three times in a row.
* `Superscalar_proofs`: `AlwaysDecodable`, from tables of the instructions and
  buffers, proved case by case, and three parts: what is being filled fits (`FitInv`), only the second macro-op of a multiplication is carried over to
  the next buffer (`CarryInv`), the micro-ops counted (`CountInv`). `OthersReady` and
  `ReadyWhenFresh` are about `OperandsReady`: an instruction's ports are searched for from the cycle at which its
  source, and then its destination, was found ready (`SourceInv`). The destination of IMULH is found first, and its
  cycle forgotten; but it is the first register to be ready of all (`HighInv`), so the source is not ready before it. Registers
  are excepted whose last result is that of the same multiplication with the same 32 random bits: `ReadyWhenFresh` assumes
  that there are none (`FreshDraw`). That naturals have minima, on which the searches rest, is proved from the library's theorem that the strict subsets of
  finite sets are well-founded.

Only model-checked: liveness (all `~>` properties and the others that need fairness), since it rests on
fairness and `ENABLED`; and `OperandsReady` when random bits repeat. Then it is not a matter of the
algorithm but of ports, latencies and numbers of registers: an excluded register may be ready first, and
a multiplication comes too early if the ports are free, too. `Draws` has one member in the run `randomx`, so that all bits are
equal; draws that repeat only at times are neither proved nor in that run. Where all bits are equal, TLC
found no multiplication too early, nor in deeper searches with 2 to 8 registers.

## What is abstracted, and what is not modelled

* Memory is sequentially consistent. In the code the stores are, but the loads of
  the flag and the sequence and the `fetch_add` of the counter are relaxed. Each
  variable still has one order of changes, which is all `Nonce` needs; that a
  thread sees changes of two variables in another order is not modelled.
* A hash is a step, a dataset is the seed it was built for, a job is its
  id, blob, difficulty and seed; a version of the configuration is a number, accepted or not, watched or not.
* Calls on a deleted `JobResults` handler are undefined; the model lets
  them do nothing and states that they should not happen. Nor does `Network` go on after undefined behaviour.
* Miner: the reports of the hashrate and the API, the self-test and launch status of
  workers. Light mode; huge pages matter only as an allocation that may fail.
* Network: the JSON of requests and shares' sequence numbers, the inside of TLS, SOCKS5,
  ZeroMQ, SelfSelectClient, the counting of results.
* Bench: a restart of its threads by a reloaded configuration, `setSize`.
* RandomxProgram: the machine code of instructions, literal pools, alignment; the
  pure computation in RandomX itself.
* Superscalar: immediates and shifts, latencies that choose the address register, the execution
  of the program.
* Not modelled at all: the HTTP server and API beyond the requests that pause or
  reconfigure, Hashrate and NetBuffer (nobody decides by them), memory pools,
  reading of the JSON options, Argon2, Blake2, AES, Keccak, ed25519, hardware detection
  and MSRs, vendored libraries. These are sequential, pure or input and output, and make
  up most of the source's lines: the models cover a small share of all lines and
  most of those where threads, callbacks and failures meet.

## Plan

Done: the engine, the allocator at work, network and resolver, results,
benchmark, lines, configuration, RandomX bookkeeping, and the proofs above. What could follow:

1. An abstract specification of one pool connection that `Client` refines, below `PoolChoice`.
2. `OperandsReady` for repeated draws, for the number of registers and the latencies of the code.
3. The literal pools of the compilers, SelfSelectClient, SOCKS5 and ZeroMQ.
4. The life cycle of App as a composition of all of it.
