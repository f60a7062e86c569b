# TLA+ models of BroadcastService

BroadcastService is a C++ runtime (thread pool, event loop, timers, futures),
a reliable transport over UDP, and three distributed protocols on top of it
(FIFO uniform reliable broadcast, lattice agreement, perfect links) with one
application each. This directory holds TLA+ models of these parts, the TLC
configurations that check them on small instances, and proofs checked by TLAPS.
`PROJECT.json` lists the components, runs, mutants, hazards, findings and
theorems, and maps every definition to the source lines it models.

## 1. The system

```
   applications:   PerfectLinks      FIFO                LatticeAgreement
                        |              |                      |
   primitives:          |        FIFOBroadcast         LatticeAgreement
                        |      UniformReliableBroadcast       |
                        |        BestEffortBroadcast          |
                        +---------- ReliableTransport --------+
                               PacketBatcher (a strand)
                                 ReliableChannel per peer  --- TimerService
                                 FairLossChannel, UDPSocket --- EventLoop
   runtime:    ThreadPool, WaitGroup/futex, strand, lock-free queue, futures
```

| Part | State | Operations | What is hard about it |
|---|---|---|---|
| Strand (`strand_impl.hpp`) | task queue, `submitted_`, references | `Process`, `Task` | push, count, pop and uncount are separate steps of many threads |
| Lock-free queue (`task_queue.hpp`) | `top_`, node links | `Push`, `TryPopAll` | CAS loops, reuse of nodes |
| Thread pool, wait group (`thread_pool.cpp`, `queue.hpp`, `wait_group.hpp`, `futex.cpp`) | queue, counter, sleepers | `Execute`, `Routine`, `Wait`, `SignalStop`, `WaitForStop`, `Shutdown` | lost wake-ups, tasks that submit tasks |
| Futures (`shared_state.hpp`, `combine.hpp`, ...) | result, callback, rendezvous | `Set`, `Consume`, `Get`, `All`, `First` | either side may be second, then deletes the state |
| Timers (`timer_service.cpp`, `backoff_retry.hpp`) | wheel, cancelled ids | `AddTimer`, `CancelTimer`, `Tick`, `Stop` | cancellation against an expiry under way; several ticks at once |
| Fair-loss channel (`fairloss_channel.hpp`) | packet queue and id set, budget, handlers | `Send`, read and write handlers, `Stop` | ONESHOT events that must be armed again; two-step bookkeeping |
| Reliable channel (`reliable_channel.hpp`) | entries, delivered ids | `Send`, retries, acks, `Stop` | loss, duplication, late retries and acks |
| Broadcast (`*_broadcast.hpp`) | acks, record of deliveries, reordering buffer | `Broadcast`, receive, deliver | crashes, majorities, garbage collection against late relays |
| Lattice agreement (`lattice_agreement.hpp`) | rounds with proposal, accepted value, counters | `Propose`, proposal/ack/nack handlers | late answers, rounds opened by peers, crashes |
| Applications | log, rate limiter, futures | main loop, callback | promise set before the callback; two threads, one log |

## 2. Modules

Arrows read "extends"; `MC*` modules only name the constants of an instance.
Where one run looks at several situations, a constant variable chosen by `Init`
tells them apart (`environment` of the link, `scenario` of lattice agreement,
`combinator` of the futures, `mode` of the applications).

| Module | Models | State and actions |
|---|---|---|
| `BestEffortBroadcast` | the links below the primitives | messages under way, who is up; a crash loses any part of what was sent |
| `UniformReliableBroadcast` -> `BestEffortBroadcast` | acks, relays, record, collection | one operator per branch of the receive callback |
| `FIFOBroadcast` -> `UniformReliableBroadcast` | the whole stack | `Broadcast`, `Receive`, `Stop`. A receive is one step, including the synchronous callbacks up to the delivery: all of it runs in the strand of the packet batcher |
| `FIFOService` | what FIFO uniform reliable broadcast promises | per process and source, the sequence of messages delivered |
| `LatticeAgreement` | proposer and acceptor | `Propose` (single and batch), the handlers of proposals, acks and nacks, `Crash` |
| `SetOperation` | `VectorSetUnion` and the comparison of sizes | operators on sequences, compared with sets by `VectorsAreSets` |
| `Strand`, `Strand_proofs` | `IStrandImpl` | one action per atomic statement of `Process` and `Task`, and the release by the owner |
| `ThreadPool` | pool, queue, wait group, futex | what a mutex guards is one step; sleeping and waking are explicit |
| `Futures` | shared state and combinators | one action per statement that touches shared memory |
| `RetryPolicy`, `TimerService` | wheel and backoff timers | `AddTimer`, `CancelTimer`, `Tick` (locked part), then the cancellations and fires one by one, `Stop` |
| `FairLossChannel` | both ends of a link, sockets, network | the three steps of `Send`, the handlers, the network's faults |
| `ReliableChannel` -> `FairLossChannel` | both ends with entries, timers, promises | send, retry, acknowledge, take, complete, stop |
| `PerfectLink` | what a reliable channel promises | messages accepted, delivered once, confirmed only if delivered |
| `LatticeApplication`, `FIFOApplication`, `PerfectLinksApplication` | the programs | main loop and callback over the service below, taken at its abstract level |
| `Applications` | `main.cpp` | chooses one of the three and runs it |

How the layers fit: the strand makes a received packet one step of the
protocols (`AtMostOneRun`, `RunsInOrder`); `ReliableChannel` implements
`PerfectLink`, which is how
the primitives see a link while a peer is up; `FIFOBroadcast` implements
`FIFOService`, over which `FIFOApplication` runs; `Termination` of
`LatticeAgreement` is the fairness `LatticeApplication` assumes. `TimerService`
justifies how `ReliableChannel` uses timers: after a cancellation at most one
more fire (`AtMostOneLateFire`).

### Abstractions

* Payloads, marshalling, logging and statistics are left out. A message is a
  record of the fields the protocols look at.
* Network, sockets, epoll and the timer descriptor are external: modelled by how
  the code uses them.
* A list of timers or packets is a set where its order has no influence.
* Timeouts are choices: when a retry timer fires is open in `ReliableChannel`.
  In `TimerService` time is counted in ticks.
* `LatticeAgreement` works on sets; `SetOperation` shows that the vectors of the
  code behave like sets, as long as a proposal has no repeats. The config file's
  documentation calls a proposal a set (`src/README.md:91`); the application
  does not remove repeats (`applications/lattice_agreement.hpp:189-198`).
* Copies of one packet on the wire at the same time are one datagram, and so are
  copies of one acknowledgement; a duplicate is a fault of the network. How many
  faults there are is part of `environment`.
* A retry policy in the channels is the number of valid timeouts left; the
  lengths the policies start with are part of `environment`.
* The executor below a strand takes what it is given. A pool whose queue is closed
  drops it instead (`thread_pool.cpp:39-42`, modelled in `ThreadPool`); then the
  tasks of the strand never run. The liveness checked for the strand is that of
  a strand over a running pool.
* Memory order: all atomics of the code are sequentially consistent, which is
  what interleaving models.
* In `Futures` the errors of `All` come one after the other: its `SetError` takes
  no lock, and in this program errors come from `ReliableChannel::Stop` on one
  thread.
* The lock-free queue is atomic where it is used.
* `RetryPolicy` has no jitter: no application turns it on.

## 3. Runs

| Run | Instance | Shows |
|---|---|---|
| `fifo_one_source` | 3 processes, 2 messages of a source that may crash | types, majority behind each delivery, each relay counted once, record and buffer agree and no message becomes new again, promises; implements `FIFOService` (safety); at rest, whoever is up has delivered what live sources broadcast and what anybody delivered |
| `la_two_proposers` | 3 processes, 2 incomparable proposals | types, decisions comparable, acks distinct; vectors answer every proposal under way as sets do |
| `la_crash_or_batch` | nested proposals and a proposer that may crash; or 2 rounds, singly or as a batch, with one process down | validity, asserts hold, decisions were proposed and are final, every live proposer decides while a majority is up |
| `strand` | 2 producers x 3 calls, 2 workers | mutual exclusion, exact counter, no lost task, safe deletion, order, every task runs |
| `timers` | wheel of 4, 2 timers, up to 5 ticks at once | timers neither early nor a turn late, one timer per id, one late fire at most, every timer ends |
| `link` | 1 message, one fault of any kind, `Stop` at any time; or 2 messages with budget and queue of 1 | implements `PerfectLink` (one callback per message, confirmed means taken, outcomes final); id set = queue |
| `link_live` | 1 message; 2 retries, one fault and handlers the first error ends, or 1 retry, two faults and handlers the second error ends | a packet lost or dropped comes back while its retry policy lasts; a packet queued after the last fault, with a credit to spend on it, is delivered and confirmed, unless the write handler or a read handler was given up before |
| `link_gives_up` | 1 message, no faults | expected violation, see below |
| `thread_pool` | 2 workers, 3 tasks, one submitted by another; stop or shutdown at any time | exact count, `Wait` means done, stopping ends |
| `futures` | 3 inputs, `All` or `First` | one side calls back, right result, `Get` returns |
| `applications` | 7 payloads; 8 rounds; 7 payloads over links | log of the FIFO application consistent, decisions logged in order, everything is logged: over perfect links exactly the payloads the sender fills in, each once |
| `links_overfill` | 7 payloads in messages of 2 | expected violation, see below |

Why the bounds are enough for the questions asked: three processes are the
smallest network with a majority that is not everybody, and it survives one
crash; two messages of a source are needed for reordering; the wheel turns more
than once and a tick can report more than a turn; two retries are enough for a
late one; budget and queue of one reach their limits; error policies of no and of
one timeout let a handler be given up within the faults of the instance; numbers of payloads and
rounds are no multiples of message and batch sizes, so that the last message and
the last batch are incomplete. What the bounds leave out: that a packet dropped
because *another* message fills the queue comes back is not checked, since two messages with
liveness are out of reach (run `link` checks their safety); in `link_live` the
queue is full of the packet's own copy. Symmetry is used in safety runs only.
`CHECK_DEADLOCK FALSE` stands where a system comes to rest: a network with
everything delivered, a strand without tasks, a stopped service. The
applications, the pool and the futures end in an explicit `Finished` step and are
checked for deadlock.

### Fairness

* Lattice agreement: while messages to live processes are under way some callback
  runs. That links deliver is an assumption here, not a consequence of the
  channel: `link_gives_up` shows that a channel may give up. `DroppedComesBack` and
  `QueuedIsConfirmed` say what a channel does guarantee, and under which
  conditions. No order is assumed, and nobody is obliged to propose.
* FIFO broadcast needs no fairness: `AgreementAtRest` speaks of the states in which
  nothing is under way to a live process. Every callback uses up a message and
  each process relays a message once, so an instance comes to rest if links
  deliver, under the same assumption.
* Strand, pool, futures, channels: a thread that can take a step does. The
  network delivers a datagram that is under way, except for the faults of the
  instance; socket errors are never obliged to happen, and the application need
  not send or stop.
* Timers: the timer descriptor becomes readable and the tick runs to its end.
* Applications: the main thread goes on, and the service below keeps the promise
  checked in its own module.

### Disagreements between documentation and code

Two runs are expected to be violated.

* `link_gives_up` states the "eventual delivery guarantee" of the documentation
  (`src/README.md:11`); a channel idle for as long as its `empty_write_policy_`
  lasts is never armed again. A read handler that uses up its `error_policy_` is
  not armed again either. `QueuedIsConfirmed` says what holds instead.
* `links_overfill` states that senders "send messages `1` to `m` in order"
  (`src/README.md:88`); the last message of `perfect_links` is filled up beyond `m`,
  logged and sent. The FIFO application compares with `m` and does not do this.
  `EverythingIsLogged` therefore speaks of the payloads filled in.

Met while modelling, without a run of their own:

* `TimerService::Stop` says "Expire all timers" and goes once around the wheel:
  timers not due by then stay.
* The assertion in `AddTimer` excludes the duration `MaxDuration()`, which a policy
  with jitter may draw.
* `CANNOT_FAIL` stands around the `read` of a descriptor that `Stop` may close while
  the event loop still runs (`Exit` in the model).

## 4. Proofs

`Strand_proofs` proves, for any finite set of producers, any finite non-empty set
of workers and any number of calls (`ProducerAssumption`, `WorkerAssumption`,
`MaxCallsAssumption`):

| Theorem | States |
|---|---|
| `TypeCorrect` | `Spec => []TypeOK` |
| `MutualExclusion` | the strand is never queued or run twice at once |
| `CounterIsExact` | the meaning of `submitted_` between any two steps |
| `NoEmptyBatch` | the early return of `Task` is dead code |
| `NoTaskIsLost` | a queued task has somebody bound to run it |
| `SafeDeletion` | references are exact; the object is deleted empty and out of reach |

None of these is inductive alone. The invariant is

```
IInv == TypeOK /\ NothingHeld /\ CounterExact /\ DutyIffPositive /\ References
```

Its core is `DutyIffPositive`: exactly while `submitted_` is positive there is
one "duty" (a producer about to submit, a queue entry, a running worker, or a
worker about to submit again). `fetch_add` on zero creates the duty,
`fetch_sub` passes it on or ends it. With `CounterExact`, which says that the counter is
the queue plus the batch minus the pushes not yet counted, a worker that pops
finds a task, and a queue without a duty holds only tasks whose producers are
about to count them. `NothingHeld` ties batches to the worker that processes
them, `References` the count to the owner, the queue entry and the runs. There is
one lemma per action (`PushIInv` ... `ReleaseIInv`). TLC checks the same properties,
except `TypeOK` and `BatchNeverEmpty`, in run `strand`.

Only model-checked: all liveness (TLAPS does not handle `ENABLED`), the
refinements, `RunsInOrder`, and everything outside `Strand`.

## 5. Not modelled

The compare-and-swap loops of the lock-free queue, the jitter of retry policies,
fibers and their mutex (not used by the applications), the context switch, the
spin lock (what it guards is one step), marshalling, the 32-bit wrap of ids,
`EventLoop::Stop`, parser, logging, statistics, the signal
handlers of `main`. Packets that arrive at the
channel of another peer (a kernel bug described in `reliable_transport.hpp`) are
not modelled either.

## 6. Plan

Done: the modules above and the proofs about the strand. Next, in this order:

1. Extend the model: the lock-free queue with reused nodes, shown to implement an
   atomic queue; lattice agreement with three concurrent proposers and two
   sources in FIFO broadcast within smaller per-step state; the event loop with
   its stop descriptor composed with the pool (`Runtime::Stop`); fibers and the
   fiber mutex; `Then` and `Else` of futures; `All` with concurrent errors; credits
   of the budget under late retries.
2. Abstract specification of lattice agreement (decisions form a chain) and the
   refinement by `LatticeAgreement`; a channel-level composition of
   `TimerService` with `ReliableChannel`.
3. Proofs for any number of processes: `UniformMajority` and
   `AcksAreDistinctRelays` and `RecordMatchesFifo` of the broadcast stack;
   `Comparability` of lattice agreement (two majorities of acceptors intersect);
   `CountIsExact` of the pool; `OneSideCallsBack` of the futures.
