# A TLA+ model of the Cruft runtime

Cruft is a JavaScript runtime written in Rust with its own engine, garbage collector, event loop
and host modules. This directory models its concurrent and memory-managing core in TLA+, checks
the models with TLC on small instances and proves the most important properties with TLAPS for
every instance. Paths below are relative to `src/crates/`.

`PROJECT.json` lists the components, the runs, a mutant for every checked property (a plausible
bug that the property catches), the source lines behind every definition, the findings, the
hazards and the theorems.

## The system and its parts

| Part | Source | Here |
| --- | --- | --- |
| Tier-1 heap, stop-the-world collector | `rusty-js-gc/src/lib.rs` | `GcHeap`, proved |
| Atomics wait, waitAsync, notify | `rusty-js-runtime/src/agent262.rs`, `intrinsics.rs` | `AtomicsWait`, proved |
| Compartment scheduler | `rusty-js-gc/src/lib.rs` | `CompartmentScheduler`, proved |
| Worker-hosted compartments | `rusty-js-runtime/src/worker_realm.rs`, `intrinsics.rs`, worker pool of `rusty-js-gc` | `WorkerHost` with `CompartmentScheduler` inside, proved |
| HTTP/2 connection | `http2-conn/src/lib.rs`, `cruft/src/http2_client.rs` | `Http2Conn`, proved |
| Job queue, timers, native addons' works and threadsafe functions | `rusty-js-runtime/src/{job_queue,napi}.rs`, `cruft/src/timer.rs` | `JobQueue`, `Timers`, `Napi` |
| Main agent's event loop: reactor and poll hook | `rusty-js-runtime/src/agent_reactor.rs`, `cruft/src/{main,fs}.rs` | `MainLoop`, proved, also against `LoopContract` |
| Incremental marking, Tier-2 arena, boundary send, watchdog | `rusty-js-gc/src/` | not modelled: only tests call them |
| Interpreter, JIT, parsers, built-ins, host modules, codecs, databases, package manager, command line | the other crates | not modelled |

The interpreter allocates from the Tier-1 heap and hands its roots to a collection. The main
thread runs one interpreter with its job queue, inside an event loop that also polls timers and
what native threads post to it. Agents (workers) are threads with an interpreter of their own, and
share only buffers, which `Atomics` synchronises. A compartment may live on a worker thread of a
pool: the scheduler chooses the worker, the main thread sends it jobs, and the compartment's code
may call back to the main thread and wait. A server's HTTP/2 connection is fed by the loop.

## Modules

### GcHeap

The parallel vectors of the heap are functions over every slot index (`slots`, `colors`, `owners`,
`generations`) with `len` their length; `free_list`, `freed_external`, `oom` and `oom_sentinel` are
the fields of the same names. A handle is the packed word of the code: `ObjectId(i, g)` is the
arithmetic of the packing, with the width as `% Words`.

The client is the interpreter and external. It holds the handles in `held`, passes exactly those
as roots, and gets handles only from allocations and from fields it can read. `issued`,
`externals`, `released` and `dropped` are history. The operations are `alloc_with_owner`,
`alloc_external_with_owner`, `reserve_oom_sentinel`, `take_oom`, `set_owner`, `free`,
`take_freed_external_handles` and the collections `collect_with_ephemerons`,
`collect_realm_with_ephemerons`, `try_collect_realm_with_ephemerons` and `sweep_realm`.

A collection holds the heap exclusively, so the client takes no step during one. It still is a
sequence of steps (`MarkSlot`, `MarkEphemeron`, `EndMark`, `SweepSlot`, `EndSweep`) in which any
grey slot may be traced next: the model covers every order of marking, the one of the code's work
list among them. `Reachable` is the reference definition: the least set of slots that holds the
roots and is closed under fields and ephemerons.

The code protects neither the reserved slot nor an external handle from its client, and neither
does the model. `free` and the overwrite of the reserved slot forget an external handle that the slot
holds without reporting it (`dropped`). `free`, `set_owner` and `sweep_realm` take the reserved slot
like any other: the allocation that overwrites it on a full heap gives it to the allocating realm,
whose teardown then frees it, and the next overwrite puts a value under the same handle again, or over
what was allocated in the slot since. `NoHandleReuse` says so (the reserved slot of a full heap is its
one exception), and `FreeListSound` is about heaps that recycle slots: with `no_slot_reuse` the list is
never popped and the overwrite may populate a slot on it.

Abstractions: an object is its reference fields; collections start at any time, not when the
pressure accounting asks for one; ephemerons given to a realm collection are owner-local.

### AtomicsWait

`waiters` is the process-wide list. Every agent has a slot for a blocking wait and one for a
waitAsync, with `pc`, `call`, `woken` and `result`. A step is what a thread does under one lock:
compare and register (`atomics_park`), look at the flag and the clock (`WakeUp`), leave the list
(`Leave`), and likewise `poll` and `deregister` for waitAsync; `notify` scans the list. Timeouts are
zero, finite (may pass at any time) or infinite. `told` is history.

Abstractions: one shared buffer that lives for ever, one outstanding waitAsync per agent.

### CompartmentScheduler

`affinity`, `load` and `next` are the fields of the scheduler; `assign`, `migrate` and `remove` its
operations. `Best` is the round-robin probe for the least loaded worker. `next` is kept modulo N,
and a migration goes to a worker number, the code's `% n` already applied.

### WorkerHost

The main thread (`main`), the worker threads (`queue`, `run`, `entries`, `callables`) and the scheduler,
taken in by `INSTANCE`. Main-thread actions are `Compartment`, `send`, `request`, `importValue`, `invoke`
and `close`, and the two ways of waiting: a promise's `poll` and the proxy call's
`await_callable_proxy_reply`. Each of these first answers the host calls and then, as a step of its
own, looks for the reply and the deadline, because workers run in between. The proxy call looks at
the deadline before the channel, so it may drop a reply that has come (`Overdue`). A worker begins
a job, may make a host call and wait for it, and ends the job.

Abstractions: a handler of a host call is one step of the main thread and does not re-enter; a
job makes at most one host call; a reply is the proxies it carries; jobs do not panic; shutting
down the pool, payload limits and shared string arenas are left out.

### Http2Conn

One server-side connection. The variables are the fields of `Http2Connection`; `send` holds the bodies that
wait for credit, `out` the frames produced by the feed or answer in hand, `requests` the completed requests.
`frames`, `wire` (the frames that the peer can read), `body` and `lost` are history. One action per frame
handler and early return; the frames of a chunk and the settings of a SETTINGS frame are chosen one at a
time, so a feed may fail in the middle, and then everything it produced is dropped with it (`lost`) as
`server_poll` drops it. A write (`stream_write_all`) passes any number of the frames of each stream: the
socket does not block, the caller ignores the error, and what does not fit its buffer is dropped. A flush
goes over the streams in any order, one DATA frame a step.

Abstractions: header blocks are whether they fit and decode, bodies are lengths, PRIORITY, unknown
frames and the padding's bytes change nothing. Frames are kept per stream, so a write may be cut in more
ways than one buffer allows. A write cut inside a frame makes everything behind it unreadable, which is
the case in which no later write passes a frame.

### JobQueue, Timers, Napi and MainLoop

One specification in four modules, composed by `MainLoop`; the main thread's place is `pc`.

- `JobQueue`: `nexttick`, `microtasks`, `macrotasks`, the running job, `pump_one_tick` and the microtask
  checkpoint after a timer's callback. While a job runs (`pc = "job"`) it may do any operation.
- `Timers`: the table by the order of registration, time as what is left of each delay. Due timers leave
  the table, or are re-armed, and join the macrotasks in one poll. `set_timer` is one step. In the code an
  async-hook callback runs between drawing the id and registering the timer (`timer.rs:529-534`), so that the
  ids of timers set by such a callback are not in the order of registration; the model's numbers are.
- `Napi`: async works, each with a thread, and a threadsafe function that the main thread and the addon's
  threads hold, call, acquire, release, ref and unref. Every atomic operation is a step; `at` is
  where a thread stands inside one. `keepalive` wraps at `Modulus` as `usize` does.
- `MainLoop`: `run_main` over its sources: the queue, the hook (inbox, timers, the two reads of
  `has_pending`, then park, sleep or go on) and the inbox; the loop ends after a turn in which no source
  was ready. The wake generation is `woken`: whether it moved since the hook observed it.

Abstractions: one threadsafe function, whose queue has no limit; the addon keeps the interface's rules
(a thread uses the function only while it holds it); the other surfaces of the hook (sockets,
processes, watchers) are absent; the asynchronous context of a job and async hooks are left out.

`LoopContract` is the abstract specification: operations begin while the loop is open, each is over
once, the loop ends only when none is pending, and nothing begins after that. `KeepsContract` maps the
queues, the running job, ref'd timers, queued works and a ref'd function to `pending`.

## Runs

Every run is `tlc -config <run>.cfg <MC module>`.

| Run | Instance | What it shows |
| --- | --- | --- |
| `gc_handles` | 2 slots, 2 generations, 2 realms, reserved slot, 2 external handles | free list sound, no handle given out twice but by the reserved slot of a full heap, every external handle in one place and released at most once, other realms untouched |
| `gc_collect` | 2 slots, 2 generations, 2 realms, full collections and those of realm 1, 1 field, 1 ephemeron | a collection keeps exactly the reachable slots of its scope, stale handles in fields or not, and ends |
| `aw_live` | an agent with both kinds of wait, a notifying main agent, 2 indices | list exact, no missed wake-up, notify in order; waits return and promises settle |
| `aw_notified` | 1 blocking agent, 1 main agent, no waitAsync | violated, see Findings |
| `cs_load` | 3 workers, 5 compartments | loads exact, placement on a least loaded worker |
| `wh_order` | 2 workers, 2 compartments, 2 calls, 2 messages each | order of messages, one worker per compartment, teardown last, one reply owed to every waiting call, proxies bound, closed compartments' host calls denied |
| `wh_live` | 1 worker, 2 compartments, 2 calls | every call settles by its deadline; replies come without any deadline when the code ends |
| `wh_hostcall` | 1 worker, 1 compartment, 1 call | violated, see Findings |
| `wh_misdirected` | 1 worker, 1 compartment, 2 functions | violated, see Findings |
| `h2_conn` | streams 1 and 3, 6 frames and settings, windows up to 3 | windows bounded, DATA within both windows, no sendable body left behind, an open header block is of the newest stream and incomplete, each request handed out once, answers well formed, or fitting where a part was lost |
| `ml_native` | 1 work, main thread and 1 other holding a function, 1 call | counters exact, no wake-up missed, no call lost at the end, completions not for deleted works, contract kept; works complete and the loop ends |
| `ml_timers` | 2 jobs of any kind, 2 timers or intervals of delay 0 or 1 | timeouts of one delay fire in order, contract kept, every job queued runs (`MaxJobs` bounds them) |

Why the bounds are enough: two slots hold a reference between realms, a recycled slot and a stale handle to
it. The second generation is the last one, where a slot is retired. Two waiters of one agent and two indices
tell keys, and a notify of one and of all, apart; `MaxCount` stands for the code's largest count and is
assumed to be at least the number of waiters (`CountAssumption`). Two compartments on one worker wait for
each other; on two workers their messages interleave. Windows of up to 3 with a frame size of 1 or 2 reach
zero, negative and overflowing windows and bodies of several frames; six frames are enough for a request in
two header fragments, its answer, a SETTINGS that shrinks the window and the credit that releases the body.
Two holds per thread make a release race with an acquisition; one work and one call race with each other for
the inbox and the counter, and `MaxWaking = 2` lets a work be queued again before its last thread has woken
the loop. Two timers tell order, re-arming and clearing while queued apart. `MaxJobs` bounds the ticks,
microtasks and macrotasks that are ever queued, and `JobsRun` needs it: in the code callbacks that queue a
tick or a microtask each, without end, keep the macrotasks waiting for ever (`job_queue.rs:808-845`).
`Backlog` only keeps intervals from queueing callbacks for ever. What is proved holds for every size, so
there the bounds only limit the evidence for what is not proved.

Deadlock is checked in the `gc_` runs and in `cs_load`. The other systems may stop: when every agent
sleeps in an untimed wait, when the bounded calls, messages or frames are used up, when a connection
closes, or when the loop ends.

A header block need not be contiguous: `goaway_code` notes the error of a frame that comes between
HEADERS and CONTINUATION and the feed goes on, so the request is still completed. `HeaderBlockOpen` does
not deny it.

## Fairness

- `GcHeap!FairSpec`: the collector, once started, runs. It is one loop on one thread.
- `AtomicsWait!FairSpec`: weak fairness of each step of a thread inside a wait (the operating system
  schedules it, the clock reaches a finite timeout) and of the poll of a waitAsync (the event loop
  polls again as long as the promise is pending).
- `WorkerHost!MainFairness`: the event loop keeps polling. Polls of different promises alternate, so
  one is enabled again and again and not all the time: strong fairness.
- Each liveness property of `WorkerHost` names what else it needs. `CallsSettle` assumes `DeadlinesPass`:
  the clock reaches every deadline, and nothing of the workers, since a compartment's code may loop for ever.
  `RepliesCome` assumes `WorkersRun` instead: workers run and code ends, and no deadline passes.
- `MainLoop!FairSpec`: the loop and each thread inside an operation run (weak fairness), time passes, and
  a job ends. A job may do any number of operations first, and leaves `pc = "job"` for each native call, so
  that ending it is enabled again and again: strong fairness.

## Proofs

`tlapm` checks them all; every safety invariant and every action property that a run checks is a theorem,
but for `RepliesOwed`, and so is the refinement `KeepsContract`. Each holds for every value of the constants
that meets the assumptions, which TLC evaluates on every run:

- `HeapAssumption`: at least one slot, realm 0 exists, the constants have their types.
- `WaitAssumption`, `CountAssumption`: the sets of agents, indices and values have their types, waits are
  finitely many, and the largest count reaches all of them.
- `SchedulerAssumption`, `HostAssumption`: at least one worker, finitely many compartments, the constants
  have their types.
- `Http2Assumption`: limits, windows and lengths are numbers, frame sizes are positive, and the initial window
  is at most the largest one.
- `TimersAssumption`, `NapiAssumption`: delays are numbers, works and threads are finitely many, and the
  counter (`usize` in the code) wraps only above the number of works plus two.

A property is seldom inductive by itself. What was needed in addition:

- `GcHeapProofs`: `TypeCorrect` rests on the packing: a generation within its limit never overflows the
  word, and unpacking inverts packing. `HandlesInductive` gives `FreeListIsSound` and
  `HandlesNeverReused`. Freeing needs to know that every handle ever given out for a slot has at most
  the slot's generation (`HandleInv`), and that a listed slot is empty, listed once and of a generation
  above all of them (`FreshList`); no sweep, `free` or overwrite of the reserved slot breaks it.
  `CollectInductive` gives `CollectionIsSafe`, `CollectionFreesGarbage` and
  `OtherRealmsUntouched`. `CollectInv` is the tri-colour invariant while marking, and while sweeping
  relates the slots before and behind the cursor to the reachable ones. `Reachable` being the least
  closed set, no induction over paths is needed: coloured slots stay inside every closed set, and
  when marking ends they are one. `CollectionsAdvance` is the safety half of termination: `Ahead`, what the
  mark and sweep loops still have to do, loses an element in every step of a collection and gains none,
  so that a collection has at most three steps per slot and two more. `ExternalsAreConserved` comes from
  `ExternalInv`: besides the handles given out so far none is known to the heap or the client, or was
  dropped, so a new one is in no place yet.
- `AtomicsWaitProofs`: `WaiterListIsExact`, `NoWakeUpIsMissed`, `NotifyWakesFirst`. `ListInv` says of the
  list in both directions that it holds the waits under way and not notified. That a notify of
  everyone leaves nobody asleep is a counting argument: the rank of an entry is at most the number of
  slots, since each slot has one entry.
- `CompartmentSchedulerProofs`: `SchedulerTypeCorrect`, `LoadsAreExact`, `PlacementIsBalanced`. The probe
  visits every worker, a least load exists by well-foundedness, and every operation moves one
  compartment between two counts.
- `WorkerHostProofs`: `MessagesStayInOrder`, `CompartmentsStayPut`, `NothingAfterTeardown`, `ProxiesStayBound`,
  `HandlersRunForOpenOnly`. `HostInv` follows a compartment
  from creation to teardown (`LifeInv`), says where its jobs are and in which order they queue (`JobsInv`),
  which numbers the queued and delivered messages have (`NumberInv`), and that proxies name compartments
  that were created (`ProxyInv`).
- `Http2ConnProofs`: `ConnectionTypeCorrect`, `WindowsBounded`, `DataStaysWithinWindows`, `RequestsHandedOnce`,
  `HeaderBlocksHold`, `NoBodyStalls`, `AnswersAreWellFormed`. `RequestInv` says that a stream is open, waits
  to be answered, or was answered, and was counted in each case. `FlushInv` says which bodies a flush in
  progress has yet to come to. `AnswerInv` says that a stream not answered has no frames and that a
  waiting body belongs to an answered one; then every DATA frame extends a well-formed answer, and a
  fitting one (`DataFits`), and a write cut short leaves an initial part of an answer, which fits (`InitialFits`).
- `KeepAliveProofs`: `LoopTyped`, `TimersFireInOrder`, `CountersAreExact`, `OneCompletionPerWork`,
  `NoWakeIsMissed`, `NoCallIsLost` and the refinement `LoopKeepsContract`. It counts holds, works and due timers;
  what each step of the loop does to the rest of the state is shown first in `MainLoopProofs`, and how it is a
  step of the contract in `LoopContractProofs`. `LoopInv` has a part for the main thread's place, for works,
  for who holds the threadsafe function and where its threads stand, for the counter, and for the turn
  in which the loop ends. The refinement needs in addition that nothing is pending when a turn without
  progress is over (`QuietInv`). `TimerInv` relates what is left of the delays of any two timeouts of one
  delay: the older never has more left than the younger.

Only model-checked: liveness (`CollectionTerminates`, `WaitReturns`, `WaitAsyncSettles`, `CallsSettle`,
`RepliesCome`, `WorkCompletes`, `LoopEnds`, `JobsRun`), which is beyond the prover (that a collection takes
finitely many steps is proved, that it takes them is not), `RepliesOwed`, which counts jobs, and the three
properties that are violated.

Most leaves name their prover. A leaf about sets, functions and records goes to Zenon; one that needs
arithmetic or sequences goes to the SMT solver and has a step of its own with only those facts.

## Findings

1. `aw_notified`: a wait decides that it timed out and leaves the list later. A notify in between
   counts it, and it returns "timed-out" all the same (`rusty-js-runtime/src/agent262.rs:246`). The poll of
   a waitAsync has the same gap.
2. `wh_hostcall`: the main thread answers host calls only while it polls for a reply. One made by
   the handler of a plain send, or for a request that has expired, is never answered, and its worker stops;
   one made while the compartment is built stops the main thread too
   (`rusty-js-runtime/src/worker_realm.rs:546`).
3. `wh_misdirected`: `importValue` works on a closed compartment and makes a new registry numbered from
   zero, so an old proxy calls a new function (`rusty-js-runtime/src/intrinsics.rs:35132`).

`PROJECT.json` quotes the tests that say otherwise.

## Not modelled

The interpreter proper is not in this tree; it appears as the client of the heap and as the code
that jobs run. Parsers, codecs, cryptography, Unicode tables, Intl and regular expressions are pure
functions over text or bytes. The JIT, WebAssembly and the SQL engines are language semantics. Host
modules are mostly operating-system calls. The map therefore covers a small share of the lines of
the repository: its bulk is built-ins, generated tables and host modules.

In the parts that are modelled, left out on purpose: incremental marking, the Tier-2 arena, the boundary
mailboxes and the watchdog, which only tests call; the audit of ephemerons across realms
(`rusty-js-gc/src/lib.rs:1113`); a shared buffer freed while someone waits on its address
(`agent262.rs:190`); the read-modify-write operations of `Atomics` (`intrinsics.rs:42262`); a host call
handler that drains host calls itself (`worker_realm.rs:171`); a threadsafe function used after its last
release (`napi.rs:4388`); and a poll hook that fails (`job_queue.rs:602`).
