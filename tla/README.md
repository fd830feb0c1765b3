# A verification of the CyberRT core in TLA+

CyberRT (`src/code/cyber`) is the runtime of a robot: processes on one or more
hosts exchange messages over channels; inside a process, messages are fused,
buffered and handed to coroutines that a small number of threads run. This
directory models its concurrent core, checks the models with TLC on small
instances and proves the central safety properties with TLAPS for all instances.

Paths below are relative to `src/code/cyber`. `PROJECT.json` holds the same
information in a form that tools can read: the lines each definition stands for,
the runs, the hazards, the theorems.

## 1. Inventory

A message travels like this. `Writer::Write()` calls a *transmitter*
(intra-process, shared memory or RTPS, chosen by a hybrid transmitter from what
*service discovery* knows of the readers). On the other side a *dispatcher*
thread receives it and runs the listeners of the channel, which call
`DataDispatcher::Dispatch()`: the message is put into the *channel buffers* of
its readers, a fusion callback combines it with the latest messages of other
channels, and the reader's *coroutine* is notified. A *processor* (a thread of
the scheduler) finds the coroutine updated, resumes it, the coroutine fetches
from its *data visitor* and calls the user's callback.

| component | state | operations | what is hard | what makes it correct |
|---|---|---|---|---|
| AtomicRWLock (`base/atomic_rw_lock.h`) | two atomics | Read/Write Lock/Unlock | weak exchanges, announced writers | exclusion, exact counters, writers not overtaken |
| BoundedQueue (`base/bounded_queue.h`) | head, tail, commit, ring | Enqueue, Dequeue | lock-free, stale copies, slots reused | a bounded FIFO; slots have one owner |
| WaitStrategy (`base/wait_strategy.h`) | condition variable | EmptyWait, NotifyOne, BreakAllWait | signals without the mutex | no waiter is forgotten |
| ThreadPool (`base/thread_pool.h`) | queue, stop flag | Enqueue, worker loop, destructor | a stop that races a worker going to sleep | the destructor joins |
| Scheduler, classic policy (`scheduler/`) | run queues per priority, registry, contexts | CreateTask, NotifyProcessor, NextRoutine, RemoveTask, Shutdown | all processors scan the same queues; flags without locks | a routine runs once at a time; messages are handled; removal is final |
| CRoutine (`croutine/`) | state, update flag, lock, forced stop | Resume, Yield, Sleep, SetUpdateFlag | a notification that arrives while the routine parks | no lost wakeup |
| Choreography policy (`scheduler/policy/`) | one queue per processor | as above | task moved between processors | as above |
| Data layer (`data/`) | rings, reader indices | Fill, Fusion, Fetch | readers overtaken by the ring, several feeding threads | order, freshness, no loss except by overrun |
| Shared-memory transport (`transport/shm`, `transmitter/shm_transmitter.h`, `dispatcher/shm_dispatcher.cc`) | segment of blocks, notification ring | Transmit, Listen, ReadMessage, Recreate, Remap, Destroy | several processes, no common lock, processes die | whole messages, locks that fit their holders, notifications heard |
| Hybrid transport (`transport/transmitter/hybrid_transmitter.h`, `transport/receiver/hybrid_receiver.h`) | peers, modes, history | Enable, Disable, Transmit | peers come and go while messages flow | every known peer is served |
| Service discovery (`service_discovery/`, `base/signal.h`) | warehouses of roles, slots of listeners | Join, Leave, OnRemoteChange, OnTopoModuleLeave | three kinds of threads dispose of changes at once; processes die or are dropped alive | only what left is removed; what left is forgotten; roles that stay find each other |
| Reader, Writer (`node/`) | handles of the above | Init, OnChannelChange, Shutdown | peers that join while the role joins; a callback into a role that was shut down | as above |
| Timer (`timer/`) | two wheels of buckets | AddTask, Tick, Cascade, Start, Stop | index read without its mutex, a callback through a raw pointer | a task is in one place, fires in its tick, is not forgotten |
| TaskManager (`task/`) | queue, worker routines | Enqueue, Shutdown | a worker that parks on an empty queue | a notified queue is drained; Clear() returns and is final |
| Service, Client (`service/`) | pending requests, list of requests | AsyncSendRequest, HandleResponse, Process, destroy | timeout against a late answer, services that restart | a call gets its own answer, once; destroy() returns |
| Poller, Session (`io/`) | epoll requests | Register, Poll, Block | an event before the routine waits | the routine is resumed |
| Record (`record/`) | chunks, flush thread, index | WriteMessage, Flush, Close | a crash between chunk and index | what was closed is readable |
| Blocker, logger, parameters, class loader, global data, time, tools | — | — | see PROJECT.json | — |

Interactions: dispatcher → data layer (calls, under the buffer's mutex); data
layer → scheduler (a callback per visitor); scheduler ↔ coroutine (context
switch); processes ↔ processes (shared memory, the topology topic and service
channels over RTPS); channel manager → readers and writers (a signal with
slots) → hybrid transports (calls); tick thread → task manager → worker routines
(a queue and the scheduler's notification); everything uses AtomicRWLock,
BoundedQueue and the thread pool.

The main hazards are listed in `PROJECT.json` at the line where they
bite, with the properties that would notice them going wrong.

## 2. Modules

| module | models | state and actions |
|---|---|---|
| `AtomicRWLock` | `base/atomic_rw_lock.h` | `lock_num_`, `write_lock_wait_num_`; one action per atomic access, spurious failures of the weak exchanges included. `behind` is history: who arrived after an announced writer. |
| `BoundedFifo` | abstract specification | a queue of at most `Size` elements and what it has handed out. |
| `BoundedQueue` | `base/bounded_queue.h` | `head_`, `tail_`, `commit_`, `pool_`; one action per atomic access; storing and copying an element take two steps, so that a copy can be torn. |
| `WaitQueue` | waiting calls, all wait strategies | the queue as a sequence (that it is one is what `BoundedQueue` shows); fine grained between a failed attempt and the wait. |
| `ThreadPool` | `base/thread_pool.h` | extends `WaitQueue`: workers, clients, destructor. |
| `ClassicScheduler` | `scheduler/*.cc`, `policy/*classic*`, `croutine/croutine.{h,cc}`, `routine_factory.h` | routines, run queues, registry, group notification; processors, creators, removers, transport threads and the shutdown as interleaved threads. Locks are represented by who is inside (their exclusion is what `AtomicRWLock` shows). |
| `CacheBuffer` | `data/cache_buffer.h`, the reading half of `channel_buffer.h` | pure operators on a ring, each executed under its mutex. |
| `DataVisitor` | `data/data_visitor.h`, `fusion/all_latest.h`, `data_dispatcher.h` | feeders of the main channel that fuse step by step, other channels filled in between, one reading routine. `fused`, `since`, `fetched` are history. |
| `ConditionNotifier` | `transport/shm/condition_notifier.cc` | the indicator in shared memory, the numbers writers have reserved, each reader's position. |
| `ShmSegment` | `segment.cc`, `xsi_segment.cc`, `block.cc`, `state.h`, `shm_conf.cc` | every segment ever created, which of them is found under the key, and each process's `Segment` object. Two of the six size classes stand for all: what matters is that a larger class has fewer blocks. |
| `ShmTransport` | `shm_transmitter.h`, `shm_dispatcher.cc` | composes the two: processes that transmit, listen, leave (`Disable`, `Shutdown`) or die (`Crash`, external). |
| `TaskManager` | `task/task_manager.{h,cc}` | the task queue, callers that notify the routines one by one, worker routines, `Shutdown`. The queue is the sequence that `BoundedQueue` implements; of the scheduler only the notification and the resumption of a waiting routine are kept. |
| `TimingWheel` | `timer/*.{h,cc}`, `Clear()` of `init.cc` | extends `TaskManager`: both wheels, `AddTask` in three steps (its entry, the choice of the bucket, the insertion), the tick thread entry by entry, the cascade of an assistant bucket too (its mutex is held, so an `AddTask()` for that bucket waits), owners that start and stop timers, callbacks on the worker routines. A bucket holds weak references, so a stopped timer's task may still be in it. |
| `ChannelManager` | `service_discovery/` for one channel, `base/signal.h` | warehouses, connected slots, the `Dispose()` under way on every thread as a record, what each process has broadcast and how much of it the others have received. |
| `HybridTransport` | `hybrid_transmitter.h`, `hybrid_receiver.h` | extends `ChannelManager`: peers per mode, enabled modes. |
| `Topology` | `node/reader.h`, `node/writer.h` | extends `HybridTransport`: the owners' steps of joining and leaving, `OnChannelChange`, processes that end. |
| `Client`, `Service` | `service/client.h`, `service/service.h` | calls with their numbers and promises; the list, the thread and the owner of a service. |
| `ServiceCalls` | `service/`, `node/node_service_impl.h` | composes the two over two RTPS channels (external), each reader receiving what a writer wrote in order and from the first message on. |
| `MCClassicScheduler`, `MCShmTransport`, `MCTimingWheel`, `MCTopology`, `MCServiceCalls` | — | instances for TLC. |
| `AtomicRWLockProofs`, `BoundedQueueProofs`, `ClassicSchedulerProofs`, `DataVisitorProofs`, `ShmTransportProofs`, `TimingWheelProofs`, `TopologyProofs`, `ServiceProofs` | — | theorems. |

Definitions whose name has the form `X_Something` and stand before a definition
`X` are deliberately wrong variants of `X`. They are used to show that a property
would notice the mistake; no specification uses them.

Segments of shared memory are removed by key: a process that has one attached
keeps it, so `shm` is a sequence of segments and `key` an index.
`SerializeToArray()` tests sizes before it writes, hence a failed serialisation
leaves the block unchanged. One channel is modelled, so that the fields of a
`ReadableInfo` that differ between two notifications are one machine word and
cannot be torn.

In the topology the two warehouses `channel_writers_`/`channel_readers_` and their
indices by node are one set of roles per process, since a role's kind and node are
constants; the search of `OnTopoModuleLeave()` is one step and its removals are
several. Slots are called in any order (the code: in the order of connection), and
the changes a process receives from itself, which `IsFromSameProcess()` drops, are
left out. Types without a serializer, whose changes are not broadcast, are not
modelled. A participant that was dropped is rediscovered only after its removal has
been worked off, because both come from one thread of Fast-RTPS. A role is created
and shut down once. A writer that is created again has a new id and is another role.
A reader that is deleted and created again in its process is given the same receiver
and announces the same id (`reader_base.h:198-225`); that case is not modelled.

A request and its response carry a header of two ids and a number; the body is
the call itself, so that a response can be compared with what was asked. The
depth of the services' QoS profile (ten) is above the number of requests in the
run. A service may fail to start, be destroyed, or see `IsShutdown()`, and be
created again in another process, where it receives the old requests once more.

## 3. Runs

| run | instance | shows |
|---|---|---|
| `rwlock` | 2 readers, 2 writers, write-first | `MutualExclusion`, `CountersExact`, `NotOvertaken` (no reader that begins after a writer announced itself gets in before it), `WriterGetsLock`. |
| `queue` | 2 producers, 2 consumers, ring of 2, 3 calls each | `ImplementsFifo` (refinement of `BoundedFifo`), `SlotsOwned`, `EmptyIsReal`, `ReservedIsPublished`. |
| `wait_strategies` | 2 enqueuers, 2 dequeuers, queue of 1; polling, blocking and timed strategies | `BreakReleasesAll`, `WaiterGetsElement` (a waiting consumer without a time limit does not stay beside an element unless `BlockWaitStrategy` made it miss a notification). |
| `pool_destructor` | 1 client, 2 workers, `BlockWaitStrategy` | *violation* of `DestructorReturns`, see findings. |
| `sched_messages` | 2 processors, 2 priority levels, 1 task, 2 sources | `RunExclusive`, `NoLostWakeup`, `MessagesHandled`. |
| `sched_removal` | 1 processor, 2 routines of one name, 1 remover, shutdown | `RegistryMatchesQueues`, `RemovedIsIdle` (what `RemoveCRoutine()` took out is not run again; after `Shutdown()` nothing is), `ShutdownReturns`. |
| `sched_early` | 1 processor, 1 task, 1 message at any time | *violation* of `MessagesHandled`, see findings. |
| `data_visitor` | 2 feeders, 2 other channels, rings of 2, 4 + 3 messages | `RingKeepsNewest`, `FetchedInOrder`, `NewestNotLost`, `TuplesInOrder`, `SkipsOnlyOverrun`, `FusedIsFresh`. |
| `shm` | 2 writers, 1 reader, 2 small blocks or 1 large, messages for a small, a large or no block, notification ring of 2, 3 messages, 1 process that leaves or dies | `LocksExact`, `WholeMessages`, `MessageFits` (only a message larger than every block overruns its block), `HeardIsNotified`, `NotifiedIsReadable`. |
| `timer` | a periodic and a one-shot timer, work wheel of 2, assistant wheel of 2, 1 worker routine, task queue of 1 or 2 | `OnePlace` (a task is being added, in one bucket, queued or with a routine), `FiresOnTime` (in its tick, unless its `AddTask()` met the tick thread: then a turn off), `ArmedIsFired`, `NotifiedDrains`, `ClearedIsQuiet`, `ClearReturns`. |
| `topology` | 2 processes with equal process ids on two hosts, 1 writer, 2 readers with one receiver, 4 changes | `PeersServed`, `RemovedHasLeft`, `PeersConnect`, `LeftIsForgotten`. |
| `service_calls` | 2 clients, 3 calls, 1 service that ends once and is created again | `ResponsesMatch`, `AnswerArrives`, `DestroyReturns`. |

**Bounds.** Every counter that the code leaves unbounded has a bound in a guard
(`MaxCalls`, `MaxMsg`, `OversizeAt`, `MaxOther`, `MaxLeave`, `MaxStarts`, `MaxOvertaken`,
`MaxChanges`, `MaxEnds`). They are chosen so that the
interesting cases happen: the ring of the queue has `Size + 2` slots and up to six
elements pass through it, so a slot is used twice while a slow consumer still has
the old index; four messages overrun a ring of two while the reader is anywhere;
the notification ring of two slots is lapped by three messages; the three
messages are enough to open a segment, to replace it and to write into the
replacement by a process that still knew the old one. Of the three, the second
(`OversizeAt`) may be larger than any block: it may find no segment, one of small
blocks or one of large blocks, alone or beside the other writer. Two threads per role suffice
for the exclusion properties, whose violation involves a pair; the proofs
remove the bound altogether for eight of the modules. Wheels of two buckets make
every interval that is longer than one turn pass through the assistant wheel and its
cascade. The task queue has one or two places (chosen in `TaskInit`): one is full as
soon as two timers fire together, and two hold a task that was left behind beside a
new one, which a routine must take with one notification. The consumers of `WaitQueue`
call as often as they like; `MaxCalls` bounds what each producer adds. Four
changes of the topology allow a writer and both readers to join and one of them to
leave, die or be dropped, in any order. Two calls of one client and one of another
are what it takes to confuse numbers within a client and between clients.
`ShutdownNotify` stands for the constant 255 that the code adds to the group's counter on shutdown; 2 is more
than the number of processors of that run, which is what matters.

**Fairness.** Weak fairness of the steps of a thread that is inside an
operation: threads are operating-system threads, no lock of the code waits for
an event that the model leaves out, and a thread that has begun a call goes on
with it. Beginning a call (a message, a creation, a removal, a lock request)
is never assumed. Timed waits end, because clocks advance (`WakeTime`, `TimedOut`,
the one-second wait of a processor). Spinning on an exchange gets weak fairness of
the exchange succeeding when it is continuously possible; a weak exchange that
fails spuriously for ever is thereby excluded. No strong fairness is used.
In `TimingWheel` the tick thread, the worker routines, an owner inside `Start()` and
a `Clear()` that has begun go on. In `Topology` an owner that has begun to join or
leave goes on, threads finish the calls they are in, and RTPS delivers what was
published, reports a dead participant and finds a live one again; it may report a
live one as lost at any time. In `ServiceCalls` the threads of clients and services
go on and RTPS delivers; that a service starts, stays or is created again is never
assumed but a hypothesis of `AnswerArrives`.
The scheduler's spin locks are taken with weak fairness, which suffices because
`AtomicRWLock` lets announced writers go first.

**Mishaps of the shared-memory transport.** A message that is larger than any block and
four orders of events in the code leave memory or processes with something wrong. The
model contains the step in which each of them happens, records it in `mishap`, and the
run does not explore what follows (constraint `NoMishap`); the properties are stated of
the behaviours without them. They are: a message above 32 MB, the last ceiling of
`GetCeilingMessageSize()`, which needs no race at all: `AcquireBlockToWrite()` recreates
the segment and hands out a block that is too small (`oversize`, `shm_conf.cc:73`,
`segment.cc:50-66`); a segment opened between `shmget()` and the construction
of its `State` (`unready`, `xsi_segment.cc:79`); `Recreate()` that finds a
smaller segment created by another process meanwhile and goes on with it
(`small`, `segment.cc:150`); an index that is tested before and used after
`Remap()` has moved to a segment with fewer blocks (`beyond`, `segment.cc:91`).
The last, `Recreate()` through the null `state_` that a failed `Remap()`
leaves (`segment.cc:146`), ends the process in the model. The run has no deadlock
check: when the reader died and the messages are sent, the system has stopped.
`HeardIsNotified` and `NotifiedIsReadable` do not speak of a writer that is so
slow that the ring is lapped while it stores (`lapped`): with 4096 slots the code
relies on that not happening.

## 4. Findings

* `pool_destructor`: `BlockWaitStrategy` notifies without holding its mutex and
  waits without a predicate (`base/wait_strategy.h:41-49`). A worker that found the
  queue empty and the flag clear before the destructor set it goes to sleep after
  `notify_all()`; the destructor, which "joins all threads"
  (`base/thread_pool.h:89`), does not return.
* `sched_early`: `Scheduler::CreateTask()` dispatches the routine
  (`scheduler/scheduler.cc:57`) before it registers the callback that notifies it
  (line 62). A message in between fills the buffer and wakes nobody; it is handled
  only when another message comes.

Met while modelling, documented here and as hazards, without a run of their own:

* `task/task_manager.cc:42`: a worker routine that found the queue empty is still
  READY until it hangs up, and `NotifyProcessor()` marks only waiting routines. If
  every worker routine is in that window when a task is enqueued, the task stays in
  the queue until the next `Async()`. `NotifiedDrains` says that a notification which
  reaches a waiting routine empties the queue, what was left behind included.
  (`RoutineFactory` avoids the window by announcing `DATA_WAIT` before it looks.)
* `node/reader_base.h:224`: the readers of a channel in one process share a receiver
  and announce its id. When one of them leaves, writers take the id for gone and
  disable the transport although another reader stays. `PeersServed` and
  `PeersConnect` exclude readers whose receiver another one has left (`SharerLeft`).
* `base/signal.h:58`: slots are called without the mutex, so `OnChannelChange()` may
  run in a role that `Shutdown()` has finished with, through a null pointer. The
  model ends the process.
* `topology_manager.cc:132`: the removal of a participant may overtake a join of it
  that is being disposed of; the role then stays in the warehouse (`overtaken`).
* `service/service.h:120`: the list and its mutex are destroyed before the receiver
  that calls back into them (`crashed` in the model).
* `transport/shm/shm_conf.cc:73`: `MESSAGE_SIZE_MORE`, meant "For message 10M+"
  (`shm_conf.h:73`), is 32 MB. A larger message makes every transmission recreate the
  segment, and `AcquireBlockToWrite()` then hands out a block of 32 MB without testing
  again (`segment.cc:50-66`): the serialised message runs into the next block or past
  the segment. `MessageFits` says that only such messages do.
* `scheduler/policy/scheduler_classic.cc:185`: once `stop_` is set `RemoveTask()`
  returns true without removing the routine or waiting for it. Its owner may not free
  anything on that answer; `RemovedIsIdle` promises idleness for removals by
  `RemoveCRoutine()`, and for all routines when `Shutdown()` has returned.
* `transport/shm/segment.cc:155`: a writer spins for ever when dead processes hold
  every block.

## 5. Theorems

All proofs are of the modules as the runs use them, from the named assumptions
about constants in the component modules: finite thread sets, sizes that are
natural numbers, disjoint roles. `SchedulerAssumption` says that threads, routines and
the values that stand for nobody are told apart and that the priorities are
`0 .. n`; `TransportAssumption` that every process is a writer or a reader and that
`NoInfo`, the default constructed `ReadableInfo`, is no info that was stored;
`TimingWheelAssumption` that wheels are not empty and that the duration a callback sets
for its next round is at least `TIMER_RESOLUTION_MS`, which the code tests, and below
`TIMER_MAX_INTERVAL_MS`. The last half the code tests of periods only
(`timer.cc:57`, a guard of `Start` in the model): the correction of `timer.cc:114` adds
what earlier rounds started too early, so a timer within that error of the maximum could
exceed it, and `FiresInItsTick` does not speak of it. The other two theorems about the
wheel do not need this half.
Between them the theorems state every safety invariant and every action property
that a run checks, with the one exception named at the end.

* **`AtomicRWLockProofs`**: `LockIsExclusive`, `LockCountersExact`,
  `WriterNotOvertaken`, for any finite sets of readers and writers. Exclusion alone
  is not inductive: the exchange compares `lock_num_` with a number, so the
  invariant has to say that `lock_num_` *is* the number of readers, or -1 with a
  writer, and `write_lock_wait_num_` the number of announced writers
  (`CountersExact`), and that a reader's copy is never negative
  (`CopyNotNegative`). Cardinality facts (adding and removing one element) carry the
  counting. `WriterNotOvertaken` adds `HeldBack`: a reader behind a waiting writer
  has not passed the test of the waiting count.
* **`BoundedQueueProofs`**: `RingTypeOK`, `RingSlotsOwned`, `RingEmptyIsReal`,
  `RingImplementsFifo`, for any threads, any ring size, any number of calls.
  The invariant says that every index between `commit_` and `tail_` has exactly
  one producer (`Owners`), that the slots between `head_` and `commit_` hold what
  their producers stored (`Stored`), that live indices never lie a whole ring apart
  (`RoomLeft`, with arithmetic lemmas on `GetIndex`), and that a consumer's copy
  is the published element as long as `head_` has not moved (`CopyCurrent`): this
  makes a torn or stale copy harmless, because the exchange of `head_` discards it.
  The refinement maps `queue` to the committed part of the ring; reserving, storing
  and copying are stutters, a commit is `Enqueue`, a successful exchange of `head_`
  is `Dequeue`.
* **`DataVisitorProofs`**: `VisitorTypeOK`, `VisitorRingKeepsNewest`,
  `VisitorFetchedInOrder`, `VisitorNewestNotLost`, `VisitorTuplesInOrder`,
  `VisitorSkipsOnlyOverrun`, `VisitorFusedIsFresh`, for any number of channels and feeders and any queue
  sizes. Lemmas about one ring (`Fill` keeps and adds what the ring offers, indices
  modulo the capacity are injective on what is offered) are proved once and used for
  all buffers. The invariant ties the ring to the history `fused`
  (`FusionRing`), the values a callback has read so far to what was newest when
  it began and to the last tuple (`Reads`, `LastTuple`), and the
  mutex to the one feeder that is inside (`Callback`). `NewestNotLost` follows from
  the reader's half (`Reader`): its index is the successor of the last tuple it took.
* **`ClassicSchedulerProofs`**: `RoutineRunsOnce`, `RegistryAgrees`, `RemovedStaysIdle`,
  `WakeupsKept`, for any processors, routines, priorities, sources and removers, with
  `TypeCorrect` before them. The invariant has layers, each proved from those below it.
  `HoldInv`: what a processor has taken is locked, and by it alone. `MutexInv`: whoever
  adds or removes an id holds its mutex. `QueueInv`: what is queued was dispatched, once
  and at its level, and is registered or about to be removed (`QueuedOnce`,
  `QueuedIsKnown`), and what is registered is queued or about to be (`KnownIsQueued`);
  agreement of registry and queues holds only while the mutex is free, so the
  invariant names who makes them differ. `IdleInv`: a remover takes the routine's lock
  before it erases, so a removed routine is with no processor. `JoinInv`: processors have
  left their loops when `Shutdown()` has returned. `WakeInv`: an unread
  message of a routine in `DATA_WAIT` has a source that will raise the flag, a flag that
  is raised, or the processor that is just about to look (`Handled`). `WakeupsKept`
  assumes `~EarlyMessages`, messages that come after the callback is registered;
  with earlier ones the wake-up *is* lost, which is finding `sched_early`.
* **`ShmTransportProofs`**: `NotificationsHeard`, `NotificationsReadable`,
  `BlocksLargeEnough`, `LocksAreExact`, `MessagesWhole`, for any processes, numbers of
  blocks, ring length, messages and crashes. Layers: `BaseInv`, types and what a place
  says of the attachment of a process; `RingInv`, that numbers below `next_seq` are
  reserved or stored and that a slot's info is stored before its number (`InfoFirst`,
  `AllStored`), with the arithmetic that numbers of one slot are whole rounds apart;
  `BuiltInv`, that a segment under construction is its creator's alone and what a process
  believes of the size is true; `FitInv`, that a writer past the test has room, or has a
  block of the largest kind and a message larger than that;
  `LockInv`, the count of holders per segment and block, where a process that died keeps
  what it held; and `WholeInv`, that a block is garbled only while a writer is on it
  or has died on it, that nobody else holds it then, and that its stamp only grows.
  The hypotheses on `mishap` and `lapped` are those of the properties (section 3), and
  the proofs show where each is needed.
* **`TimingWheelProofs`**: `ClearedStaysQuiet`, `TaskInOnePlace`, `FiresInItsTick`, for any
  timers, sizes of both wheels, resolution, durations, worker routines and queue
  length. Layers: `TypeInv`; `QuietInv`, which threads have ended at each point of
  `Clear()`; `PlaceInv`, the five kinds of place exclude each other and each holds a task
  at most once (the task of a new `Start()` is fresh because numbers of earlier starts
  are below it, `Created`); and `DueInv`, what the ticks left say of the place: a bucket of
  the work wheel lies that many buckets ahead (`DueWork`), one of the assistant wheel
  so many turns ahead, with the remainder in the task (`DueAssistant`), and a choice
  that `AddTask()` has made is still right (`DueAdding`). Each step then is division with
  remainder (`DivMod`, `ModOnce`).
* **`TopologyProofs`**: `TopologyInvariant`, `EveryPeerIsServed`,
  `RemovedRolesHaveLeft`, for any processes, hosts, readers, writers and mapping of
  relations to modes. `PeersServed` speaks of a warehouse and a transport that are
  updated in different steps by different threads, so the invariant has to say which
  of them can be busy with the same role: an owner disposes of nothing but its own
  role and when its state says so (`OwnerCalls`); what the remote thread disposes of
  was broadcast by the role's own process, a leave only of a role that is gone
  (`PublishedIsOwn`, `RemoteCalls`); the participant thread removes roles of dropped
  processes only (`ParticipantCalls`); roles of a dropped process are about to be
  removed or came with an overtaken join (`DroppedIsRemoved`, `RemoteOvertaken`); and
  a role whose leave is being notified is out of the warehouse (`LeaveRemoves`), so
  that no listener is told to disable a peer that the manager still knows.
* **`ServiceProofs`**: `ServiceInvariant`, `ResponsesReachTheirCalls`, for any clients,
  calls and services, any number of restarts. The invariant follows the header through
  the channels, the list and the thread (`AllGenuine`: it still belongs to the body),
  and says that the numbers of a client tell its calls apart (`Numbered`) and that
  what is pending is waiting under its own number (`PendingWait`). The call that
  `HandleResponse()` finds has the client and the number of the response's body, so it
  is that call.

Only model-checked, not proved: liveness (`WriterGetsLock`, `ReservedIsPublished`,
`BreakReleasesAll`, `WaiterGetsElement`, `DestructorReturns`, `MessagesHandled`,
`ShutdownReturns`, `ArmedIsFired`, `NotifiedDrains`, `ClearReturns`, `PeersConnect`,
`LeftIsForgotten`, `AnswerArrives`, `DestroyReturns`), since the prover has neither
fairness nor `ENABLED`; `WaitQueue` and `ThreadPool` have only such properties.
Of `FiresOnTime` the exception is left to TLC: how far off a task fires
whose `AddTask()` met the tick thread depends on how many ticks pass within the call,
which the code does not bound and the run does (`MaxOvertaken`). `FiresInItsTick`
proves the rest, for every number of ticks that overtake other calls. Statements that
need induction over data are out of reach too. The modules under proof use no
recursive operators.

## 6. Plan

Order of the work, most important behaviour first; what is done is marked.

1. Synchronisation primitives: `AtomicRWLock`, `BoundedQueue` over `BoundedFifo`,
   `WaitQueue`, `ThreadPool`. *Done, the first two proved.*
2. Scheduler with the classic policy and coroutines. *Done; `RunExclusive`,
   `RegistryMatchesQueues`, `RemovedIsIdle` and `NoLostWakeup` proved.*
3. Data layer. *Done, proved.*
4. Shared-memory transport. *Done; all five invariants proved.*
5. Topology: service discovery, hybrid transports, readers and writers. *Modelled and
   checked; `PeersServed` and `RemovedHasLeft` proved.*
6. Timer and task manager. *Done; `OnePlace`, `ClearedIsQuiet` and `FiresOnTime` without
   its exception proved.* To prove: a bound on the exception in terms of the ticks
   that overtake `AddTask()`.
7. Service and client. *Modelled and checked; `ResponsesMatch` proved.*
8. Then, where a property is worth its run: poller and session (an event before the
   routine waits, `io/poll_handler.cc:44`), choreography policy, record writer (chunks,
   flush thread, index, and what a reader finds after a crash), tasks created and
   removed from inside a callback, the asynchronous logger.

## 7. Not modelled

The context switch in assembly and the stacks of coroutines; CPU affinity and
configuration files; `PosixSegment` and `MulticastNotifier`; Fast-RTPS
(external); protobuf and message traits; the class loader; the tools, Python
bindings and examples; in the topology the node graph, the node and service
managers and the history of transient-local channels; in the services
`WaitForService()` and the callbacks of clients. The record files, the poller, the
choreography policy and the logger are next in the plan. Much of the repository is
generated protobuf code, command-line tools and examples, which have no state that
concurrent actors share. Memory orders weaker than sequential consistency are not
represented: every atomic access is one step and takes effect at once. The plain
accesses to the notification ring in shared memory are single steps in program
order, as x86 performs them. `PROJECT.json` gives the reason for every component.
