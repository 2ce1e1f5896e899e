# Ring: a verification project in TLA+

This directory holds TLA+ models of **Ring** (`impulse-ring`), a shared-memory
IPC bus for the processes of one machine, the TLC runs that check them on small
instances, and TLAPS proofs of the properties that matter most. Paths below are
relative to the repository root; `src/` in `PROJECT.json` is that root.

## 1. The system and its parts

Processes attach to a broker, `impulsed`, and talk through rings: byte queues
in POSIX shared memory. The broker keeps a registry of channels and functions,
allocates their arenas and answers control requests; the data path (publishing
to a channel, calling a function, answering the call) goes from process to
process without it.

| Part | State | Operations | Interacts with |
|---|---|---|---|
| **Ring buffer** `crates/core/src/ring.rs` | header words `head`, `tail`, `prod_lock`, `space_seq`, `data_seq`; the data region | `try_push`, `push_blocking`, `try_pop`, `pop_blocking` | every other part: the submission ring, the reply rings, the channel and function arenas are rings |
| **Futex** `crates/core/src/futex.rs` | the kernel's wait queues | `wait`, `wake` | ring |
| **Shared segments** `crates/core/src/shm.rs` | names under `/dev/shm`, mappings | `create`, `open`, `unlink`, `Drop`, `list_segments`, `pid_alive` | broker, connector |
| **Control segment** `crates/core/src/control.rs` | superblock (magic, pid, epoch), submission ring | `format_control`, `attach_control`, `clamp_arena_cap` | broker start, connector bootstrap |
| **Frames and records** `frame.rs`, `proto.rs`, `avro.rs`, `util.rs` | none | encode, decode, fingerprints, key hashes | all |
| **Registry** `crates/impulsed/src/registry.rs` | clients, channels, functions, name indexes, `subscribed`, `released`, id counters | add/remove client, insert/drop/release/reap channel, insert function, resolve, list | broker |
| **Broker** `crates/impulsed/src/broker.rs` | registry, reply rings, arenas | the control loop `run` and one handler per request | registry, submission ring, reply rings, arenas |
| **Connector** `crates/connector/src/client.rs`, `lib.rs`, `channel.rs` | transport (submission, reply ring, client id, epoch), pending calls, callee cache, registry of live handles | connect, publish, subscribe, expose, call, reconnect, replay, drop | broker through the submission and reply rings |
| **RPC service** `crates/connector/src/rpc.rs` | request ring, worker pool (queue, workers, idle count) | `spawn_service`, `submit`, `work`, `handle_one` | callers through the request arena and their reply rings |
| **HTTP layer** `crates/http/src/lib.rs` | none of its own | inline limits, body chunking, upgrade parsing | connector |
| **Other connectors** `connectors/` | the same protocol in C, Go, Python, C++ and TypeScript | as the Rust connector | broker |


### What is hard about it, and what makes each part correct

* **Ring.** Several processes that may die at any instruction share a few
  words of memory. Correct means: producers exclude each other; no byte the
  consumer may still read is overwritten; what is popped is what was pushed,
  whole and in order; the result of a push tells the truth; and nobody sleeps
  on a futex word beside the thing it waits for.
* **Registry and broker.** One loop, but its clients die, time out and leave
  requests behind that are handled long after. Correct means: three maps and
  two sets of marks agree about every channel and function; the broker maps
  exactly the arenas its registry names; an answer reaches the process that
  asked; a living owner keeps what it was granted; a deferred release stays
  resolvable for its grace and is reclaimed after it; every call is answered.
* **Worker pool.** Two mutexes, a condition variable signalled outside both,
  and counters the decision to spawn rests on. Correct means: the counters are
  true, a request is handed on exactly once, no notification is lost, every
  request is served in the end. That a handler which waits does not hold up the
  others is not quite so (section 5).
* **Reconnection.** An epoch change is seen by several threads at different
  times, and registration and replay take many steps, into any of which the
  next restart may fall; connect registers while the watcher may already be
  reconnecting. Correct means: one reconnect per epoch, a client id that is this
  connection's at this broker, no pending slot left behind, every operation
  returns, every live handle follows the broker. The last of these, and the
  client id during connect, hold with the exceptions of section 5.
* **Start-up.** Broker processes that crash, stop and start around one name
  under `/dev/shm`, while connectors open what they find. Correct means: the
  broker that serves owns the bus, no connector reads a half-made superblock,
  no clean-up takes away what is in use, nothing old is taken for new.
* **Calls.** A cache of resolved arenas that goes stale when a callee is exposed
  anew, slots filled by another thread, and a hand-made executor. Correct means:
  slots are freed, nobody sleeps on an answer, a stale entry costs one attempt,
  every call returns.

`PROJECT.json` lists the hazards one by one, at the line where each bites,
with the properties that cover it.

## 2. Modules

| Module | Models | Kind |
|---|---|---|
| `Fifo` | what a ring promises: a bounded queue of messages, counted in bytes | abstract specification |
| `Ring` | `core/ring.rs` and `core/futex.rs`, one step per atomic access, copy or futex call | component; refines `Fifo` |
| `RingProofs` | proofs about `Ring`: the queue | theorems |
| `RingCallProofs` | proofs about `Ring`: wakeups and the results of calls | theorems |
| `Registry` | `impulsed/registry.rs`: each method as an operator on the registry record | operators |
| `Broker` | `impulsed/broker.rs` over `Registry`, composed with the client processes (`connector/client.rs`, the Drops of `lib.rs` and `channel.rs`) through the submission and reply rings | component and composition |
| `BrokerProofs` | proofs about `Broker`: registry, arenas, routing | theorems |
| `GrantProofs` | proofs about `Broker`: grants and the grace of a release | theorems |
| `Pool` | `connector/rpc.rs`: the service's reader thread and its workers | component |
| `PoolProofs` | proofs about `Pool` | theorems |
| `Connector` | `connector/client.rs`, with `lib.rs` and `channel.rs` where they use it: the control calls, `with_reconnect`, `reconnect`, `replay`, the watcher and the dispatcher of one connection, over a broker (its `Registry`) that restarts | component and composition |
| `ConnectorProofs` | proofs about `Connector` | theorems |
| `Call` | `call`, `call_blocking`, the callee cache, the slots and `block_on`, over a callee that moves | component |
| `CallProofs` | proofs about `Call` | theorems |
| `Startup` | `Broker::start` and its Drop, `main.rs`, `control.rs`, `shm.rs`, a connector's bootstrap | component and composition |
| `StartupProofs` | proofs about `Startup` | theorems |
| `MCRing`, `MCBroker`, `MCPool`, `MCConnector`, `MCCall`, `MCStartup` | instances for TLC (symmetry sets, sequences) | model checking |

`PROJECT.json` maps every definition to the lines it stands for. Definitions
whose name ends in a description of a mistake (`SweepLeaks`, `FitsMasked`,
`NotifyNobody`, ...) are mutants: no specification uses them, and each of them,
put in the place of the definition after it, makes a property fail.

### Ring

`head`, `tail`, `prod_lock`, `space_seq`, `data_seq` are the header words. A
byte of the data region is a pair of a message and a byte number, so a torn or
overwritten record is visible as such; the copies of `write_wrapped` and
`read_wrapped` wrap as the code's do. `pc` gives each producer's place in
`lock_producer` (`LockCas`, `LockSwap`, `LockWait`, `LockTimeout`),
`push_locked` (`CheckRoom`, `WriteLen`, `WritePayload`, `Commit`),
`unlock_producer` (`Unlock`, `WakeLock`) and the two callers (`BumpData`,
`WakeData`, `LoadSeen`, `CheckDeadline`, `SpaceWait`, `SpaceTimeout`); `cpc`
the consumer's in `try_pop` and `pop_blocking`. A futex wait re-reads the word
in the step that parks, as the kernel does. `Crash` removes a producer at any
step. Memory is sequentially consistent: the loads and stores that publish
(`head`, `tail`, the lock, the sequence words) are acquire/release or stronger
in the code, and each has one writer at a time. The futex words are counted
modulo `SeqMod`, the cursors are natural numbers (a u64 cursor does not wrap).

### Registry and Broker

A `HashMap` is a function on a finite set. `None` stands for whatever is
absent: pid 0, no key, fingerprint 0. `release_client` releases all channels,
all functions and the client in one handler, and so does `ReleaseClient`; a
handler's early returns are its disjuncts. Each handler takes the head of
`submission`; `Reply` goes to the ring registered for the *client id in the
request*, which is what makes requests of dead clients interesting.
`RELEASE_GRACE` is a mark that `GraceElapses` turns from "held" to "due"; the
sweep (`Sweep`) takes what is due. The failure of `make_arena`, a lost
fire-and-forget send, a call's timeout, a full reply ring and a killed process
are steps. The rings are queues here: that a ring is one is `RingImplementsFifo`.
`listed`, `published`, `exposed` and `reading` are the handles processes hold.
The `proc` field of a message is history: no handler but `on_register` (where
it is the pid and the reply segment) reads it.

### Pool

The queue's mutex is a variable, since a worker takes the state mutex while it
holds it and gives it up only in `wait_timeout` (`Park`); a section of the
state mutex is one step. `Answer` is the handler and `send_response`, which
may fail. `Held` requests have a handler that waits for good: the proofs allow for
them, the run has none (section 5).

### Connector

The threads of one connection are the users (callers of its operations) and
the watcher. A step is what a thread does between two accesses of shared state,
so a control call is `Frame` (the request is built, with the client id or the
reply segment of the moment), `InsertSlot`, `Push` (onto the submission ring of the moment) and its
end: `Answered`, `TimesOut` or `PushFull` (nobody drains the ring, or a slow
broker does not for two seconds). A behaviour begins in `connect`, with the
transport bootstrapped and the threads started (`Connecting`): its `do_register`
is the control call "connect", which holds no lock, so the watcher may reconnect
in the middle of it. It ends with the write of the client id into whatever
transport is there (`ConnectReturns`), or with `ConnectFails` and, once the
watcher is out of its reconnect, `Joined`. `Connected` is the state a while after a
`connect` without incident, so that operations do not spend the bounds on it. An
operation that fails goes to
`OpFails` (the epoch is read now), `Live` (`live_broker_epoch`) and `Lock`; from
there `reconnect` is `Bootstrap`, `ClearPending`, `Swap`, the control call of
`do_register`, `Snapshot` and one control call for each entry (`ReplayNext`,
`ReplayReturns`, `ReplayFails`). The watcher's `Tick` goes the same way.

A transport is named by the epoch it was bootstrapped under. The broker is its
registry (the operators of `Registry`) and the submission ring; it goes down by
a crash, which leaves its segments to be found (`"stale"`), or by a stop, and the
next run starts with an empty registry, so ids and arena names come again.
Requests of other connections are served in one step. `list_channels`,
`subscribe` and `lookup` change nothing at the broker but a mark and are one
operation here; `auto_reconnect` is on. A request to register names its reply
segment by the epoch of its transport: the clean-up of the next run has unlinked
it, so a later broker cannot open it. Three pieces of history: `excused`, the
entries that are not on the broker of the transport, because their replay failed
or they came after it (and 0 when the registration failed), emptied by the next
reconnect; `stray`, that connect has brought a client id from another transport;
`sent`, the transport a request went to.

### Call

Arenas are numbered, an interface is one fingerprint, a correlation id is the
caller, its call and its attempt. The error return of `to_frame` after the slot
was registered (`lib.rs:303`) is left out: encoding a record of
the protocol itself does not fail. `callee` is `LookInCache`, `Lookup`, `Open`
and `Insert`, since the cache is not locked over the round-trip. `Slot::poll`
and `Slot::complete` exclude each other (the slot's mutex), and `complete` calls
the waker inside its section: `Complete`, `Wake` (the flag) and `Unpark` (the
token) are three steps during which the caller's `Poll` waits. Spurious wakeups
of `park_timeout` are left out: they only poll once more. `calm` is history: the
callee has been in place since the call began, nothing timed out that was still
to be answered, and nobody put an old arena into the cache. The broker stays up
and answers lookups.

### Startup

A name leads to a segment or to none, and a process keeps what it has opened
whatever happens to the name. `Segment::create` is two steps (the name, then the
size), `format_control` is two (the fields, then the magic). A broker process is
its own pid and its own epoch, and starts once. `guard_singleton`, its unlink,
`list_segments` and each unlink of `cleanup_stale` are steps of their own, and so
is every unlink of a broker's exit: reply segments, control segment, arenas, in
the order of `Drop` and of the struct's fields. All segments are mode 0666, so
`EACCES` does not arise.

## 3. Runs

| Run | Instance | Shows |
|---|---|---|
| `ring_safety` | 2 producers, one may die anywhere; 16-byte ring, records of 7 and 10 bytes, 3 pushes | types, mutual exclusion, no overrun, intact FIFO, truthful results, no lost wakeup of the consumer or of a producer that waits for the lock, refinement of `Fifo` |
| `ring_liveness` | records that fill the ring exactly, pushed and popped with and without waiting | every record delivered, every push returns, without the lock's and the consumer's timeouts |
| `ring_dead_holder` | *violation* | a producer killed inside the lock blocks all others for ever |
| `broker_safety` | 3 processes, one channel name, 7 messages, 1 fault, reply rings of one answer | registry, arenas, routing, grants, grace |
| `broker_requests` | 2 processes, one without pid, all requests, one key, 5 messages, 1 fault | takeover of functions, grants, every call answered, every release reclaimed |
| `broker_dead_owner` | *violation* | a dead client's queued publish takes a name for good |
| `pool` | 3 requests, 2 workers of 3 thread names, stop at any time | counters, hand-over, notifications, every request served without the 200 ms of a worker's wait |
| `connector` | one user thread and the watcher, connecting or with a channel owned, a function to expose, one operation, 3 broker runs, 1 other client, 1 late answer or full ring | single-flight reconnects, the id, the slots; connect and every operation return; the connection is attached to the broker that stays up, and its handles follow but those this broker failed to take over or never heard of |
| `connector_left_behind` | *violation* | a channel whose replay failed is never replayed again |
| `startup` | 3 broker processes, started one at a time, 2 crashes, 2 connectors | one owner, complete superblocks, no clean-up of what is in use, no leftovers |
| `startup_two_brokers` | *violation* | two brokers started at once both serve |
| `call` | 2 threads with a call each, 1 re-exposure with the same or another interface, an arena of 2 requests, 1 late answer | slots, wakeups, stale cache entries, every call returns |

**Bounds.** In a 16-byte ring, a record of 10 bytes behind one of 7 is one byte
too long and, once that one is popped, wraps inside its payload; a third record,
behind two of 7, starts at byte 14 and wraps inside its length prefix. Three
pushes fill the ring, wait and go round once. A record that fits exactly is the
matter of `ring_liveness` (16 bytes of 16).
Seven messages are three
registrations, a publish, a listing, a subscription or release and one more
publish, the shortest sequence in which a name changes hands while a third
process looks it up. Three processes are the owner, the contender and one to
whom a misrouted answer could go. A reply ring of one answer makes full reply
rings common; in `broker_requests` it is large enough that no answer is dropped,
because a dropped answer ends a call by its timeout only. Three thread names
for two workers let a broken bound show. Three broker runs let a restart fall
into every step of a reconnect; one user thread beside the watcher makes two
threads that find the same restart; a second client makes the client numbers of
two runs differ. `connect` counts as an operation, so with one operation a
behaviour begins in `connect` or makes another call. One restart, one fault and
one channel are all `connector_left_behind` needs. Three brokers are one that
stops or has crashed, one that serves and one that tries. One re-exposure makes a
cached arena old; an arena of two requests is full with one abandoned request of
each thread. One fault at a time is what the proofs do without: they hold for any
number. `SeqMod` is larger than the
producers and the bytes of the ring together, as `DataWakeupsArrive` has it.

`CHECK_DEADLOCK FALSE` is set where the bounds end a behaviour: the broker's
instances send a bounded number of messages, the pool serves a finite set of
requests, each broker process starts once, each thread makes a bounded number of
calls; and in `Connector`, where a failed `connect` ends the connection's threads.
The ring's runs check deadlock: the consumer always calls again.

**Fairness.** In `Ring`, every live producer and the consumer take their next
step, and a parked producer's wait for space ends (the code passes at most
50 ms to the futex there, or the deadline); the timeouts of the lock wait and
of the consumer's wait get no fairness, so that the properties rest on the
wakeups. `TimeoutSpec`, of the violation `ring_dead_holder`, makes these fair
too. In `Broker`, the control loop handles what is queued and sweeps, the clock
runs and each living process's dispatcher drains its ring; no process is
obliged to send. In `Pool`, threads run, and a thread that finds the queue's
mutex free infinitely often gets it (strong fairness: the mutex is held only
for a few instructions, never across a handler); a worker's wait has no
fairness. In `Connector`, the threads run, the broker's loop serves and the
dispatcher drains until `running` is cleared; nobody has to call anything and nobody has to restart the
broker, so `HandlesFollow` is about behaviours in which one stays up. A control
call whose answer is lost ends by its timeout, which is a step of its thread
(`CONTROL_TIMEOUT`). In `Call`, the threads and the dispatcher run, time passes
(`Expire`) and a callee that is there answers; nobody exposes a function again.

## 4. Proofs

`tlapm` checks every step of `RingProofs`, `RingCallProofs`, `BrokerProofs`,
`GrantProofs`, `StartupProofs`, `PoolProofs`, `ConnectorProofs` and `CallProofs`.
Between them they state every invariant of the passing runs, the action
properties and the refinement, for all values of the constants. Each inductive
invariant stands, with a comment for each of its parts, at the end of the
component's module, and was model-checked on that component's instance before it
was proved.

**Ring**, for every capacity, set of producers, set of payload lengths and
every bound, from the assumptions named in `Ring`:

* `TypeCorrect`: `TypeOK`.
* `ProducersExclude`: mutual exclusion. Inductive with `LockWord`: the lock
  word is 0 exactly while nobody is between lock and unlock.
* `RingInvariant`: `IInv`, the inductive invariant. `NoOverrun` needs the tail
  to move only forward under a producer's feet; `IntactFifo` needs to know
  where each record starts (`Tiled`: the records tile the stream and the
  consumer stands at the start of one), that its bytes are in the region until
  it is freed (`Stored`), how much of a record is written (`Written`) and what
  the consumer has read (`ReadSoFar`). The step that carries the weight is a
  write: the cells it touches are those of no unfreed record, since both lie
  within one capacity of the tail.
* `NeverOverruns`, `DeliversIntactFifo` follow.
* `RingImplementsFifo`: `Commit` is the queue's push, `FreeSpace` its pop, and
  every other step, crashes included, changes nothing the queue shows.
* `LockWakeupsArrive` (`NoLostLockWakeup`): as long as a producer is parked on
  the lock, the word is 2 or somebody is on the way to wake it or to write a 2
  (`WaitersSeen`).
* `DataWakeupsArrive` (`NoLostDataWakeup`): a consumer on its way to park found
  the ring empty after it read `data_seq`, so a record that is there now has
  moved `data_seq` on or will (`ParksEmpty`). That is the argument for a counter
  that never wraps; `data_seq` wraps at 2^32. What can bump it under a consumer
  that is not popping is a push that had committed before, one for each producer,
  or a record still in the ring (`AnnouncedOnce`), and a record takes a byte at
  least (`Spaced`). So the theorem has the hypothesis
  `Cardinality(Producers) + Cap < SeqMod`: arenas have at most 2^27 bytes
  (`MAX_ARENA_CAP`), and the number of pushes in the ring's life is not bounded.
* `ResultsAreTrue` (`ResultIsTrue`): a call that has committed is in exactly one
  record, and one that has not, or was refused, is in none (`CallsApart`).

**Broker**, for every set of processes, names, keys and schemas and every
bound, from `BrokerAssumption`:

* `BrokerInvariant`: `BrokerInv`, inductive. Arenas are named after ids and
  ids are never reused (`ArenaNames`, with the counters ahead of the maps in
  `TypeOK`), so dropping an entry's arena drops nobody else's. A client id
  that occurs anywhere, in a queued request, with its process or in an answer
  to `Register`, was allocated and, if it still has a reply ring, it is that
  process's (`Routing`); so requests that outlive their sender are answered to
  nobody rather than to somebody else.
* `BrokerTypeCorrect`, `RegistryConsistent`, `ArenasExact`, `AnswersRouted`
  follow.
* `GraceIsHonoured` (`GraceHonoured`, an action property): by cases on what
  removes a channel. Each handler's change of the registry is first described by
  what it may lose (`Loses`, `MayLose`): the sweep only what is due, a release of
  a client only that client's, a publish only what stood under the name.
* `GrantInvHolds`: `GrantInv`, inductive on top of `BrokerInv`. `GrantStands`
  speaks of the handles a process holds, but a handle is made from an answer that
  was on its way for a while, and requests of the process are still queued when it
  arrives. So the invariant follows a claim from the grant in a reply ring through
  the handle to the `Unpublish` in the submission ring (`Owned`: what is held,
  being granted or being given up is the process's in the registry), says that a
  name is in one of the three states once (`ClaimedOnce`), that a correlation id
  stands for one request, queued or answered but not both (`Correlated`), and that
  a process has one client id, shared with nobody, before it asks for anything, and
  has left before its `Unregister` is queued (`Enrolled`). The duplicate that would
  break it, a second `Unpublish` of the same name after the first was read and the
  name given to somebody else, is excluded by `ClaimedOnce`.
* `GrantsStand` (`GrantStands`) follows.

**Startup**, for every set of brokers and connectors and any number of crashes,
from `StartupAssumption` and `MaxStarting = 1`, which only the launch of a broker
uses and which `startup_two_brokers` shows to be needed:

* `StartupInvHolds`: `StartupInv`, inductive. A broker between its guard and its
  first request is the only one starting, and no other serves or is still to
  unlink its control segment (`Alone`): under an owner the control name
  leads to a segment with the magic and the pid of a living broker, which is what
  `guard_singleton` refuses. So the names `cleanup_stale` takes belong to nobody who serves,
  the control segment is made under a free name, and each segment is written by
  its maker alone, the magic last (`Segments`), which makes what a connector read
  behind the magic stay true (`Read`). `Cleaned` carries the old arena's removal
  to the moment the broker serves.
* `StartupTypeCorrect`, `OwnerIsAlone` (`OneOwner`), `MagicVouchesForEpoch`
  (`AttachReadsItsBroker`), `RepliesStayReachable` (`RepliesReachable`) and
  `NothingIsLeftOver` (`NoLeftovers`) follow.

**Pool**, for every set of thread names and requests and every `max_workers`,
from the assumptions named in `Pool`:

* `PoolInvHolds`: `PoolInv`, inductive. The queue's mutex is held by the worker
  that looks at the queue, goes idle or comes back (`LockWord`), so the queue a
  worker found empty is empty until it waits (`IdleOnEmpty`): the notification of a
  request that comes after that finds it waiting. Between the reader's count and
  its notification, somebody is awake or waits to be notified (`Attended`). A
  request is in somebody's hands exactly in the steps that handle one (`InHands`),
  which makes moving it a removal and an addition; the counters are cardinalities,
  and each step adds or removes one thread.
* `PoolTypeCorrect`, `CountersAreTrue` (`CountsTrue`), `RequestsHandedOnOnce`
  (`HandedOnOnce`) and `NotificationsArrive` (`NoLostNotify`) follow.

**Connector**, for every set of users, names and channels owned at the start, any
number of operations, restarts and late answers, from the assumptions named in
`Connector`:

* `ConnectorInvHolds`: `ConnectorInv`, inductive. `reconnect_mu` is held all
  through a reconnect, its control calls included (`Exclusive`); a thread that waits
  for it saw an epoch older than the broker's, and one that goes on with it found the
  transport's epoch older than the broker's (`Forward`): the second of two threads
  does not, and turns back. A correlation id belongs to one call, nothing carries it
  before the request is sent, and what is in the submission ring was sent to the
  broker that serves (`Correlated`). So the answer to a registration was made by the
  broker its request went to, and the id in it, on its way or already in the slot, is
  this connection's as long as that broker serves (`OursSoon`). A registration of
  `reconnect` went to the transport that is still there, since nobody else replaces
  it; one of `connect` may not have, which is what `stray` says.
* `ConnectorTypeCorrect`, `ClientIdIsOurs` (`ReconnectedIdIsOurs`), `PendingSlotsGo`
  (`NoSlotLeaks`) and `ReconnectIsSingleFlight` (`SingleFlight`, an action
  property) follow.

**Call**, for every set of callers, any number of calls, re-exposures, late
answers and any arena, from the assumptions named in `Call`:

* `CallInvHolds`: `CallInv`, inductive. A caller between its poll and its park has
  left its waker or has been told (`Told`, `Framed`): the flag is set before the
  token, and the caller looks at the flag before it sleeps on the token. A slot is
  there from before the push (`Registered`) to the end of the attempt. Arenas are
  not reused, so a resolution that names the current arena is current (`Resolved`),
  and a correlation id is on its way only once its attempt was pushed (`Fresh`). A
  calm call (`Calm`) then has the current callee from its second resolution on, its
  request is in that arena, with the dispatcher or in the slot, and no second
  request of the same call is where it would be served.
* `CallTypeCorrect`, `SlotsAreFreed` (`AbandonedSlotsFreed`), `UnparksArrive`
  (`NoLostUnpark`) and `CalmCallsSucceed` (`CalmCallsAnswered`) follow.

**Model-checked only.** The liveness properties, since the prover has no fairness:
`EveryRecordDelivered`, `EveryPushReturns`, `EveryReleaseReaped`,
`EveryCallReturns`, `EveryRequestServed`, `OpsReturn`, `HandlesFollow` and
`CallsReturn`.

## 5. Findings

Each violation run contradicts a line of the repository; `PROJECT.json` quotes
it.

1. `ring_dead_holder`: `futex.rs` relies on a heartbeat reaper in the broker
   that wakes waiters of a crashed peer. There is none, and a wake alone would
   not free the lock; the deadline of a push is not read while it waits for
   the lock.
2. `broker_dead_owner`: `on_publish` does not ask whether the client in the
   request is still registered. A killed client's request, handled after its
   release, makes a channel whose owner no table knows; its pid reads as 0,
   which counts as alive, and the name is taken until the broker restarts.
3. `startup_two_brokers`: a control segment is visible without its magic while
   its broker makes it, and `guard_singleton` takes it for an invalid one. A
   second start in that window unlinks it, and both brokers serve.
4. `connector_left_behind`: `WhollyReattached` is `HandlesFollow` without its
   exceptions. An entry whose replay failed is not tried again while the broker
   stays up, though the comment says that the watcher will: the watcher compares
   epochs, and they agree by then. The property fails in three more ways, which
   other constants bring out:
   * `do_register` fails after the swap: the connection keeps client id 0, and
     nobody registers again (`MaxOps = 0`, `Contested = {a}`).
   * A handle whose grant came from the old broker is entered after replay's
     snapshot, and nobody replays it (`MaxOps = 1`).
   * `connect` registers beside the running watcher and without `reconnect_mu`. When
     the broker restarts after its answer and the watcher reconnects before the
     answer is taken, the old run's client id is written into the new transport, for
     good if connect's write comes last (`MaxOps = 1`, `MaxFaults = 0`). This is the
     case `ReconnectedIdIsOurs` excepts with `stray`.

Behaviours the models show that have no run of their own, as `PROJECT.json`
notes with the hazards they belong to:

* `push_blocking` can miss a pop between its room check and its load of
  `space_seq` and then sleeps until its timeout.
* A worker that was notified still counts as idle until it runs, so a second
  request in that window gets no worker of its own and stays behind the first if
  that one's handler waits, against `rpc.rs:187-188` ("spawning one if there is
  none and the bound allows it"). `Held = {j2}` shows it.
* A `Publisher` dropped after replay's snapshot is published once more, after its
  `Unpublish`, and stays published, against `channel.rs:89-90`.
* An operation that fails because of a restart is not retried when the watcher has
  reconnected before the failure is judged, which the periods of the two (250 ms,
  5 s) make the usual case, against `spec/bootstrap.md:126`.
* A broker killed between `shm_open` and `ftruncate` leaves a control segment that
  `Segment::open` refuses, and `guard_singleton` gives up where its comment
  (`broker.rs:134-135`) says that an invalid segment is unlinked. So does every
  later start. The model reaches this as the phase `"failed"`.
* `on_subscribe` grants a channel to any number of subscribers, which then share
  the one read position of a single-consumer ring, against `README.md:141` ("One
  subscriber per channel").
* A slow server makes `call_blocking` run its handler twice.
* A stopping broker may unlink an arena of the next one.

## 6. Not modelled, and the plan

Not modelled: Avro (library code), the JSON and byte layout of frames, logging,
the arena sizes (`clamp_arena_cap`, a pure function of one line), the HTTP layer
(types and stateless conversions), the benchmarks, and the connectors in other
languages, which implement the same protocol again. Pids are not reused. A
connection is dropped in `Broker` only; permissions and failures of `mmap` are
left out everywhere.

Next, in this order:

1. Proofs of what the liveness properties rest on and that is safety: that no
   state of `Ring`, `Pool` or `Call` with work left has everybody waiting, as
   invariants (the wakeup theorems are the first of these).
2. `Frame`: frame encode and decode and the legacy records, against reference
   definitions.
