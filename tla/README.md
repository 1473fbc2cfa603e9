# miniROS2 — specifications, model checks and proofs

TLA+ modules that describe miniROS2 as the code under `src/` is written, TLC configurations that
check them on small instances, and theorems about them that TLAPS has checked. File names such as
`node.cpp:229` are those below `src/src`, `src/src/communication`, `src/src/message`,
`src/include/mini_ros2` and its subdirectories.

    tlc -config EventNotification.cfg EventNotification     # one check (section 4)
    tlapm EventNotificationProofs.tla                       # one module of proofs (section 6)

## 1. Inventory

miniROS2 is a library for programs ("nodes", one per process as a rule) that exchange messages
through POSIX shared memory. There is no broker: every process maps the same named segments,
keeps its own copy of the registry, and runs a loop that waits for event bits.

    publisher thread          shared memory                      subscribing node
    ----------------          -------------                      ----------------
    Publisher::publish  --->  topic segment (ShmBase)  --------> Subscriber::getMessage
       |                                                              ^
       |  ShmManager::triggerEvent                                    | Node::spinLoop
       +------------------->  event flags (EventNotificationShm) ---->+
       |  addPubTopic                                                 | enqueue
       +------------------->  registry: nodes, topics (JSON text)     v
                                                                  ThreadPool -> callback

| Component | State it keeps | Operations | Hard behaviour | What makes it correct |
|---|---|---|---|---|
| EventNotificationShm (`event_notification_shm.*`) | 1024 event bits, a process-shared mutex and condition variable in one segment | trigger, wait (≤ 100 ms), read, read and clear, clear one, clear all, notify all, lock, unlock | threads of many processes; time-outs and spurious wake-ups; `reset(id)` throws with the mutex held | calls are atomic, no bit disturbs another, no sleeper misses a trigger, every call returns |
| ThreadPool (`thread_pool.h`) | queue, mutex, condition variable, `stop_`, workers | enqueue (two overloads), worker loop, stop, destructor | notification after the unlock; stop against test-then-wait; draining | no lost wake-up, every task run once, the queue drained, stop returns |
| Publisher (`publisher.h`) | its segment, created by the first publish | publish | write, registration and trigger are separate steps | a published message reaches every callback |
| Subscriber (`subscriber.h`) | last message `msg_`, callback, its segment, a mutex | subscribe, getMessage, createTaskFromSubEvent, execute | copies the segment without its mutex; callback under its own mutex | the newest message arrives, whole |
| Node (`node.*`) | id, subscriptions and their event ids, timers, pool, `spinning_` | constructor, createPublisher/Subscriber/Timer, spin, spinLoop, stop, destructor, signal handlers | a snapshot of the flags used late; stop against the loop; three mutexes in several orders | nothing lost, stop returns, no deadlock |
| ShmManager, nodes (`shm_manager.cpp:46-350`) | `nodes_`, and the JSON text of it in the registry segment | initializeRegistry_, addNode, removeNode, sync | every process rewrites the whole table from its own copy; the text outgrows its area | ids unique, running nodes listed, none refused without need |
| ShmManager, topics (`shm_manager.cpp:131-591`) | `topics_`, and its text | isTopicExist, addPubTopic, addSubTopic, registerTopicEvent, triggerEvent, clearTriggerEvent, sync | index arithmetic of the table; concurrent rewrites; ids at the limit | one id per topic, the same everywhere, for good |
| SharedMemory, ShmBase (`shared_memory.*`, `shm_base.*`) | named segments; a header with mutex, condition variable and magic number | Exists, Create, Open, Close, Unlink, Read, Write, ReadUnlocked | exists-then-create; headers seen half initialised; unlink by name; creators that die | names stay with their owner, usable mutexes, nothing left behind |
| JsonValue, serializer (`json.*`, `message_serializer.h`) | none shared | parse, print, copy bytes, length checks | the bytes are whatever is in the segment: an older, longer text behind a shorter one, the beginning of a longer one, half a message, another type | JSON is accepted and nothing else; what is taken for a message is the newest one |
| Timer (`timer.h`) | start of its period | isReady, createTaskFromTimer | a period is used up before its task is queued | the callback runs while the node spins |
| Executor (`executor.h`) | queue, mutex, condition variable, `running_`, thread | start, add_task, stop, the thread | the stop flag is set without the mutex; stop leaves tasks behind, start takes them up | tasks run in order, none is lost, stop returns |
| EventManager (`event_manager.h`) | an epoll descriptor, a thread | its thread's loop, stop; add and remove sources (never called) | its destructor is part of the node's | it ends when told |
| ShmCond, MySemaphore, TCP registry | an auto-reset event; wrappers; a map behind a socket | | | see section 8 |
| communication adapters, QoS, parameters, services, CLI | none: empty or commented out | | | |

They interact by plain calls inside a process (a Node owns its ShmManager, its publishers,
subscribers and pool), by closures handed to the pool, and between processes only by the segments.
Nothing is sent twice or reordered by a network; the hard part is that **every step of every thread
of every process interleaves**, that the copies of the registry grow stale, and that processes come
and go. `PROJECT.json` lists the hazards, each with its line and the properties meant to catch it.

## 2. Plan

The order is that of importance: what every other part stands on comes first.

| | Module(s) | State |
|---|---|---|
| 1 | `EventNotification` with its abstraction `EventFlags` | done, safety and refinement proved |
| 2 | `ThreadPool` with its abstraction `TaskPool` | done, safety and refinement proved |
| 3 | `PubSub`, which composes the abstractions of 1 and 2 with publishers, loops and stop | done, safety proved, and that it uses `TaskPool` as promised |
| 4 | `ShmLifecycle` | done, safety proved |
| 5 | `TopicRegistry`, `NodeRegistry`; `NodeLocks` | done, safety proved |
| 6 | `NodeLifecycle`: constructor, signal handlers before and after the pool exists, spin, timers, stop from handlers, threads and callbacks, destructor | done, safety proved, and that it uses `TaskPool` as promised |
| 7 | `JsonText`, `JsonGrammar` and `Messages`: printing and parsing, and the lengths of messages | done; recursive, so without proofs |
| 8 | `Executor` | done, safety proved |
| 9 | `ShmCond`, adding and removing sources of `EventManager`: neither is used | left |

Of the theorems worth proving these are left: that the word on which `PubSub`'s loops and triggers work
is the one of `EventFlags`, for which `PubSub` would have to name the calls and their instants; and an
abstraction of `Executor` in the manner of `TaskPool`, which would say little more than `InOrder`.

## 3. Modules and code

**EventOps, EventFlags, EventNotification** (`event_notification_shm.cpp`). `EventOps` holds what
the specification and its abstraction share: the calls a client can make, ids included that are no
bit (−1 for "not found", and one past the last), which of them the range checks refuse, and the
effect of each on the word. `EventFlags` is the promise: a call takes effect at one instant between
its invocation and its return. `EventNotification` has an action for each step of a call that others
can notice: taking the mutex, reading the bits (`Load`), writing them back (`Store`), the broadcast,
going to sleep (which releases the mutex), waking up (a broadcast, the time-out or no reason at
all), taking the mutex again, unlocking. `TakenEffect` marks the linearisation point of each call,
and `Flags == INSTANCE EventFlags WITH …` is the refinement mapping. The location `threw` is where
`clearEvents(id)` would be left by an exception with the mutex locked.

**ThreadPool** (`thread_pool.h`). The worker loop (lock, test of the predicate, wait, take, run,
exit), `enqueue` (lock, push, unlock, `notify_one`), `stop` and the destructor of one owner (lock,
set `stop_`, unlock and `notify_all`, join). Both the test and the beginning of the wait are steps,
so that a notification can fall between them if the mutex allows it. A task is an opaque closure.

**TaskPool** is the promise of the pool to those that use it: a queue, the task of each worker, the
workers that have left and the stage of stopping; no mutex, no sleep, no notification. Three
specifications instantiate it. `ThreadPool` implements it, in all detail: an `enqueue` takes effect when
the task is pushed, a stop when `stop_` is set (`exitedBar`, `stageBar`). `PubSub` has one for each node
(`Pool(n)`) and `NodeLifecycle` one for its node, there stopped by any number of calls, some of them
at once: `stop_` set begins it, the last worker joined ends it. That both are steps of the same
`TaskPool` (`PoolsSpec`, `PoolSpec`) is what justifies leaving out of them what `ThreadPool` has.

**PubSub** (`publisher.h`, `node.cpp:148-288`, `subscriber.h`). It composes: the event flags are
`EventFlags`' word, the pool is `ThreadPool`'s queue, each node has a `registry_mutex_`, the
segments are shared. A message is a version number and its bytes two halves that carry it, so that a
copy can be torn. `publish` is `WriteFirst`, `WriteSecond`, `TriggerLock`, `TriggerRaise`;
`spinLoop` is `SpinWait` (the snapshot of the flags), `SpinCheck`, `SpinEnter`, then for each
triggered subscription `ReadFirst` and `ReadSecond` or `ReadSkip`, then `SpinClear` for each
processed event, then `SpinLeave`; the subscriptions are visited in the order in which they were
created (`SubOrder`), `todo` being those that are left; `stop` is `StopSpinning`, `StopPool`, `StopReturns`. Left out:
the short lock of `isTopicExist`, which changes nothing here; the subscriber's mutex (`NodeLocks`);
timers; the reload of the registry (`TopicRegistry`).

**ShmLifecycle** (`shared_memory.*`, `shm_base.*`, `shm_manager.cpp:2-44`, and `Create`/`Open` of
the event flags). A *name* (event flags, registry, one topic) is bound to an *object*; objects live
on, mapped, when their name is gone. Processes start, publish or subscribe for the first time, use
segments under their mutexes, shut down, fail with an exception, or are killed. Each system call
another process can notice is a step: `shm_open`, `ftruncate`, the look at the magic number, the
initialisation of the mutex, the writing of the magic number. `EventNotificationShm::Create`
initialises twice (`again`), as the code does. The constant `Serial` restricts the interleaving to
processes that open one at a time.

**TopicRegistry** (`shm_manager.cpp:90-167, 272-295, 358-559`, `json.cpp:336-346`). The copy of the topic table in each process,
the text in the segment, and the threads that publish and subscribe; what is done under
`registry_mutex_` is one action. The arithmetic is the code's: a new topic goes to index `count + 1`
and the search covers indexes below `count`; `addPubTopic` appends a second entry, which is what
makes the first search succeed. A text in the segment is a table and the length of the longest so far
(`Write`): a shorter text leaves the end of a longer one behind it, and the parser refuses the whole,
which the readers take for an empty table (`Read`). The lengths of names and numbers, and the end of
the area, 69636 bytes, are left out: a full table in which every second entry is empty has at most some
60000 characters. `Departure` stands for a node that leaves and sets the reserved bit.

**NodeRegistry** (`node.cpp:68-100`, `shm_manager.cpp:46-88, 175-270, 358-405`, `shm_base.cpp:89-116`).
The same for nodes, whose text can be longer than its area: `NODE_INFO_SIZE` is 1416 bytes, 88 for
each of 16 entries, and an entry takes 110 to 210 characters. An entry has the size of its text
(`Sizes`), `Length` adds them up. `Readings` is what can be read: the table; an empty one, if the text
is longer than `ReadSize` (`readNodesInfo_` copies no more, and what is cut does not parse) or followed
by the rest of a longer one; and either of the two if it fills the copy exactly, which then has no
terminator. `Rewrite` fails when the text is longer than `WriteSize`, where `ShmBase::Write` throws:
104 bytes later, the segment being larger by its header. `Register` takes the first slot free in the
process's own copy, and is left by that exception (`thrown`); `Recount` is a topic counted in the node's
own entry, which makes its text longer; `Remove` is what the destructor does, with the count lowered and
the slots not compacted, and an exception there is `std::terminate` (`aborted`); `RemoveFails` is the
destructor for a count of 0, `OutOfBounds` a node without a slot, which writes to `nodes[-1]`: undefined
behaviour, given the outcomes it can have. `updateNodeHeartbeat` is left out: nothing starts its thread.

**NodeLocks** (`node.*`, `shm_manager.*`, `subscriber.h`). The mutexes held while others are taken:
`registry_mutex_`, `node_mutex_`, and a subscriber's. Each operation is the sequence in which it
takes and gives them back (`Acquire`, `Release`). All other mutexes are innermost, and are left out. Its
names differ from those of `NodeLifecycle` (`LocksSpec`, `NodeThreads`, …), since `NodeProofs` extends both.

**NodeLifecycle** (`node.cpp:7-134, 148-171, 240-288`, `timer.h`, `event_manager.h:38-110`,
`thread_pool.h`). One process with one node: the main thread goes through `InstallHandlers`,
`Register`, `MakePool`, `SpinBegins`, `SpinReturns`, `Destroy` (the destructor's stop of the pool),
`ReleasePool`, `Unregister`, `Unhook`, `Destroyed`. `Deliver` is a signal: the handler runs on top of
whatever its thread was doing, which stands still until the handler has returned (`Runs`); a second
signal interrupts the handler or goes to another thread. A call of `stop()` is a *context* of its
own, whoever makes it (handler, thread, a timer's callback on a worker, the destructor): it takes the
pool's mutex, sets `stop_`, releases the mutex, joins the workers one by one, and notifies the
waiters. `Join` fails where `std::thread` throws: when the worker is already being joined, or is the
caller itself; `NullPool` is the null pointer. The spin thread tests `spinning_` before and after its
wait, then visits the timers: `Visit` is `isReady`, which starts the next period at once, and the
test of pool and `spinning_`; `Enqueue` queues the task. A period elapses at any time. Sleeping and
waking of the workers is left out, since `ThreadPool` has it, and so are the events of subscriptions
(`PubSub`). Both constructors do the same; there is one.

**JsonText, JsonGrammar** (`json.cpp:37-346`). `JsonText` is the printer and the recursive-descent
parser, over sequences of characters: each parsing function takes an index and answers with a value
and the index it has left behind, or with `Failed`, an exception. Numbers are digits and exponents,
so that the limits of `int` and `double` (these to twenty digits) are exact, beyond which `stoll` and
`stod` or the comparison after them throw, and the six
digits of `operator<<` as well; a double without a fraction is printed like an int, and is one when
it comes back. `JsonGrammar` is the reference: `ValuesOf(t)` is the set of values the text `t` stands
for, by the ways in which `t` can be cut up, with no index and no order of reading.

**Messages** (`publisher.h:37-65`, `subscriber.h:124-143`, `message_serializer.h:31-52`, the sizes in
`shm_base.cpp` and `shared_memory.cpp`). The bytes of a message: `PublishFirst` creates a segment of
the length of the first message, `Write` compares a later one with the size of header and data
together, `Copied` overlays the data and leaves what is longer behind it, a reader that meets a
copy sees it done up to any byte from either end (`Mixtures`), `Outcome` is `deserialize` with its
comparison against the message received last. Publishers come one after the other: one that ends
unlinks the name, one that is killed leaves it and the next one's `Create` throws, after which every
publish of that publisher throws, its `ShmBase` mapping nothing (`PublishUnmapped`). A subscription
keeps the segment it has mapped. A publisher of another type brings bytes instead of text.

**Executor** (`executor.h`). The thread (test of `running_`, lock, test of the predicate, sleep, leave
or take, run), `add_task` (lock, push, notify with the mutex held), and an owner that starts, stops
(flag without the mutex, notify, join) and starts again. `slipped` records that a notification came
between the test and the sleep.

The `MC` modules only name the functions, values and texts that the configurations use as constants.

## 4. Checks that pass

| Configuration | Question | Distinct states |
|---|---|---|
| `EventNotification.cfg` | Do three threads making any calls on the flags see one atomic word, miss no wake-up, and always return? `TypeOK`, `NoSleeperMissesTrigger`, `FlagsSpec`, `CallsReturn` | 64,672 |
| `ThreadPool.cfg` | Is every task run exactly once, whatever the order of enqueue, sleep, stop and destruction, and is it the pool that `TaskPool` promises? `NoLostWakeup`, `ExactlyOnce`, `DrainedWhenStopped`, `PoolSpec`, `StopReturns`, `TasksRun` | 34,389 |
| `PubSub.cfg` | Two publishers, three subscriptions of two topics in one node: does clearing an event lose a trigger of its own or of the other topic, does the newest message reach every callback, do callbacks begin in the order of their messages, and does stop end the node? `NoLostUpdate`, `NoSpuriousRead`, `BegunInOrder`, `NodeStops`, `EventuallyDelivered` | 86,503 |
| `ShmLifecycleSerial.cfg` | Three programs that open their segments in turn: are mutexes and bits undisturbed by newcomers and leavers? `MutualExclusion`, `NoTriggerWiped` | 489,386 |
| `ShmLifecycleRace.cfg` | Two at once, one of them killed at any point: what still holds? `NameStaysBound`, `UsableWhenUp`, `NothingLeft`, `OpeningEnds` | 28,501 |
| `Topics.cfg` | Do publishers and subscriptions agree upon the event of a topic, and for good? `RegisteredIdIsFound`, `IdsDistinct`, `NoSilentPublish`, `SameIdEverywhere`, `IdStable` | 236,194 |
| `Nodes.cfg` | Three nodes for two slots, any comings and goings, with entries of three lengths: as long as everybody keeps the rules and the text fits, are ids unique and nodes listed, and who is refused? `SlotsUnique`, `RunningNodesListed`, `RefusedOnlyWhenFull` | 386,830 |
| `NodeLocks.cfg` | Can the loop, two workers and the main thread block each other? `NoCircularWait`, `ProgramsEnd`, and TLC's deadlock check | 1,144 |
| `NodeLifecycle.cfg` | Two signals, a thread and a timer's callback that may each stop the node, at any moment between constructor and destructor: which stops are safe, and do they end it? Do timers run until then? `SafeStop`, `StopEndsNode`, `TimersRun` | 215,725 |
| `Executor.cfg` | Two callers, and an owner that stops the executor and starts it again: are tasks run in order and none lost, and does stop return? `InOrder`, `TasksRun`, `StopReturns` | 12,636 |
| `Messages.cfg` | Whatever bytes a subscription finds in its segment, does it take JSON and nothing else for a message, and no message but the newest? Do messages of one length arrive? `ParserExact`, `NewestOrNothing`, `EqualLengthsArrive` | 517,047 |

A type invariant is checked along with each module: `TypeOK` of `EventNotification` in the run above;
those of `ThreadPool`, `PubSub`, `ShmLifecycle`, `TopicRegistry` (under `InTurnSpec`), `NodeRegistry`,
`Executor` and `NodeLifecycle` are proved (section 6); those of `NodeLocks` (`LocksTypeOK`, a part of what is proved
of it) and `Messages` hold in the runs above, at the cost of one line more. So do `OnlyAskedBitsChange`
in `EventNotification.cfg`, which `FlagsSpec` implies, `StopWakesAll` in `ThreadPool.cfg`, on which
`StopReturns` rests, `PoolsSpec` in `PubSub.cfg`, and `PoolSpec` in `NodeLifecycle.cfg`; they are proved.
`BegunInOrder` holds with the two workers of `PubSubLive.cfg` as well.

What these say only under a condition, and why:

- **`Topics.cfg` runs `InTurnSpec`.** `PublishFirst`: a process subscribes only to what is in its
  table; otherwise the id of the subscription is one that nobody finds (section 5). `InTurn`: all
  topics are published before a second process starts; otherwise the tables overwrite each other
  (`TopicsLost.cfg`).
- **`SlotsUnique`, `RunningNodesListed` and `RefusedOnlyWhenFull` hold while `orderly` and `Fits`.**
  `orderly`: every process that wrote the table had it as it was in the segment, its own entry did not get
  shorter, and no running node has left. `Fits`: no text so far was too long for the copy of its
  readers, which is so up to about 10 nodes of 130 characters each, and not up to the 16 of
  `MAX_NODE_COUNT`. The runs go on beyond both; the properties then say nothing, because nothing of the
  sort holds: two nodes that start together take the same slot, a table written after a departure is
  unreadable, a stale rewrite lists a node that is gone and makes the next one find no room, and of
  a text that does not fit nobody reads anything: the next node takes slot 0 again (`NodesCut.cfg`,
  section 7), or its constructor throws. `RefusedOnlyWhenFull` says of the last that it only happens
  to a node whose entry the area could not take. `DeadNeverRead` holds as long as the text fits, for the
  unfortunate reason that what a departure leaves is unreadable (theorem `TheDeadAreNeverRead`).
- **`NodeLocks.cfg`** lets callbacks of subscriptions not publish, and the main thread not subscribe
  while the node spins; each of the two alone can deadlock (section 7). The condition is `OrderKept`, and
  the theorem `LocksAreOrdered` says that it suffices for any number of threads.
- **`SafeStop`, `StopEndsNode`** speak of stops that are in order: the pool is there, no other
  stop is in progress, and the caller is not a task of the pool. The others do kill the process
  (`NodeLifecycleSignal.cfg`), and are counted by `disorderly`; the run has every kind of them. A stop
  before `spin()` begins is in order and safe, but does not end the node
  (`NodeLifecycleForgotten.cfg`).
- **`StopReturns` of `Executor`** excepts the notification that comes too early (`ExecutorStop.cfg`).
- **`NewestOrNothing`** is about publishers of strings, arrays and objects: the beginning of a longer
  number is a number (`MessagesNumbers.cfg`). **`EqualLengthsArrive`**: messages of other lengths are
  lost (`MessagesLengths.cfg`).
- **`OpeningEnds`** excepts systems in which a process was killed: it may hold the registry's mutex,
  which is not robust.

Bounds, and why they are enough. *Three threads, two bits*: the update of one bit against another
needs two of each; the third thread is the sleeper. *Two workers, two callers, three tasks*: one
worker asleep while the other works, two notifications under way, more tasks than workers.
*`MaxSent` = 2* messages on the topic with two subscriptions, 1 on the other: one being processed
while the next is written and triggered; a third would only overwrite the second. *One worker* in
`PubSub.cfg`: its queue is what matters to the loop; two could let callbacks overtake each other, which
the safety properties, proved for any number, do not mind. *Two or
three processes* in `ShmLifecycle`: creator, opener, and one that comes after the creator has gone;
`MaxObjects = 5` cuts no behaviour that creates fewer segments, and a process that reaches it simply
does not create another. *One kill* suffices at every point of a single process. *`MaxTopics` = 8*
with two topics never reaches the limit, which has its own configuration (`TopicsLimit.cfg`); *three
nodes for two slots* does reach that of the slots, and texts of two entries are 9 and 10 characters long
and fit, 11 and fill the copy, 12 and are cut, or 13 and are refused, instead of 1416 and 1520. `MaxDepartures` = 1: the reserved bit set once, at any moment. *`NodeLifecycle`*: one worker and
one timer, since it is the calls of `stop()` that meet each other, of which there can be five at once
(two handlers, a thread, a callback, the destructor); `MaxSpins` = 1, `spin()` being called once or
not at all before the destruction; `MaxQueue` = 1 bounds the periods that elapse, not the tasks that
are queued; the proofs have any number of both. *`Executor`*: `MaxStarts` = 2, so that tasks
left by a stop meet a second thread; three tasks, so that the order of two in the queue matters while
one is run. *`Messages`*: three messages (the first sets the size, the second stays behind the third),
two publishers (one after the end of the other), values of 4, 6, 6, 7 and 7 bytes, `Header` 4 and
`Page` 16 instead of some 100 and 4096; a publisher of another type has one message and is neither
killed nor followed, for nothing of it depends on who came before. Its bytes are every text of four
characters out of eleven, and every text one character away from a sample of each construct of the
grammar: 17,264 texts. `JsonGrammar` has also been compared with `JsonText` on every text of up
to four characters out of fourteen. Doubles have at most six digits, as `operator<<` rounds longer
ones. Reading a message and clearing its event is one step in `Messages`: what happens in between is
`PubSub`'s subject.
The pool has 4 threads, the flags 1024 bits and the registry 16 nodes in the code; the proofs of
section 6 hold for any number. Symmetry is used in `Nodes.cfg` only (`Renamings` of the processes), which
checks invariants that name no process; half of the other checks are temporal.

`CHECK_DEADLOCK FALSE` is set where the system may come to rest: all nodes stopped, all processes
gone, all messages sent.

## 5. Checks that end in a counterexample

`PubSubCrossLost.cfg`, `NoLostUpdate` is a finding in `PROJECT.json`. The loop clears an event some
time after it has read the message, under the `registry_mutex_` of its own process. A trigger of
*another* process that falls in between is cleared unseen. `node.cpp:227-228` says that clearing only
what was processed avoids exactly this. Within one process `registry_mutex_` does avoid it
(`PubSub.cfg`). Section 7 lists the other counterexamples.

## 6. Proofs

The eight modules `…Proofs` are checked by TLAPS with SMT, Zenon and PTL only, for all values of the
constants that the named assumptions allow: `EventOpsAssumption` (at least one bit),
`NoThreadAssumption`, `PoolAssumption` (finitely many workers, at least one, and callers, all
distinct), `PubSubAssumption` (each publisher and subscription has one node and one topic, and no two
subscriptions the same place in the order), `RegistryAssumption` and `NodesAssumption` (finitely many
processes, topics and threads in each), `SizesAssumption` (an entry has two characters at least, and the
area ends behind what is copied), `ExecutorAssumption`, and the `LifecycleAssumption` of
`ShmLifecycle` and of `NodeLifecycle` (workers, one at least, and timers in sequences without repetition;
signals, threads and workers distinct), and `LocksAssumption` (each thread has a set of programs).

| Theorem | Says |
|---|---|
| `EventNotificationProofs!TypeCorrect`, `MutexIsReleased`, `SnapshotIsCurrent`, `SleepersAreWoken` | `Spec => []` of `TypeOK`, `MutexReleased`, `SnapshotCurrent`, `NoSleeperMissesTrigger` |
| `OnlyAskedBits` | `Spec => OnlyAskedBitsChange`, an action property |
| `ImplementsFlags` | `Spec => FlagsSpec`: the locked segment implements the atomic word |
| `ThreadPoolProofs!TypeCorrect`, `WakeupsSuffice`, `NobodySleepsThroughStop`, `TaskInOnePlace`, `StopDrains` | `Spec => []` of `TypeOK`, `NoLostWakeup`, `StopWakesAll`, `ExactlyOnce`, `DrainedWhenStopped` |
| `ImplementsPool`, `QuietAfterStop` | `Spec => PoolSpec`: mutex, sleeps and notifications implement the pool of `TaskPool`; `Spec => []Pool!QuietWhenStopped` |
| `PubSubProofs!TypeCorrect`, `RegistryIsExclusive`, `NoReadIsSpurious` | `Spec => []` of `TypeOK`, `RegistryExclusive`, `NoSpuriousRead`, wherever publishers and subscriptions are |
| `CallbacksBeginInOrder` | `Spec => []BegunInOrder`, with any number of workers, wherever publishers are, and although messages are read while they are written |
| `NothingIsLost` | `Spec => []NoLostUpdate` if `LocalTopics`: all that publish on a topic or subscribe to it are in one process |
| `PoolsAsPromised` | `Spec => PoolsSpec`: the queue and the workers of each node are used as `TaskPool` promises |
| `ShmLifecycleProofs!TypeCorrect`, `NamesStayBound`, `SegmentsAreUsable`, `NothingIsLeft` | `Spec => []` of `TypeOK`, `NameStaysBound`, `UsableWhenUp`, `NothingLeft`, with any number of processes at once and of kills |
| `MutexesExclude`, `NoTriggerIsWiped` | `Spec => []MutualExclusion` and `Spec => NoTriggerWiped`, an action property, if `Serial`: processes open their segments in turn |
| `TopicRegistryProofs!TypeCorrect`, `RegisteredIdsAreFound`, `IdsAreDistinct`, `SameIdsEverywhere` | `InTurnSpec => []` of `TypeOK`, `RegisteredIdIsFound`, `IdsDistinct`, `SameIdEverywhere`, with any number of processes, threads and topics, and whether or not the array is full |
| `IdsAreStable` | `InTurnSpec => IdStable`, an action property |
| `NothingIsSilent` | `InTurnSpec => []NoSilentPublish` if there is `Room`: the array has as many entries as topics times threads, and one more for each topic |
| `NodeRegistryProofs!TypeCorrect`, `SlotsAreUnique`, `RunningNodesAreListed`, `RefusedOnlyByFull`, `TheDeadAreNeverRead` | `Spec => []` of `TypeOK`, `SlotsUnique`, `RunningNodesListed`, `RefusedOnlyWhenFull`, `DeadNeverRead`, with any number of processes and slots, and entries and areas of any length, under the conditions of section 4, which the properties contain |
| `ExecutorProofs!TypeCorrect`, `RunInOrder`, `NoWakeUpIsLost`, `StopWakesThread` | `Spec => []` of `TypeOK`, `InOrder`, `NoTaskForgotten`, `NoSleeperAfterStop`: the last two are what the liveness properties `TasksRun` and `StopReturns` rest on |
| `NodeProofs!TypeCorrect`, `StopsAreSafe`, `QuietAfterPool` | `Spec => []` of `TypeOK`, `SafeStop`, `QuietWhenGone`, with any number of workers, timers, signals and threads |
| `PoolAsPromised` | `Spec => PoolSpec`: stops in turn or not, the node's pool is the one of `TaskPool` |
| `LocksAreOrdered` | `LocksSpec => []NoCircularWait` if `OrderKept`, with any number of threads and any of the seven programs in each |

The arguments:

- *EventNotification*. `IInv` adds to the properties `MutexInv` (a thread is inside a critical
  section exactly if it holds the mutex), `CallInv` (which calls reach which location; in
  particular that no accepted call is at `threw`: the range check of `clearTriggerEvent` is what
  keeps the mutex from being lost) and `MissedInv` (sleepers are missed only between a trigger's
  write and its broadcast). `SnapshotCurrent` is inductive with `MutexInv`. For the refinement each
  step maps to an invocation, the instant of the effect, a return, or a stutter
  (`StepRefines`); that the effect computed from the thread's own copy is the effect on the word is
  `SnapshotCurrent`.
- *ThreadPool*. `MutexInv` as above. `WorkerInv` says what a worker's place implies: about to sleep,
  it has seen an empty queue and no stop *and still holds the mutex*; asleep with `stop_` set only
  until the broadcast. `StopWakesAll` follows. `NoLostWakeup` counts: pushing adds a task and a
  caller that will notify; a notification wakes a sleeper, or there is none; a worker goes to sleep
  only when the queue is empty. `ExactlyOnce` is about cardinalities; what is inductive is `PlaceInv`
  (positions of the queue, hands of workers and the past are disjoint), from which `PlacesCount`
  derives it. `DrainInv` (a worker that has left leaves no task from before the stop in the queue)
  gives `DrainedWhenStopped`. For `PoolSpec` every step is one of `TaskPool` or leaves it alone
  (`StepRefines`): that a worker leaves only while the pool is being stopped needs that the phase of the
  owner and `stop_` agree (`OwnerInv`), that `stop()` returns only when all have left is its join.
  `QuietAfterStop` adds that who has left runs nothing, and never comes back (`LeftForGood`).
- *ShmLifecycle*. Ownership is set after `shm_open`, so `NameStaysBound` alone is not inductive:
  `HolderInv` adds that a name has one holder also while its creator is still at `ftruncate`, which
  is what `O_EXCL` gives. `UsableWhenUp` needs `MappedInv`: what a process that is still opening has
  already mapped, and that its current segment has its size once it has been seen by
  `Exists` and survived the look at the header. `NothingLeft` needs `LinkInv` (a bound name has a
  holder, or somebody died without destructors), `CloseInv` (the destructors go through the names in
  their order, so that none is passed over) and `CreatedInv` (a new object is nobody's yet). Under
  `Serial` a second invariant, `SInv`, goes with it: one process opens at a time (`OneOpens`), nobody
  uses a segment that is being initialised (`SoleInv`), no bit is set in it (`BlankInv`), and who is in
  a critical section has its mutex (`LockInv`); initialising frees a mutex and clears the bits, and
  `SoleInv` and `BlankInv` say that nothing is there to be lost.
- *PubSub*. `NoSpuriousRead` counts reads against triggers of a topic; what is inductive is
  `SpuriousInv`, which also counts the read a subscription is still *owed*: it is on its way to it, or
  the bit is set and will not be cleared by this pass. Clearing pays no debt twice because what is
  cleared is what was in the snapshot (`PhaseInv`). `NoLostUpdate` needs `WriteInv` (a segment is in
  halves only under its mutex) and `ReadInv`: as long as a loop holds `registry_mutex_`, what it has
  read of a topic is what is in the segment, or somebody is publishing, who cannot have triggered
  before the loop leaves, because `triggerEvent` takes the same mutex: `RegistryExclusive`. That is
  where `LocalTopics` comes in: a publisher in another process has another `registry_mutex_`, and the
  property fails (section 5). For `PoolsSpec` all steps but one, the queueing of a callback, follow from
  their definitions; that one needs `IInv`: what is queued is a subscription with a message (`QueuedTask`).
  For `BegunInOrder` versions only grow on their way from `sent` to the halves of a segment (`SegInv`:
  it is written front to back), to the halves a loop has read and to `msg_` (`CopyInv`: a read that is
  torn is still no older than the one before), to the queue, whose last entry of a subscription is
  `msg_` or older, to the workers and to what has been delivered (`RunInv`). `UpTo` compares both
  halves, and is transitive (`VersionsGrow`). Nothing is asked of where publishers are.
- *TopicRegistry*. There is one table, that of the segment; it can be read (`TextInv`, since it only
  grows), and every copy is a beginning of it, with nothing behind (`CopyInv`), and all of it in a
  process that has started (`CurrentInv`). Look-ups in two copies then end at the same entry, which is
  `SameIdEverywhere`, and no step puts an entry before another, which is `IdStable`. `IdInv` says of
  the ids what `count + 1` makes true: an id is less than the length of the table, so that a new topic,
  which gets that length plus one, shares it with none. `SubsInv` and `PlaceInv`: a topic that is
  subscribed to, or about to be triggered, is listed. `SizeInv` bounds the table, which has two entries
  or more for a topic: each thread adds a topic once (`Done`), and the first one leaves an
  entry empty. This is what keeps indexes within the array and the pages behind it, and what
  `NothingIsSilent` measures `Room` by; `MAX_TOPICS_PER_NODE` is 1024; in `Topics.cfg` the
  two sides are equal. In a full array `addPubTopic` writes entries without an id, and the trigger is silent.
- *NodeRegistry*. While `orderly` and `Fits`, nearly the same picture: `TextInv`, that the table can be
  read; `EntryInv`, that the entry at index i is that of the running node with id i, and every running
  node with an id has one; `CopyInv`, that a copy is a beginning of the table but for entries that have got
  longer in the meantime (`Recount`); `FullInv`, that a node
  without an id found all slots taken, and one that has thrown an area without room. The three
  properties follow; that a refusal needs as many *others* as there are slots is a matter of
  cardinalities, by an injection from the slots to the nodes. What is needed of lengths is that a table
  with more entries, or longer ones, is longer (`Extra`, `Longer`); a length counts characters, so that
  this is a matter of cardinalities too. `TheDeadAreNeverRead` holds without `orderly` and has its own
  invariant, `AliveInv`: while the text fits, the entries a copy counts are of living nodes until its
  process ends, and the area has been written as far as the text of such a copy reaches, so that what a
  node that leaves writes, with one entry fewer, is shorter.
- *Executor*. `InOrder` says that what was added is what was run, what is in the thread's hands and
  what is queued, in this order: each step moves the border between two of them, and the proof is
  associativity of concatenation. It needs `WorkerInv`: the thread has something in its hands exactly
  while it runs it, finds the queue filled when it goes to take a task while `running_`, and is gone
  when the owner can start another. `NoTaskForgotten` needs the mutex (`MutexInv`): `add_task`
  notifies before it releases it. `NoSleeperAfterStop` shows `slipped` to be the only gap of `stop()`.
- *NodeLifecycle*. `SafeStop` is not inductive: why does a stop in order never meet a missing pool, a
  worker that is being joined, or its own worker, at its later steps? `InTurn` says, as long as every
  stop has begun in order: nobody else is in `stop()`; who is, is no worker and has a pool; a handler
  among them has interrupted the main thread, which stands still and so cannot release the pool under
  it; another thread is not among them while the destructor runs (`OneStop`); and a worker that
  somebody joins has not been joined and its joiner is at `join` (`JoinInv`). `PhaseInv` ties the pool
  to the place of the main thread. That the next worker to join is one that is left is `NextIsLeft`,
  from the well-foundedness of the naturals. `PoolSpec` and `QuietWhenGone` hold for stops out of turn
  too: nobody leaves an open pool (`OpenInv`); the main thread is done with its join, and the pool gone, only
  when all workers are joined, and who has ended runs nothing (`QuietInv`).
- *NodeLocks*. `NoCircularWait` is about any set of threads, so that no count of them helps. `HeldIn` is
  the table of what a thread holds before each step of each program (`ProgramsListed`: it agrees with the
  programs, nothing is held at their ends, and no mutex is taken that is held); `HeldInv` says that a
  thread holds a mutex exactly if the table says so, which is inductive. The order of the mutexes is a rank:
  registry, node, subscriber where the loop runs, node, subscriber, registry where it does not; `OrderKept`
  is what makes one of the two fit every program that may run (`RanksExist`: what is taken ranks above
  all that is held). In a set of threads that wait for each other, the mutex of the highest rank that one of
  them waits for is held by another, which waits for one of a higher rank still
  (`RanksForbidCircles`).

Only model-checked: all liveness (`CallsReturn`, `StopReturns`, `TasksRun`, `NodeStops`,
`EventuallyDelivered`, `OpeningEnds`, `ProgramsEnd`, `StopEndsNode`, `TimersRun`), which TLAPS does
not handle with fairness; and `Messages`, `JsonText` and `JsonGrammar`, whose operators are recursive. What the theorems leave open is what their
hypotheses exclude, and a configuration shows for each why it is there: `LocalTopics`
(`PubSubCrossLost.cfg`, the same property fails), `Serial` (`ShmLifecycleReinit.cfg`: a mutex is
initialised under those who use it), `InTurn` (`TopicsLost.cfg`), `PublishFirst`
(`TopicsSubscribeFirst.cfg`, the same property fails), `OrderKept` (`NodeLocksCycle.cfg`, the same
property fails in both ways). With `MaxTopics` = 3 in `Topics.cfg`, which
leaves no `Room`, `NoSilentPublish` fails as well. Why `orderly` is needed is in section 4, why `Fits` is
shows `NodesCut.cfg`.

### Fairness

Safety is checked and proved of `Spec`, which assumes none. The fair specifications assume of a
thread that it is scheduled (weak fairness of its steps), that a time-out expires, that a callback
returns, and of a mutex that a thread which keeps trying gets it while others keep releasing it
(strong fairness at the steps that lock). pthread mutexes do not promise the last point formally; with
short critical sections and finitely many threads it is what the schedulers do, and the
code relies on it throughout. `NodeLifecycle` needs weak fairness only, of main, the spin thread, the EventManager's, the workers,
the steps of calls of `stop()` that have begun, and of time: whoever waits for the pool's mutex there
waits for a call that will take no other. `Executor` has strong fairness for its thread and the
callers. Where a thread has only one step at a time strong fairness is stated
for the thread's steps as a whole: it differs from weak fairness at locks only. No fairness is
assumed of anything a program *chooses*: calling, publishing, enqueueing, subscribing, stopping,
starting, leaving, being killed, being sent a signal, and waking up without a reason; main, its node
constructed, is assumed to spin or to destroy it in the end.

## 7. More configurations

An instance besides those of section 4 that passes:

| Configuration (module) | Checked | Distinct states |
|---|---|---|
| `PubSubLive.cfg` (MCPubSub) | two publishers of one topic: `NodeStops`, `EventuallyDelivered` | 37,222 |

The following configurations have a counterexample too. They show what keeps the properties above
from being stated more strongly; the conditions in section 4 come from them.

| Configuration (module) | Violated | What happens, and what the repository says |
|---|---|---|
| `PubSubTorn.cfg` (MCPubSub) | `NoTornMessage` | `getMessage` calls `ReadUnlocked` without the segment's mutex (`subscriber.h:137`). `README.md:363`: for callers that hold the lock |
| `PubSubFanOut.cfg` (MCPubSub) | `EventuallyDelivered` | one bit for all nodes that subscribe: the first loop clears it for the others (`node.cpp:230`). `README.md:388`: the callback is called when a message is received |
| `PubSubStopRace.cfg` (MCPubSub) | `AllTasksDone` | `stop()` waits for the pool before the loop that feeds it has ended (`node.cpp:280`). `node.cpp:116`: stop the pool first to make sure that all tasks complete |
| `ShmLifecycleReinit.cfg` (ShmLifecycle) | `NoReinit` | an opener between the creator's `ftruncate` and its magic number initialises the mutex again (`shm_base.h:55`). `shm_base.cpp:33-34`: this should not happen |
| `ShmLifecycleCrash.cfg` (ShmLifecycle) | `SurvivesCrash` | a creator that dies before `ftruncate` leaves a segment without size, and whoever opens it dies of SIGBUS (`shm_base.h:49`). `shm_base.h:53`: it is initialised again |
| `TopicsLost.cfg` (MCTopicRegistry) | `NoTopicLost` | the table is written from a copy older than the segment (`shm_manager.cpp:294`). `shm_manager.h:173-174`: ShmBase's lock protects all accesses |
| `TopicsLimit.cfg` (MCTopicRegistry) | `IdsAreBits` | the last ids are the reserved bit and one past the end (`shm_manager.cpp:504`). `shm_manager.cpp:485`: the id is the index of a bit |
| `NodeLocksCycle.cfg` (MCNodeLocks) | `NoCircularWait` | `createSubscriber` takes `node_mutex_` then `registry_mutex_` (`node.h:80`), `spinLoop` the reverse. `README.md:448`: mind the order, avoid circular waiting |
| the same, with `MayRun <- Publishing` | `NoCircularWait` | a callback that publishes wants `registry_mutex_` with its subscriber's mutex held (`subscriber.h:119`), `spinLoop` the reverse |
| `TopicsSubscribeFirst.cfg` (MCTopicRegistry) | `RegisteredIdIsFound` | `addSubTopic` puts the topic at index `count + 1`, raises the count by one, and the search does not cover that index; `registerTopicEvent` right after it allocates a second id (`shm_manager.cpp:504`). `shm_manager.h:106`: it returns the id that was allocated |
| `NodesAbort.cfg` (NodeRegistry) | `DestructorCompletes` | after one node has left, another that synchronises takes the count to be 0; its destructor makes that −1 and builds an array of −1 entries, which throws (`shm_manager.cpp:255`). `node.cpp:30-32`: the destructor cleans up |
| `NodesCut.cfg` (NodeRegistry) | `NextIdIsFree` | `readNodesInfo_` copies `NODE_INFO_SIZE` bytes, the size of the table in memory, of a text that is longer from about 11 nodes on (`shm_manager.cpp:52`), although `MAX_NODE_COUNT` is 16; it is cut, does not parse, and the table is taken to be empty. The next node takes slot 0, which a running node has, and writes a table of itself alone. `shm_manager.h:76`: `getNextNodeId` returns the next free id. In the run one entry fits and two do not, and there are four slots for three nodes |
| `NodeLifecycleSignal.cfg` (MCNodeLifecycle) | `NeverFails` | a signal while the constructor registers the node, or after the destructor has released the pool: `stop()` uses a null pointer (`node.cpp:280`). `node.cpp:30-32`: the program is to end normally |
| `NodeLifecycleForgotten.cfg` (MCNodeLifecycle) | `SignalEndsNode` | a signal before `spin()`: `spinning_` is set again, and the loop runs for ever with a stopped pool (`node.cpp:264`) |
| `ExecutorStop.cfg` (Executor) | `StopAlwaysReturns` | `running_` is reset between the thread's test and its sleep (`executor.h:23`); the thread sleeps on and `join` waits. `executor.h:24`: all waiting threads are woken |
| `MessagesLengths.cfg` (MCMessages) | `NewestArrives` | a message shorter than the first leaves its end behind and does not parse, a longer one is cut, and one shorter than the message before is refused (`message_serializer.h:45`); the callback runs with the message before |
| `MessagesNumbers.cfg` (MCMessages) | `NewestOrNothing` | the beginning of a longer number is taken for the message |
| `MessagesOverrun.cfg` (MCMessages) | `NeverOverruns` | `Write` compares a message with header and data together, and copies it behind the header (`shm_base.cpp:90`): its end can be past the last page |

## 8. Not modelled

- `ShmCond`, an auto-reset event that nothing uses; of `EventManager` adding, removing and
  dispatching sources, which nothing does (it would give epoll pointers into a growing vector).
- Of a node: the heartbeat, whose thread nothing starts; two nodes in one process, of which only the
  second gets the signals; the handler of SIGTSTP, which the destructor leaves installed.
- Of `JsonValue`: the ownership of strings, arrays and objects by its tagged union (`v = v["a"]` assigns
  a value a part of itself), the accessors, and doubles of more than six digits. Values are immutable
  in TLA+.
- Memory: `getMessage` leaks its buffer when the parser throws.
- `removePubTopic`, `removeSubTopic`, `updateNodeInfo`, `updateNodeHeartbeat` and the readers of the
  registry that nothing calls.
- A program that catches the exception of a node's constructor and tries again; and, in `TopicRegistry`,
  the exception that leaves `addPubTopic` and `addSubTopic` when the text of the *nodes* does not
  fit: there it would end the first publish or the subscription, in `NodeRegistry` it does (`Recount`).
- `MySemaphore`: a wrapper whose every use is commented out. The TCP registry server: a stand-alone
  program, socket I/O around one map under one mutex.
- QoS, parameters, services, adapters and the command line: the files are empty or commented out.
- The order in which callbacks end: they begin in the order of their messages (`BegunInOrder`), but two
  workers that run callbacks of one subscription at the same time may end in the opposite order, and the
  last to end carries the older message. Nothing promises otherwise.
- Data races in the sense of C++ other than those above, for instance `timers_`, which `spinLoop`
  walks without a lock: `createTimer` has to be called before `spin`.
