----------------------------- MODULE ThreadPool -----------------------------
(***************************************************************************)
(* ThreadPool: a queue of tasks under a mutex, worker threads that wait on *)
(* a condition variable for a task or for the stop flag, threads that      *)
(* enqueue, and the owner, which stops the pool and destroys it.           *)
(***************************************************************************)
EXTENDS Sequences, FiniteSets, Integers

CONSTANTS
    Workers,    \* the threads the constructor started
    Callers,    \* the threads that call enqueue
    Owner,      \* the thread that calls stop and the destructor
    Tasks,      \* the closures: each is built and enqueued at most once
    NoThread,   \* the holder of a free mutex
    NoTask

ASSUME PoolAssumption ==
    /\ IsFiniteSet(Workers) /\ Workers # {}
    /\ IsFiniteSet(Callers)
    /\ Workers \cap Callers = {}
    /\ Owner \notin Workers \cup Callers
    /\ NoThread \notin Workers \cup Callers \cup {Owner}
    /\ NoTask \notin Tasks

VARIABLES
    mutex,      \* the holder of mutex_, or NoThread
    tasks,      \* tasks_
    stop,       \* stop_
    wpc,        \* where each worker is in its loop
    running,    \* the task each worker has taken
    cpc,        \* where each caller is in enqueue
    item,       \* the task it brings
    phase,      \* where the owner is
    dtor,       \* is it in the destructor rather than in stop()?
    submitted,  \* the tasks that have been put in the queue (history)
    finished,   \* the tasks that have been run to their end (history)
    beforeStop  \* the tasks submitted when stop_ was set (history)

vars == <<mutex, tasks, stop, wpc, running, cpc, item, phase, dtor,
          submitted, finished, beforeStop>>
workerVars == <<wpc, running, finished>>
callerVars == <<cpc, item, submitted>>
ownerVars == <<phase, dtor, beforeStop>>

Threads == Workers \cup Callers \cup {Owner}

TypeOK ==
    /\ mutex \in Threads \cup {NoThread}
    /\ tasks \in Seq(Tasks)
    /\ stop \in BOOLEAN
    /\ wpc \in [Workers -> {"lock", "test", "sleep", "asleep", "take", "run", "exited"}]
    /\ running \in [Workers -> Tasks \cup {NoTask}]
    /\ cpc \in [Callers -> {"idle", "lock", "push", "notify"}]
    /\ item \in [Callers -> Tasks \cup {NoTask}]
    /\ phase \in {"open", "lock", "set", "notify", "join", "stopped", "gone"}
    /\ dtor \in BOOLEAN
    /\ submitted \subseteq Tasks
    /\ finished \subseteq Tasks
    /\ beforeStop \subseteq Tasks

Init ==
    /\ mutex = NoThread
    /\ tasks = <<>>
    /\ stop = FALSE
    /\ wpc = [w \in Workers |-> "lock"]
    /\ running = [w \in Workers |-> NoTask]
    /\ cpc = [c \in Callers |-> "idle"]
    /\ item = [c \in Callers |-> NoTask]
    /\ phase = "open"
    /\ dtor = FALSE
    /\ submitted = {}
    /\ finished = {}
    /\ beforeStop = {}

Asleep == {w \in Workers : wpc[w] = "asleep"}

-----------------------------------------------------------------------------
(* A worker: lock; wait until stop_ or a task; leave or take; run; repeat. *)

WorkerLock(w) ==
    /\ wpc[w] = "lock"
    /\ mutex = NoThread
    /\ mutex' = w
    /\ wpc' = [wpc EXCEPT ![w] = "test"]
    /\ UNCHANGED <<tasks, stop, running, finished, callerVars, ownerVars>>

\* The predicate of cv_.wait, evaluated with the mutex held.
WorkerTest(w) ==
    /\ wpc[w] = "test"
    /\ wpc' = [wpc EXCEPT ![w] = IF stop \/ tasks # <<>> THEN "take" ELSE "sleep"]
    /\ UNCHANGED <<mutex, tasks, stop, running, finished, callerVars, ownerVars>>

\* cv_.wait releases the mutex and sleeps, in one step.
WorkerSleep(w) ==
    /\ wpc[w] = "sleep"
    /\ mutex' = NoThread
    /\ wpc' = [wpc EXCEPT ![w] = "asleep"]
    /\ UNCHANGED <<tasks, stop, running, finished, callerVars, ownerVars>>

\* A wake-up that nobody asked for; the predicate is evaluated again.
SpuriousWakeUp(w) ==
    /\ wpc[w] = "asleep"
    /\ wpc' = [wpc EXCEPT ![w] = "lock"]
    /\ UNCHANGED <<mutex, tasks, stop, running, finished, callerVars, ownerVars>>

\* MUTANT of WorkerExit: leaving as soon as stop_ is seen, tasks or no tasks.
WorkerExit_AtOnce(w) ==
    /\ wpc[w] = "take"
    /\ stop
    /\ mutex' = NoThread
    /\ wpc' = [wpc EXCEPT ![w] = "exited"]
    /\ UNCHANGED <<tasks, stop, running, finished, callerVars, ownerVars>>

WorkerExit(w) ==
    /\ wpc[w] = "take"
    /\ stop /\ tasks = <<>>
    /\ mutex' = NoThread
    /\ wpc' = [wpc EXCEPT ![w] = "exited"]
    /\ UNCHANGED <<tasks, stop, running, finished, callerVars, ownerVars>>

\* MUTANT of WorkerTake: tasks_.pop() forgotten.
WorkerTake_NoPop(w) ==
    /\ wpc[w] = "take"
    /\ tasks # <<>>
    /\ running' = [running EXCEPT ![w] = Head(tasks)]
    /\ mutex' = NoThread
    /\ wpc' = [wpc EXCEPT ![w] = "run"]
    /\ UNCHANGED <<tasks, stop, finished, callerVars, ownerVars>>

\* MUTANT of WorkerTake: a stack in place of a queue.
WorkerTake_Back(w) ==
    /\ wpc[w] = "take"
    /\ tasks # <<>>
    /\ running' = [running EXCEPT ![w] = tasks[Len(tasks)]]
    /\ tasks' = SubSeq(tasks, 1, Len(tasks) - 1)
    /\ mutex' = NoThread
    /\ wpc' = [wpc EXCEPT ![w] = "run"]
    /\ UNCHANGED <<stop, finished, callerVars, ownerVars>>

WorkerTake(w) ==
    /\ wpc[w] = "take"
    /\ tasks # <<>>
    /\ running' = [running EXCEPT ![w] = Head(tasks)]
    /\ tasks' = Tail(tasks)
    /\ mutex' = NoThread
    /\ wpc' = [wpc EXCEPT ![w] = "run"]
    /\ UNCHANGED <<stop, finished, callerVars, ownerVars>>

\* The task returns.
WorkerRun(w) ==
    /\ wpc[w] = "run"
    /\ finished' = finished \cup {running[w]}
    /\ running' = [running EXCEPT ![w] = NoTask]
    /\ wpc' = [wpc EXCEPT ![w] = "lock"]
    /\ UNCHANGED <<mutex, tasks, stop, callerVars, ownerVars>>

WorkerStep(w) == \/ WorkerLock(w) \/ WorkerTest(w) \/ WorkerSleep(w)
                 \/ WorkerExit(w) \/ WorkerTake(w) \/ WorkerRun(w)

-----------------------------------------------------------------------------
(* enqueue: lock, put in the queue, unlock, and only then notify one.      *)

\* Nothing in enqueue looks at stop_.  Nobody uses an object once its
\* destructor runs.
Enqueue(c, k) ==
    /\ cpc[c] = "idle"
    /\ ~dtor
    /\ k \notin submitted /\ \A d \in Callers : item[d] # k
    /\ item' = [item EXCEPT ![c] = k]
    /\ cpc' = [cpc EXCEPT ![c] = "lock"]
    /\ UNCHANGED <<mutex, tasks, stop, submitted, workerVars, ownerVars>>

CallerLock(c) ==
    /\ cpc[c] = "lock"
    /\ mutex = NoThread
    /\ mutex' = c
    /\ cpc' = [cpc EXCEPT ![c] = "push"]
    /\ UNCHANGED <<tasks, stop, item, submitted, workerVars, ownerVars>>

CallerPush(c) ==
    /\ cpc[c] = "push"
    /\ tasks' = Append(tasks, item[c])
    /\ submitted' = submitted \cup {item[c]}
    /\ item' = [item EXCEPT ![c] = NoTask]
    /\ mutex' = NoThread
    /\ cpc' = [cpc EXCEPT ![c] = "notify"]
    /\ UNCHANGED <<stop, workerVars, ownerVars>>

\* MUTANT of CallerNotify: notify only when the queue was empty before.
CallerNotify_FirstOnly(c) ==
    /\ cpc[c] = "notify"
    /\ cpc' = [cpc EXCEPT ![c] = "idle"]
    /\ \/ (Asleep = {} \/ Len(tasks) # 1) /\ UNCHANGED wpc
       \/ Len(tasks) = 1 /\ \E w \in Asleep : wpc' = [wpc EXCEPT ![w] = "lock"]
    /\ UNCHANGED <<mutex, tasks, stop, running, finished, item, submitted, ownerVars>>

\* MUTANT of CallerNotify: no notification.
CallerNotify_Never(c) ==
    /\ cpc[c] = "notify"
    /\ cpc' = [cpc EXCEPT ![c] = "idle"]
    /\ UNCHANGED <<mutex, tasks, stop, workerVars, item, submitted, ownerVars>>

\* cv_.notify_one, without the mutex: one sleeper wakes, if there is one.
CallerNotify(c) ==
    /\ cpc[c] = "notify"
    /\ cpc' = [cpc EXCEPT ![c] = "idle"]
    /\ \/ Asleep = {} /\ UNCHANGED wpc
       \/ \E w \in Asleep : wpc' = [wpc EXCEPT ![w] = "lock"]
    /\ UNCHANGED <<mutex, tasks, stop, running, finished, item, submitted, ownerVars>>

CallerStep(c) == CallerLock(c) \/ CallerPush(c) \/ CallerNotify(c)

-----------------------------------------------------------------------------
(* stop and the destructor: lock, set stop_, notify all, unlock, join.     *)

Stop ==
    /\ phase \in {"open", "stopped"}
    /\ phase' = "lock"
    /\ UNCHANGED <<mutex, tasks, stop, workerVars, callerVars, dtor, beforeStop>>

Destroy ==
    /\ phase \in {"open", "stopped"}
    /\ \A c \in Callers : cpc[c] = "idle"
    /\ phase' = "lock"
    /\ dtor' = TRUE
    /\ UNCHANGED <<mutex, tasks, stop, workerVars, callerVars, beforeStop>>

OwnerLock ==
    /\ phase = "lock"
    /\ mutex = NoThread
    /\ mutex' = Owner
    /\ phase' = "set"
    /\ UNCHANGED <<tasks, stop, workerVars, callerVars, dtor, beforeStop>>

OwnerSet ==
    /\ phase = "set"
    /\ stop' = TRUE
    /\ beforeStop' = IF stop THEN beforeStop ELSE submitted
    /\ phase' = "notify"
    /\ UNCHANGED <<mutex, tasks, workerVars, callerVars, dtor>>

\* MUTANT of OwnerNotify: notify_one in place of notify_all.
OwnerNotify_One ==
    /\ phase = "notify"
    /\ \/ Asleep = {} /\ UNCHANGED wpc
       \/ \E w \in Asleep : wpc' = [wpc EXCEPT ![w] = "lock"]
    /\ mutex' = NoThread
    /\ phase' = "join"
    /\ UNCHANGED <<tasks, stop, running, finished, callerVars, dtor, beforeStop>>

\* cv_.notify_all and the unlock at the end of the block.
OwnerNotify ==
    /\ phase = "notify"
    /\ wpc' = [w \in Workers |-> IF w \in Asleep THEN "lock" ELSE wpc[w]]
    /\ mutex' = NoThread
    /\ phase' = "join"
    /\ UNCHANGED <<tasks, stop, running, finished, callerVars, dtor, beforeStop>>

\* The loop of joins ends once every worker has left; the destructor then
\* resets stop_.
OwnerJoin ==
    /\ phase = "join"
    /\ \A w \in Workers : wpc[w] = "exited"
    /\ phase' = IF dtor THEN "gone" ELSE "stopped"
    /\ stop' = ~dtor
    /\ UNCHANGED <<mutex, tasks, workerVars, callerVars, dtor, beforeStop>>

OwnerStep == OwnerLock \/ OwnerSet \/ OwnerNotify \/ OwnerJoin

-----------------------------------------------------------------------------
Next ==
    \/ \E w \in Workers : WorkerStep(w) \/ SpuriousWakeUp(w)
    \/ \E c \in Callers : (\E k \in Tasks : Enqueue(c, k)) \/ CallerStep(c)
    \/ Stop \/ Destroy \/ OwnerStep

Spec == Init /\ [][Next]_vars

\* Every thread is scheduled, a task ends, and the mutex does not starve a
\* thread that keeps trying to take it.  Nobody has to call stop, or enqueue,
\* and nobody has to wake up without a reason.  (A thread has one step at a
\* time, so that only at a lock strong fairness says more than weak fairness.)
Fairness ==
    /\ \A w \in Workers : SF_vars(WorkerStep(w))
    /\ \A c \in Callers : SF_vars(CallerStep(c))
    /\ SF_vars(OwnerStep)

FairSpec == Spec /\ Fairness

-----------------------------------------------------------------------------
\* The workers that will look at the queue again, and the callers that have
\* queued a task but not yet notified.
Awake == {w \in Workers : wpc[w] \notin {"asleep", "exited"}}
Notifying == {c \in Callers : cpc[c] = "notify"}

\* No lost wake-up: a worker sleeps only while the workers that are awake or
\* about to be woken suffice for the queue.  (enqueue notifies one worker per
\* task, after it has given the mutex back.)
NoLostWakeup ==
    Asleep # {} => Len(tasks) <= Cardinality(Awake) + Cardinality(Notifying)

\* Once stop() has given the mutex back no worker sleeps, or ever will: the
\* flag cannot slip between a worker's test of the predicate and its wait.
StopWakesAll == stop /\ phase # "notify" => \A w \in Workers : wpc[w] \notin {"sleep", "asleep"}

\* The number of places a task is in: queue positions, workers, the past.
Places(k) == Cardinality({i \in DOMAIN tasks : tasks[i] = k})
             + Cardinality({w \in Workers : running[w] = k})
             + (IF k \in finished THEN 1 ELSE 0)

\* A task that was enqueued is waiting, being run or done, and only one of
\* these, in one place: none is lost and none is run twice.
ExactlyOnce == \A k \in Tasks : Places(k) = IF k \in submitted THEN 1 ELSE 0

\* When stop() returns, every task enqueued before it set the flag has run
\* to its end: the workers drain the queue before they leave.
DrainedWhenStopped == phase \in {"stopped", "gone"} => beforeStop \subseteq finished

\* stop() and the destructor return.
StopReturns == phase = "lock" ~> phase \in {"stopped", "gone"}

\* A task is run if it is enqueued before the pool is stopped, whatever else
\* the other threads do.
TasksRun ==
    \A k \in Tasks :
        k \in submitted /\ (phase = "open" \/ k \in beforeStop) ~> k \in finished

-----------------------------------------------------------------------------
\* What TaskPool calls exited, and stage.
exitedBar == {w \in Workers : wpc[w] = "exited"}
stageBar == IF phase \in {"stopped", "gone"} THEN "stopped"
            ELSE IF stop THEN "stopping" ELSE "open"

Pool == INSTANCE TaskPool WITH queue <- tasks, exited <- exitedBar, stage <- stageBar

\* Locks, sleeps and notifications implement a queue that is used atomically:
\* tasks are taken in the order in which they were put, by workers that have
\* none, and a worker leaves, and stop() returns, only when it may.
PoolSpec == Pool!Spec

=============================================================================
