------------------------------ MODULE Executor ------------------------------
(***************************************************************************)
(* SingleThreadedExecutor: one thread that runs the tasks of a queue one   *)
(* after the other, threads that add tasks, and the owner, which starts    *)
(* the executor and stops it, and may start it again.  The destructor is   *)
(* a stop().                                                               *)
(*                                                                         *)
(* Unlike ThreadPool, stop() sets its flag without the mutex, and the      *)
(* thread leaves its loop without looking at the queue.                    *)
(***************************************************************************)
EXTENDS Integers, Sequences, SequencesExt

CONSTANTS
    Callers,    \* the threads that call add_task
    Tasks,      \* the closures: each is added at most once
    MaxStarts,  \* bound: calls of start()
    NoThread,   \* the holder of a free mutex
    NoTask

ASSUME ExecutorAssumption ==
    /\ MaxStarts \in Nat
    /\ Callers \cap {"worker", NoThread} = {} /\ NoThread # "worker"
    /\ NoTask \notin Tasks

VARIABLES
    running,    \* running_
    mutex,      \* the holder of mtx_
    tasks,      \* tasks_
    wpc,        \* where the thread is
    current,    \* the task it has taken
    cpc,        \* where each caller is in add_task
    item,       \* the task it brings
    owner,      \* where the owner is
    starts,     \* how often start() was called
    added,      \* the tasks in the order they were queued (history)
    done,       \* the tasks in the order they were run (history)
    slipped     \* stop() has notified while the thread, having seen
                \* running_, was about to sleep (history)

vars == <<running, mutex, tasks, wpc, current, cpc, item, owner, starts, added,
          done, slipped>>
workerVars == <<wpc, current, done>>
callerVars == <<cpc, item, added>>
ownerVars == <<running, owner, starts, slipped>>

TypeOK ==
    /\ running \in BOOLEAN
    /\ mutex \in Callers \cup {"worker", NoThread}
    /\ tasks \in Seq(Tasks)
    /\ wpc \in {"none", "loop", "lock", "test", "sleep", "asleep", "take", "run", "ended"}
    /\ current \in Tasks \cup {NoTask}
    /\ cpc \in [Callers -> {"idle", "lock", "push", "notify"}]
    /\ item \in [Callers -> Tasks \cup {NoTask}]
    /\ owner \in {"idle", "started", "notify", "join"}
    /\ starts \in 0 .. MaxStarts
    /\ added \in Seq(Tasks) /\ done \in Seq(Tasks)
    /\ slipped \in BOOLEAN

Init ==
    /\ running = FALSE
    /\ mutex = NoThread
    /\ tasks = <<>>
    /\ wpc = "none"
    /\ current = NoTask
    /\ cpc = [c \in Callers |-> "idle"]
    /\ item = [c \in Callers |-> NoTask]
    /\ owner = "idle"
    /\ starts = 0
    /\ added = <<>> /\ done = <<>>
    /\ slipped = FALSE

-----------------------------------------------------------------------------
(* The thread: test running_; lock; wait until stopped or a task; leave or *)
(* take; unlock; run; repeat.                                              *)

WorkerLoop ==
    /\ wpc = "loop"
    /\ wpc' = IF running THEN "lock" ELSE "ended"
    /\ UNCHANGED <<mutex, tasks, current, done, callerVars, ownerVars>>

WorkerLock ==
    /\ wpc = "lock"
    /\ mutex = NoThread
    /\ mutex' = "worker"
    /\ wpc' = "test"
    /\ UNCHANGED <<tasks, current, done, callerVars, ownerVars>>

\* MUTANT of WorkerTest: the wait is for a task only.
WorkerTest_TaskOnly ==
    /\ wpc = "test"
    /\ wpc' = IF tasks # <<>> THEN "take" ELSE "sleep"
    /\ UNCHANGED <<mutex, tasks, current, done, callerVars, ownerVars>>

\* The predicate of cv_.wait, evaluated with the mutex held.
WorkerTest ==
    /\ wpc = "test"
    /\ wpc' = IF ~running \/ tasks # <<>> THEN "take" ELSE "sleep"
    /\ UNCHANGED <<mutex, tasks, current, done, callerVars, ownerVars>>

\* cv_.wait releases the mutex and sleeps, in one step.
WorkerSleep ==
    /\ wpc = "sleep"
    /\ mutex' = NoThread
    /\ wpc' = "asleep"
    /\ UNCHANGED <<tasks, current, done, callerVars, ownerVars>>

\* A wake-up that nobody asked for.
SpuriousWakeUp ==
    /\ wpc = "asleep"
    /\ wpc' = "lock"
    /\ UNCHANGED <<mutex, tasks, current, done, callerVars, ownerVars>>

\* The thread leaves when it is stopped, whatever is in the queue.
WorkerBreak ==
    /\ wpc = "take"
    /\ ~running
    /\ mutex' = NoThread
    /\ wpc' = "ended"
    /\ UNCHANGED <<tasks, current, done, callerVars, ownerVars>>

\* MUTANT of WorkerTake: the newest task is taken.
WorkerTake_Last ==
    /\ wpc = "take"
    /\ running
    /\ current' = tasks[Len(tasks)]
    /\ tasks' = SubSeq(tasks, 1, Len(tasks) - 1)
    /\ mutex' = NoThread
    /\ wpc' = "run"
    /\ UNCHANGED <<done, callerVars, ownerVars>>

WorkerTake ==
    /\ wpc = "take"
    /\ running
    /\ current' = Head(tasks)
    /\ tasks' = Tail(tasks)
    /\ mutex' = NoThread
    /\ wpc' = "run"
    /\ UNCHANGED <<done, callerVars, ownerVars>>

\* The task returns.
WorkerRun ==
    /\ wpc = "run"
    /\ done' = Append(done, current)
    /\ current' = NoTask
    /\ wpc' = "loop"
    /\ UNCHANGED <<mutex, tasks, callerVars, ownerVars>>

Worker == \/ WorkerLoop \/ WorkerLock \/ WorkerTest \/ WorkerSleep
          \/ WorkerBreak \/ WorkerTake \/ WorkerRun

-----------------------------------------------------------------------------
(* add_task.                                                               *)

AddTask(c) ==
    /\ cpc[c] = "idle"
    /\ \E k \in Tasks :
        /\ k \notin Range(added)
        /\ \A d \in Callers : item[d] # k
        /\ item' = [item EXCEPT ![c] = k]
    /\ cpc' = [cpc EXCEPT ![c] = "lock"]
    /\ UNCHANGED <<mutex, tasks, added, workerVars, ownerVars>>

CallerLock(c) ==
    /\ cpc[c] = "lock"
    /\ mutex = NoThread
    /\ mutex' = c
    /\ cpc' = [cpc EXCEPT ![c] = "push"]
    /\ UNCHANGED <<tasks, item, added, workerVars, ownerVars>>

CallerPush(c) ==
    /\ cpc[c] = "push"
    /\ tasks' = Append(tasks, item[c])
    /\ added' = Append(added, item[c])
    /\ cpc' = [cpc EXCEPT ![c] = "notify"]
    /\ UNCHANGED <<mutex, item, workerVars, ownerVars>>

\* MUTANT of CallerNotify: nobody is notified.
CallerNotify_Never(c) ==
    /\ cpc[c] = "notify"
    /\ mutex' = NoThread
    /\ item' = [item EXCEPT ![c] = NoTask]
    /\ cpc' = [cpc EXCEPT ![c] = "idle"]
    /\ UNCHANGED <<tasks, added, workerVars, ownerVars>>

\* notify_one, the mutex still held, which is then released.
CallerNotify(c) ==
    /\ cpc[c] = "notify"
    /\ wpc' = IF wpc = "asleep" THEN "lock" ELSE wpc
    /\ mutex' = NoThread
    /\ item' = [item EXCEPT ![c] = NoTask]
    /\ cpc' = [cpc EXCEPT ![c] = "idle"]
    /\ UNCHANGED <<tasks, added, current, done, ownerVars>>

Caller(c) == CallerLock(c) \/ CallerPush(c) \/ CallerNotify(c)

-----------------------------------------------------------------------------
(* start and stop.                                                         *)

Start ==
    /\ owner = "idle"
    /\ starts < MaxStarts
    /\ starts' = starts + 1
    /\ running' = TRUE
    /\ wpc' = "loop"
    /\ owner' = "started"
    /\ slipped' = FALSE
    /\ UNCHANGED <<mutex, tasks, current, done, callerVars>>

\* stop(): running_ is reset, without the mutex,
Stop ==
    /\ owner = "started"
    /\ running' = FALSE
    /\ owner' = "notify"
    /\ UNCHANGED <<mutex, tasks, workerVars, callerVars, starts, slipped>>

\* the thread is notified, if it is asleep by now,
StopNotify ==
    /\ owner = "notify"
    /\ wpc' = IF wpc = "asleep" THEN "lock" ELSE wpc
    /\ slipped' = (slipped \/ wpc = "sleep")
    /\ owner' = "join"
    /\ UNCHANGED <<running, mutex, tasks, current, done, callerVars, starts>>

\* and joined.
StopJoin ==
    /\ owner = "join"
    /\ wpc = "ended"
    /\ owner' = "idle"
    /\ UNCHANGED <<running, mutex, tasks, workerVars, callerVars, starts, slipped>>

-----------------------------------------------------------------------------
Next ==
    \/ Worker \/ SpuriousWakeUp
    \/ \E c \in Callers : AddTask(c) \/ Caller(c)
    \/ Start \/ Stop \/ StopNotify \/ StopJoin

Spec == Init /\ [][Next]_vars

\* Threads are scheduled and the mutex does not starve them; tasks return.
\* Nobody has to start or stop the executor, or to add a task.
Fairness ==
    /\ SF_vars(Worker)
    /\ \A c \in Callers : SF_vars(Caller(c))
    /\ WF_vars(StopNotify) /\ WF_vars(StopJoin)

FairSpec == Spec /\ Fairness

-----------------------------------------------------------------------------
\* The tasks are run one at a time and in the order they were added, none
\* twice and none left out, also when the executor is stopped with tasks in
\* its queue and started again.  (executor.h:45: all tasks run serially.)
InOrder ==
    added = done \o (IF current = NoTask THEN <<>> ELSE <<current>>) \o tasks

\* A task added to an executor that is running is run, unless it is stopped.
TasksRun ==
    \A k \in Tasks : running /\ k \in Range(added) ~> k \in Range(done) \/ ~running

\* stop() returns, unless its notification came between the thread's test of
\* running_ and its sleep: the thread then sleeps on, until a task is added.
StopReturns == owner = "join" ~> owner = "idle" \/ slipped

\* stop() returns.  (executor.h:24: all waiting threads are woken.)
StopAlwaysReturns == owner = "join" ~> owner = "idle"

=============================================================================
