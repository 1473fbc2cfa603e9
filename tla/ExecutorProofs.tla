--------------------------- MODULE ExecutorProofs ---------------------------
(***************************************************************************)
(* Theorems about Executor, for any number of callers, tasks and starts.   *)
(***************************************************************************)
EXTENDS Executor, SequenceTheorems, TLAPS

\* mtx_ is held exactly by the thread that is inside a critical section.
MutexInv ==
    /\ wpc \in {"test", "sleep", "take"} <=> mutex = "worker"
    /\ \A c \in Callers : cpc[c] \in {"push", "notify"} <=> mutex = c

\* The thread holds a task exactly while it runs one, has found a task in the
\* queue when it goes to take one, and is gone when the owner may start it.
WorkerInv ==
    /\ wpc = "run" <=> current # NoTask
    /\ wpc = "take" /\ running => tasks # <<>>
    /\ owner = "idle" => wpc \in {"none", "ended"}

\* A caller on its way to the queue has a task.
CallerInv == \A c \in Callers : cpc[c] \in {"lock", "push"} => item[c] \in Tasks

\* Only a task whose notification is on its way waits while the thread sleeps.
NoTaskForgotten ==
    /\ wpc = "sleep" => tasks = <<>>
    /\ wpc = "asleep" /\ tasks # <<>> => \E c \in Callers : cpc[c] = "notify"

\* When stop() has notified, only a thread that it slipped past is asleep.
NoSleeperAfterStop ==
    /\ owner \in {"notify", "join"} => ~running
    /\ owner = "join" /\ ~slipped => wpc \notin {"sleep", "asleep"}

IInv == TypeOK /\ MutexInv /\ WorkerInv /\ CallerInv

-----------------------------------------------------------------------------
LEMMA InitIInv == Init => IInv /\ InOrder /\ NoTaskForgotten /\ NoSleeperAfterStop
  <1> SUFFICES ASSUME Init
               PROVE  IInv /\ InOrder /\ NoTaskForgotten /\ NoSleeperAfterStop
    OBVIOUS
  <1>1. TypeOK
    <2>1. 0 \in 0 .. MaxStarts
      BY ExecutorAssumption
    <2>2. <<>> \in Seq(Tasks)
      BY EmptySeq
    <2> QED BY <2>1, <2>2 DEF Init, TypeOK
  <1>2. MutexInv /\ WorkerInv /\ CallerInv
    BY ExecutorAssumption DEF Init, MutexInv, WorkerInv, CallerInv
  <1>3. InOrder
    BY DEF Init, InOrder
  <1>4. NoTaskForgotten /\ NoSleeperAfterStop
    BY DEF Init, NoTaskForgotten, NoSleeperAfterStop
  <1> QED BY <1>1, <1>2, <1>3, <1>4 DEF IInv

-----------------------------------------------------------------------------
LEMMA TypeStep == IInv /\ [Next]_vars => TypeOK'
  <1> SUFFICES ASSUME IInv, [Next]_vars PROVE TypeOK'
    OBVIOUS
  <1> USE ExecutorAssumption DEF IInv, TypeOK, workerVars, callerVars, ownerVars
  <1>1. CASE WorkerLoop
    BY <1>1 DEF WorkerLoop
  <1>2. CASE WorkerLock
    BY <1>2 DEF WorkerLock
  <1>3. CASE WorkerTest
    BY <1>3 DEF WorkerTest
  <1>4. CASE WorkerSleep
    BY <1>4 DEF WorkerSleep
  <1>5. CASE SpuriousWakeUp
    BY <1>5 DEF SpuriousWakeUp
  <1>6. CASE WorkerBreak
    BY <1>6 DEF WorkerBreak
  <1>7. CASE WorkerTake
    <2>1. tasks # <<>>
      BY <1>7 DEF WorkerTake, WorkerInv
    <2>2. Head(tasks) \in Tasks /\ Tail(tasks) \in Seq(Tasks)
      BY <2>1, HeadTailProperties
    <2> QED BY <1>7, <2>2 DEF WorkerTake
  <1>8. CASE WorkerRun
    <2>1. current \in Tasks
      BY <1>8 DEF WorkerRun, WorkerInv
    <2>2. Append(done, current) \in Seq(Tasks)
      BY <2>1, AppendProperties
    <2> QED BY <1>8, <2>2 DEF WorkerRun
  <1>9. ASSUME NEW c \in Callers, AddTask(c) PROVE TypeOK'
    BY <1>9 DEF AddTask
  <1>10. ASSUME NEW c \in Callers, CallerLock(c) PROVE TypeOK'
    BY <1>10 DEF CallerLock
  <1>11. ASSUME NEW c \in Callers, CallerPush(c) PROVE TypeOK'
    <2>1. item[c] \in Tasks
      BY <1>11 DEF CallerPush, CallerInv
    <2>2. Append(tasks, item[c]) \in Seq(Tasks) /\ Append(added, item[c]) \in Seq(Tasks)
      BY <2>1, AppendProperties
    <2> QED BY <1>11, <2>2 DEF CallerPush
  <1>12. ASSUME NEW c \in Callers, CallerNotify(c) PROVE TypeOK'
    BY <1>12 DEF CallerNotify
  <1>13. CASE Start
    <2>1. starts + 1 \in 0 .. MaxStarts
      BY <1>13 DEF Start
    <2> QED BY <1>13, <2>1 DEF Start
  <1>14. CASE Stop
    BY <1>14 DEF Stop
  <1>15. CASE StopNotify
    BY <1>15 DEF StopNotify
  <1>16. CASE StopJoin
    BY <1>16 DEF StopJoin
  <1>17. CASE UNCHANGED vars
    BY <1>17 DEF vars
  <1> QED BY <1>1, <1>2, <1>3, <1>4, <1>5, <1>6, <1>7, <1>8, <1>9, <1>10, <1>11,
             <1>12, <1>13, <1>14, <1>15, <1>16, <1>17 DEF Next, Worker, Caller

-----------------------------------------------------------------------------
\* The places of the threads: one step per action again, each with the three
\* parts it can disturb.
LEMMA PlaceStep == IInv /\ [Next]_vars => (MutexInv /\ WorkerInv /\ CallerInv)'
  <1> SUFFICES ASSUME IInv, [Next]_vars PROVE (MutexInv /\ WorkerInv /\ CallerInv)'
    OBVIOUS
  <1> USE ExecutorAssumption
      DEF IInv, TypeOK, workerVars, callerVars, ownerVars, MutexInv, WorkerInv, CallerInv
  <1>1. CASE WorkerLoop
    BY <1>1 DEF WorkerLoop
  <1>2. CASE WorkerLock
    BY <1>2 DEF WorkerLock
  <1>3. CASE WorkerTest
    BY <1>3 DEF WorkerTest
  <1>4. CASE WorkerSleep
    BY <1>4 DEF WorkerSleep
  <1>5. CASE SpuriousWakeUp
    BY <1>5 DEF SpuriousWakeUp
  <1>6. CASE WorkerBreak
    BY <1>6 DEF WorkerBreak
  <1>7. CASE WorkerTake
    <2>1. Head(tasks) \in Tasks
      BY <1>7, HeadTailProperties DEF WorkerTake
    <2> QED BY <1>7, <2>1 DEF WorkerTake
  <1>8. CASE WorkerRun
    BY <1>8 DEF WorkerRun
  <1>9. ASSUME NEW c \in Callers, AddTask(c)
        PROVE  (MutexInv /\ WorkerInv /\ CallerInv)'
    BY <1>9 DEF AddTask
  <1>10. ASSUME NEW c \in Callers, CallerLock(c)
         PROVE  (MutexInv /\ WorkerInv /\ CallerInv)'
    BY <1>10 DEF CallerLock
  <1>11. ASSUME NEW c \in Callers, CallerPush(c)
         PROVE  (MutexInv /\ WorkerInv /\ CallerInv)'
    <2>1. Append(tasks, item[c]) # <<>>
      BY <1>11, AppendProperties DEF CallerPush
    <2> QED BY <1>11, <2>1 DEF CallerPush
  <1>12. ASSUME NEW c \in Callers, CallerNotify(c)
         PROVE  (MutexInv /\ WorkerInv /\ CallerInv)'
    BY <1>12 DEF CallerNotify
  <1>13. CASE Start
    BY <1>13 DEF Start
  <1>14. CASE Stop
    BY <1>14 DEF Stop
  <1>15. CASE StopNotify
    BY <1>15 DEF StopNotify
  <1>16. CASE StopJoin
    BY <1>16 DEF StopJoin
  <1>17. CASE UNCHANGED vars
    BY <1>17 DEF vars
  <1> QED BY <1>1, <1>2, <1>3, <1>4, <1>5, <1>6, <1>7, <1>8, <1>9, <1>10, <1>11,
             <1>12, <1>13, <1>14, <1>15, <1>16, <1>17 DEF Next, Worker, Caller

LEMMA StepIInv == IInv /\ [Next]_vars => IInv'
  BY TypeStep, PlaceStep DEF IInv

\* Every variable keeps to its type, for any number of callers, tasks and
\* starts.
THEOREM TypeCorrect == Spec => []TypeOK
  <1>1. IInv => TypeOK
    BY DEF IInv
  <1> QED BY <1>1, InitIInv, StepIInv, PTL DEF Spec

-----------------------------------------------------------------------------
\* The tasks are run in the order they were added.  The queue and the task in
\* the thread's hands are the rest of what was added: taking a task moves it
\* from the one to the other, and stopping changes neither.
THEOREM RunInOrder == Spec => []InOrder
  <1>1. ASSUME IInv, InOrder, [Next]_vars PROVE InOrder'
    <2> USE ExecutorAssumption, <1>1 DEF IInv, TypeOK, InOrder, workerVars, callerVars, ownerVars
    <2>1. CASE WorkerTake
      <3>1. current = NoTask /\ tasks # <<>>
        BY <2>1 DEF WorkerTake, WorkerInv
      <3>2. current' = Head(tasks) /\ tasks' = Tail(tasks) /\ done' = done /\ added' = added
        BY <2>1 DEF WorkerTake
      <3>3. /\ Head(tasks) \in Tasks /\ Tail(tasks) \in Seq(Tasks)
            /\ tasks = <<Head(tasks)>> \o Tail(tasks)
        BY <3>1, HeadTailProperties
      <3>4. added = done \o tasks
        BY <3>1, ConcatEmptySeq
      <3>5. <<Head(tasks)>> \in Seq(Tasks)
        BY <3>3
      <3>6. (done \o <<Head(tasks)>>) \o Tail(tasks) = done \o tasks
        BY <3>3, <3>5, ConcatAssociative
      <3> QED BY <3>2, <3>3, <3>4, <3>6
    <2>2. CASE WorkerRun
      <3>1. current \in Tasks
        BY <2>2 DEF WorkerRun, WorkerInv
      <3>2. /\ done' = Append(done, current) /\ current' = NoTask
            /\ tasks' = tasks /\ added' = added
        BY <2>2 DEF WorkerRun
      <3>3. Append(done, current) = done \o <<current>> /\ Append(done, current) \in Seq(Tasks)
        BY <3>1, AppendIsConcat, AppendProperties
      <3>4. added = (done \o <<current>>) \o tasks
        BY <3>1
      <3> QED BY <3>2, <3>3, <3>4, ConcatEmptySeq
    <2>3. ASSUME NEW c \in Callers, CallerPush(c) PROVE InOrder'
      <3> DEFINE hand == IF current = NoTask THEN <<>> ELSE <<current>>
      <3>1. item[c] \in Tasks
        BY <2>3 DEF CallerPush, CallerInv
      <3>2. /\ tasks' = Append(tasks, item[c]) /\ added' = Append(added, item[c])
            /\ done' = done /\ current' = current
        BY <2>3 DEF CallerPush
      <3>3. hand \in Seq(Tasks) /\ done \o hand \in Seq(Tasks) /\ <<item[c]>> \in Seq(Tasks)
        BY <3>1
      <3>4. Append(added, item[c]) = ((done \o hand) \o tasks) \o <<item[c]>>
        BY <3>1, AppendIsConcat
      <3>5. ((done \o hand) \o tasks) \o <<item[c]>> = (done \o hand) \o (tasks \o <<item[c]>>)
        <4> HIDE DEF hand
        <4> QED BY <3>3, ConcatAssociative
      <3>6. tasks \o <<item[c]>> = Append(tasks, item[c])
        BY <3>1, AppendIsConcat
      <3> QED BY <3>2, <3>4, <3>5, <3>6
    <2>4. CASE UNCHANGED <<added, done, current, tasks>>
      BY <2>4
    <2> QED
      BY <2>1, <2>2, <2>3, <2>4
         DEF Next, Worker, Caller, vars, WorkerLoop, WorkerLock, WorkerTest, WorkerSleep,
             SpuriousWakeUp, WorkerBreak, AddTask, CallerLock, CallerNotify, Start, Stop,
             StopNotify, StopJoin
  <1> QED BY <1>1, InitIInv, StepIInv, PTL DEF Spec

-----------------------------------------------------------------------------
\* No task waits in the queue with the thread asleep and no notification on
\* its way: what add_task must do for TasksRun to hold.
THEOREM NoWakeUpIsLost == Spec => []NoTaskForgotten
  <1>1. ASSUME IInv, NoTaskForgotten, [Next]_vars PROVE NoTaskForgotten'
    <2> USE ExecutorAssumption, <1>1
        DEF IInv, TypeOK, MutexInv, NoTaskForgotten, workerVars, callerVars, ownerVars
    <2>1. CASE WorkerTest
      BY <2>1 DEF WorkerTest
    <2>2. CASE WorkerSleep
      BY <2>2 DEF WorkerSleep
    <2>3. ASSUME NEW c \in Callers, CallerPush(c) PROVE NoTaskForgotten'
      BY <2>3 DEF CallerPush
    <2>4. ASSUME NEW c \in Callers, CallerNotify(c) PROVE NoTaskForgotten'
      BY <2>4 DEF CallerNotify
    <2>5. ASSUME NEW c \in Callers, AddTask(c) \/ CallerLock(c) PROVE NoTaskForgotten'
      BY <2>5 DEF AddTask, CallerLock
    <2>6. CASE WorkerLoop \/ WorkerLock \/ SpuriousWakeUp \/ WorkerBreak \/ WorkerTake \/ WorkerRun
      BY <2>6 DEF WorkerLoop, WorkerLock, SpuriousWakeUp, WorkerBreak, WorkerTake, WorkerRun
    <2>7. CASE Start \/ Stop \/ StopNotify \/ StopJoin
      BY <2>7 DEF Start, Stop, StopNotify, StopJoin
    <2>8. CASE UNCHANGED vars
      BY <2>8 DEF vars
    <2> QED BY <2>1, <2>2, <2>3, <2>4, <2>5, <2>6, <2>7, <2>8 DEF Next, Worker, Caller
  <1> QED BY <1>1, InitIInv, StepIInv, PTL DEF Spec

\* When stop() has notified, the thread it joins is awake unless it was
\* between its test of running_ and its sleep: what StopReturns rests on, and
\* the one gap through which stop() can hang.
THEOREM StopWakesThread == Spec => []NoSleeperAfterStop
  <1>1. ASSUME IInv, NoSleeperAfterStop, [Next]_vars PROVE NoSleeperAfterStop'
    <2> USE <1>1 DEF IInv, TypeOK, NoSleeperAfterStop, workerVars, callerVars, ownerVars
    <2>1. CASE WorkerTest \/ WorkerSleep
      BY <2>1 DEF WorkerTest, WorkerSleep
    <2>2. CASE StopNotify
      BY <2>2 DEF StopNotify
    <2>3. ASSUME NEW c \in Callers, AddTask(c) \/ Caller(c) PROVE NoSleeperAfterStop'
      BY <2>3 DEF AddTask, Caller, CallerLock, CallerPush, CallerNotify
    <2>4. CASE WorkerLoop \/ WorkerLock \/ SpuriousWakeUp \/ WorkerBreak \/ WorkerTake \/ WorkerRun
      BY <2>4 DEF WorkerLoop, WorkerLock, SpuriousWakeUp, WorkerBreak, WorkerTake, WorkerRun
    <2>5. CASE Start \/ Stop \/ StopJoin
      BY <2>5 DEF Start, Stop, StopJoin
    <2>6. CASE UNCHANGED vars
      BY <2>6 DEF vars
    <2> QED BY <2>1, <2>2, <2>3, <2>4, <2>5, <2>6 DEF Next, Worker
  <1> QED BY <1>1, InitIInv, StepIInv, PTL DEF Spec

=============================================================================
