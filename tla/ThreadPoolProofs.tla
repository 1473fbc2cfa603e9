-------------------------- MODULE ThreadPoolProofs --------------------------
(***************************************************************************)
(* Theorems about ThreadPool, for any number of workers and callers and    *)
(* any set of tasks.                                                       *)
(***************************************************************************)
EXTENDS ThreadPool, FiniteSetTheorems, SequenceTheorems, TLAPS

\* mutex_ is held exactly by the thread that is inside a critical section.
MutexInv ==
    /\ \A w \in Workers : wpc[w] \in {"test", "sleep", "take"} <=> mutex = w
    /\ \A c \in Callers : cpc[c] = "push" <=> mutex = c
    /\ phase \in {"set", "notify"} <=> mutex = Owner

\* What a worker's place in its loop says of the queue and of stop_.
WorkerInv ==
    \A w \in Workers :
        /\ wpc[w] = "sleep" => tasks = <<>> /\ ~stop
        /\ wpc[w] = "asleep" /\ stop => phase = "notify"
        /\ wpc[w] = "exited" => stop \/ phase = "gone"
        /\ wpc[w] = "run" <=> running[w] # NoTask

\* A caller holds a task until it has put it in the queue, and a task of its
\* own.
CallerInv ==
    \A c \in Callers :
        /\ cpc[c] \in {"lock", "push"} <=> item[c] # NoTask
        /\ item[c] \notin submitted
        /\ \A d \in Callers : item[c] = item[d] /\ c # d => item[c] = NoTask

\* A task is in at most one place, and in one exactly if it was submitted.
PlaceInv ==
    /\ \A i, j \in DOMAIN tasks : tasks[i] = tasks[j] => i = j
    /\ \A i \in DOMAIN tasks : /\ tasks[i] \in submitted \ finished
                               /\ \A w \in Workers : running[w] # tasks[i]
    /\ \A w \in Workers : running[w] # NoTask => running[w] \in submitted \ finished
    /\ \A v, w \in Workers : running[v] = running[w] /\ v # w => running[v] = NoTask
    /\ finished \subseteq submitted
    /\ \A k \in submitted : \/ \E i \in DOMAIN tasks : tasks[i] = k
                            \/ \E w \in Workers : running[w] = k
                            \/ k \in finished

\* Once a worker has left, no task enqueued before the stop is in the queue.
DrainInv ==
    /\ beforeStop \subseteq submitted
    /\ \A w \in Workers : wpc[w] = "exited" =>
           \A i \in DOMAIN tasks : tasks[i] \notin beforeStop

\* What the owner has done, and seen, when it is where it is.
OwnerInv ==
    /\ phase \in {"notify", "join", "stopped"} => stop
    /\ phase \in {"stopped", "gone"} => \A w \in Workers : wpc[w] = "exited"

IInv == TypeOK /\ MutexInv /\ WorkerInv /\ CallerInv

-----------------------------------------------------------------------------
LEMMA InitIInv == Init => IInv
  BY PoolAssumption, EmptySeq
     DEF Init, IInv, TypeOK, Threads, MutexInv, WorkerInv, CallerInv

-----------------------------------------------------------------------------
LEMMA TypeStep == IInv /\ [Next]_vars => TypeOK'
  <1> SUFFICES ASSUME IInv, [Next]_vars PROVE TypeOK'
    OBVIOUS
  <1> USE DEF IInv, TypeOK, Threads, workerVars, callerVars, ownerVars
  <1>1. ASSUME NEW w \in Workers, WorkerLock(w) PROVE TypeOK'
    BY <1>1 DEF WorkerLock
  <1>2. ASSUME NEW w \in Workers, WorkerTest(w) PROVE TypeOK'
    BY <1>2 DEF WorkerTest
  <1>3. ASSUME NEW w \in Workers, WorkerSleep(w) PROVE TypeOK'
    BY <1>3 DEF WorkerSleep
  <1>4. ASSUME NEW w \in Workers, WorkerExit(w) PROVE TypeOK'
    BY <1>4 DEF WorkerExit
  <1>5. ASSUME NEW w \in Workers, WorkerTake(w) PROVE TypeOK'
    <2>1. Head(tasks) \in Tasks /\ Tail(tasks) \in Seq(Tasks)
      BY <1>5, HeadTailProperties DEF WorkerTake
    <2> QED BY <1>5, <2>1 DEF WorkerTake
  <1>6. ASSUME NEW w \in Workers, WorkerRun(w) PROVE TypeOK'
    <2>1. running[w] \in Tasks
      BY <1>6 DEF WorkerRun, WorkerInv
    <2> QED BY <1>6, <2>1 DEF WorkerRun
  <1>7. ASSUME NEW w \in Workers, SpuriousWakeUp(w) PROVE TypeOK'
    BY <1>7 DEF SpuriousWakeUp
  <1>8. ASSUME NEW c \in Callers, NEW k \in Tasks, Enqueue(c, k) PROVE TypeOK'
    BY <1>8 DEF Enqueue
  <1>9. ASSUME NEW c \in Callers, CallerLock(c) PROVE TypeOK'
    BY <1>9 DEF CallerLock
  <1>10. ASSUME NEW c \in Callers, CallerPush(c) PROVE TypeOK'
    <2>1. item[c] \in Tasks
      BY <1>10 DEF CallerPush, CallerInv
    <2>2. Append(tasks, item[c]) \in Seq(Tasks)
      BY <2>1
    <2> QED BY <1>10, <2>1, <2>2 DEF CallerPush
  <1>11. ASSUME NEW c \in Callers, CallerNotify(c) PROVE TypeOK'
    BY <1>11 DEF CallerNotify, Asleep
  <1>12. ASSUME Stop PROVE TypeOK'
    BY <1>12 DEF Stop
  <1>13. ASSUME Destroy PROVE TypeOK'
    BY <1>13 DEF Destroy
  <1>14. ASSUME OwnerLock PROVE TypeOK'
    BY <1>14 DEF OwnerLock
  <1>15. ASSUME OwnerSet PROVE TypeOK'
    BY <1>15 DEF OwnerSet
  <1>16. ASSUME OwnerNotify PROVE TypeOK'
    BY <1>16 DEF OwnerNotify, Asleep
  <1>17. ASSUME OwnerJoin PROVE TypeOK'
    BY <1>17 DEF OwnerJoin
  <1>18. CASE UNCHANGED vars
    BY <1>18 DEF vars
  <1> QED BY <1>1, <1>2, <1>3, <1>4, <1>5, <1>6, <1>7, <1>8, <1>9, <1>10, <1>11,
             <1>12, <1>13, <1>14, <1>15, <1>16, <1>17, <1>18
          DEF Next, WorkerStep, CallerStep, OwnerStep

LEMMA MutexStep == IInv /\ [Next]_vars => MutexInv'
  <1> SUFFICES ASSUME IInv, [Next]_vars PROVE MutexInv'
    OBVIOUS
  <1> USE PoolAssumption DEF IInv, TypeOK, Threads, workerVars, callerVars, ownerVars, MutexInv
  <1>1. ASSUME NEW w \in Workers, WorkerLock(w) PROVE MutexInv'
    BY <1>1 DEF WorkerLock
  <1>2. ASSUME NEW w \in Workers, WorkerTest(w) PROVE MutexInv'
    BY <1>2 DEF WorkerTest
  <1>3. ASSUME NEW w \in Workers, WorkerSleep(w) PROVE MutexInv'
    BY <1>3 DEF WorkerSleep
  <1>4. ASSUME NEW w \in Workers, WorkerExit(w) PROVE MutexInv'
    BY <1>4 DEF WorkerExit
  <1>5. ASSUME NEW w \in Workers, WorkerTake(w) PROVE MutexInv'
    BY <1>5 DEF WorkerTake
  <1>6. ASSUME NEW w \in Workers, WorkerRun(w) PROVE MutexInv'
    BY <1>6 DEF WorkerRun
  <1>7. ASSUME NEW w \in Workers, SpuriousWakeUp(w) PROVE MutexInv'
    BY <1>7 DEF SpuriousWakeUp
  <1>8. ASSUME NEW c \in Callers, NEW k \in Tasks, Enqueue(c, k) PROVE MutexInv'
    BY <1>8 DEF Enqueue
  <1>9. ASSUME NEW c \in Callers, CallerLock(c) PROVE MutexInv'
    BY <1>9 DEF CallerLock
  <1>10. ASSUME NEW c \in Callers, CallerPush(c) PROVE MutexInv'
    BY <1>10 DEF CallerPush
  <1>11. ASSUME NEW c \in Callers, CallerNotify(c) PROVE MutexInv'
    BY <1>11 DEF CallerNotify, Asleep
  <1>12. ASSUME Stop PROVE MutexInv'
    BY <1>12 DEF Stop
  <1>13. ASSUME Destroy PROVE MutexInv'
    BY <1>13 DEF Destroy
  <1>14. ASSUME OwnerLock PROVE MutexInv'
    BY <1>14 DEF OwnerLock
  <1>15. ASSUME OwnerSet PROVE MutexInv'
    BY <1>15 DEF OwnerSet
  <1>16. ASSUME OwnerNotify PROVE MutexInv'
    BY <1>16 DEF OwnerNotify, Asleep
  <1>17. ASSUME OwnerJoin PROVE MutexInv'
    BY <1>17 DEF OwnerJoin
  <1>18. CASE UNCHANGED vars
    BY <1>18 DEF vars
  <1> QED BY <1>1, <1>2, <1>3, <1>4, <1>5, <1>6, <1>7, <1>8, <1>9, <1>10, <1>11,
             <1>12, <1>13, <1>14, <1>15, <1>16, <1>17, <1>18
          DEF Next, WorkerStep, CallerStep, OwnerStep

LEMMA WorkerInvStep == IInv /\ [Next]_vars => WorkerInv'
  <1> SUFFICES ASSUME IInv, [Next]_vars PROVE WorkerInv'
    OBVIOUS
  <1> USE PoolAssumption DEF IInv, TypeOK, Threads, workerVars, callerVars, ownerVars, MutexInv, WorkerInv
  <1>1. ASSUME NEW w \in Workers, WorkerLock(w) PROVE WorkerInv'
    BY <1>1 DEF WorkerLock
  <1>2. ASSUME NEW w \in Workers, WorkerTest(w) PROVE WorkerInv'
    BY <1>2 DEF WorkerTest
  <1>3. ASSUME NEW w \in Workers, WorkerSleep(w) PROVE WorkerInv'
    BY <1>3 DEF WorkerSleep
  <1>4. ASSUME NEW w \in Workers, WorkerExit(w) PROVE WorkerInv'
    BY <1>4 DEF WorkerExit
  <1>5. ASSUME NEW w \in Workers, WorkerTake(w) PROVE WorkerInv'
    <2>1. Head(tasks) \in Tasks
      BY <1>5, HeadTailProperties DEF WorkerTake
    <2> QED BY <1>5, <2>1 DEF WorkerTake
  <1>6. ASSUME NEW w \in Workers, WorkerRun(w) PROVE WorkerInv'
    BY <1>6 DEF WorkerRun
  <1>7. ASSUME NEW w \in Workers, SpuriousWakeUp(w) PROVE WorkerInv'
    BY <1>7 DEF SpuriousWakeUp
  <1>8. ASSUME NEW c \in Callers, NEW k \in Tasks, Enqueue(c, k) PROVE WorkerInv'
    BY <1>8 DEF Enqueue
  <1>9. ASSUME NEW c \in Callers, CallerLock(c) PROVE WorkerInv'
    BY <1>9 DEF CallerLock
  <1>10. ASSUME NEW c \in Callers, CallerPush(c) PROVE WorkerInv'
    BY <1>10 DEF CallerPush
  <1>11. ASSUME NEW c \in Callers, CallerNotify(c) PROVE WorkerInv'
    BY <1>11 DEF CallerNotify, Asleep
  <1>12. ASSUME Stop PROVE WorkerInv'
    BY <1>12 DEF Stop
  <1>13. ASSUME Destroy PROVE WorkerInv'
    BY <1>13 DEF Destroy
  <1>14. ASSUME OwnerLock PROVE WorkerInv'
    BY <1>14 DEF OwnerLock
  <1>15. ASSUME OwnerSet PROVE WorkerInv'
    BY <1>15 DEF OwnerSet
  <1>16. ASSUME OwnerNotify PROVE WorkerInv'
    BY <1>16 DEF OwnerNotify, Asleep
  <1>17. ASSUME OwnerJoin PROVE WorkerInv'
    BY <1>17 DEF OwnerJoin
  <1>18. CASE UNCHANGED vars
    BY <1>18 DEF vars
  <1> QED BY <1>1, <1>2, <1>3, <1>4, <1>5, <1>6, <1>7, <1>8, <1>9, <1>10, <1>11,
             <1>12, <1>13, <1>14, <1>15, <1>16, <1>17, <1>18
          DEF Next, WorkerStep, CallerStep, OwnerStep

LEMMA CallerInvStep == IInv /\ [Next]_vars => CallerInv'
  <1> SUFFICES ASSUME IInv, [Next]_vars PROVE CallerInv'
    OBVIOUS
  <1> USE PoolAssumption DEF IInv, TypeOK, Threads, workerVars, callerVars, ownerVars, CallerInv
  <1>1. ASSUME NEW w \in Workers, WorkerLock(w) PROVE CallerInv'
    BY <1>1 DEF WorkerLock
  <1>2. ASSUME NEW w \in Workers, WorkerTest(w) PROVE CallerInv'
    BY <1>2 DEF WorkerTest
  <1>3. ASSUME NEW w \in Workers, WorkerSleep(w) PROVE CallerInv'
    BY <1>3 DEF WorkerSleep
  <1>4. ASSUME NEW w \in Workers, WorkerExit(w) PROVE CallerInv'
    BY <1>4 DEF WorkerExit
  <1>5. ASSUME NEW w \in Workers, WorkerTake(w) PROVE CallerInv'
    BY <1>5 DEF WorkerTake
  <1>6. ASSUME NEW w \in Workers, WorkerRun(w) PROVE CallerInv'
    BY <1>6 DEF WorkerRun
  <1>7. ASSUME NEW w \in Workers, SpuriousWakeUp(w) PROVE CallerInv'
    BY <1>7 DEF SpuriousWakeUp
  <1>8. ASSUME NEW c \in Callers, NEW k \in Tasks, Enqueue(c, k) PROVE CallerInv'
    BY <1>8 DEF Enqueue
  <1>9. ASSUME NEW c \in Callers, CallerLock(c) PROVE CallerInv'
    BY <1>9 DEF CallerLock
  <1>10. ASSUME NEW c \in Callers, CallerPush(c) PROVE CallerInv'
    BY <1>10 DEF CallerPush
  <1>11. ASSUME NEW c \in Callers, CallerNotify(c) PROVE CallerInv'
    BY <1>11 DEF CallerNotify, Asleep
  <1>12. ASSUME Stop PROVE CallerInv'
    BY <1>12 DEF Stop
  <1>13. ASSUME Destroy PROVE CallerInv'
    BY <1>13 DEF Destroy
  <1>14. ASSUME OwnerLock PROVE CallerInv'
    BY <1>14 DEF OwnerLock
  <1>15. ASSUME OwnerSet PROVE CallerInv'
    BY <1>15 DEF OwnerSet
  <1>16. ASSUME OwnerNotify PROVE CallerInv'
    BY <1>16 DEF OwnerNotify, Asleep
  <1>17. ASSUME OwnerJoin PROVE CallerInv'
    BY <1>17 DEF OwnerJoin
  <1>18. CASE UNCHANGED vars
    BY <1>18 DEF vars
  <1> QED BY <1>1, <1>2, <1>3, <1>4, <1>5, <1>6, <1>7, <1>8, <1>9, <1>10, <1>11,
             <1>12, <1>13, <1>14, <1>15, <1>16, <1>17, <1>18
          DEF Next, WorkerStep, CallerStep, OwnerStep

LEMMA Inductive == IInv /\ [Next]_vars => IInv'
  BY TypeStep, MutexStep, WorkerInvStep, CallerInvStep DEF IInv

-----------------------------------------------------------------------------
\* What taking the front of the queue leaves, and what is appended to it.
LEMMA TakeFacts ==
    ASSUME TypeOK, tasks # <<>>
    PROVE  /\ Head(tasks) = tasks[1] /\ 1 \in DOMAIN tasks
           /\ DOMAIN Tail(tasks) = 1 .. Len(tasks) - 1
           /\ \A i \in DOMAIN Tail(tasks) : /\ i + 1 \in DOMAIN tasks
                                            /\ Tail(tasks)[i] = tasks[i + 1]
           /\ \A i \in DOMAIN tasks : i # 1 => /\ i - 1 \in DOMAIN Tail(tasks)
                                              /\ Tail(tasks)[i - 1] = tasks[i]
  <1>1. tasks \in Seq(Tasks)
    BY DEF TypeOK
  <1>2. Len(tasks) \in Nat \ {0} /\ DOMAIN tasks = 1 .. Len(tasks)
    BY <1>1, EmptySeq, LenProperties
  <1>3. /\ Tail(tasks) \in Seq(Tasks) /\ Len(Tail(tasks)) = Len(tasks) - 1
        /\ \A i \in 1 .. Len(Tail(tasks)) : Tail(tasks)[i] = tasks[i + 1]
    BY <1>1, HeadTailProperties
  <1>4. DOMAIN Tail(tasks) = 1 .. Len(tasks) - 1
    BY <1>3, LenProperties
  <1>5. Head(tasks) = tasks[1]
    BY <1>1
  <1> QED BY <1>2, <1>3, <1>4, <1>5

LEMMA PushFacts ==
    ASSUME TypeOK, NEW k \in Tasks
    PROVE  /\ DOMAIN Append(tasks, k) = 1 .. Len(tasks) + 1
           /\ DOMAIN tasks = 1 .. Len(tasks)
           /\ Len(tasks) \in Nat
           /\ Append(tasks, k)[Len(tasks) + 1] = k
           /\ \A i \in DOMAIN tasks : Append(tasks, k)[i] = tasks[i]
  <1>1. tasks \in Seq(Tasks)
    BY DEF TypeOK
  <1> QED BY <1>1, AppendProperties, LenProperties

LEMMA PlaceStep == IInv /\ PlaceInv /\ [Next]_vars => PlaceInv'
  <1> SUFFICES ASSUME IInv, PlaceInv, [Next]_vars PROVE PlaceInv'
    OBVIOUS
  <1> USE DEF PlaceInv, workerVars, callerVars, ownerVars
  <1>1. ASSUME NEW w \in Workers, WorkerLock(w) PROVE PlaceInv'
    BY <1>1 DEF WorkerLock
  <1>2. ASSUME NEW w \in Workers, WorkerTest(w) PROVE PlaceInv'
    BY <1>2 DEF WorkerTest
  <1>3. ASSUME NEW w \in Workers, WorkerSleep(w) PROVE PlaceInv'
    BY <1>3 DEF WorkerSleep
  <1>4. ASSUME NEW w \in Workers, WorkerExit(w) PROVE PlaceInv'
    BY <1>4 DEF WorkerExit
  <1>5. ASSUME NEW w \in Workers, WorkerTake(w) PROVE PlaceInv'
    <2>1. TypeOK /\ tasks # <<>>
      BY <1>5 DEF WorkerTake, IInv
    <2> DEFINE k == Head(tasks)
    <2>2. /\ tasks' = Tail(tasks) /\ running' = [running EXCEPT ![w] = k]
          /\ UNCHANGED <<finished, submitted>>
      BY <1>5 DEF WorkerTake
    <2>3. running[w] = NoTask
      BY <1>5, <2>1 DEF WorkerTake, IInv, WorkerInv
    <2>4. running \in [Workers -> Tasks \cup {NoTask}]
      BY <2>1 DEF TypeOK
    <2>5. k = tasks[1] /\ 1 \in DOMAIN tasks
      BY <2>1, TakeFacts
    <2>6. \A i \in DOMAIN tasks' : i + 1 \in DOMAIN tasks /\ tasks'[i] = tasks[i + 1] /\ i \in Nat \ {0}
      BY <2>1, <2>2, TakeFacts DEF TypeOK
    <2>7. \A i \in DOMAIN tasks : i # 1 => i - 1 \in DOMAIN tasks' /\ tasks'[i - 1] = tasks[i]
      BY <2>1, <2>2, TakeFacts
    <2>8. \A i \in DOMAIN tasks' : tasks'[i] # k
      BY <2>5, <2>6
    <2>9. \A i, j \in DOMAIN tasks' : tasks'[i] = tasks'[j] => i = j
      BY <2>6
    <2>10. \A v \in Workers : running'[v] = IF v = w THEN k ELSE running[v]
      BY <2>2, <2>4
    <2>11. \A i \in DOMAIN tasks' : /\ tasks'[i] \in submitted' \ finished'
                                    /\ \A v \in Workers : running'[v] # tasks'[i]
      BY <2>2, <2>6, <2>8, <2>10
    <2>12. \A v \in Workers : running'[v] # NoTask => running'[v] \in submitted' \ finished'
      BY <2>2, <2>5, <2>10
    <2>13. \A u, v \in Workers : running'[u] = running'[v] /\ u # v => running'[u] = NoTask
      BY <2>5, <2>10
    <2>14. ASSUME NEW h \in submitted'
           PROVE  \/ \E i \in DOMAIN tasks' : tasks'[i] = h
                  \/ \E v \in Workers : running'[v] = h
                  \/ h \in finished'
      <3>1. CASE \E i \in DOMAIN tasks : tasks[i] = h
        BY <3>1, <2>5, <2>7, <2>10
      <3>2. CASE \E v \in Workers : running[v] = h /\ v # w
        BY <3>2, <2>10
      <3>3. CASE h \in finished
        BY <3>3, <2>2
      <3>4. h # NoTask
        BY <2>1, <2>2, PoolAssumption DEF TypeOK
      <3> QED BY <2>2, <2>3, <3>1, <3>2, <3>3, <3>4
    <2> QED BY <2>2, <2>9, <2>11, <2>12, <2>13, <2>14
  <1>6. ASSUME NEW w \in Workers, WorkerRun(w) PROVE PlaceInv'
    <2>1. running \in [Workers -> Tasks \cup {NoTask}] /\ running[w] # NoTask
      BY <1>6 DEF WorkerRun, IInv, TypeOK, WorkerInv
    <2>2. \A v \in Workers : running'[v] = IF v = w THEN NoTask ELSE running[v]
      BY <1>6, <2>1 DEF WorkerRun
    <2>3. /\ finished' = finished \cup {running[w]}
          /\ UNCHANGED <<tasks, submitted>>
      BY <1>6 DEF WorkerRun
    <2>4. \A i \in DOMAIN tasks : tasks[i] # NoTask
      BY PoolAssumption DEF IInv, TypeOK
    <2> QED BY <2>1, <2>2, <2>3, <2>4
  <1>7. ASSUME NEW w \in Workers, SpuriousWakeUp(w) PROVE PlaceInv'
    BY <1>7 DEF SpuriousWakeUp
  <1>8. ASSUME NEW c \in Callers, NEW k \in Tasks, Enqueue(c, k) PROVE PlaceInv'
    BY <1>8 DEF Enqueue
  <1>9. ASSUME NEW c \in Callers, CallerLock(c) PROVE PlaceInv'
    BY <1>9 DEF CallerLock
  <1>10. ASSUME NEW c \in Callers, CallerPush(c) PROVE PlaceInv'
    <2>1. item[c] \in Tasks /\ item[c] \notin submitted /\ TypeOK
      BY <1>10 DEF CallerPush, IInv, TypeOK, CallerInv
    <2>2. /\ tasks' = Append(tasks, item[c]) /\ submitted' = submitted \cup {item[c]}
          /\ UNCHANGED <<running, finished>>
      BY <1>10 DEF CallerPush, workerVars
    <2>3. /\ DOMAIN tasks' = 1 .. Len(tasks) + 1
          /\ DOMAIN tasks = 1 .. Len(tasks)
          /\ Len(tasks) \in Nat
          /\ tasks'[Len(tasks) + 1] = item[c]
          /\ \A i \in DOMAIN tasks : tasks'[i] = tasks[i]
      BY <2>1, <2>2, PushFacts
    <2>4. \A i \in DOMAIN tasks' : i \in DOMAIN tasks \/ i = Len(tasks) + 1
      BY <2>3
    <2>5. \A w \in Workers : running[w] # item[c]
      BY <2>1, PoolAssumption
    <2>6. \A i, j \in DOMAIN tasks' : tasks'[i] = tasks'[j] => i = j
      BY <2>1, <2>3, <2>4
    <2>7. \A i \in DOMAIN tasks' : /\ tasks'[i] \in submitted' \ finished'
                                   /\ \A w \in Workers : running'[w] # tasks'[i]
      BY <2>1, <2>2, <2>3, <2>4, <2>5
    <2>8. ASSUME NEW h \in submitted'
          PROVE  \/ \E i \in DOMAIN tasks' : tasks'[i] = h
                 \/ \E w \in Workers : running'[w] = h
                 \/ h \in finished'
      <3>1. CASE h = item[c]
        BY <3>1, <2>3
      <3>2. CASE h \in submitted
        BY <3>2, <2>2, <2>3
      <3> QED BY <2>2, <3>1, <3>2
    <2> QED BY <2>2, <2>6, <2>7, <2>8
  <1>11. ASSUME NEW c \in Callers, CallerNotify(c) PROVE PlaceInv'
    BY <1>11 DEF CallerNotify, Asleep
  <1>12. ASSUME Stop PROVE PlaceInv'
    BY <1>12 DEF Stop
  <1>13. ASSUME Destroy PROVE PlaceInv'
    BY <1>13 DEF Destroy
  <1>14. ASSUME OwnerLock PROVE PlaceInv'
    BY <1>14 DEF OwnerLock
  <1>15. ASSUME OwnerSet PROVE PlaceInv'
    BY <1>15 DEF OwnerSet
  <1>16. ASSUME OwnerNotify PROVE PlaceInv'
    BY <1>16 DEF OwnerNotify, Asleep
  <1>17. ASSUME OwnerJoin PROVE PlaceInv'
    BY <1>17 DEF OwnerJoin
  <1>18. CASE UNCHANGED vars
    BY <1>18 DEF vars
  <1> QED BY <1>1, <1>2, <1>3, <1>4, <1>5, <1>6, <1>7, <1>8, <1>9, <1>10, <1>11,
             <1>12, <1>13, <1>14, <1>15, <1>16, <1>17, <1>18
          DEF Next, WorkerStep, CallerStep, OwnerStep

-----------------------------------------------------------------------------
LEMMA DrainStep == IInv /\ PlaceInv /\ DrainInv /\ DrainedWhenStopped /\ [Next]_vars => DrainInv' /\ DrainedWhenStopped'
  <1> SUFFICES ASSUME IInv, PlaceInv, DrainInv, DrainedWhenStopped, [Next]_vars PROVE DrainInv' /\ DrainedWhenStopped'
    OBVIOUS
  <1> USE DEF DrainInv, DrainedWhenStopped, workerVars, callerVars, ownerVars
  <1>1. ASSUME NEW w \in Workers, WorkerLock(w) PROVE DrainInv' /\ DrainedWhenStopped'
    BY <1>1 DEF WorkerLock, IInv, TypeOK
  <1>2. ASSUME NEW w \in Workers, WorkerTest(w) PROVE DrainInv' /\ DrainedWhenStopped'
    BY <1>2 DEF WorkerTest, IInv, TypeOK
  <1>3. ASSUME NEW w \in Workers, WorkerSleep(w) PROVE DrainInv' /\ DrainedWhenStopped'
    BY <1>3 DEF WorkerSleep, IInv, TypeOK
  <1>4. ASSUME NEW w \in Workers, WorkerExit(w) PROVE DrainInv' /\ DrainedWhenStopped'
    <2>1. DOMAIN tasks = {}
      BY <1>4 DEF WorkerExit
    <2> QED BY <1>4, <2>1 DEF WorkerExit
  <1>5. ASSUME NEW w \in Workers, WorkerTake(w) PROVE DrainInv' /\ DrainedWhenStopped'
    <2>1. \A i \in DOMAIN tasks' : i + 1 \in DOMAIN tasks /\ tasks'[i] = tasks[i + 1]
      BY <1>5, TakeFacts DEF WorkerTake, IInv
    <2>2. \A v \in Workers : wpc'[v] = "exited" => wpc[v] = "exited"
      BY <1>5 DEF WorkerTake, IInv, TypeOK
    <2> QED BY <1>5, <2>1, <2>2 DEF WorkerTake
  <1>6. ASSUME NEW w \in Workers, WorkerRun(w) PROVE DrainInv' /\ DrainedWhenStopped'
    BY <1>6 DEF WorkerRun, IInv, TypeOK
  <1>7. ASSUME NEW w \in Workers, SpuriousWakeUp(w) PROVE DrainInv' /\ DrainedWhenStopped'
    BY <1>7 DEF SpuriousWakeUp, IInv, TypeOK
  <1>8. ASSUME NEW c \in Callers, NEW k \in Tasks, Enqueue(c, k) PROVE DrainInv' /\ DrainedWhenStopped'
    BY <1>8 DEF Enqueue
  <1>9. ASSUME NEW c \in Callers, CallerLock(c) PROVE DrainInv' /\ DrainedWhenStopped'
    BY <1>9 DEF CallerLock
  <1>10. ASSUME NEW c \in Callers, CallerPush(c) PROVE DrainInv' /\ DrainedWhenStopped'
    <2>1. item[c] \in Tasks /\ item[c] \notin submitted /\ TypeOK
      BY <1>10 DEF CallerPush, IInv, TypeOK, CallerInv
    <2>2. \A i \in DOMAIN tasks' : tasks'[i] = item[c] \/ (i \in DOMAIN tasks /\ tasks'[i] = tasks[i])
      BY <1>10, <2>1, PushFacts DEF CallerPush
    <2> QED BY <1>10, <2>1, <2>2 DEF CallerPush
  <1>11. ASSUME NEW c \in Callers, CallerNotify(c) PROVE DrainInv' /\ DrainedWhenStopped'
    <2>1. \A w \in Workers : wpc'[w] = "exited" => wpc[w] = "exited"
      BY <1>11 DEF CallerNotify, IInv, TypeOK
    <2> QED BY <1>11, <2>1 DEF CallerNotify
  <1>12. ASSUME Stop PROVE DrainInv' /\ DrainedWhenStopped'
    BY <1>12 DEF Stop
  <1>13. ASSUME Destroy PROVE DrainInv' /\ DrainedWhenStopped'
    BY <1>13 DEF Destroy
  <1>14. ASSUME OwnerLock PROVE DrainInv' /\ DrainedWhenStopped'
    BY <1>14 DEF OwnerLock
  <1>15. ASSUME OwnerSet PROVE DrainInv' /\ DrainedWhenStopped'
    <2>1. ~stop => \A w \in Workers : wpc[w] # "exited"
      BY <1>15 DEF OwnerSet, IInv, WorkerInv
    <2> QED BY <1>15, <2>1 DEF OwnerSet
  <1>16. ASSUME OwnerNotify PROVE DrainInv' /\ DrainedWhenStopped'
    <2>1. \A w \in Workers : wpc'[w] = "exited" => wpc[w] = "exited"
      BY <1>16 DEF OwnerNotify
    <2> QED BY <1>16, <2>1 DEF OwnerNotify
  <1>17. ASSUME OwnerJoin PROVE DrainInv' /\ DrainedWhenStopped'
    <2>1. \A w \in Workers : running[w] = NoTask
      BY <1>17 DEF OwnerJoin, IInv, WorkerInv
    <2>2. \A k \in beforeStop : k # NoTask
      BY PoolAssumption DEF IInv, TypeOK
    <2>3. \A i \in DOMAIN tasks : tasks[i] \notin beforeStop
      BY <1>17, PoolAssumption DEF OwnerJoin
    <2>4. beforeStop \subseteq finished
      BY <2>1, <2>2, <2>3 DEF PlaceInv
    <2> QED BY <1>17, <2>4 DEF OwnerJoin
  <1>18. CASE UNCHANGED vars
    BY <1>18 DEF vars
  <1> QED BY <1>1, <1>2, <1>3, <1>4, <1>5, <1>6, <1>7, <1>8, <1>9, <1>10, <1>11,
             <1>12, <1>13, <1>14, <1>15, <1>16, <1>17, <1>18
          DEF Next, WorkerStep, CallerStep, OwnerStep

\* The workers and the callers can be counted.
LEMMA SizeFacts ==
    /\ IsFiniteSet(Awake) /\ Cardinality(Awake) \in Nat
    /\ IsFiniteSet(Notifying) /\ Cardinality(Notifying) \in Nat
    /\ Cardinality(Awake') \in Nat /\ Cardinality(Notifying') \in Nat
    /\ Len(<<>>) = 0
  <1>1. \A S \in SUBSET Workers : IsFiniteSet(S) /\ Cardinality(S) \in Nat
    BY PoolAssumption, FS_Subset, FS_CardinalityType
  <1>2. \A S \in SUBSET Callers : IsFiniteSet(S) /\ Cardinality(S) \in Nat
    BY PoolAssumption, FS_Subset, FS_CardinalityType
  <1>3. Awake \in SUBSET Workers /\ Awake' \in SUBSET Workers
    BY DEF Awake
  <1>4. Notifying \in SUBSET Callers /\ Notifying' \in SUBSET Callers
    BY DEF Notifying
  <1> QED BY <1>1, <1>2, <1>3, <1>4

LEMMA WakeupStep == IInv /\ NoLostWakeup /\ [Next]_vars => NoLostWakeup'
  <1> SUFFICES ASSUME IInv, NoLostWakeup, [Next]_vars PROVE NoLostWakeup'
    OBVIOUS
  <1> USE DEF NoLostWakeup, workerVars, callerVars, ownerVars
  <1>1. ASSUME NEW w \in Workers, WorkerLock(w) PROVE NoLostWakeup'
    <2>1. Asleep' = Asleep /\ Awake' = Awake /\ Notifying' = Notifying
      BY <1>1 DEF WorkerLock, Asleep, Awake, Notifying, IInv, TypeOK
    <2> QED BY <1>1, <2>1 DEF WorkerLock
  <1>2. ASSUME NEW w \in Workers, WorkerTest(w) PROVE NoLostWakeup'
    <2>1. Asleep' = Asleep /\ Awake' = Awake /\ Notifying' = Notifying
      BY <1>2 DEF WorkerTest, Asleep, Awake, Notifying, IInv, TypeOK
    <2> QED BY <1>2, <2>1 DEF WorkerTest
  <1>3. ASSUME NEW w \in Workers, WorkerSleep(w) PROVE NoLostWakeup'
    <2>1. tasks' = <<>>
      BY <1>3 DEF WorkerSleep, IInv, WorkerInv
    <2> QED BY <2>1, SizeFacts
  <1>4. ASSUME NEW w \in Workers, WorkerExit(w) PROVE NoLostWakeup'
    <2>1. tasks' = <<>>
      BY <1>4 DEF WorkerExit
    <2> QED BY <2>1, SizeFacts
  <1>5. ASSUME NEW w \in Workers, WorkerTake(w) PROVE NoLostWakeup'
    <2>1. Asleep' = Asleep /\ Awake' = Awake /\ Notifying' = Notifying
      BY <1>5 DEF WorkerTake, Asleep, Awake, Notifying, IInv, TypeOK
    <2>2. Len(tasks') = Len(tasks) - 1 /\ Len(tasks) \in Nat
      BY <1>5, HeadTailProperties, LenProperties DEF WorkerTake, IInv, TypeOK
    <2> QED BY <2>1, <2>2, SizeFacts
  <1>6. ASSUME NEW w \in Workers, WorkerRun(w) PROVE NoLostWakeup'
    <2>1. Asleep' = Asleep /\ Awake' = Awake /\ Notifying' = Notifying
      BY <1>6 DEF WorkerRun, Asleep, Awake, Notifying, IInv, TypeOK
    <2> QED BY <1>6, <2>1 DEF WorkerRun
  <1>7. ASSUME NEW w \in Workers, SpuriousWakeUp(w) PROVE NoLostWakeup'
    <2>1. /\ w \in Asleep /\ Asleep' = Asleep \ {w} /\ Awake' = Awake \cup {w}
          /\ w \notin Awake /\ Notifying' = Notifying /\ tasks' = tasks
      BY <1>7 DEF SpuriousWakeUp, Asleep, Awake, Notifying, IInv, TypeOK
    <2>2. Cardinality(Awake') = Cardinality(Awake) + 1
      BY <2>1, SizeFacts, FS_AddElement
    <2> QED BY <2>1, <2>2, SizeFacts
  <1>8. ASSUME NEW c \in Callers, NEW k \in Tasks, Enqueue(c, k) PROVE NoLostWakeup'
    <2>1. Asleep' = Asleep /\ Awake' = Awake /\ Notifying' = Notifying
      BY <1>8 DEF Enqueue, Asleep, Awake, Notifying, IInv, TypeOK
    <2> QED BY <1>8, <2>1 DEF Enqueue
  <1>9. ASSUME NEW c \in Callers, CallerLock(c) PROVE NoLostWakeup'
    <2>1. Asleep' = Asleep /\ Awake' = Awake /\ Notifying' = Notifying
      BY <1>9 DEF CallerLock, Asleep, Awake, Notifying, IInv, TypeOK
    <2> QED BY <1>9, <2>1 DEF CallerLock
  <1>10. ASSUME NEW c \in Callers, CallerPush(c) PROVE NoLostWakeup'
    <2>1. Asleep' = Asleep /\ Awake' = Awake
      BY <1>10 DEF CallerPush, Asleep, Awake
    <2>2. Notifying' = Notifying \cup {c} /\ c \notin Notifying
      BY <1>10 DEF CallerPush, Notifying, IInv, TypeOK
    <2>3. Cardinality(Notifying') = Cardinality(Notifying) + 1
      BY <2>2, SizeFacts, FS_AddElement
    <2>4. item[c] \in Tasks /\ tasks \in Seq(Tasks)
      BY <1>10 DEF CallerPush, IInv, TypeOK, CallerInv
    <2>5. Len(tasks') = Len(tasks) + 1 /\ Len(tasks) \in Nat
      BY <1>10, <2>4, AppendProperties, LenProperties DEF CallerPush
    <2> QED BY <2>1, <2>3, <2>5, SizeFacts
  <1>11. ASSUME NEW c \in Callers, CallerNotify(c) PROVE NoLostWakeup'
    <2>1. Notifying' = Notifying \ {c} /\ c \in Notifying /\ tasks' = tasks
      BY <1>11 DEF CallerNotify, Notifying, IInv, TypeOK
    <2>2. Cardinality(Notifying') = Cardinality(Notifying) - 1
      BY <2>1, SizeFacts, FS_RemoveElement
    <2>3. CASE Asleep = {} /\ UNCHANGED wpc
      BY <2>3 DEF Asleep
    <2>4. ASSUME NEW w \in Asleep, wpc' = [wpc EXCEPT ![w] = "lock"]
          PROVE  NoLostWakeup'
      <3>1. Awake' = Awake \cup {w} /\ w \notin Awake /\ Asleep # {}
        BY <2>4 DEF Awake, Asleep, IInv, TypeOK
      <3>2. Cardinality(Awake') = Cardinality(Awake) + 1
        BY <3>1, SizeFacts, FS_AddElement
      <3> QED BY <3>1, <3>2, <2>1, <2>2, SizeFacts
    <2> QED BY <1>11, <2>3, <2>4 DEF CallerNotify
  <1>12. ASSUME Stop PROVE NoLostWakeup'
    <2>1. Asleep' = Asleep /\ Awake' = Awake /\ Notifying' = Notifying
      BY <1>12 DEF Stop, Asleep, Awake, Notifying, IInv, TypeOK
    <2> QED BY <1>12, <2>1 DEF Stop
  <1>13. ASSUME Destroy PROVE NoLostWakeup'
    <2>1. Asleep' = Asleep /\ Awake' = Awake /\ Notifying' = Notifying
      BY <1>13 DEF Destroy, Asleep, Awake, Notifying, IInv, TypeOK
    <2> QED BY <1>13, <2>1 DEF Destroy
  <1>14. ASSUME OwnerLock PROVE NoLostWakeup'
    <2>1. Asleep' = Asleep /\ Awake' = Awake /\ Notifying' = Notifying
      BY <1>14 DEF OwnerLock, Asleep, Awake, Notifying, IInv, TypeOK
    <2> QED BY <1>14, <2>1 DEF OwnerLock
  <1>15. ASSUME OwnerSet PROVE NoLostWakeup'
    <2>1. Asleep' = Asleep /\ Awake' = Awake /\ Notifying' = Notifying
      BY <1>15 DEF OwnerSet, Asleep, Awake, Notifying, IInv, TypeOK
    <2> QED BY <1>15, <2>1 DEF OwnerSet
  <1>16. ASSUME OwnerNotify PROVE NoLostWakeup'
    <2>1. Asleep' = {}
      BY <1>16 DEF OwnerNotify, Asleep
    <2> QED BY <2>1
  <1>17. ASSUME OwnerJoin PROVE NoLostWakeup'
    <2>1. Asleep' = Asleep /\ Awake' = Awake /\ Notifying' = Notifying
      BY <1>17 DEF OwnerJoin, Asleep, Awake, Notifying, IInv, TypeOK
    <2> QED BY <1>17, <2>1 DEF OwnerJoin
  <1>18. CASE UNCHANGED vars
    BY <1>18 DEF vars, Asleep, Awake, Notifying
  <1> QED BY <1>1, <1>2, <1>3, <1>4, <1>5, <1>6, <1>7, <1>8, <1>9, <1>10, <1>11,
             <1>12, <1>13, <1>14, <1>15, <1>16, <1>17, <1>18
          DEF Next, WorkerStep, CallerStep, OwnerStep

-----------------------------------------------------------------------------
\* A task that is in one place is counted once.
LEMMA PlacesCount == IInv /\ PlaceInv => ExactlyOnce
  <1> SUFFICES ASSUME IInv, PlaceInv, NEW k \in Tasks
               PROVE  Places(k) = IF k \in submitted THEN 1 ELSE 0
    BY DEF ExactlyOnce
  <1> DEFINE I == {i \in DOMAIN tasks : tasks[i] = k}
             R == {w \in Workers : running[w] = k}
  <1> USE DEF PlaceInv
  <1>1. k # NoTask
    BY PoolAssumption
  <1>2. Cardinality({}) = 0
    BY FS_EmptySet
  <1>3. \A x : Cardinality({x}) = 1
    BY FS_Singleton
  <1>4. I = {} \/ \E i \in DOMAIN tasks : I = {i}
    OBVIOUS
  <1>5. R = {} \/ \E w \in Workers : R = {w}
    BY <1>1
  <1>6. Cardinality(I) = (IF I = {} THEN 0 ELSE 1) /\ Cardinality(R) = (IF R = {} THEN 0 ELSE 1)
    BY <1>2, <1>3, <1>4, <1>5
  <1>7. I # {} => k \notin finished /\ R = {}
    OBVIOUS
  <1>8. R # {} => k \notin finished
    BY <1>1
  <1>9. k \in submitted <=> I # {} \/ R # {} \/ k \in finished
    BY <1>1
  <1> HIDE DEF I, R, PlaceInv
  <1>10. Places(k) = Cardinality(I) + Cardinality(R) + (IF k \in finished THEN 1 ELSE 0)
    BY DEF Places, I, R
  <1> QED BY <1>6, <1>7, <1>8, <1>9, <1>10

LEMMA StopWakes == IInv => StopWakesAll
  BY DEF IInv, WorkerInv, StopWakesAll

LEMMA InitRest == Init => PlaceInv /\ DrainInv /\ DrainedWhenStopped /\ NoLostWakeup
  BY SizeFacts DEF Init, PlaceInv, DrainInv, DrainedWhenStopped, NoLostWakeup, Asleep

-----------------------------------------------------------------------------
\* The variables of the pool keep their types.
THEOREM TypeCorrect == Spec => []TypeOK
  <1>1. IInv => TypeOK
    BY DEF IInv
  <1> QED BY InitIInv, Inductive, <1>1, PTL DEF Spec

\* A worker sleeps only while the workers that are awake, or about to be woken
\* by an enqueue that has not yet notified, suffice for the tasks in the queue.
THEOREM WakeupsSuffice == Spec => []NoLostWakeup
  BY InitIInv, InitRest, Inductive, WakeupStep, PTL DEF Spec

\* After stop() has given mutex_ back no worker sleeps or is about to.
THEOREM NobodySleepsThroughStop == Spec => []StopWakesAll
  BY InitIInv, Inductive, StopWakes, PTL DEF Spec

\* Every task handed to enqueue is in the queue, with one worker, or done, and
\* in one of these places once.
THEOREM TaskInOnePlace == Spec => []ExactlyOnce
  BY InitIInv, InitRest, Inductive, PlaceStep, PlacesCount, PTL DEF Spec

\* When stop() or the destructor returns, the tasks enqueued before it set
\* stop_ have run.
THEOREM StopDrains == Spec => []DrainedWhenStopped
  BY InitIInv, InitRest, Inductive, PlaceStep, DrainStep, PTL DEF Spec

-----------------------------------------------------------------------------
(* The pool implements the queue that is used atomically (TaskPool).       *)

\* A worker that has left has left for good.
LEMMA LeftForGood ==
  ASSUME IInv, [Next]_vars, NEW w \in Workers, wpc[w] = "exited"
  PROVE  wpc'[w] = "exited"
  <1> USE DEF IInv, TypeOK
  <1>1. ASSUME NEW v \in Workers, WorkerStep(v) \/ SpuriousWakeUp(v) PROVE wpc'[w] = "exited"
    BY <1>1 DEF WorkerStep, WorkerLock, WorkerTest, WorkerSleep, WorkerExit, WorkerTake,
                WorkerRun, SpuriousWakeUp
  <1>2. ASSUME NEW c \in Callers, NEW k \in Tasks, Enqueue(c, k) PROVE wpc'[w] = "exited"
    BY <1>2 DEF Enqueue, workerVars
  <1>3. ASSUME NEW c \in Callers, CallerStep(c) PROVE wpc'[w] = "exited"
    BY <1>3 DEF CallerStep, CallerLock, CallerPush, CallerNotify, Asleep, workerVars
  <1>4. ASSUME Stop \/ Destroy \/ OwnerStep PROVE wpc'[w] = "exited"
    BY <1>4 DEF Stop, Destroy, OwnerStep, OwnerLock, OwnerSet, OwnerNotify, OwnerJoin, Asleep,
                workerVars
  <1>5. CASE UNCHANGED vars
    BY <1>5 DEF vars
  <1> QED BY <1>1, <1>2, <1>3, <1>4, <1>5 DEF Next

LEMMA OwnerInductive == IInv /\ OwnerInv /\ [Next]_vars => OwnerInv'
  <1> SUFFICES ASSUME IInv, OwnerInv, [Next]_vars PROVE OwnerInv'
    OBVIOUS
  <1>1. \A w \in Workers : wpc[w] = "exited" => wpc'[w] = "exited"
    BY LeftForGood
  <1> USE DEF OwnerInv, ownerVars
  <1>2. ASSUME NEW w \in Workers, WorkerStep(w) \/ SpuriousWakeUp(w) PROVE OwnerInv'
    <2>1. UNCHANGED <<phase, stop>>
      BY <1>2 DEF WorkerStep, WorkerLock, WorkerTest, WorkerSleep, WorkerExit, WorkerTake,
                  WorkerRun, SpuriousWakeUp
    <2> QED BY <1>1, <2>1
  <1>3. ASSUME NEW c \in Callers, NEW k \in Tasks, Enqueue(c, k) PROVE OwnerInv'
    BY <1>1, <1>3 DEF Enqueue
  <1>4. ASSUME NEW c \in Callers, CallerStep(c) PROVE OwnerInv'
    <2>1. UNCHANGED <<phase, stop>>
      BY <1>4 DEF CallerStep, CallerLock, CallerPush, CallerNotify
    <2> QED BY <1>1, <2>1
  <1>5. CASE Stop \/ Destroy \/ OwnerLock \/ OwnerSet \/ OwnerNotify
    BY <1>5 DEF Stop, Destroy, OwnerLock, OwnerSet, OwnerNotify
  <1>6. CASE OwnerJoin
    BY <1>1, <1>6 DEF OwnerJoin
  <1>7. CASE UNCHANGED vars
    BY <1>7 DEF vars
  <1> QED BY <1>2, <1>3, <1>4, <1>5, <1>6, <1>7 DEF Next, OwnerStep

\* The steps under the mutex are invisible, but for those at which a task is
\* put or taken, a worker leaves, and stop_ is set.
LEMMA StepRefines == IInv /\ OwnerInv /\ [Next]_vars => [Pool!Next]_Pool!vars
  <1> SUFFICES ASSUME IInv, OwnerInv, [Next]_vars PROVE [Pool!Next]_Pool!vars
    OBVIOUS
  <1> USE DEF IInv, TypeOK, workerVars, callerVars, ownerVars, Pool!vars
  <1>1. ASSUME NEW w \in Workers,
               WorkerLock(w) \/ WorkerTest(w) \/ WorkerSleep(w) \/ SpuriousWakeUp(w)
        PROVE  UNCHANGED Pool!vars
    BY <1>1 DEF WorkerLock, WorkerTest, WorkerSleep, SpuriousWakeUp, exitedBar, stageBar
  <1>2. ASSUME NEW w \in Workers, WorkerExit(w) PROVE Pool!Exit(w)
    <2>1. exitedBar' = exitedBar \cup {w} /\ w \notin exitedBar
      BY <1>2 DEF WorkerExit, exitedBar
    <2>2. running[w] = NoTask
      BY <1>2 DEF WorkerExit, WorkerInv
    <2>3. stageBar = "stopping" /\ stageBar' = stageBar
      BY <1>2 DEF WorkerExit, stageBar, OwnerInv
    <2> QED BY <1>2, <2>1, <2>2, <2>3 DEF WorkerExit, Pool!Exit, Pool!Free
  <1>3. ASSUME NEW w \in Workers, WorkerTake(w) PROVE Pool!Take(w)
    <2>1. exitedBar' = exitedBar /\ w \notin exitedBar /\ stageBar' = stageBar
      BY <1>3 DEF WorkerTake, exitedBar, stageBar
    <2>2. running[w] = NoTask
      BY <1>3 DEF WorkerTake, WorkerInv
    <2> QED BY <1>3, <2>1, <2>2 DEF WorkerTake, Pool!Take, Pool!Free
  <1>4. ASSUME NEW w \in Workers, WorkerRun(w) PROVE Pool!Finish(w)
    <2>1. exitedBar' = exitedBar /\ stageBar' = stageBar
      BY <1>4 DEF WorkerRun, exitedBar, stageBar
    <2>2. running[w] # NoTask
      BY <1>4 DEF WorkerRun, WorkerInv
    <2> QED BY <1>4, <2>1, <2>2 DEF WorkerRun, Pool!Finish
  <1>5. ASSUME NEW c \in Callers, NEW k \in Tasks, Enqueue(c, k) PROVE UNCHANGED Pool!vars
    BY <1>5 DEF Enqueue, exitedBar, stageBar
  <1>6. ASSUME NEW c \in Callers, CallerLock(c) \/ CallerNotify(c) PROVE UNCHANGED Pool!vars
    <2>1. UNCHANGED <<tasks, running, stop, phase>>
      BY <1>6 DEF CallerLock, CallerNotify
    <2>2. exitedBar' = exitedBar
      BY <1>6 DEF CallerLock, CallerNotify, Asleep, exitedBar
    <2> QED BY <2>1, <2>2 DEF stageBar
  <1>7. ASSUME NEW c \in Callers, CallerPush(c) PROVE \E k \in Tasks : Pool!Enqueue(k)
    <2>1. item[c] \in Tasks
      BY <1>7 DEF CallerPush, CallerInv
    <2> QED BY <1>7, <2>1 DEF CallerPush, Pool!Enqueue, exitedBar, stageBar
  <1>8. ASSUME Stop \/ Destroy PROVE Pool!Stop \/ UNCHANGED Pool!vars
    BY <1>8 DEF Stop, Destroy, Pool!Stop, exitedBar, stageBar, OwnerInv
  <1>9. ASSUME OwnerLock \/ OwnerNotify PROVE UNCHANGED Pool!vars
    BY <1>9 DEF OwnerLock, OwnerNotify, Asleep, exitedBar, stageBar
  <1>10. ASSUME OwnerSet PROVE Pool!Stop \/ UNCHANGED Pool!vars
    BY <1>10 DEF OwnerSet, Pool!Stop, exitedBar, stageBar
  <1>11. ASSUME OwnerJoin PROVE Pool!StopReturns
    BY <1>11 DEF OwnerJoin, Pool!StopReturns, exitedBar, stageBar, OwnerInv
  <1>12. CASE UNCHANGED vars
    BY <1>12 DEF vars, exitedBar, stageBar
  <1> QED BY <1>1, <1>2, <1>3, <1>4, <1>5, <1>6, <1>7, <1>8, <1>9, <1>10, <1>11, <1>12
          DEF Next, WorkerStep, CallerStep, OwnerStep, Pool!Next

LEMMA InitRefines == Init => OwnerInv /\ Pool!Init
  BY DEF Init, OwnerInv, Pool!Init, exitedBar, stageBar

\* The pool, with its mutex, its condition variable and the sleeping workers,
\* implements a queue that is used atomically: a task is taken in its turn, by
\* a worker that has none; a worker leaves only when stop() has begun and the
\* queue is empty, and stop() returns only when all have left.
THEOREM ImplementsPool == Spec => PoolSpec
  BY InitIInv, Inductive, InitRefines, OwnerInductive, StepRefines, PTL
     DEF Spec, PoolSpec, Pool!Spec

\* No task is running when stop() or the destructor has returned.
THEOREM QuietAfterStop == Spec => []Pool!QuietWhenStopped
  <1>1. IInv /\ OwnerInv => Pool!QuietWhenStopped
    BY DEF IInv, OwnerInv, WorkerInv, Pool!QuietWhenStopped, Pool!Free, exitedBar, stageBar
  <1> QED BY <1>1, InitIInv, Inductive, InitRefines, OwnerInductive, PTL DEF Spec

=============================================================================
