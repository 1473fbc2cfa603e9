---------------------- MODULE EventNotificationProofs ----------------------
(***************************************************************************)
(* Theorems about EventNotification, for any set of threads and any number *)
(* of event bits.                                                          *)
(***************************************************************************)
EXTENDS EventNotification, TLAPS

\* The mutex is held exactly by the thread inside a critical section.
MutexInv == \A t \in Threads : pc[t] \in Critical <=> mutex = t

\* Which calls reach which location, and that no call throws.
CallInv ==
    \A t \in Threads :
        /\ pc[t] = "idle" <=> op[t] = NoCall
        /\ pc[t] # "idle" => Accepted(op[t])
        /\ pc[t] \in {"wait", "asleep", "relock"} => op[t].kind = "wait"
        /\ pc[t] = "load" => op[t].kind \notin {"notify", "hold"}
        /\ pc[t] = "store" => op[t].kind \in {"trigger", "clear", "clearAll", "take"}
        /\ pc[t] = "broadcast" => op[t].kind \in {"trigger", "notify"}
        /\ pc[t] # "threw"

\* Sleepers wait to be woken only between a trigger's write and its broadcast.
MissedInv == \A u \in missed : mutex # NoThread /\ pc[mutex] = "broadcast"

IInv == TypeOK /\ MutexInv /\ CallInv /\ MissedInv /\ SnapshotCurrent

-----------------------------------------------------------------------------
\* The kinds of call are distinct from NoCall, and only a call with an id
\* can be refused.
LEMMA OpFacts ==
    ASSUME NEW o \in Ops
    PROVE  /\ o # NoCall
           /\ o.kind \in IdKinds \cup PlainKinds
           /\ Accepted(o) /\ o.kind \in {"trigger", "clear"} => o.id \in EventIds
  BY DEF Ops, NoCall, IdKinds, PlainKinds, Accepted

\* A call maps flag words to flag words.
LEMMA AfterType ==
    ASSUME NEW o \in Ops, Accepted(o), NEW f \in SUBSET EventIds
    PROVE  After(o, f) \in SUBSET EventIds
  BY OpFacts DEF After, Raised, Cleared

LEMMA InitIInv == Init => IInv
  BY NoThreadAssumption
     DEF Init, IInv, TypeOK, Locations, MutexInv, Critical, CallInv,
         MissedInv, SnapshotCurrent

-----------------------------------------------------------------------------
LEMMA TypeStep == IInv /\ [Next]_vars => TypeOK'
  <1> SUFFICES ASSUME IInv, [Next]_vars PROVE TypeOK'
    OBVIOUS
  <1> USE DEF IInv, TypeOK, Locations
  <1>1. ASSUME NEW t \in Threads, NEW o \in Ops, Call(t, o) PROVE TypeOK'
    BY <1>1 DEF Call
  <1>2. ASSUME NEW t \in Threads, Lock(t) PROVE TypeOK'
    BY <1>2 DEF Lock, AfterLock
  <1>3. ASSUME NEW t \in Threads, Load(t) PROVE TypeOK'
    BY <1>3 DEF Load, AfterLoad
  <1>4. ASSUME NEW t \in Threads, Store(t) PROVE TypeOK'
    <2>1. op[t] \in Ops /\ Accepted(op[t])
      BY <1>4 DEF Store, CallInv
    <2>2. event_flag' \in SUBSET EventIds
      BY <1>4, <2>1, AfterType DEF Store
    <2> QED BY <1>4, <2>2 DEF Store, AfterStore
  <1>5. ASSUME NEW t \in Threads, Broadcast(t) PROVE TypeOK'
    BY <1>5 DEF Broadcast, Woken
  <1>6. ASSUME NEW t \in Threads, Sleep(t) PROVE TypeOK'
    BY <1>6 DEF Sleep
  <1>7. ASSUME NEW t \in Threads, WakeUp(t) PROVE TypeOK'
    BY <1>7 DEF WakeUp
  <1>8. ASSUME NEW t \in Threads, Relock(t) PROVE TypeOK'
    BY <1>8 DEF Relock
  <1>9. ASSUME NEW t \in Threads, Unlock(t) PROVE TypeOK'
    BY <1>9 DEF Unlock
  <1>10. CASE UNCHANGED vars
    BY <1>10 DEF vars
  <1> QED BY <1>1, <1>2, <1>3, <1>4, <1>5, <1>6, <1>7, <1>8, <1>9, <1>10
          DEF Next, Step

-----------------------------------------------------------------------------
LEMMA MutexStep == IInv /\ [Next]_vars => MutexInv'
  <1> SUFFICES ASSUME IInv, [Next]_vars PROVE MutexInv'
    OBVIOUS
  <1> USE NoThreadAssumption DEF IInv, TypeOK, MutexInv, Critical
  <1>1. ASSUME NEW t \in Threads, NEW o \in Ops, Call(t, o) PROVE MutexInv'
    BY <1>1 DEF Call
  <1>2. ASSUME NEW t \in Threads, Lock(t) PROVE MutexInv'
    BY <1>2 DEF Lock, AfterLock
  <1>3. ASSUME NEW t \in Threads, Load(t) PROVE MutexInv'
    <2>1. AfterLoad(op[t]) \in {"store", "unlock"}
      BY <1>3 DEF Load, AfterLoad, CallInv, Accepted, IdKinds
    <2> QED BY <1>3, <2>1 DEF Load
  <1>4. ASSUME NEW t \in Threads, Store(t) PROVE MutexInv'
    BY <1>4 DEF Store, AfterStore
  <1>5. ASSUME NEW t \in Threads, Broadcast(t) PROVE MutexInv'
    BY <1>5 DEF Broadcast, Woken
  <1>6. ASSUME NEW t \in Threads, Sleep(t) PROVE MutexInv'
    BY <1>6 DEF Sleep
  <1>7. ASSUME NEW t \in Threads, WakeUp(t) PROVE MutexInv'
    BY <1>7 DEF WakeUp
  <1>8. ASSUME NEW t \in Threads, Relock(t) PROVE MutexInv'
    BY <1>8 DEF Relock
  <1>9. ASSUME NEW t \in Threads, Unlock(t) PROVE MutexInv'
    BY <1>9 DEF Unlock
  <1>10. CASE UNCHANGED vars
    BY <1>10 DEF vars
  <1> QED BY <1>1, <1>2, <1>3, <1>4, <1>5, <1>6, <1>7, <1>8, <1>9, <1>10
          DEF Next, Step

LEMMA CallStep == IInv /\ [Next]_vars => CallInv'
  <1> SUFFICES ASSUME IInv, [Next]_vars PROVE CallInv'
    OBVIOUS
  <1> USE DEF IInv, TypeOK, CallInv
  <1>1. ASSUME NEW t \in Threads, NEW o \in Ops, Call(t, o) PROVE CallInv'
    <2>1. o # NoCall /\ Accepted(o)
      BY <1>1, OpFacts DEF Call
    <2> QED BY <1>1, <2>1 DEF Call
  <1>2. ASSUME NEW t \in Threads, Lock(t) PROVE CallInv'
    BY <1>2 DEF Lock, AfterLock
  <1>3. ASSUME NEW t \in Threads, Load(t) PROVE CallInv'
    <2>1. op[t] \in Ops /\ Accepted(op[t])
      BY <1>3 DEF Load
    <2>2. op[t].kind \in {"trigger", "clear", "clearAll", "take", "read", "wait"}
      BY <1>3, <2>1, OpFacts DEF Load, IdKinds, PlainKinds
    <2>3. op[t].kind = "clear" => op[t].id \in EventIds
      BY <2>1, OpFacts
    <2> QED BY <1>3, <2>2, <2>3 DEF Load, AfterLoad
  <1>4. ASSUME NEW t \in Threads, Store(t) PROVE CallInv'
    BY <1>4 DEF Store, AfterStore
  <1>5. ASSUME NEW t \in Threads, Broadcast(t) PROVE CallInv'
    BY <1>5 DEF Broadcast, Woken
  <1>6. ASSUME NEW t \in Threads, Sleep(t) PROVE CallInv'
    BY <1>6 DEF Sleep
  <1>7. ASSUME NEW t \in Threads, WakeUp(t) PROVE CallInv'
    BY <1>7 DEF WakeUp
  <1>8. ASSUME NEW t \in Threads, Relock(t) PROVE CallInv'
    BY <1>8 DEF Relock
  <1>9. ASSUME NEW t \in Threads, Unlock(t) PROVE CallInv'
    BY <1>9 DEF Unlock
  <1>10. CASE UNCHANGED vars
    BY <1>10 DEF vars
  <1> QED BY <1>1, <1>2, <1>3, <1>4, <1>5, <1>6, <1>7, <1>8, <1>9, <1>10
          DEF Next, Step

\* Only the holder of the mutex writes the bits or changes the sleepers that
\* wait to be woken.
LEMMA WriteStep == IInv /\ [Next]_vars => MissedInv' /\ SnapshotCurrent'
  <1> DEFINE Goal == MissedInv /\ SnapshotCurrent
  <1> SUFFICES ASSUME IInv, [Next]_vars PROVE Goal'
    OBVIOUS
  <1> USE NoThreadAssumption
          DEF IInv, TypeOK, MutexInv, Critical, MissedInv, SnapshotCurrent
  <1>1. ASSUME NEW t \in Threads, NEW o \in Ops, Call(t, o) PROVE Goal'
    BY <1>1 DEF Call
  <1>2. ASSUME NEW t \in Threads, Lock(t) PROVE Goal'
    BY <1>2 DEF Lock, AfterLock
  <1>3. ASSUME NEW t \in Threads, Load(t) PROVE Goal'
    BY <1>3 DEF Load, AfterLoad
  <1>4. ASSUME NEW t \in Threads, Store(t) PROVE Goal'
    BY <1>4 DEF Store, AfterStore
  <1>5. ASSUME NEW t \in Threads, Broadcast(t) PROVE Goal'
    BY <1>5 DEF Broadcast, Woken
  <1>6. ASSUME NEW t \in Threads, Sleep(t) PROVE Goal'
    BY <1>6 DEF Sleep
  <1>7. ASSUME NEW t \in Threads, WakeUp(t) PROVE Goal'
    BY <1>7 DEF WakeUp
  <1>8. ASSUME NEW t \in Threads, Relock(t) PROVE Goal'
    BY <1>8 DEF Relock
  <1>9. ASSUME NEW t \in Threads, Unlock(t) PROVE Goal'
    BY <1>9 DEF Unlock
  <1>10. CASE UNCHANGED vars
    BY <1>10 DEF vars
  <1> QED BY <1>1, <1>2, <1>3, <1>4, <1>5, <1>6, <1>7, <1>8, <1>9, <1>10
          DEF Next, Step

-----------------------------------------------------------------------------
LEMMA Inductive == Spec => []IInv
  <1>1. IInv /\ [Next]_vars => IInv'
    BY TypeStep, MutexStep, CallStep, WriteStep DEF IInv
  <1> QED BY InitIInv, <1>1, PTL DEF Spec

\* Every value stays in its range: in particular an id that a range check
\* should have refused never reaches the word.
THEOREM TypeCorrect == Spec => []TypeOK
  <1>1. IInv => TypeOK
    BY DEF IInv
  <1> QED BY Inductive, <1>1, PTL

\* A thread that has returned from a call, or left one by an exception, does
\* not hold the mutex.
THEOREM MutexIsReleased == Spec => []MutexReleased
  <1>1. IInv => MutexReleased
    BY NoThreadAssumption DEF IInv, TypeOK, MutexInv, MutexReleased
  <1> QED BY Inductive, <1>1, PTL

\* No thread's read-modify-write of the bits is overtaken by another's.
THEOREM SnapshotIsCurrent == Spec => []SnapshotCurrent
  <1>1. IInv => SnapshotCurrent
    BY DEF IInv
  <1> QED BY Inductive, <1>1, PTL

\* A trigger has woken every thread it found asleep when it returns.
THEOREM SleepersAreWoken == Spec => []NoSleeperMissesTrigger
  <1>1. IInv => NoSleeperMissesTrigger
    BY NoThreadAssumption DEF IInv, MissedInv, NoSleeperMissesTrigger
  <1> QED BY Inductive, <1>1, PTL

\* An update of one event's bit never disturbs another event's.
THEOREM OnlyAskedBits == Spec => OnlyAskedBitsChange
  <1> DEFINE Asked ==
        /\ \A e \in event_flag' \ event_flag :
               \E t \in Threads :
                   pc[t] = "store" /\ op[t] = [kind |-> "trigger", id |-> e]
        /\ \A e \in event_flag \ event_flag' :
               \E t \in Threads : pc[t] = "store" /\ e \in Cleared(op[t])
  <1>1. IInv /\ [Next]_vars => [Asked]_vars
    <2> SUFFICES ASSUME IInv, Next, event_flag' # event_flag PROVE Asked
      BY DEF vars
    <2>1. PICK t \in Threads : Store(t)
      BY DEF Next, Step, Call, Lock, Load, Broadcast, Sleep, WakeUp, Relock, Unlock
    <2>2. event_flag' = (event_flag \ Cleared(op[t])) \cup Raised(op[t])
      BY <2>1 DEF Store, After, IInv, SnapshotCurrent
    <2>3. op[t] \in Ops /\ pc[t] = "store"
      BY <2>1 DEF Store, IInv, TypeOK, CallInv
    <2>4. ASSUME NEW e \in event_flag' \ event_flag
          PROVE  op[t] = [kind |-> "trigger", id |-> e]
      BY <2>2, <2>3, <2>4 DEF Raised, Ops, IdKinds, PlainKinds
    <2>5. ASSUME NEW e \in event_flag \ event_flag' PROVE e \in Cleared(op[t])
      BY <2>2, <2>5
    <2> QED BY <2>3, <2>4, <2>5
  <1>2. Spec => [][Asked]_vars
    BY Inductive, <1>1, PTL DEF Spec
  <1> QED BY <1>2 DEF OnlyAskedBitsChange

-----------------------------------------------------------------------------
\* The flag word speaks of the same calls.
LEMMA SameVocabulary ==
    /\ Flags!NoCall = NoCall
    /\ Flags!Ops = Ops
    /\ \A o : Flags!Accepted(o) <=> Accepted(o)
    /\ \A o, f : Flags!After(o, f) = After(o, f)
    /\ \A o, f : Flags!Answer(o, f) = Answer(o, f)
  BY DEF NoCall, Ops, Accepted, After, Answer, Answering, Cleared, Raised,
         EventIds, CallerIds, IdKinds, PlainKinds, NoId,
         Flags!NoCall, Flags!Ops, Flags!Accepted, Flags!After, Flags!Answer,
         Flags!Answering, Flags!Cleared, Flags!Raised, Flags!EventIds,
         Flags!CallerIds, Flags!IdKinds, Flags!PlainKinds, Flags!NoId

\* Each step of a call is invisible in the atomic flag word, or is the step
\* at which the call begins, takes effect or returns.
LEMMA StepRefines == IInv /\ [Next]_vars => [Flags!Next]_Flags!vars
  <1> SUFFICES ASSUME IInv, [Next]_vars PROVE [Flags!Next]_Flags!vars
    OBVIOUS
  <1> USE SameVocabulary
          DEF IInv, TypeOK, CallInv, TakenEffect, doneBar, answerBar, Flags!vars
  <1>1. ASSUME NEW t \in Threads, NEW o \in Ops, Call(t, o) PROVE Flags!Invoke(t, o)
    BY <1>1, OpFacts DEF Call, Flags!Invoke
  <1>2. ASSUME NEW t \in Threads, Lock(t)
        PROVE Flags!Perform(t) \/ UNCHANGED Flags!vars
    <2>1. CASE op[t].kind = "hold"
      <3>1. After(op[t], event_flag) = event_flag /\ Answer(op[t], event_flag) = {}
        BY <2>1 DEF After, Answer, Answering, Cleared, Raised
      <3>2. pc'[t] = "unlock"
        BY <1>2, <2>1 DEF Lock, AfterLock
      <3> QED BY <1>2, <2>1, <3>1, <3>2 DEF Lock, Flags!Perform, Answer, Answering
    <2>2. CASE op[t].kind # "hold"
      BY <1>2, <2>2 DEF Lock, AfterLock
    <2> QED BY <2>1, <2>2
  <1>3. ASSUME NEW t \in Threads, Load(t)
        PROVE Flags!Perform(t) \/ UNCHANGED Flags!vars
    <2>1. CASE op[t].kind \in {"read", "wait"}
      <3>1. After(op[t], event_flag) = event_flag
        BY <2>1 DEF After, Cleared, Raised
      <3> QED BY <1>3, <2>1, <3>1 DEF Load, AfterLoad, Flags!Perform
    <2>2. CASE op[t].kind \notin {"read", "wait"}
      BY <1>3, <2>2 DEF Load, AfterLoad
    <2> QED BY <2>1, <2>2
  <1>4. ASSUME NEW t \in Threads, Store(t) PROVE Flags!Perform(t)
    BY <1>4 DEF Store, AfterStore, SnapshotCurrent, Flags!Perform
  <1>5. ASSUME NEW t \in Threads, Broadcast(t)
        PROVE Flags!Perform(t) \/ UNCHANGED Flags!vars
    <2>1. CASE op[t].kind = "notify"
      <3>1. After(op[t], event_flag) = event_flag /\ Answer(op[t], event_flag) = {}
        BY <2>1 DEF After, Answer, Answering, Cleared, Raised
      <3> QED BY <1>5, <2>1, <3>1 DEF Broadcast, Woken, Flags!Perform, Answer, Answering
    <2>2. CASE op[t].kind = "trigger"
      BY <1>5, <2>2 DEF Broadcast, Woken
    <2> QED BY <1>5, <2>1, <2>2 DEF Broadcast
  <1>6. ASSUME NEW t \in Threads, Sleep(t) PROVE UNCHANGED Flags!vars
    BY <1>6 DEF Sleep
  <1>7. ASSUME NEW t \in Threads, WakeUp(t) PROVE UNCHANGED Flags!vars
    BY <1>7 DEF WakeUp
  <1>8. ASSUME NEW t \in Threads, Relock(t) PROVE UNCHANGED Flags!vars
    BY <1>8 DEF Relock
  <1>9. ASSUME NEW t \in Threads, Unlock(t) PROVE Flags!Return(t)
    BY <1>9 DEF Unlock, Flags!Return
  <1>10. CASE UNCHANGED vars
    BY <1>10 DEF vars
  <1> QED BY <1>1, <1>2, <1>3, <1>4, <1>5, <1>6, <1>7, <1>8, <1>9, <1>10
          DEF Next, Step, Flags!Next

\* Every call on the locked segment takes effect at one instant: the segment
\* implements the atomic flag word.
THEOREM ImplementsFlags == Spec => FlagsSpec
  <1>1. Init => Flags!Init
    BY SameVocabulary DEF Init, Flags!Init, doneBar, answerBar, TakenEffect
  <1> QED BY <1>1, Inductive, StepRefines, PTL DEF Spec, FlagsSpec, Flags!Spec

=============================================================================
