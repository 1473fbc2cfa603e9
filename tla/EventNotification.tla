-------------------------- MODULE EventNotification --------------------------
(***************************************************************************)
(* EventNotificationShm: the event flags kept in a shared memory segment,  *)
(* guarded by a process-shared mutex, with a process-shared condition      *)
(* variable for the threads that wait for an event.  One action per step   *)
(* of a call that another thread can observe: taking the mutex, reading    *)
(* the bits, writing them back, broadcasting, sleeping, waking, returning. *)
(* The segment is the initialised one that initMutexAndCond leaves.        *)
(***************************************************************************)
EXTENDS EventOps

CONSTANT NoThread     \* the holder of a free mutex

ASSUME NoThreadAssumption == NoThread \notin Threads

VARIABLES
    event_flag,   \* event_flag_: the set of bits that are 1
    mutex,        \* the holder of mutex_, or NoThread
    pc,           \* where each thread is in its call
    op,           \* the call it is making
    local,        \* the word it has read: a register, or the local event_flag
    missed        \* sleepers that a trigger found asleep and has not woken (history)

vars == <<event_flag, mutex, pc, op, local, missed>>

Locations == {"idle", "lock", "wait", "asleep", "relock", "load", "store",
              "broadcast", "unlock", "threw"}

\* The locations at which a thread is entitled to hold the mutex.
Critical == {"wait", "load", "store", "broadcast", "unlock"}

TypeOK ==
    /\ event_flag \subseteq EventIds
    /\ mutex \in Threads \cup {NoThread}
    /\ pc \in [Threads -> Locations]
    /\ op \in [Threads -> Ops \cup {NoCall}]
    /\ local \in [Threads -> SUBSET EventIds]
    /\ missed \subseteq Threads

Init ==
    /\ event_flag = {}
    /\ mutex = NoThread
    /\ pc = [t \in Threads |-> "idle"]
    /\ op = [t \in Threads |-> NoCall]
    /\ local = [t \in Threads |-> {}]
    /\ missed = {}

-----------------------------------------------------------------------------
\* What follows pthread_mutex_lock.  A "hold" is the pair lock(), unlock():
\* the caller's own critical section stands between the two.
AfterLock(o) == CASE o.kind = "wait"   -> "wait"
                  [] o.kind = "notify" -> "broadcast"
                  [] o.kind = "hold"   -> "unlock"
                  [] OTHER             -> "load"

\* bitset::reset(pos) throws std::out_of_range for a bad position, and
\* clearEvents(id) has no handler that would release the mutex.
AfterLoad(o) == CASE o.kind = "clear" /\ o.id \notin EventIds -> "threw"
                  [] o.kind \in {"read", "wait"}              -> "unlock"
                  [] OTHER                                    -> "store"

\* MUTANT of AfterStore: triggerEvent without the broadcast.
AfterStore_Silent(o) == "unlock"

AfterStore(o) == IF o.kind = "trigger" THEN "broadcast" ELSE "unlock"

\* Where pthread_cond_broadcast leaves the sleepers.
Woken == [t \in Threads |-> IF pc[t] = "asleep" THEN "relock" ELSE pc[t]]

-----------------------------------------------------------------------------
\* A call begins; one whose id the range checks refuse returns at once.
Call(t, o) ==
    /\ pc[t] = "idle"
    /\ Accepted(o)
    /\ pc' = [pc EXCEPT ![t] = "lock"]
    /\ op' = [op EXCEPT ![t] = o]
    /\ UNCHANGED <<event_flag, mutex, local, missed>>

\* MUTANT of Lock: the mutex of the segment without PTHREAD_PROCESS_SHARED, so
\* that a thread of another process does not wait for its holder.
Lock_Private(t) ==
    /\ pc[t] = "lock"
    /\ mutex' = t
    /\ pc' = [pc EXCEPT ![t] = AfterLock(op[t])]
    /\ UNCHANGED <<event_flag, op, local, missed>>

\* pthread_mutex_lock returns.
Lock(t) ==
    /\ pc[t] = "lock"
    /\ mutex = NoThread
    /\ mutex' = t
    /\ pc' = [pc EXCEPT ![t] = AfterLock(op[t])]
    /\ UNCHANGED <<event_flag, op, local, missed>>

\* The bits are read: into the snapshot, or as the first half of the
\* read-modify-write of bitset::set and bitset::reset.
Load(t) ==
    /\ pc[t] = "load"
    /\ local' = [local EXCEPT ![t] = event_flag]
    /\ pc' = [pc EXCEPT ![t] = AfterLoad(op[t])]
    /\ UNCHANGED <<event_flag, mutex, op, missed>>

\* The bits are written back.
Store(t) ==
    /\ pc[t] = "store"
    /\ event_flag' = After(op[t], local[t])
    /\ missed' = IF op[t].kind = "trigger"
                 THEN missed \cup {u \in Threads : pc[u] = "asleep"}
                 ELSE missed
    /\ pc' = [pc EXCEPT ![t] = AfterStore(op[t])]
    /\ UNCHANGED <<mutex, op, local>>

\* pthread_cond_broadcast, by triggerEvent and by notifyAll.
Broadcast(t) ==
    /\ pc[t] = "broadcast"
    /\ pc' = [Woken EXCEPT ![t] = "unlock"]
    /\ missed' = {}
    /\ UNCHANGED <<event_flag, mutex, op, local>>

\* pthread_cond_timedwait releases the mutex and sleeps, in one step.
Sleep(t) ==
    /\ pc[t] = "wait"
    /\ mutex' = NoThread
    /\ pc' = [pc EXCEPT ![t] = "asleep"]
    /\ UNCHANGED <<event_flag, op, local, missed>>

\* The time-out, or a wake-up for no reason.
WakeUp(t) ==
    /\ pc[t] = "asleep"
    /\ pc' = [pc EXCEPT ![t] = "relock"]
    /\ missed' = missed \ {t}
    /\ UNCHANGED <<event_flag, mutex, op, local>>

\* pthread_cond_timedwait returns with the mutex held again; whatever the
\* reason, waitForEvent then reads the flags without testing them.
Relock(t) ==
    /\ pc[t] = "relock"
    /\ mutex = NoThread
    /\ mutex' = t
    /\ pc' = [pc EXCEPT ![t] = "load"]
    /\ UNCHANGED <<event_flag, op, local, missed>>

\* pthread_mutex_unlock, and the call returns.
Unlock(t) ==
    /\ pc[t] = "unlock"
    /\ mutex' = NoThread
    /\ pc' = [pc EXCEPT ![t] = "idle"]
    /\ op' = [op EXCEPT ![t] = NoCall]
    /\ local' = [local EXCEPT ![t] = {}]
    /\ UNCHANGED <<event_flag, missed>>

Step(t) == \/ Lock(t) \/ Load(t) \/ Store(t) \/ Broadcast(t)
           \/ Sleep(t) \/ WakeUp(t) \/ Relock(t) \/ Unlock(t)

Next == \E t \in Threads : (\E o \in Ops : Call(t, o)) \/ Step(t)

Spec == Init /\ [][Next]_vars

\* A running thread is scheduled, a sleeper's time-out expires, and a thread
\* that keeps trying to take a mutex that keeps being released gets it.
Fairness == \A t \in Threads : WF_vars(Step(t)) /\ SF_vars(Lock(t) \/ Relock(t))

FairSpec == Spec /\ Fairness

-----------------------------------------------------------------------------
\* The mutex never outlives the call that took it: a holder is always a
\* thread inside the critical section, never one that has returned or that
\* left by an exception (clearEvents(id) has no handler for that).
MutexReleased == mutex # NoThread => pc[mutex] \in Critical

\* Between the read and the write of the bits nobody else writes them, so a
\* set or reset of one bit never undoes a set or reset of another.
SnapshotCurrent ==
    \A t \in Threads : pc[t] = "store" => local[t] = event_flag

\* A thread asleep in waitForEvent when a trigger sets a bit has been woken
\* by the time that trigger gives the mutex back.
NoSleeperMissesTrigger == mutex = NoThread => missed = {}

\* A step raises a bit only if some thread is triggering that very event,
\* and drops one only if some thread is clearing it: an update of one event
\* never disturbs another.
OnlyAskedBitsChange ==
    [][/\ \A e \in event_flag' \ event_flag :
              \E t \in Threads : pc[t] = "store" /\ op[t] = [kind |-> "trigger", id |-> e]
       /\ \A e \in event_flag \ event_flag' :
              \E t \in Threads : pc[t] = "store" /\ e \in Cleared(op[t])]_vars

\* Every call returns; waitForEvent does so even if no event ever comes.
CallsReturn == \A t \in Threads : pc[t] # "idle" ~> pc[t] = "idle"

-----------------------------------------------------------------------------
\* The step at which each call takes effect: the write of the bits, the read
\* of a call that only reads, and for the calls that touch no bit the step
\* before the unlock.
TakenEffect(t) ==
    pc[t] = "unlock" \/ (pc[t] = "broadcast" /\ op[t].kind = "trigger")

doneBar == [t \in Threads |-> TakenEffect(t)]

answerBar == [t \in Threads |->
                 IF TakenEffect(t) THEN Answer(op[t], local[t]) ELSE {}]

Flags == INSTANCE EventFlags WITH flags <- event_flag, call <- op,
                                  done <- doneBar, answer <- answerBar

\* The locked segment implements the atomic flag word.
FlagsSpec == Flags!Spec

=============================================================================
