----------------------------- MODULE NodeLocks -----------------------------
(***************************************************************************)
(* The order in which the threads of one node take the mutexes that are    *)
(* held while others are taken: registry_mutex_ of ShmManager, node_mutex_ *)
(* of Node and mutex_ of a Subscriber.  The mutexes of the segments, of    *)
(* the event flags, of the thread pool and of the timers are always        *)
(* released before another is taken, and are left out.                     *)
(*                                                                         *)
(* A program is what one thread does from holding nothing to holding       *)
(* nothing: the sequence of mutexes it takes and releases.                 *)
(***************************************************************************)
EXTENDS Integers, Sequences

CONSTANTS
    NodeThreads,
    MayRun,     \* the programs of each thread
    NoOne       \* no thread, no program

Locks == {"registry", "node", "sub"}
Acquire(l) == [op |-> "take", lock |-> l]
Release(l) == [op |-> "give", lock |-> l]
Briefly(l) == <<Acquire(l), Release(l)>>

\* MUTANT of SpinPass: the pass ends early with registry_mutex_ locked.
SpinPass_NoUnlock ==
    <<Acquire("registry"), Acquire("node")>> \o Briefly("sub") \o <<Release("node")>>

\* Node::spinLoop on a triggered event: shmManagerLockRegistry, node_mutex_ for
\* the subscriptions, createTaskFromSubEvent.
SpinPass ==
    <<Acquire("registry"), Acquire("node")>> \o Briefly("sub")
    \o <<Release("node"), Release("registry")>>

\* syncRegistryFromShm.
SpinSync == Briefly("registry")

\* publish: isTopicExist, addPubTopic the first time, triggerEvent.
PublishFirst == Briefly("registry") \o Briefly("registry") \o Briefly("registry")
PublishAgain == Briefly("registry") \o Briefly("registry")

\* Timer callbacks hold no mutex.
TimerCallback == PublishFirst

\* Subscriber::execute holds the subscriber's mutex during the callback.
Callback == Briefly("sub")
PublishingCallback == <<Acquire("sub")>> \o PublishAgain \o <<Release("sub")>>

\* Node::createSubscriber: addSubTopic and registerTopicEvent under node_mutex_.
CreateSubscriber ==
    <<Acquire("node")>> \o Briefly("registry") \o Briefly("registry") \o <<Release("node")>>

\* MUTANT of CreatePublisher: the topic is registered at once.
CreatePublisher_Registers == <<Acquire("node")>> \o Briefly("registry") \o <<Release("node")>>

\* Node::createPublisher and createTimer.
CreatePublisher == Briefly("node")

Programs ==
    [spinPass |-> SpinPass, spinSync |-> SpinSync, timerCallback |-> TimerCallback,
     callback |-> Callback, publishingCallback |-> PublishingCallback,
     createSubscriber |-> CreateSubscriber, createPublisher |-> CreatePublisher]

ASSUME LocksAssumption ==
    /\ MayRun \in [NodeThreads -> SUBSET DOMAIN Programs]
    /\ NoOne \notin NodeThreads \cup DOMAIN Programs

VARIABLES
    program,   \* the program each thread is in
    next,      \* its next step
    heldBy     \* the thread that holds each mutex

locksVars == <<program, next, heldBy>>

LocksTypeOK ==
    /\ program \in [NodeThreads -> DOMAIN Programs \cup {NoOne}]
    /\ next \in [NodeThreads -> Nat]
    /\ \A t \in NodeThreads :
          IF program[t] = NoOne THEN next[t] = 1 ELSE next[t] \in DOMAIN Programs[program[t]]
    /\ heldBy \in [Locks -> NodeThreads \cup {NoOne}]

LocksInit ==
    /\ program = [t \in NodeThreads |-> NoOne]
    /\ next = [t \in NodeThreads |-> 1]
    /\ heldBy = [l \in Locks |-> NoOne]

-----------------------------------------------------------------------------
Step(t) == Programs[program[t]][next[t]]

\* To the next step, or to the end of the program.
Advance(t) ==
    IF next[t] < Len(Programs[program[t]])
    THEN next' = [next EXCEPT ![t] = @ + 1] /\ UNCHANGED program
    ELSE next' = [next EXCEPT ![t] = 1] /\ program' = [program EXCEPT ![t] = NoOne]

Begin(t, q) ==
    /\ program[t] = NoOne
    /\ program' = [program EXCEPT ![t] = q]
    /\ UNCHANGED <<next, heldBy>>

\* std::mutex::lock.
Lock(t) ==
    /\ program[t] # NoOne /\ Step(t).op = "take"
    /\ heldBy[Step(t).lock] = NoOne
    /\ heldBy' = [heldBy EXCEPT ![Step(t).lock] = t]
    /\ Advance(t)

\* std::mutex::unlock.
Unlock(t) ==
    /\ program[t] # NoOne /\ Step(t).op = "give"
    /\ heldBy' = [heldBy EXCEPT ![Step(t).lock] = NoOne]
    /\ Advance(t)

LocksNext == \E t \in NodeThreads :
    \/ \E q \in MayRun[t] : Begin(t, q)
    \/ Lock(t) \/ Unlock(t)

LocksSpec == LocksInit /\ [][LocksNext]_locksVars

\* Threads are scheduled, and a mutex does not starve them.
LocksFairSpec ==
    /\ LocksSpec
    /\ \A t \in NodeThreads : SF_locksVars(Lock(t)) /\ WF_locksVars(Unlock(t))

-----------------------------------------------------------------------------
Waits(t, u) ==
    program[t] # NoOne /\ Step(t).op = "take" /\ heldBy[Step(t).lock] = u

\* No threads wait for each other in a circle, or one for itself.  (node.cpp:
\* registry_mutex_ is not held while waiting, to avoid deadlocks; README: the
\* order of locks must avoid circular waiting.)
NoCircularWait ==
    \A S \in (SUBSET NodeThreads) \ {{}} : \E t \in S : \A u \in S : ~Waits(t, u)

\* The order is kept: no thread of the node runs the pass of the loop, as before
\* spin() and after it, or none subscribes, and no callback publishes.
OrderKept ==
    \/ \A t \in NodeThreads : "spinPass" \notin MayRun[t]
    \/ \A t \in NodeThreads : {"createSubscriber", "publishingCallback"} \cap MayRun[t] = {}

\* Whatever a thread begins it finishes.
ProgramsEnd == \A t \in NodeThreads : program[t] # NoOne ~> program[t] = NoOne

=============================================================================
