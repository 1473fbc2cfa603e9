------------------------------- MODULE PubSub -------------------------------
(***************************************************************************)
(* The path of a message: Publisher::publish writes the topic's segment    *)
(* and triggers the topic's event; Node::spinLoop wakes up, copies the     *)
(* message of every subscription whose event is raised into a task for the *)
(* thread pool, and clears the event; a worker runs the callback; and      *)
(* Node::stop, which ends the loop and the pool while all this goes on.    *)
(*                                                                         *)
(* The event flags are the atomic word that EventNotification implements,  *)
(* and the pool is the queue that ThreadPool implements.  Each node has    *)
(* its own ShmManager, hence its own registry_mutex_; the segments and the *)
(* event flags are shared by all processes.  Topics and their event ids    *)
(* are in place.  A message is a version number, and its bytes two halves  *)
(* that carry that number.  Left out of spinLoop are the reload of the     *)
(* registry when bit EVENT_MAX_COUNT - 1 is set and the timers.            *)
(***************************************************************************)
EXTENDS Integers, Sequences

CONSTANTS
    Nodes,
    Topics,
    Publishers, PubNode, PubTopic,  \* threads that publish; node and topic of each
    Subs, SubNode, SubTopic,        \* the subscriptions; node and topic of each
    SubOrder,                       \* the place of each in the order of creation
    NumWorkers,                     \* threads in each node's pool (4 in the code)
    MaxSent,                        \* bound: messages on each topic
    NoHolder, NoTask

Version == {0} \cup UNION {0 .. MaxSent[t] : t \in Topics}
Message == Version \X Version
Task == [sub : Subs, msg : Message]
Whole(m) == m[1] = m[2]

ASSUME PubSubAssumption ==
    /\ PubNode \in [Publishers -> Nodes] /\ PubTopic \in [Publishers -> Topics]
    /\ SubNode \in [Subs -> Nodes] /\ SubTopic \in [Subs -> Topics]
    /\ SubOrder \in [Subs -> Nat] /\ \A s, u \in Subs : SubOrder[s] = SubOrder[u] => s = u
    /\ NumWorkers \in Nat \ {0}
    /\ MaxSent \in [Topics -> Nat]
    /\ NoHolder \notin Publishers \cup Nodes
    /\ NoTask \notin Task
    /\ Publishers \cap Nodes = {}

VARIABLES
    seg,        \* the two halves of each topic's segment
    segLock,    \* the publisher that holds the segment's mutex
    sent,       \* the number of messages begun on each topic
    flags,      \* the topics whose event bit is set
    registry,   \* the holder of each node's registry_mutex_
    ppc,        \* where each publisher is in publish
    spc,        \* where each node is in spinLoop
    snap,       \* its trigger_event
    todo,       \* the triggered subscriptions it has not read yet
    first,      \* the half it has read of the first one
    processed,  \* its processed_event_ids
    msg,        \* msg_ of each subscription
    queue,      \* the tasks waiting in each node's pool
    running,    \* the task of each worker
    exited,     \* the workers that have left their loop
    spinning,   \* spinning_ of each node
    stopping,   \* where each node is in stop(): no, began, pool, stopped
    raises,     \* how often each topic was triggered (history)
    captures,   \* how often each subscription was read (history)
    delivered   \* the newest whole message its callback has seen (history)

vars == <<seg, segLock, sent, flags, registry, ppc, spc, snap, todo, first,
          processed, msg, queue, running, exited, spinning, stopping, raises,
          captures, delivered>>
segVars == <<seg, segLock, sent>>
spinVars == <<spc, snap, todo, first, processed, msg, captures>>
poolVars == <<queue, running, exited, delivered>>
stopVars == <<spinning, stopping>>

TypeOK ==
    /\ seg \in [Topics -> Message]
    /\ segLock \in [Topics -> Publishers \cup {NoHolder}]
    /\ sent \in [Topics -> Version]
    /\ flags \subseteq Topics
    /\ registry \in [Nodes -> Publishers \cup Nodes \cup {NoHolder}]
    /\ ppc \in [Publishers -> {"idle", "write", "registry", "raise"}]
    /\ spc \in [Nodes -> {"wait", "check", "enter", "read", "read2", "clear", "ended"}]
    /\ snap \in [Nodes -> SUBSET Topics]
    /\ todo \in [Nodes -> SUBSET Subs]
    /\ first \in [Nodes -> Version]
    /\ processed \in [Nodes -> Seq(Topics)]
    /\ msg \in [Subs -> Message]
    /\ queue \in [Nodes -> Seq(Task)]
    /\ running \in [Nodes -> [1 .. NumWorkers -> Task \cup {NoTask}]]
    /\ exited \in [Nodes -> SUBSET (1 .. NumWorkers)]
    /\ spinning \in [Nodes -> BOOLEAN]
    /\ stopping \in [Nodes -> {"no", "began", "pool", "stopped"}]
    /\ raises \in [Topics -> Nat]
    /\ captures \in [Subs -> Nat]
    /\ delivered \in [Subs -> Version]

Init ==
    /\ seg = [t \in Topics |-> <<0, 0>>]
    /\ segLock = [t \in Topics |-> NoHolder]
    /\ sent = [t \in Topics |-> 0]
    /\ flags = {}
    /\ registry = [n \in Nodes |-> NoHolder]
    /\ ppc = [p \in Publishers |-> "idle"]
    /\ spc = [n \in Nodes |-> "wait"]
    /\ snap = [n \in Nodes |-> {}]
    /\ todo = [n \in Nodes |-> {}]
    /\ first = [n \in Nodes |-> 0]
    /\ processed = [n \in Nodes |-> <<>>]
    /\ msg = [s \in Subs |-> <<0, 0>>]
    /\ queue = [n \in Nodes |-> <<>>]
    /\ running = [n \in Nodes |-> [i \in 1 .. NumWorkers |-> NoTask]]
    /\ exited = [n \in Nodes |-> {}]
    /\ spinning = [n \in Nodes |-> TRUE]
    /\ stopping = [n \in Nodes |-> "no"]
    /\ raises = [t \in Topics |-> 0]
    /\ captures = [s \in Subs |-> 0]
    /\ delivered = [s \in Subs |-> 0]

-----------------------------------------------------------------------------
(* Publisher::publish.                                                     *)

\* ShmBase::Write takes the segment's mutex and copies the message; the copy
\* is half done.
WriteFirst(p) ==
    LET t == PubTopic[p] IN
    /\ ppc[p] = "idle"
    /\ sent[t] < MaxSent[t]
    /\ segLock[t] = NoHolder
    /\ segLock' = [segLock EXCEPT ![t] = p]
    /\ sent' = [sent EXCEPT ![t] = @ + 1]
    /\ seg' = [seg EXCEPT ![t] = <<sent'[t], @[2]>>]
    /\ ppc' = [ppc EXCEPT ![p] = "write"]
    /\ UNCHANGED <<flags, registry, raises, spinVars, poolVars, stopVars>>

\* The copy is complete and the segment's mutex free again.
WriteSecond(p) ==
    LET t == PubTopic[p] IN
    /\ ppc[p] = "write"
    /\ seg' = [seg EXCEPT ![t] = <<@[1], @[1]>>]
    /\ segLock' = [segLock EXCEPT ![t] = NoHolder]
    /\ ppc' = [ppc EXCEPT ![p] = "registry"]
    /\ UNCHANGED <<sent, flags, registry, raises, spinVars, poolVars, stopVars>>

\* ShmManager::triggerEvent takes registry_mutex_ of the publisher's node.
TriggerLock(p) ==
    LET n == PubNode[p] IN
    /\ ppc[p] = "registry"
    /\ registry[n] = NoHolder
    /\ registry' = [registry EXCEPT ![n] = p]
    /\ ppc' = [ppc EXCEPT ![p] = "raise"]
    /\ UNCHANGED <<segVars, flags, raises, spinVars, poolVars, stopVars>>

\* The bit is set, the sleepers are woken, registry_mutex_ is released.
TriggerRaise(p) ==
    /\ ppc[p] = "raise"
    /\ flags' = flags \cup {PubTopic[p]}
    /\ raises' = [raises EXCEPT ![PubTopic[p]] = @ + 1]
    /\ registry' = [registry EXCEPT ![PubNode[p]] = NoHolder]
    /\ ppc' = [ppc EXCEPT ![p] = "idle"]
    /\ UNCHANGED <<segVars, spinVars, poolVars, stopVars>>

Publish(p) == WriteSecond(p) \/ TriggerLock(p) \/ TriggerRaise(p)

-----------------------------------------------------------------------------
(* Node::spinLoop.                                                         *)

\* The subscriptions of node n whose event is raised.
Triggered(n, raised) == {s \in Subs : SubNode[s] = n /\ SubTopic[s] \in raised}

\* The one that the loop visits next.
Foremost(n) == CHOOSE s \in todo[n] : \A u \in todo[n] : SubOrder[s] <= SubOrder[u]

\* What follows once the subscriptions in rest are still to be read.
NextRead(rest) == IF rest = {} THEN "clear" ELSE "read"

\* waitForEvent returns, woken or timed out, with the flags of the moment.
SpinWait(n) ==
    /\ spc[n] = "wait"
    /\ snap' = [snap EXCEPT ![n] = flags]
    /\ spc' = [spc EXCEPT ![n] = "check"]
    /\ UNCHANGED <<segVars, flags, registry, ppc, todo, first, processed, msg,
                   captures, raises, poolVars, stopVars>>

\* The loop ends if spinning_ was reset meanwhile.
SpinCheck(n) ==
    /\ spc[n] = "check"
    /\ spc' = [spc EXCEPT ![n] = IF spinning[n] THEN "enter" ELSE "ended"]
    /\ UNCHANGED <<segVars, flags, registry, ppc, snap, todo, first, processed, msg,
                   captures, raises, poolVars, stopVars>>

\* MUTANT of SpinEnter: the search ends at the first subscription that is found.
SpinEnter_FirstOnly(n) ==
    LET found == Triggered(n, snap[n])
        First(s) == \A u \in found : SubOrder[s] <= SubOrder[u]
    IN
    /\ spc[n] = "enter"
    /\ registry[n] = NoHolder
    /\ registry' = [registry EXCEPT ![n] = n]
    /\ todo' = [todo EXCEPT ![n] = {s \in found : First(s)}]
    /\ spc' = [spc EXCEPT ![n] = NextRead(todo'[n])]
    /\ UNCHANGED <<segVars, flags, ppc, snap, first, processed, msg, captures,
                   raises, poolVars, stopVars>>

\* shmManagerLockRegistry; the snapshot is compared with the subscriptions.
SpinEnter(n) ==
    /\ spc[n] = "enter"
    /\ registry[n] = NoHolder
    /\ registry' = [registry EXCEPT ![n] = n]
    /\ todo' = [todo EXCEPT ![n] = Triggered(n, snap[n])]
    /\ spc' = [spc EXCEPT ![n] = NextRead(todo'[n])]
    /\ UNCHANGED <<segVars, flags, ppc, snap, first, processed, msg, captures,
                   raises, poolVars, stopVars>>

\* Subscriber::getMessage copies the segment with ReadUnlocked: whatever the
\* holder of the segment's mutex is doing.  First half.
ReadFirst(n) ==
    /\ spc[n] = "read"
    /\ spinning[n]
    /\ first' = [first EXCEPT ![n] = seg[SubTopic[Foremost(n)]][1]]
    /\ spc' = [spc EXCEPT ![n] = "read2"]
    /\ UNCHANGED <<segVars, flags, registry, ppc, snap, todo, processed, msg,
                   captures, raises, poolVars, stopVars>>

\* A subscription is passed over once spinning_ is reset: nothing is read, and
\* its event does not count as processed.
ReadSkip(n) ==
    /\ spc[n] = "read"
    /\ ~spinning[n]
    /\ todo' = [todo EXCEPT ![n] = @ \ {Foremost(n)}]
    /\ spc' = [spc EXCEPT ![n] = NextRead(todo'[n])]
    /\ UNCHANGED <<segVars, flags, registry, ppc, snap, first, processed, msg,
                   captures, raises, poolVars, stopVars>>

\* Second half.  A mixture of two messages is taken for a message, or fails
\* to parse and leaves msg_ as it was; either way msg_ goes into a new task
\* and the event counts as processed.
ReadSecond(n) ==
    LET s == Foremost(n)
        t == SubTopic[s]
        m == <<first[n], seg[t][2]>>
    IN
    /\ spc[n] = "read2"
    /\ \/ msg' = [msg EXCEPT ![s] = m]
       \/ ~Whole(m) /\ UNCHANGED msg
    /\ queue' = [queue EXCEPT ![n] = Append(@, [sub |-> s, msg |-> msg'[s]])]
    /\ captures' = [captures EXCEPT ![s] = @ + 1]
    /\ processed' = [processed EXCEPT ![n] = Append(@, t)]
    /\ todo' = [todo EXCEPT ![n] = @ \ {Foremost(n)}]
    /\ first' = [first EXCEPT ![n] = 0]
    /\ spc' = [spc EXCEPT ![n] = NextRead(todo'[n])]
    /\ UNCHANGED <<segVars, flags, registry, ppc, snap, raises, running, exited,
                   delivered, stopVars>>

\* MUTANT of SpinClear: every event is cleared, not only the processed ones.
SpinClear_All(n) ==
    /\ spc[n] = "clear"
    /\ processed[n] # <<>>
    /\ flags' = {}
    /\ processed' = [processed EXCEPT ![n] = <<>>]
    /\ UNCHANGED <<segVars, registry, ppc, spc, snap, todo, first, msg, captures,
                   raises, poolVars, stopVars>>

\* MUTANT of SpinClear: the processed events are left set.
SpinClear_None(n) ==
    /\ spc[n] = "clear"
    /\ processed[n] # <<>>
    /\ processed' = [processed EXCEPT ![n] = <<>>]
    /\ UNCHANGED <<segVars, flags, registry, ppc, spc, snap, todo, first, msg,
                   captures, raises, poolVars, stopVars>>

\* clearTriggerEvent for the next of the processed events.
SpinClear(n) ==
    /\ spc[n] = "clear"
    /\ processed[n] # <<>>
    /\ flags' = flags \ {Head(processed[n])}
    /\ processed' = [processed EXCEPT ![n] = Tail(@)]
    /\ UNCHANGED <<segVars, registry, ppc, spc, snap, todo, first, msg, captures,
                   raises, poolVars, stopVars>>

\* shmManagerUnlockRegistry, and round again while spinning_.
SpinLeave(n) ==
    /\ spc[n] = "clear"
    /\ processed[n] = <<>>
    /\ registry' = [registry EXCEPT ![n] = NoHolder]
    /\ snap' = [snap EXCEPT ![n] = {}]
    /\ spc' = [spc EXCEPT ![n] = IF spinning[n] THEN "wait" ELSE "ended"]
    /\ UNCHANGED <<segVars, flags, ppc, todo, first, processed, msg, captures,
                   raises, poolVars, stopVars>>

Spin(n) == \/ SpinWait(n) \/ SpinCheck(n) \/ SpinEnter(n)
           \/ ReadFirst(n) \/ ReadSkip(n) \/ ReadSecond(n)
           \/ SpinClear(n) \/ SpinLeave(n)

-----------------------------------------------------------------------------
(* The node's thread pool, and Node::stop.                                 *)

\* MUTANT of Take: a worker takes the newest task.
Take_Back(n, i) ==
    /\ i \notin exited[n]
    /\ running[n][i] = NoTask
    /\ queue[n] # <<>>
    /\ running' = [running EXCEPT ![n][i] = queue[n][Len(queue[n])]]
    /\ queue' = [queue EXCEPT ![n] = SubSeq(@, 1, Len(@) - 1)]
    /\ UNCHANGED <<segVars, flags, registry, ppc, raises, spinVars, exited,
                   delivered, stopVars>>

\* A worker takes the oldest task.
Take(n, i) ==
    /\ i \notin exited[n]
    /\ running[n][i] = NoTask
    /\ queue[n] # <<>>
    /\ running' = [running EXCEPT ![n][i] = Head(queue[n])]
    /\ queue' = [queue EXCEPT ![n] = Tail(@)]
    /\ UNCHANGED <<segVars, flags, registry, ppc, raises, spinVars, exited,
                   delivered, stopVars>>

\* It has run Subscriber::execute on it.
Execute(n, i) ==
    LET k == running[n][i] IN
    /\ k # NoTask
    /\ delivered' = IF Whole(k.msg) /\ k.msg[1] > delivered[k.sub]
                    THEN [delivered EXCEPT ![k.sub] = k.msg[1]]
                    ELSE delivered
    /\ running' = [running EXCEPT ![n][i] = NoTask]
    /\ UNCHANGED <<segVars, flags, registry, ppc, raises, spinVars, queue, exited,
                   stopVars>>

\* MUTANT of Exit: a worker waits for the next task although the pool stops.
Exit_Queued(n, i) ==
    /\ stopping[n] = "pool"
    /\ i \notin exited[n]
    /\ queue[n] # <<>>
    /\ exited' = [exited EXCEPT ![n] = @ \cup {i}]
    /\ UNCHANGED <<segVars, flags, registry, ppc, raises, spinVars, queue, running,
                   delivered, stopVars>>

\* The pool is stopped, and the worker finds nothing more to do.
Exit(n, i) ==
    /\ stopping[n] = "pool"
    /\ i \notin exited[n]
    /\ running[n][i] = NoTask
    /\ queue[n] = <<>>
    /\ exited' = [exited EXCEPT ![n] = @ \cup {i}]
    /\ UNCHANGED <<segVars, flags, registry, ppc, raises, spinVars, queue, running,
                   delivered, stopVars>>

Worker(n) == \E i \in 1 .. NumWorkers : Take(n, i) \/ Execute(n, i) \/ Exit(n, i)

\* Node::stop, by another thread or a signal: first the flag of the loop,
StopSpinning(n) ==
    /\ stopping[n] = "no"
    /\ spinning' = [spinning EXCEPT ![n] = FALSE]
    /\ stopping' = [stopping EXCEPT ![n] = "began"]
    /\ UNCHANGED <<segVars, flags, registry, ppc, raises, spinVars, poolVars>>

\* then the flag of the pool,
StopPool(n) ==
    /\ stopping[n] = "began"
    /\ stopping' = [stopping EXCEPT ![n] = "pool"]
    /\ UNCHANGED <<segVars, flags, registry, ppc, raises, spinVars, poolVars, spinning>>

\* and, the workers joined, the wake-up of the loop.
StopReturns(n) ==
    /\ stopping[n] = "pool"
    /\ exited[n] = 1 .. NumWorkers
    /\ stopping' = [stopping EXCEPT ![n] = "stopped"]
    /\ UNCHANGED <<segVars, flags, registry, ppc, raises, spinVars, poolVars, spinning>>

-----------------------------------------------------------------------------
Next ==
    \/ \E p \in Publishers : WriteFirst(p) \/ Publish(p)
    \/ \E n \in Nodes : \/ Spin(n) \/ Worker(n)
                        \/ StopSpinning(n) \/ StopPool(n) \/ StopReturns(n)

Spec == Init /\ [][Next]_vars

\* Threads are scheduled and a mutex does not starve them; nobody has to
\* begin to publish, or to stop a node.  (A publisher and a loop have one step
\* at a time: only at registry_mutex_ strong fairness says more than weak.)
Fairness ==
    /\ \A p \in Publishers : SF_vars(Publish(p))
    /\ \A n \in Nodes : /\ SF_vars(Spin(n)) /\ WF_vars(Worker(n))
                        /\ WF_vars(StopPool(n) \/ StopReturns(n))

FairSpec == Spec /\ Fairness

-----------------------------------------------------------------------------
Publishing(t) == \E p \in Publishers : PubTopic[p] = t /\ ppc[p] # "idle"

\* The subscription is still to be read in this round of the loop.
Due(s) ==
    LET n == SubNode[s] IN
    \/ spc[n] \in {"check", "enter"} /\ SubTopic[s] \in snap[n]
    \/ s \in todo[n]

\* When nobody is publishing on a topic, each of its subscriptions (of a node
\* that has not been stopped) has taken the last message of the segment, or is
\* about to: its event bit is set or the loop is on its way to read it.
\* (node.cpp: only the events that were processed are cleared, so that one
\* triggered meanwhile is not lost.)
NoLostUpdate ==
    \A s \in Subs :
        LET t == SubTopic[s] IN
        ~spinning[SubNode[s]] \/ Publishing(t) \/ t \in flags \/ Due(s) \/ msg[s] = seg[t]

\* A callback is never queued without a trigger of its own: one trigger is
\* at most one read of each subscription.
NoSpuriousRead == \A s \in Subs : captures[s] <= raises[SubTopic[s]]

\* The registry_mutex_ of a node is held by its loop, or by a publisher of
\* the node that is setting a bit, and by nobody else: it is what keeps a
\* trigger of the same node from falling between the read and the clear.
RegistryExclusive ==
    \A n \in Nodes :
        /\ spc[n] \in {"read", "read2", "clear"} <=> registry[n] = n
        /\ \A p \in Publishers : registry[n] = p <=> PubNode[p] = n /\ ppc[p] = "raise"

\* Neither half of message m is newer than that of k.
UpTo(m, k) == m[1] <= k[1] /\ m[2] <= k[2]

\* The callbacks of a subscription begin in the order of their messages: none
\* that waits is behind a newer one, a worker has a newer one, or has finished
\* it, whatever halves were read.  So a callback overtakes another only while
\* two workers run them.
BegunInOrder ==
    \A n \in Nodes : \A j \in DOMAIN queue[n] :
        LET k == queue[n][j] IN
        /\ \A i \in 1 .. j - 1 : queue[n][i].sub = k.sub => UpTo(queue[n][i].msg, k.msg)
        /\ \A i \in 1 .. NumWorkers :
              running[n][i] # NoTask /\ running[n][i].sub = k.sub => UpTo(running[n][i].msg, k.msg)
        /\ delivered[k.sub] <= k.msg[1]
        /\ UpTo(k.msg, msg[k.sub])

\* No copy of a message is a mixture of two.  (README.md: ReadUnlocked is for
\* a caller that holds the lock.)
NoTornMessage == \A s \in Subs : Whole(msg[s])

\* Every message that was published, or a newer one, reaches the callback of
\* every subscription of its topic, unless the node is stopped.
EventuallyDelivered ==
    \A s \in Subs : \A v \in Version :
        sent[SubTopic[s]] >= v /\ ~Publishing(SubTopic[s])
            ~> delivered[s] >= v \/ ~spinning[SubNode[s]]

\* stop() ends the loop, and returns.
NodeStops == \A n \in Nodes : ~spinning[n] ~> spc[n] = "ended" /\ stopping[n] = "stopped"

\* Once a node has been stopped no task is left undone in its pool.
\* (node.cpp: the pool is stopped first, to make sure that all are.)
AllTasksDone ==
    \A n \in Nodes : spc[n] = "ended" /\ stopping[n] = "stopped" => queue[n] = <<>>

-----------------------------------------------------------------------------
\* What TaskPool calls stage.
stageBar == [n \in Nodes |-> IF stopping[n] = "stopped" THEN "stopped"
                            ELSE IF stopping[n] = "pool" THEN "stopping" ELSE "open"]

Pool(n) == INSTANCE TaskPool WITH Workers <- 1 .. NumWorkers, Tasks <- Task,
                                  queue <- queue[n], running <- running[n],
                                  exited <- exited[n], stage <- stageBar[n]

\* Each node has the pool that ThreadPool implements: its steps are those of
\* the pool, or leave it alone.
PoolsSpec ==
    /\ \A n \in Nodes : Pool(n)!Init
    /\ [][\A n \in Nodes : Pool(n)!Next \/ UNCHANGED Pool(n)!vars]_vars

=============================================================================
