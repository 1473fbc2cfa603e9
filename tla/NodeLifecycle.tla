--------------------------- MODULE NodeLifecycle ---------------------------
(***************************************************************************)
(* The life of a Node in its process: the constructor, spin(), the timers  *)
(* that spinLoop turns into tasks, stop(), the signal handler that calls   *)
(* it, and the destructor.                                                 *)
(*                                                                         *)
(* A stop() is made by a signal handler, by another thread of the          *)
(* application, or by a timer's callback on a worker; the destructor stops *)
(* the pool too.  A handler interrupts whatever its thread was doing and   *)
(* the thread goes on when the handler has returned.  The system gives a   *)
(* signal to the main thread; a second one while the first is handled      *)
(* interrupts the handler, or, when main has it blocked, another thread.   *)
(*                                                                         *)
(* The pool is the one of ThreadPool, with sleeping and waking left out.   *)
(* Left out of spinLoop are the events of subscriptions (PubSub); out of   *)
(* the constructor and the destructor, the registry (NodeRegistry) and the *)
(* segments (ShmLifecycle); the heartbeat thread, which nothing starts.    *)
(***************************************************************************)
EXTENDS Integers, Sequences, FiniteSets, SequencesExt

CONSTANTS
    WorkerOrder,    \* the workers of the pool, in the order stop joins them
    Timers,         \* the timers, in the order of timers_
    StoppingTimers, \* those whose callback may call stop()
    Signals,        \* the signals that may arrive
    Apps,           \* other threads that may call stop(), once each
    MaxSpins,       \* bound: calls of spin()
    MaxQueue,       \* bound: tasks waiting when a period elapses
    Nobody          \* no context, no task

Workers == Range(WorkerOrder)
TimerSet == Range(Timers)

ASSUME LifecycleAssumption ==
    /\ WorkerOrder \in Seq(Workers) /\ IsInjective(WorkerOrder) /\ WorkerOrder # <<>>
    /\ Timers \in Seq(TimerSet) /\ IsInjective(Timers)
    /\ {"main", "spin", "events"} \cap (Workers \cup Signals \cup Apps) = {}
    /\ Workers \cap Signals = {} /\ Workers \cap Apps = {} /\ Signals \cap Apps = {}
    /\ StoppingTimers \subseteq TimerSet
    /\ MaxSpins \in Nat /\ MaxQueue \in Nat
    /\ Nobody \notin Workers \cup Signals \cup Apps \cup TimerSet
    /\ Nobody \notin {"main", "spin", "events"}

\* Who may be inside stop(), or the destructor's stop of the pool.
Contexts == {"main"} \cup Signals \cup Apps \cup Workers
Threads == {"main", "spin", "events"} \cup Apps \cup Workers

VARIABLES
    phase,      \* where main is
    hooked,     \* the handlers are installed and signal_handler_node_ set
    pool,       \* thread_pool_: none, up, gone
    spins,      \* how often spin() was called
    stop,       \* stop_ of the pool
    holder,     \* who is in the critical section of ThreadPool::stop
    joiner,     \* who is waiting in join for each worker
    joined,     \* the workers that are no longer joinable
    exited,     \* the workers that have left their loop
    queue,      \* the tasks waiting: the timer each belongs to
    running,    \* the task of each worker
    spinning,   \* spinning_
    sp,         \* where the spin thread is
    visit,      \* the timer it is looking at
    due,        \* the timers whose period has elapsed
    events,     \* the thread of the EventManager
    at,         \* where each context is in stop()
    over,       \* what each handler has interrupted, and on which thread
    told,       \* a stop() has begun while the node was spinning (history)
    disorderly, \* a stop() out of turn has begun (history)
    failed      \* the process has died: an exception, a null pointer

poolVars == <<stop, holder, joiner, joined, exited, queue, running>>
spinVars == <<sp, visit, due>>
mainVars == <<phase, hooked, pool, spins, events>>
stopVars == <<at, over, told, disorderly, failed>>
vars == <<mainVars, poolVars, spinVars, spinning, stopVars>>

Idle == {"no", "done"}
Stopping(c) == at[c] \notin Idle

TypeOK ==
    /\ phase \in {"new", "register", "make", "ready", "spin", "back", "destroy",
                  "unregister", "unhook", "events", "dead"}
    /\ hooked \in BOOLEAN
    /\ pool \in {"none", "up", "gone"}
    /\ spins \in 0 .. MaxSpins
    /\ stop \in BOOLEAN
    /\ holder \in Contexts \cup {Nobody}
    /\ joiner \in [Workers -> Contexts \cup {Nobody}]
    /\ joined \subseteq exited /\ exited \subseteq Workers
    /\ queue \in Seq(TimerSet)
    /\ running \in [Workers -> TimerSet \cup {Nobody}]
    /\ spinning \in BOOLEAN
    /\ sp \in {"none", "test", "wait", "timer", "enqueue", "ended"}
    /\ visit \in 1 .. Len(Timers) + 1
    /\ due \subseteq TimerSet
    /\ events \in {"loop", "told", "ended"}
    /\ at \in [Contexts -> {"no", "pool", "critical", "join", "notify", "done"}]
    /\ over \in [Signals -> [what : Contexts \cup Threads \cup {Nobody},
                             thread : Threads \cup {Nobody}]]
    /\ told \in BOOLEAN /\ disorderly \in BOOLEAN /\ failed \in BOOLEAN

Init ==
    /\ phase = "new"
    /\ hooked = FALSE
    /\ pool = "none"
    /\ spins = 0
    /\ stop = FALSE
    /\ holder = Nobody
    /\ joiner = [w \in Workers |-> Nobody]
    /\ joined = {} /\ exited = {}
    /\ queue = <<>>
    /\ running = [w \in Workers |-> Nobody]
    /\ spinning = FALSE
    /\ sp = "none"
    /\ visit = 1
    /\ due = {}
    /\ events = "loop"
    /\ at = [c \in Contexts |-> "no"]
    /\ over = [s \in Signals |-> [what |-> Nobody, thread |-> Nobody]]
    /\ told = FALSE /\ disorderly = FALSE /\ failed = FALSE

\* The context, or thread, c is running: no handler has interrupted it, and
\* the process is alive.
Runs(c) == ~failed /\ \A s \in Signals : ~(Stopping(s) /\ over[s].what = c)

\* The thread on which a context runs.
ThreadOf(c) == IF c \in Signals THEN over[c].thread ELSE c

-----------------------------------------------------------------------------
(* stop().                                                                 *)

\* A stop begins: is the pool there, does nobody else stop it, and is this
\* not a task of the pool itself?
Begins(c) ==
    /\ told' = (told \/ spinning)
    /\ disorderly' = (\/ disorderly
                      \/ pool # "up"
                      \/ c \in Workers
                      \/ \E d \in Contexts : Stopping(d))

\* The process dies.
Dies == failed' = TRUE /\ UNCHANGED <<at, over, told, disorderly>>

\* A signal arrives; the handler interrupts its thread and, when
\* signal_handler_node_ is set, calls stop(): spinning_ is reset.
Deliver(s) ==
    /\ hooked
    /\ at[s] = "no"
    /\ \E c \in Threads \cup Signals :
        /\ Runs(c)
        /\ c \in Signals => Stopping(c)
        /\ c = "spin" => sp \notin {"none", "ended"}
        /\ c = "events" => events # "ended"
        /\ c \in Workers => pool = "up" /\ c \notin exited
        /\ \/ ThreadOf(c) = "main"
           \/ \E d \in Signals : Stopping(d) /\ over[d].thread = "main"
        /\ over' = [over EXCEPT ![s] = [what |-> c, thread |-> ThreadOf(c)]]
    /\ spinning' = FALSE
    /\ at' = [at EXCEPT ![s] = "pool"]
    /\ Begins(s)
    /\ UNCHANGED <<failed, mainVars, poolVars, spinVars>>

\* Another thread of the application calls stop() on the node, which has
\* been constructed and has not begun to be destroyed.
AppStop(a) ==
    /\ Runs(a)
    /\ phase \in {"ready", "spin", "back"}
    /\ at[a] = "no"
    /\ spinning' = FALSE
    /\ at' = [at EXCEPT ![a] = "pool"]
    /\ Begins(a)
    /\ UNCHANGED <<over, failed, mainVars, poolVars, spinVars>>

\* So may the callback of a timer, on the worker that runs it.
CallbackStop(w) ==
    /\ running[w] \in StoppingTimers
    /\ at[w] = "no"
    /\ spinning' = FALSE
    /\ at' = [at EXCEPT ![w] = "pool"]
    /\ Begins(w)
    /\ UNCHANGED <<over, failed, mainVars, poolVars, spinVars>>

\* thread_pool_->stop(): the mutex is taken and stop_ set.
EnterPool(c) ==
    /\ at[c] = "pool"
    /\ pool = "up"
    /\ holder = Nobody
    /\ holder' = c
    /\ stop' = TRUE
    /\ at' = [at EXCEPT ![c] = "critical"]
    /\ UNCHANGED <<joiner, joined, exited, queue, running, over, told, disorderly,
                   failed, mainVars, spinVars, spinning>>

\* There is no pool, or no longer.
NullPool(c) ==
    /\ at[c] = "pool"
    /\ pool # "up"
    /\ Dies
    /\ UNCHANGED <<mainVars, poolVars, spinVars, spinning>>

\* All are notified, the mutex is released.
LeavePool(c) ==
    /\ at[c] = "critical"
    /\ holder' = Nobody
    /\ at' = [at EXCEPT ![c] = "join"]
    /\ UNCHANGED <<stop, joiner, joined, exited, queue, running, over, told,
                   disorderly, failed, mainVars, spinVars, spinning>>

\* The places of the workers that are still joinable, and the worker that
\* stop() joins next.
Rest == {i \in 1 .. Len(WorkerOrder) : WorkerOrder[i] \notin joined}
NextWorker == WorkerOrder[Min(Rest)]

\* join, which another thread may be in as well, or the worker itself: both
\* are errors that std::thread reports with an exception.
Join(c) ==
    /\ at[c] = "join"
    /\ Rest # {}
    /\ joiner[NextWorker] # c
    /\ IF joiner[NextWorker] # Nobody \/ ThreadOf(c) = NextWorker
       THEN Dies /\ UNCHANGED joiner
       ELSE joiner' = [joiner EXCEPT ![NextWorker] = c] /\ UNCHANGED stopVars
    /\ UNCHANGED <<stop, holder, joined, exited, queue, running, mainVars, spinVars,
                   spinning>>

\* The worker has ended.
Joined(c) ==
    /\ at[c] = "join"
    /\ Rest # {}
    /\ joiner[NextWorker] = c
    /\ NextWorker \in exited
    /\ joiner' = [joiner EXCEPT ![NextWorker] = Nobody]
    /\ joined' = joined \cup {NextWorker}
    /\ UNCHANGED <<stop, holder, exited, queue, running, stopVars, mainVars, spinVars,
                   spinning>>

\* No worker is joinable; the destructor goes on, a stop() has yet to wake
\* the sleepers of the event segment.
AllJoined(c) ==
    /\ at[c] = "join"
    /\ Rest = {}
    /\ at' = [at EXCEPT ![c] = IF c = "main" THEN "done" ELSE "notify"]
    /\ UNCHANGED <<over, told, disorderly, failed, mainVars, poolVars, spinVars, spinning>>

\* notifyAllWaiters, of an ShmManager that must still be there.
NotifyWaiters(c) ==
    /\ at[c] = "notify"
    /\ IF phase = "dead" THEN Dies
       ELSE at' = [at EXCEPT ![c] = "done"] /\ UNCHANGED <<over, told, disorderly, failed>>
    /\ UNCHANGED <<mainVars, poolVars, spinVars, spinning>>

StopStep(c) ==
    /\ Runs(c)
    /\ \/ EnterPool(c) \/ NullPool(c) \/ LeavePool(c)
       \/ Join(c) \/ Joined(c) \/ AllJoined(c) \/ NotifyWaiters(c)

-----------------------------------------------------------------------------
(* The main thread: constructor, spin(), destructor.                       *)

\* The segments and the registry are there; the handlers are installed, and
\* signal_handler_node_ points to the node.
InstallHandlers ==
    /\ phase = "new"
    /\ phase' = "register"
    /\ hooked' = TRUE
    /\ UNCHANGED <<pool, spins, events, poolVars, spinVars, spinning, stopVars>>

\* registerNode.
Register ==
    /\ phase = "register"
    /\ phase' = "make"
    /\ UNCHANGED <<hooked, pool, spins, events, poolVars, spinVars, spinning, stopVars>>

\* The pool and its workers; the application then creates its timers.
MakePool ==
    /\ phase = "make"
    /\ pool' = "up"
    /\ phase' = "ready"
    /\ UNCHANGED <<hooked, spins, events, poolVars, spinVars, spinning, stopVars>>

\* spin(): unless it is already, the node is spinning, whatever has been
\* stopped before; the loop has its own thread,
SpinBegins ==
    /\ phase \in {"ready", "back"}
    /\ spins < MaxSpins
    /\ ~spinning
    /\ spins' = spins + 1
    /\ spinning' = TRUE
    /\ sp' = "test"
    /\ phase' = "spin"
    /\ UNCHANGED <<hooked, pool, events, poolVars, visit, due, stopVars>>

\* for which spin() waits.
SpinReturns ==
    /\ phase = "spin"
    /\ sp = "ended"
    /\ phase' = "back"
    /\ UNCHANGED <<hooked, pool, spins, events, poolVars, spinVars, spinning, stopVars>>

\* MUTANT of Destroy: a pool that was told to stop is not waited for.
Destroy_Stopped ==
    /\ phase \in {"ready", "back"}
    /\ IF stop THEN phase' = "unregister" /\ UNCHANGED <<at, told, disorderly>>
       ELSE /\ phase' = "destroy"
            /\ at' = [at EXCEPT !["main"] = "pool"]
            /\ Begins("main")
    /\ UNCHANGED <<hooked, pool, spins, events, poolVars, spinVars, spinning, over, failed>>

\* The destructor stops the pool, as stop() does,
Destroy ==
    /\ phase \in {"ready", "back"}
    /\ phase' = "destroy"
    /\ at' = [at EXCEPT !["main"] = "pool"]
    /\ Begins("main")
    /\ UNCHANGED <<hooked, pool, spins, events, poolVars, spinVars, spinning, over, failed>>

\* and, when all workers are joined, destroys it.
ReleasePool ==
    /\ phase = "destroy"
    /\ at["main"] = "done"
    /\ holder = Nobody
    /\ pool' = "gone"
    /\ phase' = "unregister"
    /\ UNCHANGED <<hooked, spins, events, poolVars, spinVars, spinning, stopVars>>

\* unregisterNode.
Unregister ==
    /\ phase = "unregister"
    /\ phase' = "unhook"
    /\ UNCHANGED <<hooked, pool, spins, events, poolVars, spinVars, spinning, stopVars>>

\* signal_handler_node_ is reset.  The members are destroyed next, the
\* EventManager telling its thread to end
Unhook ==
    /\ phase = "unhook"
    /\ hooked' = FALSE
    /\ events' = "told"
    /\ phase' = "events"
    /\ UNCHANGED <<pool, spins, poolVars, spinVars, spinning, stopVars>>

\* and waiting for it.
Destroyed ==
    /\ phase = "events"
    /\ events = "ended"
    /\ phase' = "dead"
    /\ UNCHANGED <<hooked, pool, spins, events, poolVars, spinVars, spinning, stopVars>>

Main ==
    /\ Runs("main")
    /\ \/ InstallHandlers \/ Register \/ MakePool \/ SpinBegins \/ SpinReturns
       \/ Destroy \/ ReleasePool \/ Unregister \/ Unhook \/ Destroyed

-----------------------------------------------------------------------------
(* The other threads of the node, and time.                                *)

\* EventManager::run wakes up once a second, and ends when it was told to.
EventsEnd ==
    /\ Runs("events")
    /\ events = "told"
    /\ events' = "ended"
    /\ UNCHANGED <<phase, hooked, pool, spins, poolVars, spinVars, spinning, stopVars>>

\* The period of a timer has elapsed.
Elapse(t) ==
    /\ ~failed
    /\ sp \notin {"none", "ended"}
    /\ t \notin due
    /\ Len(queue) < MaxQueue
    /\ due' = due \cup {t}
    /\ UNCHANGED <<mainVars, poolVars, sp, visit, spinning, stopVars>>

\* MUTANT of SpinTest: the loop runs for ever.
SpinTest_Always ==
    /\ sp \in {"test", "wait"}
    /\ sp' = IF sp = "test" THEN "wait" ELSE "timer"
    /\ visit' = 1
    /\ UNCHANGED <<mainVars, poolVars, due, spinning, stopVars>>

\* spinLoop tests spinning_ before waitForEvent, which returns in 100 ms, and
\* after it.
SpinTest ==
    /\ sp \in {"test", "wait"}
    /\ sp' = IF ~spinning THEN "ended" ELSE IF sp = "test" THEN "wait" ELSE "timer"
    /\ visit' = 1
    /\ UNCHANGED <<mainVars, poolVars, due, spinning, stopVars>>

\* The loop goes on with the next timer.
Ready == visit <= Len(Timers) /\ Timers[visit] \in due

\* isReady starts the next period of a timer that is due, whether its task is
\* then enqueued or not.
Visit ==
    /\ sp = "timer"
    /\ due' = IF Ready THEN due \ {Timers[visit]} ELSE due
    /\ sp' = IF Ready /\ pool = "up" /\ spinning THEN "enqueue"
             ELSE IF visit > Len(Timers) THEN "test" ELSE "timer"
    /\ visit' = IF visit > Len(Timers) THEN 1
                ELSE IF sp' = "enqueue" THEN visit ELSE visit + 1
    /\ UNCHANGED <<mainVars, poolVars, spinning, stopVars>>

\* MUTANT of Enqueue: the task is dropped.
Enqueue_Dropped ==
    /\ sp = "enqueue"
    /\ holder = Nobody
    /\ sp' = "timer"
    /\ visit' = visit + 1
    /\ UNCHANGED <<queue, stop, holder, joiner, joined, exited, running, mainVars,
                   due, spinning, stopVars>>

\* The task of the timer goes to the pool.
Enqueue ==
    /\ sp = "enqueue"
    /\ holder = Nobody
    /\ queue' = Append(queue, Timers[visit])
    /\ sp' = "timer"
    /\ visit' = visit + 1
    /\ UNCHANGED <<stop, holder, joiner, joined, exited, running, mainVars, due,
                   spinning, stopVars>>

Spin == Runs("spin") /\ (SpinTest \/ Visit \/ Enqueue)

\* A worker takes the oldest task,
Take(w) ==
    /\ running[w] = Nobody
    /\ queue # <<>>
    /\ holder = Nobody
    /\ running' = [running EXCEPT ![w] = Head(queue)]
    /\ queue' = Tail(queue)
    /\ UNCHANGED <<stop, holder, joiner, joined, exited, mainVars, spinVars, spinning,
                   stopVars>>

\* runs the callback of its timer,
Run(w) ==
    /\ running[w] \in TimerSet
    /\ at[w] = "no"
    /\ running' = [running EXCEPT ![w] = Nobody]
    /\ UNCHANGED <<stop, holder, joiner, joined, exited, queue, mainVars, spinVars,
                   spinning, stopVars>>

\* or ends, when the pool is stopped and nothing is left to do.
Exit(w) ==
    /\ running[w] = Nobody
    /\ stop
    /\ queue = <<>>
    /\ holder = Nobody
    /\ exited' = exited \cup {w}
    /\ UNCHANGED <<stop, holder, joiner, joined, queue, running, mainVars, spinVars,
                   spinning, stopVars>>

Worker(w) ==
    /\ pool = "up"
    /\ w \notin exited
    /\ Runs(w)
    /\ Take(w) \/ Run(w) \/ CallbackStop(w) \/ Exit(w)

-----------------------------------------------------------------------------
Next ==
    \/ Main \/ Spin \/ EventsEnd
    \/ \E w \in Workers : Worker(w)
    \/ \E c \in Contexts : StopStep(c)
    \/ \E s \in Signals : Deliver(s)
    \/ \E a \in Apps : AppStop(a)
    \/ \E t \in TimerSet : Elapse(t)

Spec == Init /\ [][Next]_vars

\* Threads are scheduled and time passes; main, its node constructed, calls
\* spin() or destroys it.  Nobody has to call stop() and no signal to arrive.
Fairness ==
    /\ WF_vars(Main)
    /\ WF_vars(Spin)
    /\ WF_vars(EventsEnd)
    /\ \A w \in Workers : WF_vars(Worker(w))
    /\ \A c \in Contexts : WF_vars(StopStep(c))
    /\ \A t \in TimerSet : WF_vars(Elapse(t))

FairSpec == Spec /\ Fairness

-----------------------------------------------------------------------------
\* The process dies of a stop() only if one has begun out of turn: without a
\* pool (a signal in the constructor or the destructor), during another one,
\* or in a task of the pool.  So any number of calls, one after the other, of
\* handlers, threads and the destructor, is safe.
SafeStop == failed => disorderly

\* A stop() that begins while the node is spinning ends the loop: spin()
\* returns, and the destructor completes.  (node.cpp:30-32: the program is to
\* end normally, so that the destructor cleans up.)
StopEndsNode == told ~> phase = "dead" \/ disorderly

\* A timer whose period has elapsed has its callback run, unless the node is
\* stopped.
TimersRun ==
    \A t \in TimerSet :
        t \in due /\ spinning ~> stop \/ ~spinning \/ \E w \in Workers : running[w] = t

\* No stop() kills the process.  (node.cpp:30-32: it is to end normally.)
NeverFails == ~failed

\* A constructed node that has received a signal is destroyed in the end.
\* (node.cpp:30-32: the program is to leave, and the destructor to clean up.)
SignalEndsNode ==
    \A s \in Signals : at[s] # "no" /\ pool = "up" ~> phase = "dead"

-----------------------------------------------------------------------------
\* What TaskPool calls stage: stop() returns when all workers are joined.
stageBar == IF ~stop THEN "open" ELSE IF joined = Workers THEN "stopped" ELSE "stopping"

Pool == INSTANCE TaskPool WITH Tasks <- TimerSet, NoTask <- Nobody, stage <- stageBar

\* Whatever stops there are, in turn or not, the node's pool is the one that
\* ThreadPool implements.
PoolSpec == Pool!Spec

=============================================================================
