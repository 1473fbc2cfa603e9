------------------------------ MODULE TaskPool ------------------------------
(***************************************************************************)
(* What ThreadPool promises to those that use it: a queue from which each  *)
(* worker takes the oldest task as soon as it has none, every call taking  *)
(* effect at a single instant.  Once the pool is being stopped a worker    *)
(* leaves, but only when nothing is queued, and stop() returns when all    *)
(* have left.  A task that comes after that stays in the queue.            *)
(***************************************************************************)
EXTENDS Sequences

CONSTANTS Workers, Tasks, NoTask

VARIABLES
    queue,     \* the tasks that wait
    running,   \* the task of each worker, or NoTask
    exited,    \* the workers that have left
    stage      \* of stop(): open, stopping, stopped

vars == <<queue, running, exited, stage>>

Init ==
    /\ queue = <<>>
    /\ running = [w \in Workers |-> NoTask]
    /\ exited = {}
    /\ stage = "open"

Enqueue(k) ==
    /\ queue' = Append(queue, k)
    /\ UNCHANGED <<running, exited, stage>>

\* A worker that is there and has no task.
Free(w) == w \notin exited /\ running[w] = NoTask

Take(w) ==
    /\ Free(w)
    /\ queue # <<>>
    /\ running' = [running EXCEPT ![w] = Head(queue)]
    /\ queue' = Tail(queue)
    /\ UNCHANGED <<exited, stage>>

\* The task has run to its end.
Finish(w) ==
    /\ running[w] # NoTask
    /\ running' = [running EXCEPT ![w] = NoTask]
    /\ UNCHANGED <<queue, exited, stage>>

\* stop(), or the destructor; not always the first one.
Stop ==
    /\ stage # "stopping"
    /\ stage' = "stopping"
    /\ UNCHANGED <<queue, running, exited>>

Exit(w) ==
    /\ stage = "stopping"
    /\ Free(w)
    /\ queue = <<>>
    /\ exited' = exited \cup {w}
    /\ UNCHANGED <<queue, running, stage>>

StopReturns ==
    /\ stage = "stopping"
    /\ exited = Workers
    /\ stage' = "stopped"
    /\ UNCHANGED <<queue, running, exited>>

Next ==
    \/ \E k \in Tasks : Enqueue(k)
    \/ \E w \in Workers : Take(w) \/ Finish(w) \/ Exit(w)
    \/ Stop \/ StopReturns

Spec == Init /\ [][Next]_vars

-----------------------------------------------------------------------------
\* When stop() has returned no task is running, and none will be run.
QuietWhenStopped == stage = "stopped" => \A w \in Workers : ~Free(w) /\ running[w] = NoTask

=============================================================================
