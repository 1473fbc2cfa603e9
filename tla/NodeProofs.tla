----------------------------- MODULE NodeProofs -----------------------------
(***************************************************************************)
(* Theorems about a node: its life (NodeLifecycle), for any number of      *)
(* workers, timers, signals, and threads that call stop(); and its mutexes *)
(* (NodeLocks), for any number of threads.                                 *)
(***************************************************************************)
EXTENDS NodeLifecycle, NodeLocks, SequenceTheorems, WellFoundedInduction, TLAPS

\* The pool is there from the end of the constructor until the destructor has
\* stopped it.
PhaseInv == pool = "up" <=> phase \in {"ready", "spin", "back", "destroy"}

\* A task is being queued for one of the timers.
VisitInv == sp = "enqueue" => visit \in 1 .. Len(Timers)

\* As long as every stop() has begun in turn: one at a time, with a pool to
\* stop, not on a worker.  A handler has interrupted main, which stands still;
\* another thread is not in stop() while main destroys the node.
OneStop ==
    /\ \A c, d \in Contexts : Stopping(c) /\ Stopping(d) => c = d
    /\ \A c \in Contexts : Stopping(c) => c \notin Workers /\ pool = "up"
    /\ \A a \in Apps : Stopping(a) => phase # "destroy"
    /\ \A s \in Signals : Stopping(s) => over[s].what = "main" /\ over[s].thread = "main"

\* Who joins a worker that has not been joined is at it.
JoinInv ==
    \A w \in Workers : joiner[w] # Nobody => w \notin joined /\ at[joiner[w]] = "join"

InTurn == ~disorderly => ~failed /\ OneStop /\ JoinInv

IInv == TypeOK /\ PhaseInv /\ VisitInv /\ InTurn

-----------------------------------------------------------------------------
\* The worker that stop() joins next is one that has not been joined, and when
\* there is none all of them have.
LEMMA MinOfNats ==
  ASSUME NEW S, S \subseteq Nat, S # {}
  PROVE  Min(S) \in S
  <1>1. PICK x \in S : \A y \in S : ~(<<y, x>> \in OpToRel(<, Nat))
    BY NatLessThanWellFounded, WFMin
  <1>2. \A y \in S : x <= y
    <2>1. \A y \in S : x \in Nat /\ y \in Nat /\ ~(y < x)
      BY <1>1 DEF OpToRel
    <2> QED BY <2>1
  <1> QED BY <1>2 DEF Min

LEMMA Places ==
  /\ Len(WorkerOrder) \in Nat /\ DOMAIN WorkerOrder = 1 .. Len(WorkerOrder)
  /\ \A i \in 1 .. Len(WorkerOrder) : WorkerOrder[i] \in Workers
  /\ \A w \in Workers : \E i \in 1 .. Len(WorkerOrder) : w = WorkerOrder[i]
  <1>1. WorkerOrder \in Seq(Workers)
    BY LifecycleAssumption
  <1>2. Len(WorkerOrder) \in Nat /\ DOMAIN WorkerOrder = 1 .. Len(WorkerOrder)
    BY <1>1, LenProperties
  <1> QED BY <1>1, <1>2, ElementOfSeq DEF Workers, Range

LEMMA NextIsLeft ==
  /\ Rest # {} => NextWorker \in Workers \ joined
  /\ Rest = {} => Workers \subseteq joined
  <1>1. ASSUME Rest # {} PROVE NextWorker \in Workers \ joined
    <2>1. Rest \subseteq Nat
      BY Places DEF Rest
    <2>2. Min(Rest) \in Rest
      BY <1>1, <2>1, MinOfNats
    <2> QED BY <2>2, Places DEF Rest, NextWorker
  <1>2. ASSUME Rest = {} PROVE Workers \subseteq joined
    BY <1>2, Places DEF Rest
  <1> QED BY <1>1, <1>2

LEMMA TimerPlaces ==
  /\ Len(Timers) \in Nat
  /\ \A i \in 1 .. Len(Timers) : Timers[i] \in TimerSet
  BY LifecycleAssumption, LenProperties, ElementOfSeq

LEMMA Apart ==
  /\ Contexts = {"main"} \cup Signals \cup Apps \cup Workers
  /\ Threads = {"main", "spin", "events"} \cup Apps \cup Workers
  /\ "main" \notin Workers \cup Signals \cup Apps
  /\ Workers \cap Signals = {} /\ Workers \cap Apps = {} /\ Signals \cap Apps = {}
  /\ Nobody \notin Contexts \cup Threads \cup TimerSet
  BY LifecycleAssumption DEF Contexts, Threads

-----------------------------------------------------------------------------
LEMMA InitIInv == Init => IInv
  <1> SUFFICES ASSUME Init PROVE IInv
    OBVIOUS
  <1>1. 1 \in 1 .. Len(Timers) + 1 /\ 0 \in 0 .. MaxSpins
    BY TimerPlaces, LifecycleAssumption
  <1>2. TypeOK
    BY <1>1, EmptySeq DEF Init, TypeOK
  <1>3. PhaseInv /\ VisitInv /\ InTurn
    <2>1. PhaseInv /\ VisitInv /\ JoinInv /\ ~failed
      BY DEF Init, PhaseInv, VisitInv, JoinInv
    <2>2. \A c \in Contexts : ~Stopping(c)
      BY DEF Init, Stopping, Idle
    <2>3. OneStop
      BY <2>2, Apart DEF OneStop
    <2> QED BY <2>1, <2>3 DEF InTurn
  <1> QED BY <1>2, <1>3 DEF IInv

-----------------------------------------------------------------------------
\* Typing: the steps of stop(),
LEMMA TypeOfStops ==
  ASSUME IInv, NEW c \in Contexts, StopStep(c)
  PROVE  TypeOK'
  <1> USE Apart DEF IInv, TypeOK, poolVars, spinVars, mainVars, stopVars, Dies
  <1>1. CASE EnterPool(c)
    BY <1>1 DEF EnterPool
  <1>2. CASE NullPool(c)
    BY <1>2 DEF NullPool
  <1>3. CASE LeavePool(c)
    BY <1>3 DEF LeavePool
  <1>4. CASE Join(c)
    <2>1. joiner' \in [Workers -> Contexts \cup {Nobody}]
      BY <1>4 DEF Join
    <2>2. UNCHANGED <<at, over, told, disorderly>> /\ failed' \in BOOLEAN
      BY <1>4 DEF Join
    <2> QED BY <1>4, <2>1, <2>2 DEF Join
  <1>5. CASE Joined(c)
    BY <1>5 DEF Joined
  <1>6. CASE AllJoined(c)
    BY <1>6 DEF AllJoined
  <1>7. CASE NotifyWaiters(c)
    <2>1. /\ at' \in [Contexts -> {"no", "pool", "critical", "join", "notify", "done"}]
          /\ UNCHANGED <<over, told, disorderly>> /\ failed' \in BOOLEAN
      BY <1>7 DEF NotifyWaiters
    <2> QED BY <1>7, <2>1 DEF NotifyWaiters
  <1> QED BY <1>1, <1>2, <1>3, <1>4, <1>5, <1>6, <1>7 DEF StopStep

\* their beginnings,
LEMMA TypeOfBeginning ==
  ASSUME IInv, NEW c \in Contexts, Begins(c),
         at' = [at EXCEPT ![c] = "pool"], spinning' \in BOOLEAN,
         over' \in [Signals -> [what : Contexts \cup Threads \cup {Nobody},
                                thread : Threads \cup {Nobody}]],
         UNCHANGED <<hooked, pool, spins, events, failed, poolVars, spinVars>>,
         phase' \in {phase, "destroy"}
  PROVE  TypeOK'
  <1> USE Apart DEF IInv, TypeOK
  <1>1. told' \in BOOLEAN /\ disorderly' \in BOOLEAN
    BY DEF Begins
  <1>2. at' \in [Contexts -> {"no", "pool", "critical", "join", "notify", "done"}]
    OBVIOUS
  <1> QED BY <1>1, <1>2 DEF poolVars, spinVars

LEMMA TypeOfBeginnings ==
  ASSUME IInv,
         \/ \E s \in Signals : Deliver(s)
         \/ \E a \in Apps : AppStop(a)
         \/ \E w \in Workers : CallbackStop(w)
         \/ Destroy
  PROVE  TypeOK'
  <1> USE Apart DEF IInv, TypeOK
  <1>1. ASSUME NEW s \in Signals, Deliver(s) PROVE TypeOK'
    <2>1. PICK c \in Threads \cup Signals :
            over' = [over EXCEPT ![s] = [what |-> c, thread |-> ThreadOf(c)]]
      BY <1>1 DEF Deliver
    <2>2. ThreadOf(c) \in Threads \cup {Nobody}
      BY DEF ThreadOf
    <2>3. over' \in [Signals -> [what : Contexts \cup Threads \cup {Nobody},
                                 thread : Threads \cup {Nobody}]]
      BY <2>1, <2>2
    <2> QED BY <1>1, <2>3, TypeOfBeginning DEF Deliver, mainVars
  <1>2. ASSUME NEW a \in Apps, AppStop(a) PROVE TypeOK'
    BY <1>2, TypeOfBeginning DEF AppStop, mainVars
  <1>3. ASSUME NEW w \in Workers, CallbackStop(w) PROVE TypeOK'
    BY <1>3, TypeOfBeginning DEF CallbackStop, mainVars
  <1>4. CASE Destroy
    BY <1>4, TypeOfBeginning DEF Destroy
  <1> QED BY <1>1, <1>2, <1>3, <1>4

\* the main thread,
LEMMA TypeOfMain ==
  ASSUME IInv, Main
  PROVE  TypeOK'
  <1> USE Apart DEF IInv, TypeOK, poolVars, spinVars, stopVars
  <1>1. CASE InstallHandlers
    BY <1>1 DEF InstallHandlers
  <1>5. CASE Register
    BY <1>5 DEF Register
  <1>6. CASE MakePool
    BY <1>6 DEF MakePool
  <1>7. CASE SpinReturns
    BY <1>7 DEF SpinReturns
  <1>2. CASE SpinBegins
    <2>1. spins + 1 \in 0 .. MaxSpins
      BY <1>2, LifecycleAssumption DEF SpinBegins
    <2> QED BY <1>2, <2>1 DEF SpinBegins
  <1>3. CASE Destroy
    BY <1>3, TypeOfBeginnings
  <1>4. CASE ReleasePool
    BY <1>4 DEF ReleasePool
  <1>8. CASE Unregister
    BY <1>8 DEF Unregister
  <1>9. CASE Unhook
    BY <1>9 DEF Unhook
  <1>10. CASE Destroyed
    BY <1>10 DEF Destroyed
  <1> QED BY <1>1, <1>2, <1>3, <1>4, <1>5, <1>6, <1>7, <1>8, <1>9, <1>10 DEF Main

\* and the other threads of the node.
LEMMA TypeOfThreads ==
  ASSUME IInv,
         \/ Spin \/ EventsEnd
         \/ \E w \in Workers : Take(w) \/ Run(w) \/ Exit(w)
         \/ \E t \in TimerSet : Elapse(t)
  PROVE  TypeOK' /\ VisitInv'
  <1> USE Apart, TimerPlaces DEF IInv, TypeOK, VisitInv, poolVars, spinVars, mainVars, stopVars
  <1>1. CASE EventsEnd
    BY <1>1 DEF EventsEnd
  <1>2. CASE SpinTest
    BY <1>2 DEF SpinTest
  <1>3. CASE Visit
    BY <1>3 DEF Visit, Ready
  <1>4. CASE Enqueue
    <2>1. visit + 1 \in 1 .. Len(Timers) + 1 /\ Timers[visit] \in TimerSet
      BY <1>4 DEF Enqueue
    <2>2. Append(queue, Timers[visit]) \in Seq(TimerSet)
      BY <2>1, AppendProperties
    <2> QED BY <1>4, <2>1, <2>2 DEF Enqueue
  <1>5. ASSUME NEW w \in Workers, Take(w) PROVE TypeOK' /\ VisitInv'
    <2>1. Head(queue) \in TimerSet /\ Tail(queue) \in Seq(TimerSet)
      BY <1>5, HeadTailProperties DEF Take
    <2> QED BY <1>5, <2>1 DEF Take
  <1>6. ASSUME NEW w \in Workers, Run(w) \/ Exit(w) PROVE TypeOK' /\ VisitInv'
    BY <1>6 DEF Run, Exit
  <1>7. ASSUME NEW t \in TimerSet, Elapse(t) PROVE TypeOK' /\ VisitInv'
    BY <1>7 DEF Elapse
  <1> QED BY <1>1, <1>2, <1>3, <1>4, <1>5, <1>6, <1>7 DEF Spin

-----------------------------------------------------------------------------
\* Nobody is in stop().
Calm == \A d \in Contexts : ~Stopping(d)

\* A stop() that begins in turn is the only one.
LEMMA BeginsInTurn ==
  ASSUME IInv, NEW c \in Contexts, Begins(c), ~disorderly'
  PROVE  /\ ~disorderly /\ pool = "up" /\ c \notin Workers
         /\ Calm
  BY DEF Begins, Calm

\* Stops stay in turn when nobody begins one and the pool stays,
LEMMA OneStopKept ==
  ASSUME OneStop, UNCHANGED <<pool, over>>, phase' = "destroy" => phase = "destroy",
         \A d \in Contexts : Stopping(d)' => Stopping(d)
  PROVE  OneStop'
  <1>1. \A d \in Signals \cup Apps : d \in Contexts
    BY Apart
  <1> QED BY <1>1 DEF OneStop

\* and when one begins while there is none: on a thread that stands outside
\* the destructor, in the destructor, or in a handler on main.
LEMMA TurnOfBeginning ==
  ASSUME IInv, NEW c \in Contexts, Begins(c),
         at' = [at EXCEPT ![c] = "pool"],
         UNCHANGED <<pool, joiner, joined, failed>>,
         c \in Apps => phase' # "destroy",
         c \in Signals /\ Calm =>
            over'[c].what = "main" /\ over'[c].thread = "main"
  PROVE  InTurn'
  <1> SUFFICES ASSUME ~disorderly' PROVE ~failed' /\ OneStop' /\ JoinInv'
    BY DEF InTurn
  <1>1. /\ ~disorderly /\ pool = "up" /\ c \notin Workers
        /\ Calm
    BY BeginsInTurn
  <1>2. ~failed /\ JoinInv
    BY <1>1 DEF IInv, InTurn
  <1>3. \A d \in Contexts : Stopping(d)' => d = c
    BY <1>1 DEF IInv, TypeOK, Stopping, Idle, Calm
  <1>4. OneStop'
    BY <1>1, <1>3, Apart DEF OneStop
  <1>5. \A w \in Workers : joiner[w] = Nobody
    <2>1. \A w \in Workers : joiner[w] # Nobody => Stopping(joiner[w]) /\ joiner[w] \in Contexts
      BY <1>2 DEF JoinInv, Stopping, Idle, IInv, TypeOK
    <2> QED BY <1>1, <2>1 DEF Calm
  <1> QED BY <1>2, <1>4, <1>5 DEF JoinInv

LEMMA TurnOfBeginnings ==
  ASSUME IInv,
         \/ \E s \in Signals : Deliver(s)
         \/ \E a \in Apps : AppStop(a)
         \/ \E w \in Workers : CallbackStop(w)
         \/ Destroy
  PROVE  InTurn'
  <1> USE Apart DEF mainVars, poolVars
  <1>1. ASSUME NEW s \in Signals, Deliver(s) PROVE InTurn'
    <2>1. PICK c \in Threads \cup Signals :
            /\ c \in Signals => Stopping(c)
            /\ \/ ThreadOf(c) = "main"
               \/ \E d \in Signals : Stopping(d) /\ over[d].thread = "main"
            /\ over' = [over EXCEPT ![s] = [what |-> c, thread |-> ThreadOf(c)]]
      BY <1>1 DEF Deliver
    <2>2. Calm => c = "main" /\ ThreadOf(c) = "main"
      BY <2>1 DEF ThreadOf, Calm
    <2>3. over'[s] = [what |-> c, thread |-> ThreadOf(c)]
      BY <2>1 DEF IInv, TypeOK
    <2>4. /\ s \in Contexts /\ (s \in Apps => phase' # "destroy")
          /\ Begins(s) /\ at' = [at EXCEPT ![s] = "pool"]
          /\ UNCHANGED <<pool, joiner, joined, failed>>
      BY <1>1 DEF Deliver
    <2>5. s \in Signals /\ Calm =>
             over'[s].what = "main" /\ over'[s].thread = "main"
      BY <2>2, <2>3
    <2> QED BY <2>4, <2>5, TurnOfBeginning
  <1>2. ASSUME NEW a \in Apps, AppStop(a) PROVE InTurn'
    BY <1>2, TurnOfBeginning DEF AppStop
  <1>3. ASSUME NEW w \in Workers, CallbackStop(w) PROVE InTurn'
    BY <1>3, TurnOfBeginning DEF CallbackStop
  <1>4. CASE Destroy
    BY <1>4, TurnOfBeginning DEF Destroy
  <1> QED BY <1>1, <1>2, <1>3, <1>4

\* The steps of a stop() in turn.  It has a pool, nobody else joins the worker
\* it joins, which is not its own, and it ends with no worker left to join.
LEMMA TurnOfStops ==
  ASSUME IInv, NEW c \in Contexts, StopStep(c)
  PROVE  InTurn'
  <1> SUFFICES ASSUME ~disorderly' PROVE ~failed' /\ OneStop' /\ JoinInv'
    BY DEF InTurn
  <1> USE Apart DEF mainVars, poolVars, stopVars
  <1>1. disorderly' = disorderly
    BY DEF StopStep, EnterPool, NullPool, LeavePool, Join, Joined, AllJoined,
           NotifyWaiters, Dies
  <1>2. ~failed /\ OneStop /\ JoinInv /\ TypeOK
    BY <1>1 DEF IInv, InTurn
  <1>3. Stopping(c) /\ UNCHANGED <<phase, pool, over>>
    BY DEF StopStep, EnterPool, NullPool, LeavePool, Join, Joined, AllJoined,
           NotifyWaiters, Dies, Stopping, Idle
  <1>4. pool = "up" /\ ThreadOf(c) \notin Workers
    BY <1>2, <1>3 DEF OneStop, ThreadOf
  <1>5. \A w \in Workers : joiner[w] # Nobody => joiner[w] = c /\ at[c] = "join"
    <2>1. \A w \in Workers : joiner[w] # Nobody =>
             joiner[w] \in Contexts /\ Stopping(joiner[w]) /\ at[joiner[w]] = "join"
      BY <1>2 DEF JoinInv, TypeOK, Stopping, Idle
    <2> QED BY <1>2, <1>3, <2>1 DEF OneStop
  <1>6. ASSUME NEW x, at' = [at EXCEPT ![c] = x] PROVE OneStop'
    <2>1. \A d \in Contexts : Stopping(d)' => Stopping(d)
      BY <1>2, <1>3, <1>6 DEF Stopping, TypeOK
    <2> QED BY <1>2, <1>3, <2>1, OneStopKept
  <1>7. ASSUME at' = at PROVE OneStop'
    <2>1. \A d \in Contexts : Stopping(d)' => Stopping(d)
      BY <1>7 DEF Stopping
    <2> QED BY <1>2, <1>3, <2>1, OneStopKept
  <1>8. CASE EnterPool(c)
    <2>1. at[c] # "join" /\ UNCHANGED <<joiner, joined, failed>>
      BY <1>8 DEF EnterPool
    <2>2. OneStop'
      BY <1>6, <1>8 DEF EnterPool
    <2> QED BY <1>2, <1>5, <2>1, <2>2 DEF JoinInv
  <1>9. CASE NullPool(c)
    BY <1>4, <1>9 DEF NullPool
  <1>10. CASE LeavePool(c)
    <2>1. at[c] # "join" /\ UNCHANGED <<joiner, joined, failed>>
      BY <1>10 DEF LeavePool
    <2>2. OneStop'
      BY <1>6, <1>10 DEF LeavePool
    <2> QED BY <1>2, <1>5, <2>1, <2>2 DEF JoinInv
  <1>11. CASE Join(c)
    <2>1. NextWorker \in Workers \ joined
      BY <1>11, NextIsLeft DEF Join
    <2>2. joiner[NextWorker] = Nobody
      BY <1>5, <1>11, <2>1 DEF Join
    <2>3. /\ joiner' = [joiner EXCEPT ![NextWorker] = c]
          /\ at[c] = "join" /\ UNCHANGED <<at, failed, joined>>
      BY <1>4, <1>11, <2>1, <2>2 DEF Join
    <2>4. JoinInv'
      BY <1>2, <2>1, <2>3 DEF JoinInv, TypeOK
    <2> QED BY <1>2, <1>7, <2>3, <2>4
  <1>12. CASE Joined(c)
    <2>1. NextWorker \in Workers \ joined
      BY <1>12, NextIsLeft DEF Joined
    <2>2. /\ joiner' = [joiner EXCEPT ![NextWorker] = Nobody]
          /\ joined' = joined \cup {NextWorker} /\ UNCHANGED <<at, failed>>
      BY <1>12 DEF Joined
    <2>3. JoinInv'
      BY <1>2, <2>1, <2>2 DEF JoinInv, TypeOK
    <2> QED BY <1>2, <1>7, <2>2, <2>3
  <1>13. CASE AllJoined(c)
    <2>1. \A w \in Workers : joiner[w] = Nobody
      BY <1>2, <1>13, NextIsLeft DEF AllJoined, JoinInv
    <2>2. OneStop'
      BY <1>6, <1>13 DEF AllJoined
    <2> QED BY <1>2, <1>13, <2>1, <2>2 DEF AllJoined, JoinInv
  <1>14. CASE NotifyWaiters(c)
    <2>1. at[c] # "join" /\ phase # "dead"
      BY <1>4, <1>14 DEF NotifyWaiters, IInv, PhaseInv
    <2>2. at' = [at EXCEPT ![c] = "done"] /\ UNCHANGED <<joiner, joined, failed>>
      BY <1>14, <2>1 DEF NotifyWaiters
    <2> QED BY <1>2, <1>5, <1>6, <2>1, <2>2 DEF JoinInv
  <1> QED BY <1>8, <1>9, <1>10, <1>11, <1>12, <1>13, <1>14 DEF StopStep

\* Main destroys the pool only when nobody is in stop(), whatever else it does
\* keeps the pool, or makes it.
LEMMA TurnOfMain ==
  ASSUME IInv, Main
  PROVE  InTurn'
  <1>1. CASE Destroy
    BY <1>1, TurnOfBeginnings
  <1> SUFFICES ASSUME ~disorderly', ~Destroy PROVE ~failed' /\ OneStop' /\ JoinInv'
    BY <1>1 DEF InTurn
  <1>2. UNCHANGED <<at, over, disorderly, failed, joiner, joined>>
    BY DEF Main, InstallHandlers, Register, MakePool, SpinBegins, SpinReturns,
           ReleasePool, Unregister, Unhook, Destroyed, poolVars, stopVars
  <1>3. ~failed /\ OneStop /\ JoinInv
    BY <1>2 DEF IInv, InTurn
  <1>4. ~failed' /\ JoinInv'
    BY <1>2, <1>3 DEF JoinInv
  <1>5. CASE ReleasePool \/ MakePool
    <2>1. \A c \in Contexts : ~Stopping(c)
      <3>1. CASE MakePool
        BY <1>3, <3>1 DEF OneStop, MakePool, IInv, PhaseInv
      <3>2. CASE ReleasePool
        <4>1. ~Stopping("main") /\ \A a \in Apps : ~Stopping(a)
          BY <1>3, <3>2 DEF ReleasePool, OneStop, Stopping, Idle
        <4>2. \A s \in Signals : ~Stopping(s)
          BY <1>3 DEF Main, Runs, OneStop
        <4> QED BY <1>3, <4>1, <4>2, Apart DEF OneStop
      <3> QED BY <1>5, <3>1, <3>2
    <2>2. \A c \in Contexts : ~Stopping(c)'
      BY <1>2, <2>1 DEF Stopping
    <2> QED BY <1>4, <2>2, Apart DEF OneStop
  <1>6. CASE ~(ReleasePool \/ MakePool)
    <2>1. pool' = pool /\ phase' # "destroy"
      BY <1>6 DEF Main, InstallHandlers, Register, SpinBegins, SpinReturns,
                  Unregister, Unhook, Destroyed
    <2>2. \A d \in Contexts : Stopping(d)' => Stopping(d)
      BY <1>2 DEF Stopping
    <2> QED BY <1>2, <1>3, <1>4, <2>1, <2>2, OneStopKept
  <1> QED BY <1>5, <1>6

\* No other thread has a part in it.
LEMMA TurnKept ==
  ASSUME IInv, UNCHANGED <<phase, pool, joiner, joined, at, over, disorderly, failed>>
  PROVE  InTurn'
  <1>1. \A d \in Contexts : Stopping(d)' => Stopping(d)
    BY DEF Stopping
  <1>2. OneStop => OneStop'
    BY <1>1, OneStopKept
  <1> QED BY <1>2 DEF IInv, InTurn, JoinInv

-----------------------------------------------------------------------------
LEMMA NextIInv ==
  ASSUME IInv, [Next]_vars
  PROVE  IInv'
  <1>1. CASE Main
    <2>1. PhaseInv' /\ VisitInv'
      <3>1. PhaseInv'
        BY <1>1 DEF IInv, PhaseInv, TypeOK, Main, InstallHandlers, Register, MakePool,
                    SpinBegins, SpinReturns, Destroy, ReleasePool, Unregister, Unhook,
                    Destroyed
      <3>2. UNCHANGED <<sp, visit>> \/ sp' = "test"
        BY <1>1 DEF Main, InstallHandlers, Register, MakePool, SpinBegins, SpinReturns,
                    Destroy, ReleasePool, Unregister, Unhook, Destroyed, spinVars
      <3> QED BY <3>1, <3>2 DEF IInv, VisitInv
    <2> QED BY <1>1, <2>1, TypeOfMain, TurnOfMain DEF IInv
  <1>2. ASSUME NEW c \in Contexts, StopStep(c) PROVE IInv'
    <2>1. UNCHANGED <<phase, pool, sp, visit>>
      BY <1>2 DEF StopStep, EnterPool, NullPool, LeavePool, Join, Joined, AllJoined,
                  NotifyWaiters, mainVars, spinVars
    <2> QED BY <1>2, <2>1, TypeOfStops, TurnOfStops DEF IInv, PhaseInv, VisitInv
  <1>3. CASE \/ \E s \in Signals : Deliver(s)
             \/ \E a \in Apps : AppStop(a)
             \/ \E w \in Workers : CallbackStop(w)
    <2>1. UNCHANGED <<phase, pool, sp, visit>>
      BY <1>3 DEF Deliver, AppStop, CallbackStop, mainVars, spinVars
    <2> QED BY <1>3, <2>1, TypeOfBeginnings, TurnOfBeginnings DEF IInv, PhaseInv, VisitInv
  <1>4. CASE \/ Spin \/ EventsEnd
             \/ \E w \in Workers : Take(w) \/ Run(w) \/ Exit(w)
             \/ \E t \in TimerSet : Elapse(t)
    <2>1. UNCHANGED <<phase, pool, joiner, joined, at, over, disorderly, failed>>
      BY <1>4 DEF Spin, SpinTest, Visit, Enqueue, EventsEnd, Take, Run, Exit, Elapse,
                  mainVars, poolVars, stopVars
    <2> QED BY <1>4, <2>1, TypeOfThreads, TurnKept DEF IInv, PhaseInv
  <1>5. CASE UNCHANGED vars
    <2>1. TypeOK' /\ VisitInv'
      BY <1>5 DEF vars, mainVars, poolVars, spinVars, stopVars, IInv, TypeOK, VisitInv
    <2> QED BY <1>5, <2>1, TurnKept DEF vars, mainVars, poolVars, stopVars, IInv, PhaseInv
  <1> QED BY <1>1, <1>2, <1>3, <1>4, <1>5 DEF Next, Worker

THEOREM Invariance == Spec => []IInv
  BY InitIInv, NextIInv, PTL DEF Spec

\* Type correctness: every variable stays in its range, only a worker that has
\* left its loop is joined, and what is queued are tasks of the timers
\* (node.cpp:42-299, thread_pool.h:26-90).
THEOREM TypeCorrect == Spec => []TypeOK
  BY Invariance, PTL DEF IInv

\* The process dies of a stop() only if one has begun out of turn: without a
\* pool, during another one, or in a task of the pool.  Any number of calls
\* one after the other, by handlers, other threads and the destructor, with
\* any number of workers, is safe (node.cpp:30-40, 259-299, thread_pool.h:58-75).
THEOREM StopsAreSafe == Spec => []SafeStop
  <1>1. IInv => SafeStop
    BY DEF IInv, InTurn, SafeStop
  <1> QED BY <1>1, Invariance, PTL

-----------------------------------------------------------------------------
(* The node's pool is the one that ThreadPool implements (TaskPool).        *)

\* Nobody leaves an open pool.
OpenInv == ~stop => exited = {}

LEMMA OpenKept ==
  ASSUME IInv, OpenInv, [Next]_vars
  PROVE  OpenInv'
  <1> USE DEF OpenInv
  <1>1. ASSUME UNCHANGED <<stop, exited>> PROVE OpenInv'
    BY <1>1
  <1>2. CASE Main
    BY <1>1, <1>2 DEF Main, InstallHandlers, Register, MakePool, SpinBegins, SpinReturns,
                      Destroy, ReleasePool, Unregister, Unhook, Destroyed, poolVars
  <1>3. CASE Spin \/ EventsEnd \/ \E t \in TimerSet : Elapse(t)
    BY <1>1, <1>3 DEF Spin, SpinTest, Visit, Enqueue, EventsEnd, Elapse, poolVars
  <1>4. ASSUME NEW w \in Workers, Worker(w) PROVE OpenInv'
    BY <1>4 DEF Worker, Take, Run, CallbackStop, Exit, poolVars
  <1>5. ASSUME NEW c \in Contexts, StopStep(c) PROVE OpenInv'
    BY <1>5 DEF StopStep, EnterPool, NullPool, LeavePool, Join, Joined, AllJoined,
                NotifyWaiters, poolVars
  <1>6. CASE (\E s \in Signals : Deliver(s)) \/ (\E a \in Apps : AppStop(a))
    BY <1>1, <1>6 DEF Deliver, AppStop, poolVars
  <1>7. CASE UNCHANGED vars
    BY <1>1, <1>7 DEF vars, poolVars
  <1> QED BY <1>2, <1>3, <1>4, <1>5, <1>6, <1>7 DEF Next

\* The destructor and the calls of stop(): the pool is stopped when the first
\* comes, and has stopped when the last of the workers is joined.
LEMMA StopsRefine ==
  ASSUME IInv, OpenInv, NEW c \in Contexts, StopStep(c)
  PROVE  Pool!Next \/ UNCHANGED Pool!vars
  <1> USE DEF IInv, TypeOK, Pool!vars, poolVars, stageBar
  <1>1. CASE EnterPool(c)
    <2>1. UNCHANGED <<queue, running, exited, joined>> /\ stop'
      BY <1>1 DEF EnterPool
    <2>2. CASE stop
      BY <2>1, <2>2
    <2>3. CASE ~stop
      <3>1. WorkerOrder # <<>> /\ WorkerOrder[1] \in Workers
        BY Places, EmptySeq, LifecycleAssumption
      <3>2. joined # Workers
        BY <2>3, <3>1 DEF OpenInv
      <3>3. Pool!Stop
        BY <2>1, <2>3, <3>2 DEF Pool!Stop
      <3> QED BY <3>3 DEF Pool!Next
    <2> QED BY <2>2, <2>3
  <1>2. CASE Joined(c)
    <2>1. UNCHANGED <<queue, running, exited, stop>>
      BY <1>2 DEF Joined
    <2>2. NextWorker \in Workers \ joined /\ joined' = joined \cup {NextWorker}
      BY <1>2, NextIsLeft DEF Joined
    <2>3. joined' \subseteq exited /\ stop
      BY <1>2, <2>2 DEF Joined, OpenInv
    <2>4. CASE joined' = Workers
      BY <2>1, <2>2, <2>3, <2>4 DEF Pool!Next, Pool!StopReturns
    <2>5. CASE joined' # Workers
      BY <2>1, <2>2, <2>3, <2>5
    <2> QED BY <2>4, <2>5
  <1>3. CASE NullPool(c) \/ LeavePool(c) \/ Join(c) \/ AllJoined(c) \/ NotifyWaiters(c)
    BY <1>3 DEF NullPool, LeavePool, Join, AllJoined, NotifyWaiters
  <1> QED BY <1>1, <1>2, <1>3 DEF StopStep

\* Every step leaves the pool alone, or is a step of it.
LEMMA StepRefines ==
  ASSUME IInv, OpenInv, [Next]_vars
  PROVE  Pool!Next \/ UNCHANGED Pool!vars
  <1> USE DEF IInv, TypeOK, Pool!vars
  <1>1. ASSUME UNCHANGED poolVars PROVE UNCHANGED Pool!vars
    BY <1>1 DEF poolVars, stageBar
  <1>2. CASE Main
    BY <1>1, <1>2 DEF Main, InstallHandlers, Register, MakePool, SpinBegins, SpinReturns,
                      Destroy, ReleasePool, Unregister, Unhook, Destroyed
  <1>3. CASE (Spin /\ ~Enqueue) \/ EventsEnd \/ \E t \in TimerSet : Elapse(t)
    BY <1>1, <1>3 DEF Spin, SpinTest, Visit, EventsEnd, Elapse
  <1>4. CASE Enqueue
    <2>1. Timers[visit] \in TimerSet
      BY <1>4, TimerPlaces DEF VisitInv, Enqueue
    <2>2. Pool!Enqueue(Timers[visit])
      BY <1>4 DEF Enqueue, Pool!Enqueue, stageBar
    <2> QED BY <2>1, <2>2 DEF Pool!Next
  <1>5. ASSUME NEW w \in Workers, Worker(w) PROVE Pool!Next \/ UNCHANGED Pool!vars
    <2>1. CASE Take(w)
      <3>1. Pool!Take(w)
        BY <1>5, <2>1 DEF Worker, Take, Pool!Take, Pool!Free, stageBar
      <3> QED BY <3>1 DEF Pool!Next
    <2>2. CASE Run(w)
      <3>1. Pool!Finish(w)
        BY <2>2, Apart DEF Run, Pool!Finish, stageBar
      <3> QED BY <3>1 DEF Pool!Next
    <2>3. CASE Exit(w)
      <3>1. stop /\ joined # Workers
        BY <1>5, <2>3 DEF Worker, Exit
      <3>2. Pool!Exit(w)
        BY <1>5, <2>3, <3>1 DEF Worker, Exit, Pool!Exit, Pool!Free, stageBar
      <3> QED BY <3>2 DEF Pool!Next
    <2>4. CASE CallbackStop(w)
      BY <1>1, <2>4 DEF CallbackStop
    <2> QED BY <1>5, <2>1, <2>2, <2>3, <2>4 DEF Worker
  <1>6. ASSUME NEW c \in Contexts, StopStep(c) PROVE Pool!Next \/ UNCHANGED Pool!vars
    BY <1>6, StopsRefine
  <1>7. CASE (\E s \in Signals : Deliver(s)) \/ (\E a \in Apps : AppStop(a))
    BY <1>1, <1>7 DEF Deliver, AppStop
  <1>8. CASE UNCHANGED vars
    BY <1>1, <1>8 DEF vars
  <1> QED BY <1>2, <1>3, <1>4, <1>5, <1>6, <1>7, <1>8 DEF Next, Spin

\* Whatever stops there are, the destructor's or others, in turn or not, the
\* node uses its pool only as ThreadPool promises: no worker leaves before the
\* pool is being stopped or while a task waits, and it has stopped only when all
\* workers are joined (node.cpp:110-120, 259-299, thread_pool.h:20-35, 58-78).
THEOREM PoolAsPromised == Spec => PoolSpec
  <1>1. Init => Pool!Init /\ OpenInv
    BY DEF Init, Pool!Init, stageBar, OpenInv
  <1>2. IInv /\ OpenInv /\ [Next]_vars => [Pool!Next]_(Pool!vars)
    BY StepRefines
  <1>3. IInv /\ OpenInv /\ [Next]_vars => OpenInv'
    BY OpenKept
  <1> QED BY <1>1, <1>2, <1>3, Invariance, PTL DEF Spec, PoolSpec, Pool!Spec

\* A worker that has ended runs nothing; when the destructor has stopped the
\* pool, and so when the pool is gone, all have ended.
QuietWhenGone == pool = "gone" => \A w \in Workers : w \in joined /\ running[w] = Nobody

QuietInv ==
    /\ \A w \in exited : running[w] = Nobody
    /\ at["main"] = "done" \/ pool = "gone" => joined = Workers
    /\ at["main"] # "notify"

LEMMA QuietKept ==
  ASSUME IInv, QuietInv, [Next]_vars
  PROVE  QuietInv'
  <1> USE Apart DEF IInv, TypeOK, QuietInv
  <1>1. ASSUME UNCHANGED <<exited, running, joined, pool>>,
               UNCHANGED at \/ \E c \in Contexts : at' = [at EXCEPT ![c] = "pool"]
        PROVE  QuietInv'
    BY <1>1
  <1>2. CASE Main
    <2>1. CASE ReleasePool
      BY <2>1 DEF ReleasePool, poolVars, stopVars
    <2>2. CASE Destroy
      BY <1>1, <2>2 DEF Destroy, poolVars
    <2>3. CASE ~ReleasePool /\ ~Destroy
      <3>1. UNCHANGED <<exited, running, joined, at>> /\ (pool' = "gone" => pool = "gone")
        BY <1>2, <2>3 DEF Main, InstallHandlers, Register, MakePool, SpinBegins, SpinReturns,
                          Unregister, Unhook, Destroyed, poolVars, stopVars
      <3> QED BY <3>1
    <2> QED BY <2>1, <2>2, <2>3
  <1>3. CASE Spin \/ EventsEnd \/ \E t \in TimerSet : Elapse(t)
    BY <1>1, <1>3 DEF Spin, SpinTest, Visit, Enqueue, EventsEnd, Elapse, poolVars, mainVars,
                      stopVars
  <1>4. ASSUME NEW w \in Workers, Worker(w) PROVE QuietInv'
    <2>1. CASE CallbackStop(w)
      BY <1>1, <2>1 DEF CallbackStop, poolVars, mainVars
    <2>2. CASE Take(w) \/ Run(w) \/ Exit(w)
      <3>1. UNCHANGED <<joined, pool, at>>
        BY <2>2 DEF Take, Run, Exit, mainVars, stopVars
      <3>2. \A v \in exited' : running'[v] = Nobody
        BY <1>4, <2>2 DEF Worker, Take, Run, Exit
      <3> QED BY <3>1, <3>2
    <2> QED BY <1>4, <2>1, <2>2 DEF Worker
  <1>5. ASSUME NEW c \in Contexts, StopStep(c) PROVE QuietInv'
    <2>1. UNCHANGED <<exited, running, pool>>
      BY <1>5 DEF StopStep, EnterPool, NullPool, LeavePool, Join, Joined, AllJoined,
                  NotifyWaiters, poolVars, mainVars
    <2>2. CASE AllJoined(c)
      <3>1. joined = Workers
        BY <2>2, NextIsLeft DEF AllJoined
      <3>2. joined' = joined /\ at'["main"] # "notify"
        BY <2>2 DEF AllJoined, poolVars
      <3> QED BY <2>1, <3>1, <3>2
    <2>3. CASE Joined(c)
      <3>1. at' = at /\ joined' \subseteq Workers /\ joined \subseteq joined'
        BY <2>3, NextIsLeft DEF Joined, stopVars
      <3> QED BY <2>1, <3>1
    <2>4. CASE ~AllJoined(c) /\ ~Joined(c)
      <3>1. joined' = joined /\ (at'["main"] = at["main"] \/ at'["main"] \in {"critical", "join"})
        BY <1>5, <2>4 DEF StopStep, EnterPool, NullPool, LeavePool, Join, NotifyWaiters,
                          poolVars, stopVars, Dies
      <3> QED BY <2>1, <3>1
    <2> QED BY <2>2, <2>3, <2>4
  <1>6. CASE (\E s \in Signals : Deliver(s)) \/ (\E a \in Apps : AppStop(a))
    BY <1>1, <1>6 DEF Deliver, AppStop, poolVars, mainVars
  <1>7. CASE UNCHANGED vars
    BY <1>1, <1>7 DEF vars, poolVars, mainVars, stopVars
  <1> QED BY <1>2, <1>3, <1>4, <1>5, <1>6, <1>7 DEF Next

\* When the destructor goes on to destroy the node, every worker has been
\* joined and no callback of a timer is running, whoever else has called
\* stop() and wherever in it they are (node.cpp:110-131, thread_pool.h:61-72).
THEOREM QuietAfterPool == Spec => []QuietWhenGone
  <1>1. Init => QuietInv
    BY Apart DEF Init, QuietInv
  <1>2. IInv /\ QuietInv /\ [Next]_vars => QuietInv'
    BY QuietKept
  <1>3. IInv /\ QuietInv => QuietWhenGone
    BY DEF IInv, TypeOK, QuietInv, QuietWhenGone
  <1> QED BY <1>1, <1>2, <1>3, Invariance, PTL DEF Spec

-----------------------------------------------------------------------------
(* The mutexes of the node's threads (NodeLocks).                          *)

\* The mutexes a thread holds before each step of its program.
HeldIn ==
    [spinPass |-> <<{}, {"registry"}, {"registry", "node"}, {"registry", "node", "sub"},
                    {"registry", "node"}, {"registry"}>>,
     spinSync |-> <<{}, {"registry"}>>,
     timerCallback |-> <<{}, {"registry"}, {}, {"registry"}, {}, {"registry"}>>,
     callback |-> <<{}, {"sub"}>>,
     publishingCallback |-> <<{}, {"sub"}, {"sub", "registry"}, {"sub"},
                              {"sub", "registry"}, {"sub"}>>,
     createSubscriber |-> <<{}, {"node"}, {"node", "registry"}, {"node"},
                            {"node", "registry"}, {"node"}>>,
     createPublisher |-> <<{}, {"node"}>>]

\* h lists what is held before each step of program p: nothing at its ends; a
\* mutex that is taken was not held, one that is given back was.
Lists(h, p) ==
    /\ Len(p) \in Nat \ {0} /\ DOMAIN p = 1 .. Len(p)
    /\ h[1] = {}
    /\ \A n \in 1 .. Len(p) :
          LET then == IF n < Len(p) THEN h[n + 1] ELSE {} IN
          /\ h[n] \subseteq Locks /\ p[n].lock \in Locks
          /\ \/ p[n].op = "take" /\ p[n].lock \notin h[n] /\ then = h[n] \cup {p[n].lock}
             \/ p[n].op = "give" /\ p[n].lock \in h[n] /\ then = h[n] \ {p[n].lock}

\* The program takes mutexes in the order of their ranks.
Climbs(h, p, rank) ==
    \A n \in 1 .. Len(p) : p[n].op = "take" => \A l \in h[n] : rank[l] < rank[p[n].lock]

\* The order of the loop, and that of all other threads.
LoopRank == [registry |-> 1, node |-> 2, sub |-> 3]
ThreadRank == [registry |-> 3, node |-> 1, sub |-> 2]

LEMMA PassOfLoop ==
  /\ Lists(HeldIn.spinPass, SpinPass)
  /\ Climbs(HeldIn.spinPass, SpinPass, LoopRank)
  <1>1. /\ Len(SpinPass) = 6
        /\ SpinPass[1] = Acquire("registry") /\ SpinPass[2] = Acquire("node")
        /\ SpinPass[3] = Acquire("sub") /\ SpinPass[4] = Release("sub")
        /\ SpinPass[5] = Release("node") /\ SpinPass[6] = Release("registry")
    BY DEF SpinPass, Briefly
  <1>2. DOMAIN SpinPass = 1 .. 6
    BY DEF SpinPass, Briefly, Acquire, Release
  <1>3. Lists(HeldIn.spinPass, SpinPass)
    BY <1>1, <1>2 DEF Lists, HeldIn, Acquire, Release, Locks
  <1> QED BY <1>1, <1>3 DEF Climbs, HeldIn, LoopRank, Acquire, Release

LEMMA BriefProgram ==
  ASSUME NEW l \in Locks
  PROVE  /\ Lists(<<{}, {l}>>, Briefly(l))
         /\ \A rank : Climbs(<<{}, {l}>>, Briefly(l), rank)
  <1>1. /\ Len(Briefly(l)) = 2 /\ DOMAIN Briefly(l) = 1 .. 2
        /\ Briefly(l)[1] = Acquire(l) /\ Briefly(l)[2] = Release(l)
    BY DEF Briefly, Acquire, Release
  <1>2. Lists(<<{}, {l}>>, Briefly(l))
    BY <1>1 DEF Lists, Acquire, Release
  <1>3. ASSUME NEW rank PROVE Climbs(<<{}, {l}>>, Briefly(l), rank)
    BY <1>1 DEF Climbs, Acquire, Release
  <1> QED BY <1>2, <1>3

LEMMA BriefPrograms ==
  /\ Lists(HeldIn.spinSync, SpinSync) /\ Lists(HeldIn.callback, Callback)
  /\ Lists(HeldIn.createPublisher, CreatePublisher)
  /\ \A rank : /\ Climbs(HeldIn.spinSync, SpinSync, rank)
               /\ Climbs(HeldIn.callback, Callback, rank)
               /\ Climbs(HeldIn.createPublisher, CreatePublisher, rank)
  <1>1. /\ HeldIn.spinSync = <<{}, {"registry"}>> /\ SpinSync = Briefly("registry")
        /\ HeldIn.callback = <<{}, {"sub"}>> /\ Callback = Briefly("sub")
        /\ HeldIn.createPublisher = <<{}, {"node"}>> /\ CreatePublisher = Briefly("node")
    BY DEF HeldIn, SpinSync, Callback, CreatePublisher
  <1>2. {"registry", "sub", "node"} \subseteq Locks
    BY DEF Locks
  <1> QED BY <1>1, <1>2, BriefProgram

LEMMA TriggeringCallback ==
  /\ Lists(HeldIn.timerCallback, TimerCallback)
  /\ \A rank : Climbs(HeldIn.timerCallback, TimerCallback, rank)
  <1>1. /\ Len(TimerCallback) = 6
        /\ \A n \in {1, 3, 5} : TimerCallback[n] = Acquire("registry")
        /\ \A n \in {2, 4, 6} : TimerCallback[n] = Release("registry")
    BY DEF TimerCallback, PublishFirst, Briefly
  <1>2. DOMAIN TimerCallback = 1 .. 6
    BY DEF TimerCallback, PublishFirst, Briefly, Acquire, Release
  <1>3. Lists(HeldIn.timerCallback, TimerCallback)
    BY <1>1, <1>2 DEF Lists, HeldIn, Acquire, Release, Locks
  <1>4. ASSUME NEW rank PROVE Climbs(HeldIn.timerCallback, TimerCallback, rank)
    BY <1>1 DEF Climbs, HeldIn, Acquire, Release
  <1> QED BY <1>3, <1>4

\* The two programs that take registry_mutex_ last of all.
LEMMA RegistryLast ==
  /\ Lists(HeldIn.publishingCallback, PublishingCallback)
  /\ Climbs(HeldIn.publishingCallback, PublishingCallback, ThreadRank)
  /\ Lists(HeldIn.createSubscriber, CreateSubscriber)
  /\ Climbs(HeldIn.createSubscriber, CreateSubscriber, ThreadRank)
  <1>1. /\ Len(PublishingCallback) = 6
        /\ PublishingCallback[1] = Acquire("sub") /\ PublishingCallback[6] = Release("sub")
        /\ \A n \in {2, 4} : PublishingCallback[n] = Acquire("registry")
        /\ \A n \in {3, 5} : PublishingCallback[n] = Release("registry")
    BY DEF PublishingCallback, PublishAgain, Briefly
  <1>2. DOMAIN PublishingCallback = 1 .. 6
    BY DEF PublishingCallback, PublishAgain, Briefly, Acquire, Release
  <1>3. /\ Len(CreateSubscriber) = 6
        /\ CreateSubscriber[1] = Acquire("node") /\ CreateSubscriber[6] = Release("node")
        /\ \A n \in {2, 4} : CreateSubscriber[n] = Acquire("registry")
        /\ \A n \in {3, 5} : CreateSubscriber[n] = Release("registry")
    BY DEF CreateSubscriber, Briefly
  <1>4. DOMAIN CreateSubscriber = 1 .. 6
    BY DEF CreateSubscriber, Briefly, Acquire, Release
  <1>5. Lists(HeldIn.publishingCallback, PublishingCallback)
    BY <1>1, <1>2 DEF Lists, HeldIn, Acquire, Release, Locks
  <1>6. Lists(HeldIn.createSubscriber, CreateSubscriber)
    BY <1>3, <1>4 DEF Lists, HeldIn, Acquire, Release, Locks
  <1>7. Climbs(HeldIn.publishingCallback, PublishingCallback, ThreadRank)
    BY <1>1 DEF Climbs, HeldIn, ThreadRank, Acquire, Release
  <1>8. Climbs(HeldIn.createSubscriber, CreateSubscriber, ThreadRank)
    BY <1>3 DEF Climbs, HeldIn, ThreadRank, Acquire, Release
  <1> QED BY <1>5, <1>6, <1>7, <1>8

Names == {"spinPass", "spinSync", "timerCallback", "callback", "publishingCallback",
          "createSubscriber", "createPublisher"}

LEMMA ProgramsListed ==
  /\ DOMAIN Programs = Names
  /\ \A q \in Names : Lists(HeldIn[q], Programs[q])
  /\ \A q \in Names \ {"createSubscriber", "publishingCallback"} :
        Climbs(HeldIn[q], Programs[q], LoopRank)
  /\ \A q \in Names \ {"spinPass"} : Climbs(HeldIn[q], Programs[q], ThreadRank)
  <1>1. DOMAIN Programs = Names
    BY DEF Programs, Names
  <1>2. /\ Programs.spinPass = SpinPass /\ Programs.spinSync = SpinSync
        /\ Programs.timerCallback = TimerCallback /\ Programs.callback = Callback
        /\ Programs.publishingCallback = PublishingCallback
        /\ Programs.createSubscriber = CreateSubscriber
        /\ Programs.createPublisher = CreatePublisher
    BY DEF Programs
  <1>3. ASSUME NEW q \in Names PROVE Lists(HeldIn[q], Programs[q])
    BY <1>2, PassOfLoop, BriefPrograms, TriggeringCallback, RegistryLast DEF Names
  <1>4. ASSUME NEW q \in Names \ {"createSubscriber", "publishingCallback"}
        PROVE  Climbs(HeldIn[q], Programs[q], LoopRank)
    BY <1>2, PassOfLoop, BriefPrograms, TriggeringCallback DEF Names
  <1>5. ASSUME NEW q \in Names \ {"spinPass"}
        PROVE  Climbs(HeldIn[q], Programs[q], ThreadRank)
    BY <1>2, RegistryLast, BriefPrograms, TriggeringCallback DEF Names
  <1> QED BY <1>1, <1>3, <1>4, <1>5

\* Where the order is kept there are ranks that all programs climb.
LEMMA RanksExist ==
  ASSUME OrderKept
  PROVE  \E rank \in [Locks -> 1 .. 3] :
            \A t \in NodeThreads : \A q \in MayRun[t] : Climbs(HeldIn[q], Programs[q], rank)
  <1>1. \A t \in NodeThreads : MayRun[t] \subseteq Names
    BY LocksAssumption, ProgramsListed
  <1>2. LoopRank \in [Locks -> 1 .. 3] /\ ThreadRank \in [Locks -> 1 .. 3]
    BY DEF LoopRank, ThreadRank, Locks
  <1>3. CASE \A t \in NodeThreads : "spinPass" \notin MayRun[t]
    <2>1. \A t \in NodeThreads : MayRun[t] \subseteq Names \ {"spinPass"}
      BY <1>1, <1>3
    <2> QED BY <1>2, <2>1, ProgramsListed
  <1>4. CASE \A t \in NodeThreads : {"createSubscriber", "publishingCallback"} \cap MayRun[t] = {}
    <2>1. \A t \in NodeThreads :
             MayRun[t] \subseteq Names \ {"createSubscriber", "publishingCallback"}
      BY <1>1, <1>4
    <2> QED BY <1>2, <2>1, ProgramsListed
  <1> QED BY <1>3, <1>4 DEF OrderKept

-----------------------------------------------------------------------------
\* A mutex is held by a thread exactly when the thread's program has taken it
\* and not given it back.
HeldInv ==
    \A t \in NodeThreads : \A l \in Locks :
        heldBy[l] = t <=> program[t] # NoOne /\ l \in HeldIn[program[t]][next[t]]

ChosenInv == \A t \in NodeThreads : program[t] \in MayRun[t] \cup {NoOne}

LocksInv == LocksTypeOK /\ ChosenInv /\ HeldInv

LEMMA LocksInitially == LocksInit => LocksInv
  BY LocksAssumption DEF LocksInit, LocksInv, LocksTypeOK, ChosenInv, HeldInv

-----------------------------------------------------------------------------
\* Where a thread is after a step of its program, and what it holds there.
LEMMA Advances ==
  ASSUME LocksInv, NEW t \in NodeThreads, program[t] # NoOne, Advance(t)
  PROVE  LET n == next[t]
             h == HeldIn[program[t]]
             then == IF n < Len(Programs[program[t]]) THEN h[n + 1] ELSE {}
         IN  /\ heldBy' \in [Locks -> NodeThreads \cup {NoOne}] => LocksTypeOK'
             /\ ChosenInv'
             /\ \A u \in NodeThreads \ {t} : program'[u] = program[u] /\ next'[u] = next[u]
             /\ \A l \in Locks :
                   l \in then <=> program'[t] # NoOne /\ l \in HeldIn[program'[t]][next'[t]]
  <1> DEFINE q == program[t]
             p == Programs[q]
  <1>1. q \in Names /\ q # NoOne /\ q \in MayRun[t]
    BY ProgramsListed DEF LocksInv, LocksTypeOK, ChosenInv
  <1>2. Len(p) \in Nat \ {0} /\ DOMAIN p = 1 .. Len(p)
    BY <1>1, ProgramsListed DEF Lists
  <1>3. next[t] \in 1 .. Len(p)
    BY <1>2 DEF LocksInv, LocksTypeOK
  <1>4. CASE next[t] < Len(p)
    <2>1. /\ next' = [next EXCEPT ![t] = next[t] + 1] /\ UNCHANGED program
      BY <1>4 DEF Advance
    <2>2. next[t] + 1 \in DOMAIN p
      BY <1>2, <1>3, <1>4
    <2> HIDE DEF p
    <2>3. \A u \in NodeThreads \ {t} : program'[u] = program[u] /\ next'[u] = next[u]
      BY <2>1 DEF LocksInv, LocksTypeOK
    <2>4. next'[t] = next[t] + 1 /\ program'[t] = q /\ next' \in [NodeThreads -> Nat]
      BY <1>2, <1>3, <2>1 DEF LocksInv, LocksTypeOK
    <2>5. heldBy' \in [Locks -> NodeThreads \cup {NoOne}] => LocksTypeOK'
      BY <1>1, <2>1, <2>2, <2>3, <2>4 DEF LocksInv, LocksTypeOK, p
    <2>6. ChosenInv'
      BY <2>1 DEF LocksInv, ChosenInv
    <2> QED BY <1>1, <1>4, <2>3, <2>4, <2>5, <2>6 DEF p
  <1>5. CASE ~(next[t] < Len(p))
    <2>1. next' = [next EXCEPT ![t] = 1] /\ program' = [program EXCEPT ![t] = NoOne]
      BY <1>5 DEF Advance
    <2> HIDE DEF p
    <2>3. \A u \in NodeThreads \ {t} : program'[u] = program[u] /\ next'[u] = next[u]
      BY <2>1 DEF LocksInv, LocksTypeOK
    <2>4. next'[t] = 1 /\ program'[t] = NoOne /\ next' \in [NodeThreads -> Nat]
          /\ program' \in [NodeThreads -> DOMAIN Programs \cup {NoOne}]
      BY <2>1 DEF LocksInv, LocksTypeOK
    <2>5. heldBy' \in [Locks -> NodeThreads \cup {NoOne}] => LocksTypeOK'
      BY <2>3, <2>4 DEF LocksInv, LocksTypeOK
    <2>6. ChosenInv'
      BY <2>3, <2>4 DEF LocksInv, ChosenInv
    <2> QED BY <1>5, <2>3, <2>4, <2>5, <2>6 DEF p
  <1> QED BY <1>4, <1>5

LEMMA LocksInductive == LocksInv /\ [LocksNext]_locksVars => LocksInv'
  <1> SUFFICES ASSUME LocksInv, [LocksNext]_locksVars PROVE LocksInv'
    OBVIOUS
  <1>0. NoOne \notin NodeThreads /\ \A t \in NodeThreads : MayRun[t] \subseteq DOMAIN Programs
    BY LocksAssumption
  <1>1. ASSUME NEW t \in NodeThreads, NEW q \in MayRun[t], Begin(t, q) PROVE LocksInv'
    <2>1. q \in Names /\ q \in DOMAIN Programs /\ q # NoOne
      BY LocksAssumption, ProgramsListed
    <2>2. HeldIn[q][1] = {} /\ 1 \in DOMAIN Programs[q]
      BY <2>1, ProgramsListed DEF Lists
    <2>3. /\ program[t] = NoOne /\ next[t] = 1 /\ program'[t] = q
          /\ program' \in [NodeThreads -> DOMAIN Programs \cup {NoOne}]
          /\ \A u \in NodeThreads \ {t} : program'[u] = program[u]
      BY <1>1, <2>1 DEF Begin, LocksInv, LocksTypeOK
    <2>4. LocksTypeOK'
      BY <1>1, <2>1, <2>2, <2>3 DEF Begin, LocksInv, LocksTypeOK
    <2>5. ChosenInv'
      BY <2>3 DEF LocksInv, ChosenInv
    <2>6. HeldInv'
      BY <1>1, <2>1, <2>2, <2>3 DEF Begin, LocksInv, HeldInv
    <2> QED BY <2>4, <2>5, <2>6 DEF LocksInv
  <1>2. ASSUME NEW t \in NodeThreads, Lock(t) \/ Unlock(t) PROVE LocksInv'
    <2> DEFINE n == next[t]
               p == Programs[program[t]]
               h == HeldIn[program[t]]
               then == IF n < Len(p) THEN h[n + 1] ELSE {}
    <2>1. program[t] # NoOne /\ Advance(t) /\ Step(t) = p[n]
      BY <1>2 DEF Lock, Unlock, Step
    <2>2. program[t] \in Names
      BY <2>1, ProgramsListed DEF LocksInv, LocksTypeOK
    <2>3. n \in 1 .. Len(p)
      BY <2>1, <2>2, ProgramsListed DEF LocksInv, LocksTypeOK, Lists
    <2>4. /\ p[n].lock \in Locks
          /\ \/ p[n].op = "take" /\ p[n].lock \notin h[n] /\ then = h[n] \cup {p[n].lock}
             \/ p[n].op = "give" /\ p[n].lock \in h[n] /\ then = h[n] \ {p[n].lock}
      BY <2>2, <2>3, ProgramsListed DEF Lists
    <2>5. /\ heldBy' \in [Locks -> NodeThreads \cup {NoOne}] => LocksTypeOK'
          /\ ChosenInv'
          /\ \A u \in NodeThreads \ {t} : program'[u] = program[u] /\ next'[u] = next[u]
          /\ \A l \in Locks :
                l \in then <=> program'[t] # NoOne /\ l \in HeldIn[program'[t]][next'[t]]
      BY <2>1, Advances DEF LocksInv
    <2>6. \A l \in Locks : heldBy[l] = t <=> l \in h[n]
      BY <2>1 DEF LocksInv, HeldInv
    <2> DEFINE k == p[n].lock
    <2> HIDE DEF then, p, h, n
    <2>7. heldBy \in [Locks -> NodeThreads \cup {NoOne}]
      BY DEF LocksInv, LocksTypeOK
    <2>8. CASE p[n].op = "take"
      <3>1. heldBy[k] = NoOne /\ heldBy' = [heldBy EXCEPT ![k] = t]
        BY <1>2, <2>1, <2>8 DEF Lock, Unlock
      <3>2. then = h[n] \cup {k}
        BY <2>4, <2>8
      <3>3. \A l \in Locks : heldBy'[l] = IF l = k THEN t ELSE heldBy[l]
        BY <2>7, <3>1
      <3> HIDE DEF k
      <3>4. \A l \in Locks : heldBy'[l] = t <=> l \in then
        BY <2>6, <3>2, <3>3
      <3>5. \A u \in NodeThreads \ {t} : \A l \in Locks : heldBy'[l] = u <=> heldBy[l] = u
        BY <1>0, <3>1, <3>3
      <3>6. HeldInv'
        BY <2>5, <3>4, <3>5 DEF LocksInv, HeldInv
      <3>7. heldBy' \in [Locks -> NodeThreads \cup {NoOne}]
        BY <2>7, <3>1
      <3> QED BY <2>5, <3>6, <3>7 DEF LocksInv
    <2>9. CASE p[n].op = "give"
      <3>1. heldBy' = [heldBy EXCEPT ![k] = NoOne]
        BY <1>2, <2>1, <2>9 DEF Lock, Unlock
      <3>2. then = h[n] \ {k} /\ k \in h[n] /\ k \in Locks
        BY <2>4, <2>9
      <3>3. \A l \in Locks : heldBy'[l] = IF l = k THEN NoOne ELSE heldBy[l]
        BY <2>7, <3>1
      <3> HIDE DEF k
      <3>4. \A l \in Locks : heldBy'[l] = t <=> l \in then
        BY <1>0, <2>6, <3>2, <3>3
      <3>5. \A u \in NodeThreads \ {t} : \A l \in Locks : heldBy'[l] = u <=> heldBy[l] = u
        BY <1>0, <2>6, <3>2, <3>3
      <3>6. HeldInv'
        BY <2>5, <3>4, <3>5 DEF LocksInv, HeldInv
      <3>7. heldBy' \in [Locks -> NodeThreads \cup {NoOne}]
        BY <2>7, <3>1
      <3> QED BY <2>5, <3>6, <3>7 DEF LocksInv
    <2> QED BY <2>4, <2>8, <2>9
  <1>3. CASE UNCHANGED locksVars
    BY <1>3 DEF locksVars, LocksInv, LocksTypeOK, ChosenInv, HeldInv
  <1> QED BY <1>1, <1>2, <1>3 DEF LocksNext

\* Of threads that wait for one another, the one that wants the mutex of the
\* highest rank waits for one that wants a higher one.
LEMMA RanksForbidCircles ==
  ASSUME LocksInv, OrderKept PROVE NoCircularWait
  <1>1. PICK rank \in [Locks -> 1 .. 3] :
           \A t \in NodeThreads : \A q \in MayRun[t] : Climbs(HeldIn[q], Programs[q], rank)
    BY RanksExist
  <1> DEFINE wanted(t) == rank[Step(t).lock]
  <1>2. ASSUME NEW t \in NodeThreads, NEW u \in NodeThreads, Waits(t, u),
               NEW v \in NodeThreads, Waits(u, v)
        PROVE  wanted(t) \in 1 .. 3 /\ wanted(u) \in 1 .. 3 /\ wanted(t) < wanted(u)
    <2>1. ASSUME NEW x \in NodeThreads, NEW y, Waits(x, y)
          PROVE  /\ program[x] \in Names /\ program[x] \in MayRun[x] /\ program[x] # NoOne
                 /\ next[x] \in 1 .. Len(Programs[program[x]])
                 /\ Step(x).lock \in Locks /\ Step(x).op = "take" /\ heldBy[Step(x).lock] = y
      <3>1. program[x] \in Names /\ program[x] \in MayRun[x] /\ program[x] # NoOne
        BY <2>1, ProgramsListed DEF Waits, LocksInv, LocksTypeOK, ChosenInv
      <3>2. next[x] \in 1 .. Len(Programs[program[x]])
        BY <3>1, ProgramsListed DEF LocksInv, LocksTypeOK, Lists
      <3>3. Step(x).lock \in Locks
        BY <3>1, <3>2, ProgramsListed DEF Lists, Step
      <3> QED BY <2>1, <3>1, <3>2, <3>3 DEF Waits
    <2>2. Step(t).lock \in HeldIn[program[u]][next[u]]
      BY <1>2, <2>1 DEF LocksInv, HeldInv
    <2>3. Climbs(HeldIn[program[u]], Programs[program[u]], rank)
      BY <1>1, <1>2, <2>1
    <2>4. rank[Step(t).lock] < rank[Step(u).lock]
      BY <1>2, <2>1, <2>2, <2>3 DEF Climbs, Step
    <2> QED BY <1>1, <1>2, <2>1, <2>4
  <1>3. ASSUME NEW S \in SUBSET NodeThreads, \A t \in S : \E u \in S : Waits(t, u)
        PROVE  S = {}
    <2> DEFINE w(t) == wanted(t)
    <2>1. \A t \in S : w(t) \in 1 .. 3 /\ \E u \in S : w(u) \in 1 .. 3 /\ w(t) < w(u)
      BY <1>2, <1>3
    <2> HIDE DEF w, wanted
    <2>2. \A t \in S : w(t) # 3
      BY <2>1
    <2>3. \A t \in S : w(t) # 2
      BY <2>1, <2>2
    <2> QED BY <2>1, <2>2, <2>3
  <1> QED BY <1>3 DEF NoCircularWait

\* Threads of a node, any number of them, never wait for one another in a circle
\* (registry_mutex_, node_mutex_, a subscriber's mutex_), unless the loop runs
\* together with a subscription being made or a callback that publishes.
THEOREM LocksAreOrdered ==
  ASSUME OrderKept PROVE LocksSpec => []NoCircularWait
  <1>1. LocksInv => NoCircularWait
    BY RanksForbidCircles
  <1> QED BY <1>1, LocksInitially, LocksInductive, PTL DEF LocksSpec

=============================================================================
