---------------------------- MODULE PubSubProofs ----------------------------
(***************************************************************************)
(* Theorems about PubSub, for any number of nodes, topics, publishers,     *)
(* subscriptions and workers.                                              *)
(***************************************************************************)
EXTENDS PubSub, SequenceTheorems, WellFoundedInduction, TLAPS

Reading == {"read", "read2", "clear"}

\* The events that node n has processed and not yet cleared.
ElementsOf(q) == {q[i] : i \in 1 .. Len(q)}
Processed(n) == ElementsOf(processed[n])

\* What a node has in hand at each place of its loop: while it holds
\* registry_mutex_, subscriptions of its own whose event was in the snapshot;
\* otherwise nothing.
PhaseInv ==
    \A n \in Nodes :
        /\ spc[n] \notin Reading => processed[n] = <<>>
        /\ spc[n] \in {"read", "read2"} <=> todo[n] # {}
        /\ todo[n] \subseteq Triggered(n, snap[n])
        /\ \A t \in Processed(n) : \E s \in Triggered(n, snap[n]) : SubTopic[s] = t

\* The read that an event entitles a subscription to: the loop is on its way
\* to read it, or will be when it sees the event's bit, unless it is about to
\* clear that.
Owed(s) ==
    LET t == SubTopic[s] IN Due(s) \/ (t \in flags /\ t \notin Processed(SubNode[s]))

SpuriousInv ==
    \A s \in Subs : captures[s] + (IF Owed(s) THEN 1 ELSE 0) <= raises[SubTopic[s]]

\* A segment is in halves only while somebody who publishes holds its mutex.
WriteInv ==
    \A t \in Topics :
        IF segLock[t] = NoHolder THEN Whole(seg[t])
        ELSE PubTopic[segLock[t]] = t /\ ppc[segLock[t]] = "write"

\* The first half that a node has read is still in the segment, and so is the
\* message that a subscription has read, unless somebody is publishing.
HalfCurrent(n) ==
    LET t == SubTopic[Foremost(n)] IN Publishing(t) \/ first[n] = seg[t][1]
Current(s) == Publishing(SubTopic[s]) \/ msg[s] = seg[SubTopic[s]]

\* So it is as long as the node holds registry_mutex_.
ReadInv ==
    \A n \in Nodes :
        /\ spc[n] = "read2" => HalfCurrent(n)
        /\ spc[n] \in Reading /\ spinning[n] =>
               \A s \in Triggered(n, snap[n]) \ todo[n] : Current(s)

\* All that publish on a topic or subscribe to it are in one process.
LocalTopics ==
    /\ \A p \in Publishers, s \in Subs : PubTopic[p] = SubTopic[s] => PubNode[p] = SubNode[s]
    /\ \A s, u \in Subs : SubTopic[s] = SubTopic[u] => SubNode[s] = SubNode[u]

LostInv == LocalTopics => NoLostUpdate /\ ReadInv

IInv == /\ TypeOK /\ RegistryExclusive /\ PhaseInv
        /\ SpuriousInv /\ WriteInv /\ LostInv

-----------------------------------------------------------------------------
LEMMA Elements ==
  /\ ElementsOf(<<>>) = {}
  /\ \A q \in Seq(Topics), t \in Topics : ElementsOf(Append(q, t)) = ElementsOf(q) \cup {t}
  /\ \A q \in Seq(Topics) : q # <<>> =>
         Head(q) \in ElementsOf(q) /\ ElementsOf(q) = {Head(q)} \cup ElementsOf(Tail(q))
  <1>1. ElementsOf(<<>>) = {}
    BY EmptySeq DEF ElementsOf
  <1>2. ASSUME NEW q \in Seq(Topics), NEW t \in Topics
        PROVE  ElementsOf(Append(q, t)) = ElementsOf(q) \cup {t}
    <2>1. /\ Len(Append(q, t)) = Len(q) + 1 /\ Len(q) \in Nat
          /\ Append(q, t)[Len(q) + 1] = t
          /\ \A i \in 1 .. Len(q) : Append(q, t)[i] = q[i]
      BY AppendProperties, LenProperties
    <2> QED BY <2>1 DEF ElementsOf
  <1>3. ASSUME NEW q \in Seq(Topics), q # <<>>
        PROVE  Head(q) \in ElementsOf(q) /\ ElementsOf(q) = {Head(q)} \cup ElementsOf(Tail(q))
    <2>1. /\ Len(q) \in Nat \ {0} /\ Head(q) = q[1] /\ Len(Tail(q)) = Len(q) - 1
          /\ \A i \in 1 .. Len(q) - 1 : Tail(q)[i] = q[i + 1]
      <3>1. Len(q) \in Nat /\ Len(q) # 0
        BY <1>3, LenProperties, EmptySeq
      <3>2. Head(q) = q[1]
        OBVIOUS
      <3> QED BY <1>3, <3>1, <3>2, HeadTailProperties
    <2>2. \A i \in 1 .. Len(q) : i = 1 \/ (i - 1 \in 1 .. Len(Tail(q)) /\ q[i] = Tail(q)[i - 1])
      BY <2>1
    <2>3. \A i \in 1 .. Len(Tail(q)) : i + 1 \in 1 .. Len(q) /\ Tail(q)[i] = q[i + 1]
      BY <2>1
    <2>4. Head(q) \in ElementsOf(q) /\ ElementsOf(Tail(q)) \subseteq ElementsOf(q)
      BY <2>1, <2>3 DEF ElementsOf
    <2>5. ASSUME NEW x \in ElementsOf(q) PROVE x = Head(q) \/ x \in ElementsOf(Tail(q))
      <3>1. PICK i \in 1 .. Len(q) : x = q[i]
        BY DEF ElementsOf
      <3>2. CASE i = 1
        BY <2>1, <3>1, <3>2
      <3>3. CASE i - 1 \in 1 .. Len(Tail(q)) /\ x = Tail(q)[i - 1]
        BY <3>3 DEF ElementsOf
      <3> QED BY <2>2, <3>1, <3>2, <3>3
    <2> QED BY <2>4, <2>5
  <1> QED BY <1>1, <1>2, <1>3

LEMMA InitIInv == Init => IInv
  <1> SUFFICES ASSUME Init PROVE IInv
    OBVIOUS
  <1> USE PubSubAssumption
  <1>1. TypeOK
    <2>1. 0 \in Version /\ 0 \in Nat
      BY DEF Version
    <2>2. \A S : <<>> \in Seq(S)
      BY EmptySeq
    <2>3. seg \in [Topics -> Message] /\ msg \in [Subs -> Message]
      BY <2>1 DEF Init, Message
    <2>4. sent \in [Topics -> Version] /\ first \in [Nodes -> Version] /\ delivered \in [Subs -> Version]
      BY <2>1 DEF Init
    <2>5. processed \in [Nodes -> Seq(Topics)] /\ queue \in [Nodes -> Seq(Task)]
      BY <2>2 DEF Init
    <2>6. /\ segLock \in [Topics -> Publishers \cup {NoHolder}]
          /\ flags \subseteq Topics
          /\ registry \in [Nodes -> Publishers \cup Nodes \cup {NoHolder}]
          /\ ppc \in [Publishers -> {"idle", "write", "registry", "raise"}]
          /\ spc \in [Nodes -> {"wait", "check", "enter", "read", "read2", "clear", "ended"}]
          /\ snap \in [Nodes -> SUBSET Topics]
          /\ todo \in [Nodes -> SUBSET Subs]
      BY DEF Init
    <2>7. /\ running \in [Nodes -> [1 .. NumWorkers -> Task \cup {NoTask}]]
          /\ exited \in [Nodes -> SUBSET (1 .. NumWorkers)]
          /\ spinning \in [Nodes -> BOOLEAN]
          /\ stopping \in [Nodes -> {"no", "began", "pool", "stopped"}]
          /\ raises \in [Topics -> Nat]
          /\ captures \in [Subs -> Nat]
      BY DEF Init
    <2> QED BY <2>3, <2>4, <2>5, <2>6, <2>7 DEF TypeOK
  <1>2. RegistryExclusive
    BY DEF Init, RegistryExclusive
  <1>3. PhaseInv
    <2>1. \A n \in Nodes : processed[n] = <<>> /\ Processed(n) = {}
      BY Elements DEF Init, Processed
    <2> QED BY <2>1 DEF Init, PhaseInv, Reading
  <1>4. SpuriousInv
    BY DEF Init, SpuriousInv, Owed, Due
  <1>5. WriteInv
    BY DEF Init, WriteInv, Whole
  <1>6. NoLostUpdate /\ ReadInv
    BY DEF Init, NoLostUpdate, ReadInv, Reading
  <1> QED BY <1>1, <1>2, <1>3, <1>4, <1>5, <1>6 DEF IInv, LostInv

-----------------------------------------------------------------------------
\* The subscription the loop visits next is one of those that are left.
LEMMA ForemostIsLeft ==
  ASSUME TypeOK, NEW n \in Nodes, todo[n] # {}
  PROVE  Foremost(n) \in todo[n]
  <1> DEFINE R == {SubOrder[s] : s \in todo[n]}
  <1>1. todo[n] \subseteq Subs /\ R \subseteq Nat /\ R # {}
    BY PubSubAssumption DEF TypeOK
  <1>2. PICK x \in R : \A y \in R : ~(<<y, x>> \in OpToRel(<, Nat))
    BY <1>1, NatLessThanWellFounded, WFMin
  <1>3. \A y \in R : x <= y
    <2>1. \A y \in R : x \in Nat /\ y \in Nat /\ ~(y < x)
      BY <1>1, <1>2 DEF OpToRel
    <2> QED BY <2>1
  <1>4. \E s \in todo[n] : \A u \in todo[n] : SubOrder[s] <= SubOrder[u]
    BY <1>3
  <1> QED BY <1>4 DEF Foremost

\* A message that is written, or read, has two halves.
LEMMA Halves ==
  /\ \A m \in Message : m[1] \in Version /\ m[2] \in Version
  /\ \A x, y \in Version : <<x, y>> \in Message
  /\ 0 \in Version
  BY DEF Message, Version

-----------------------------------------------------------------------------
(* Typing.                                                                 *)

LEMMA TypeOfPublish ==
  ASSUME IInv, NEW p \in Publishers, WriteFirst(p) \/ Publish(p)
  PROVE  TypeOK'
  <1> USE PubSubAssumption, Halves DEF IInv, TypeOK, spinVars, poolVars, stopVars, segVars
  <1>1. CASE WriteFirst(p)
    <2> DEFINE t == PubTopic[p]
    <2>1. sent[t] + 1 \in Version
      <3>1. sent[t] \in Nat /\ sent[t] < MaxSent[t]
        BY <1>1 DEF WriteFirst, Version
      <3> QED BY <3>1 DEF Version
    <2>2. sent' = [sent EXCEPT ![t] = sent[t] + 1] /\ sent' \in [Topics -> Version]
      BY <1>1, <2>1 DEF WriteFirst
    <2>3. seg' \in [Topics -> Message]
      <3>1. <<sent'[t], seg[t][2]>> \in Message
        BY <2>1, <2>2
      <3> QED BY <1>1, <3>1 DEF WriteFirst
    <2> QED BY <1>1, <2>2, <2>3 DEF WriteFirst
  <1>2. CASE WriteSecond(p)
    <2>1. seg' \in [Topics -> Message]
      <3>1. <<seg[PubTopic[p]][1], seg[PubTopic[p]][1]>> \in Message
        OBVIOUS
      <3> QED BY <1>2, <3>1 DEF WriteSecond
    <2> QED BY <1>2, <2>1 DEF WriteSecond
  <1>3. CASE TriggerLock(p)
    BY <1>3 DEF TriggerLock
  <1>4. CASE TriggerRaise(p)
    BY <1>4 DEF TriggerRaise
  <1> QED BY <1>1, <1>2, <1>3, <1>4 DEF Publish

LEMMA TypeOfSpin ==
  ASSUME IInv, NEW n \in Nodes, Spin(n)
  PROVE  TypeOK'
  <1> USE PubSubAssumption, Halves DEF IInv, TypeOK, poolVars, stopVars, segVars
  <1>1. CASE SpinWait(n)
    BY <1>1 DEF SpinWait
  <1>2. CASE SpinCheck(n)
    BY <1>2 DEF SpinCheck
  <1>3. CASE SpinEnter(n)
    BY <1>3 DEF SpinEnter, Triggered, NextRead
  <1>4. CASE ReadFirst(n)
    <2>1. Foremost(n) \in todo[n]
      BY <1>4, ForemostIsLeft DEF ReadFirst, PhaseInv
    <2>2. first' \in [Nodes -> Version]
      BY <1>4, <2>1 DEF ReadFirst
    <2> QED BY <1>4, <2>2 DEF ReadFirst
  <1>5. CASE ReadSkip(n)
    <2>1. todo' \in [Nodes -> SUBSET Subs]
      BY <1>5 DEF ReadSkip
    <2>2. PICK x \in {"clear", "read"} : spc' = [spc EXCEPT ![n] = x]
      BY <1>5 DEF ReadSkip, NextRead
    <2> QED BY <1>5, <2>1, <2>2 DEF ReadSkip
  <1>6. CASE ReadSecond(n)
    <2> DEFINE s == Foremost(n)
               m == <<first[n], seg[SubTopic[s]][2]>>
    <2>1. s \in todo[n] /\ s \in Subs
      BY <1>6, ForemostIsLeft DEF ReadSecond, PhaseInv
    <2>2. m \in Message
      BY <2>1
    <2>3. msg' \in [Subs -> Message]
      <3>1. msg' = [msg EXCEPT ![s] = m] \/ msg' = msg
        BY <1>6 DEF ReadSecond
      <3>2. msg \in [Subs -> Message]
        OBVIOUS
      <3>3. [msg EXCEPT ![s] = m] \in [Subs -> Message]
        BY ONLY <2>2, <3>2
      <3> HIDE DEF m, s
      <3> QED BY ONLY <3>1, <3>2, <3>3
    <2>4. queue' \in [Nodes -> Seq(Task)]
      <3>1. [sub |-> s, msg |-> msg'[s]] \in Task
        BY <2>1, <2>3 DEF Task
      <3>2. Append(queue[n], [sub |-> s, msg |-> msg'[s]]) \in Seq(Task)
        BY <3>1, AppendProperties
      <3> QED BY <1>6, <3>2 DEF ReadSecond
    <2>5. processed' \in [Nodes -> Seq(Topics)]
      <3>1. Append(processed[n], SubTopic[s]) \in Seq(Topics)
        BY <2>1, AppendProperties
      <3> QED BY <1>6, <3>1 DEF ReadSecond
    <2>6. /\ captures' \in [Subs -> Nat] /\ first' \in [Nodes -> Version]
          /\ todo' \in [Nodes -> SUBSET Subs]
      BY <1>6, <2>1 DEF ReadSecond
    <2>7. spc' \in [Nodes -> {"wait", "check", "enter", "read", "read2", "clear", "ended"}]
      BY <1>6 DEF ReadSecond, NextRead
    <2>8. UNCHANGED <<segVars, flags, registry, ppc, snap, raises, running, exited,
                      delivered, stopVars>>
      BY <1>6 DEF ReadSecond
    <2> HIDE DEF s, m
    <2> QED BY <2>3, <2>4, <2>5, <2>6, <2>7, <2>8
  <1>7. CASE SpinClear(n)
    <2>1. processed' \in [Nodes -> Seq(Topics)]
      BY <1>7, HeadTailProperties DEF SpinClear
    <2> QED BY <1>7, <2>1 DEF SpinClear
  <1>8. CASE SpinLeave(n)
    BY <1>8 DEF SpinLeave
  <1> QED BY <1>1, <1>2, <1>3, <1>4, <1>5, <1>6, <1>7, <1>8 DEF Spin

\* Workers and those who stop a node have no part in what follows.
LEMMA TypeOfPool ==
  ASSUME IInv, NEW n \in Nodes,
         Worker(n) \/ StopSpinning(n) \/ StopPool(n) \/ StopReturns(n)
  PROVE  /\ TypeOK'
         /\ UNCHANGED <<segVars, flags, registry, ppc, raises, spinVars>>
         /\ \A k \in Nodes : spinning'[k] => spinning[k]
  <1> USE PubSubAssumption DEF IInv, TypeOK, segVars, spinVars, poolVars, stopVars
  <1>1. ASSUME NEW i \in 1 .. NumWorkers, Take(n, i)
        PROVE  /\ TypeOK'
               /\ UNCHANGED <<segVars, flags, registry, ppc, raises, spinVars, spinning>>
    <2>1. queue[n] \in Seq(Task) /\ queue[n] # <<>>
      BY <1>1 DEF Take
    <2>2. Head(queue[n]) \in Task /\ Tail(queue[n]) \in Seq(Task)
      BY <2>1, HeadTailProperties
    <2>3. queue' \in [Nodes -> Seq(Task)]
      BY <1>1, <2>2 DEF Take
    <2>4. running' \in [Nodes -> [1 .. NumWorkers -> Task \cup {NoTask}]]
      BY <1>1, <2>2 DEF Take
    <2> QED BY <1>1, <2>3, <2>4 DEF Take
  <1>2. ASSUME NEW i \in 1 .. NumWorkers, Execute(n, i)
        PROVE  /\ TypeOK'
               /\ UNCHANGED <<segVars, flags, registry, ppc, raises, spinVars, spinning>>
    <2>1. running[n][i] \in Task
      BY <1>2 DEF Execute
    <2>2. running[n][i].sub \in Subs /\ running[n][i].msg[1] \in Version
      BY <2>1, Halves DEF Task
    <2>3. delivered' \in [Subs -> Version]
      BY <1>2, <2>2 DEF Execute
    <2>4. running' \in [Nodes -> [1 .. NumWorkers -> Task \cup {NoTask}]]
      BY <1>2 DEF Execute
    <2> QED BY <1>2, <2>3, <2>4 DEF Execute
  <1>3. ASSUME NEW i \in 1 .. NumWorkers, Exit(n, i)
        PROVE  /\ TypeOK'
               /\ UNCHANGED <<segVars, flags, registry, ppc, raises, spinVars, spinning>>
    <2>1. exited' \in [Nodes -> SUBSET (1 .. NumWorkers)]
      BY <1>3 DEF Exit
    <2> QED BY <1>3, <2>1 DEF Exit
  <1>4. CASE StopSpinning(n)
    BY <1>4 DEF StopSpinning
  <1>5. CASE StopPool(n)
    BY <1>5 DEF StopPool
  <1>6. CASE StopReturns(n)
    BY <1>6 DEF StopReturns
  <1> QED BY <1>1, <1>2, <1>3, <1>4, <1>5, <1>6 DEF Worker

-----------------------------------------------------------------------------
\* A loop changes what it has in hand, and nothing of other nodes.
LEMMA SpinIsLocal ==
  ASSUME TypeOK, NEW n \in Nodes, Spin(n)
  PROVE  /\ UNCHANGED <<segVars, ppc, raises, stopVars>>
         /\ \A k \in Nodes \ {n} :
                /\ spc'[k] = spc[k] /\ snap'[k] = snap[k] /\ todo'[k] = todo[k]
                /\ first'[k] = first[k] /\ processed'[k] = processed[k]
                /\ registry'[k] = registry[k]
  <1> USE DEF TypeOK
  <1>1. CASE SpinWait(n) \/ SpinCheck(n) \/ SpinEnter(n)
    BY <1>1 DEF SpinWait, SpinCheck, SpinEnter
  <1>2. CASE ReadFirst(n) \/ ReadSkip(n)
    BY <1>2 DEF ReadFirst, ReadSkip
  <1>3. CASE ReadSecond(n)
    BY <1>3 DEF ReadSecond
  <1>4. CASE SpinClear(n) \/ SpinLeave(n)
    BY <1>4 DEF SpinClear, SpinLeave
  <1> QED BY <1>1, <1>2, <1>3, <1>4 DEF Spin

\* Where a loop goes, and when it takes and releases registry_mutex_.
LEMMA SpinPlaces ==
  ASSUME TypeOK, NEW n \in Nodes, Spin(n)
  PROVE  \/ /\ (spc[n] \in Reading <=> spc'[n] \in Reading) /\ UNCHANGED registry
         \/ /\ spc[n] = "enter" /\ spc'[n] \in Reading /\ registry[n] = NoHolder
            /\ registry' = [registry EXCEPT ![n] = n]
         \/ /\ spc[n] = "clear" /\ spc'[n] \notin Reading
            /\ registry' = [registry EXCEPT ![n] = NoHolder]
  <1> USE DEF TypeOK, Reading, NextRead
  <1>1. CASE SpinWait(n) \/ SpinCheck(n)
    BY <1>1 DEF SpinWait, SpinCheck
  <1>2. CASE SpinEnter(n)
    BY <1>2 DEF SpinEnter
  <1>3. CASE ReadFirst(n) \/ ReadSkip(n)
    BY <1>3 DEF ReadFirst, ReadSkip
  <1>4. CASE ReadSecond(n)
    BY <1>4 DEF ReadSecond
  <1>5. CASE SpinClear(n) \/ SpinLeave(n)
    BY <1>5 DEF SpinClear, SpinLeave
  <1> QED BY <1>1, <1>2, <1>3, <1>4, <1>5 DEF Spin

LEMMA RegistryOfPublish ==
  ASSUME IInv, NEW p \in Publishers, WriteFirst(p) \/ Publish(p)
  PROVE  RegistryExclusive'
  <1> USE PubSubAssumption DEF IInv, TypeOK, RegistryExclusive, spinVars
  <1>1. CASE WriteFirst(p)
    BY <1>1 DEF WriteFirst
  <1>2. CASE WriteSecond(p)
    BY <1>2 DEF WriteSecond
  <1>3. CASE TriggerLock(p)
    BY <1>3 DEF TriggerLock
  <1>4. CASE TriggerRaise(p)
    BY <1>4 DEF TriggerRaise
  <1> QED BY <1>1, <1>2, <1>3, <1>4 DEF Publish

LEMMA RegistryOfSpin ==
  ASSUME IInv, NEW n \in Nodes, Spin(n)
  PROVE  RegistryExclusive'
  <1> SUFFICES ASSUME NEW k \in Nodes
               PROVE  /\ spc'[k] \in Reading <=> registry'[k] = k
                      /\ \A p \in Publishers :
                            registry'[k] = p <=> PubNode[p] = k /\ ppc'[p] = "raise"
    BY DEF RegistryExclusive, Reading
  <1>1. /\ spc[k] \in Reading <=> registry[k] = k
        /\ \A p \in Publishers : registry[k] = p <=> PubNode[p] = k /\ ppc[p] = "raise"
    BY DEF IInv, RegistryExclusive, Reading
  <1>2. TypeOK /\ UNCHANGED ppc
    BY SpinIsLocal DEF IInv
  <1>3. CASE k # n
    BY <1>1, <1>2, <1>3, SpinIsLocal
  <1>4. CASE k = n
    <2>1. NoHolder # n /\ NoHolder \notin Publishers /\ n \notin Publishers
      BY PubSubAssumption
    <2>2. registry[n] \in Publishers \cup Nodes \cup {NoHolder}
      BY <1>2 DEF TypeOK
    <2>3. \/ UNCHANGED registry
          \/ registry' = [registry EXCEPT ![n] = n] \/ registry' = [registry EXCEPT ![n] = NoHolder]
      BY <1>2, SpinPlaces
    <2>4. CASE (spc[n] \in Reading <=> spc'[n] \in Reading) /\ UNCHANGED registry
      BY <1>1, <1>2, <1>4, <2>4
    <2>5. CASE /\ spc[n] = "enter" /\ spc'[n] \in Reading /\ registry[n] = NoHolder
               /\ registry' = [registry EXCEPT ![n] = n]
      BY <1>1, <1>2, <1>4, <2>1, <2>5 DEF TypeOK
    <2>6. CASE /\ spc[n] = "clear" /\ spc'[n] \notin Reading
               /\ registry' = [registry EXCEPT ![n] = NoHolder]
      BY <1>1, <1>2, <1>4, <2>1, <2>6 DEF TypeOK, Reading
    <2> QED BY <1>2, <2>4, <2>5, <2>6, SpinPlaces
  <1> QED BY <1>3, <1>4

-----------------------------------------------------------------------------
\* What a publisher does leaves every loop where it is.
LEMMA PublishKeepsLoops ==
  ASSUME NEW p \in Publishers, WriteFirst(p) \/ Publish(p)
  PROVE  UNCHANGED <<spc, snap, todo, first, processed, msg, captures, spinning>>
  BY DEF WriteFirst, Publish, WriteSecond, TriggerLock, TriggerRaise, spinVars, stopVars

LEMMA PhaseOfSpin ==
  ASSUME IInv, NEW n \in Nodes, Spin(n)
  PROVE  PhaseInv'
  <1> DEFINE Phase(k) ==
        /\ spc[k] \notin Reading => processed[k] = <<>>
        /\ spc[k] \in {"read", "read2"} <=> todo[k] # {}
        /\ todo[k] \subseteq Triggered(k, snap[k])
        /\ \A t \in Processed(k) : \E s \in Triggered(k, snap[k]) : SubTopic[s] = t
  <1> SUFFICES ASSUME NEW k \in Nodes PROVE Phase(k)'
    BY DEF PhaseInv
  <1>0. Phase(k) /\ TypeOK
    BY DEF IInv, PhaseInv
  <1>1. CASE k # n
    BY <1>0, <1>1, SpinIsLocal DEF Processed, Triggered
  <1>2. CASE k = n
    <2> USE <1>0, <1>2 DEF Reading, NextRead, TypeOK
    <2>1. CASE SpinWait(n)
      <3>1. todo[n] = {} /\ processed[n] = <<>>
        BY <2>1 DEF SpinWait
      <3>2. todo'[n] = {} /\ processed'[n] = <<>> /\ spc'[n] = "check"
        BY <2>1, <3>1 DEF SpinWait
      <3> QED BY <3>2, Elements DEF Processed
    <2>2. CASE SpinCheck(n)
      BY <2>2 DEF SpinCheck, Processed, Triggered
    <2>3. CASE SpinEnter(n)
      <3>1. processed'[n] = <<>>
        BY <2>3 DEF SpinEnter
      <3>2. /\ todo'[n] = Triggered(n, snap[n]) /\ snap'[n] = snap[n]
            /\ spc'[n] = IF todo'[n] = {} THEN "clear" ELSE "read"
        BY <2>3 DEF SpinEnter, Triggered
      <3> QED BY <3>1, <3>2, Elements DEF Processed, Triggered
    <2>4. CASE ReadFirst(n)
      BY <2>4 DEF ReadFirst, Processed, Triggered
    <2>5. CASE ReadSkip(n)
      BY <2>5 DEF ReadSkip, Processed, Triggered
    <2>6. CASE ReadSecond(n)
      <3>1. Foremost(n) \in todo[n] /\ Foremost(n) \in Subs
        BY <2>6, ForemostIsLeft DEF ReadSecond
      <3>2. /\ processed'[n] = Append(processed[n], SubTopic[Foremost(n)])
            /\ todo'[n] = todo[n] \ {Foremost(n)} /\ snap'[n] = snap[n]
            /\ spc'[n] = IF todo'[n] = {} THEN "clear" ELSE "read"
        BY <2>6 DEF ReadSecond
      <3>3. Processed(n)' = Processed(n) \cup {SubTopic[Foremost(n)]}
        BY <3>1, <3>2, Elements, PubSubAssumption DEF Processed
      <3> QED BY <3>1, <3>2, <3>3 DEF Triggered
    <2>7. CASE SpinClear(n)
      <3>1. processed'[n] = Tail(processed[n]) /\ processed[n] # <<>>
        BY <2>7 DEF SpinClear
      <3>2. Processed(n)' \subseteq Processed(n)
        BY <3>1, Elements DEF Processed
      <3> QED BY <2>7, <3>2 DEF SpinClear, Triggered
    <2>8. CASE SpinLeave(n)
      <3>1. processed'[n] = <<>> /\ todo'[n] = {} /\ spc'[n] \in {"wait", "ended"}
        BY <2>8 DEF SpinLeave
      <3> QED BY <3>1, Elements DEF Processed
    <2> QED BY <2>1, <2>2, <2>3, <2>4, <2>5, <2>6, <2>7, <2>8 DEF Spin
  <1> QED BY <1>1, <1>2

-----------------------------------------------------------------------------
LEMMA SpuriousOfPublish ==
  ASSUME IInv, NEW p \in Publishers, WriteFirst(p) \/ Publish(p)
  PROVE  SpuriousInv'
  <1>1. UNCHANGED <<spc, snap, todo, processed, captures>>
    BY PublishKeepsLoops
  <1>2. CASE TriggerRaise(p)
    <2> SUFFICES ASSUME NEW s \in Subs
                 PROVE  captures'[s] + (IF Owed(s)' THEN 1 ELSE 0) <= raises'[SubTopic[s]]
      BY DEF SpuriousInv
    <2>1. /\ captures[s] + (IF Owed(s) THEN 1 ELSE 0) <= raises[SubTopic[s]]
          /\ captures[s] \in Nat /\ raises[SubTopic[s]] \in Nat
      BY PubSubAssumption DEF IInv, SpuriousInv, TypeOK
    <2>2. CASE SubTopic[s] = PubTopic[p]
      <3>1. raises'[SubTopic[s]] = raises[SubTopic[s]] + 1
        BY <1>2, <2>2, PubSubAssumption DEF TriggerRaise, IInv, TypeOK
      <3> QED BY <1>1, <2>1, <3>1
    <2>3. CASE SubTopic[s] # PubTopic[p]
      <3>1. raises'[SubTopic[s]] = raises[SubTopic[s]]
        BY <1>2, <2>3, PubSubAssumption DEF TriggerRaise, IInv, TypeOK
      <3>2. Owed(s)' <=> Owed(s)
        BY <1>1, <1>2, <2>3 DEF Owed, Due, Processed, TriggerRaise
      <3> QED BY <1>1, <2>1, <3>1, <3>2
    <2> QED BY <2>2, <2>3
  <1>3. CASE ~TriggerRaise(p)
    <2>1. UNCHANGED <<flags, raises>>
      BY <1>3 DEF WriteFirst, Publish, WriteSecond, TriggerLock
    <2>2. \A s \in Subs : Owed(s)' <=> Owed(s)
      BY <1>1, <2>1 DEF Owed, Due, Processed
    <2> QED BY <1>1, <2>1, <2>2 DEF IInv, SpuriousInv
  <1> QED BY <1>2, <1>3

\* A subscription that is not read is owed no more than before.
LEMMA SpuriousOfSpin ==
  ASSUME IInv, NEW n \in Nodes, Spin(n)
  PROVE  SpuriousInv'
  <1> SUFFICES ASSUME NEW s \in Subs
               PROVE  captures'[s] + (IF Owed(s)' THEN 1 ELSE 0) <= raises'[SubTopic[s]]
    BY DEF SpuriousInv
  <1> DEFINE t == SubTopic[s]
             k == SubNode[s]
  <1>1. /\ captures[s] + (IF Owed(s) THEN 1 ELSE 0) <= raises[t]
        /\ captures[s] \in Nat /\ raises[t] \in Nat /\ k \in Nodes /\ t \in Topics
    BY PubSubAssumption DEF IInv, SpuriousInv, TypeOK
  <1>2. TypeOK /\ UNCHANGED raises
    BY SpinIsLocal DEF IInv
  <1>3. CASE k = n /\ ReadSecond(n) /\ s = Foremost(n)
    <2>1. s \in todo[n]
      BY <1>2, <1>3, ForemostIsLeft DEF ReadSecond, IInv, PhaseInv
    <2>2. /\ captures'[s] = captures[s] + 1 /\ s \notin todo'[n]
          /\ spc'[n] \in {"read", "clear"} /\ processed'[n] = Append(processed[n], t)
      BY <1>2, <1>3 DEF ReadSecond, NextRead, TypeOK
    <2>3. t \in Processed(n)'
      BY <1>1, <1>2, <2>2, Elements DEF Processed, TypeOK
    <2>4. Owed(s) /\ ~Owed(s)'
      BY <1>3, <2>1, <2>2, <2>3 DEF Owed, Due
    <2> QED BY <1>1, <1>2, <2>2, <2>4
  <1>4. CASE ~(k = n /\ ReadSecond(n) /\ s = Foremost(n))
    <2>1. captures'[s] = captures[s]
      <3>1. CASE ReadSecond(n)
        <4>1. Foremost(n) \in Triggered(n, snap[n])
          BY <1>2, <3>1, ForemostIsLeft DEF ReadSecond, IInv, PhaseInv
        <4>2. s # Foremost(n)
          BY <1>4, <3>1, <4>1 DEF Triggered
        <4> QED BY <1>2, <3>1, <4>2 DEF ReadSecond, TypeOK
      <3>2. CASE ~ReadSecond(n)
        BY <3>2 DEF Spin, SpinWait, SpinCheck, SpinEnter, ReadFirst, ReadSkip, SpinClear, SpinLeave
      <3> QED BY <3>1, <3>2
    <2>2. ASSUME k # n PROVE Owed(s)' => Owed(s)
      <3>1. flags' \subseteq flags
        BY DEF Spin, SpinWait, SpinCheck, SpinEnter, ReadFirst, ReadSkip, ReadSecond, SpinClear, SpinLeave
      <3>2. spc'[k] = spc[k] /\ snap'[k] = snap[k] /\ todo'[k] = todo[k] /\ processed'[k] = processed[k]
        BY <1>1, <1>2, <2>2, SpinIsLocal
      <3> QED BY <3>1, <3>2 DEF Owed, Due, Processed
    <2>3. ASSUME k = n PROVE Owed(s)' => Owed(s)
      <3> USE <1>1, <1>2, <2>3 DEF Owed, Due, NextRead
      <3>0. /\ spc[n] \notin Reading => processed[n] = <<>> /\ Processed(n) = {}
            /\ spc[n] \in {"read", "read2"} <=> todo[n] # {}
        BY Elements DEF IInv, PhaseInv, Processed
      <3>1. CASE SpinWait(n)
        <4>1. Processed(n) = {} /\ todo'[n] = {} /\ snap'[n] = flags
          BY <3>0, <3>1 DEF SpinWait, Reading, TypeOK
        <4> QED BY <3>1, <4>1 DEF SpinWait
      <3>2. CASE SpinCheck(n)
        <4>1. spc[n] = "check" /\ UNCHANGED <<flags, snap, todo, processed>>
          BY <3>2 DEF SpinCheck
        <4> QED BY <3>0, <4>1 DEF Processed, Reading
      <3>3. CASE SpinEnter(n)
        <4>1. /\ UNCHANGED <<flags, snap, processed>> /\ spc[n] = "enter"
              /\ todo'[n] = Triggered(n, snap[n]) /\ spc'[n] \in {"read", "clear"}
          BY <3>3 DEF SpinEnter, TypeOK
        <4> QED BY <4>1 DEF Processed, Triggered
      <3>4. CASE ReadFirst(n)
        <4>1. UNCHANGED <<flags, todo, processed, snap>> /\ spc'[n] = "read2"
          BY <3>4 DEF ReadFirst, TypeOK
        <4> QED BY <4>1 DEF Processed
      <3>5. CASE ReadSkip(n)
        <4>1. UNCHANGED <<flags, processed>> /\ spc'[n] \in {"read", "clear"} /\ todo'[n] \subseteq todo[n]
          BY <3>5 DEF ReadSkip, TypeOK
        <4> QED BY <4>1 DEF Processed
      <3>6. CASE ReadSecond(n)
        <4>1. /\ UNCHANGED flags /\ spc'[n] \in {"read", "clear"} /\ todo'[n] \subseteq todo[n]
              /\ processed'[n] = Append(processed[n], SubTopic[Foremost(n)])
          BY <3>6 DEF ReadSecond, TypeOK
        <4>2. Foremost(n) \in Subs /\ processed[n] \in Seq(Topics)
          BY <3>6, <3>0, ForemostIsLeft DEF ReadSecond, TypeOK
        <4>3. Processed(n) \subseteq Processed(n)'
          BY <4>1, <4>2, Elements, PubSubAssumption DEF Processed
        <4> QED BY <4>1, <4>3
      <3>7. CASE SpinClear(n)
        <4>1. /\ flags' = flags \ {Head(processed[n])} /\ processed[n] # <<>>
              /\ processed'[n] = Tail(processed[n]) /\ processed[n] \in Seq(Topics)
              /\ UNCHANGED <<spc, snap, todo>>
          BY <3>7 DEF SpinClear, TypeOK
        <4>2. Processed(n) = {Head(processed[n])} \cup Processed(n)'
          BY <4>1, Elements DEF Processed
        <4> QED BY <4>1, <4>2
      <3>8. CASE SpinLeave(n)
        <4>1. /\ UNCHANGED <<flags, todo, processed>> /\ spc'[n] \in {"wait", "ended"}
          BY <3>8 DEF SpinLeave, TypeOK
        <4> QED BY <4>1 DEF Processed
      <3> QED BY <3>1, <3>2, <3>3, <3>4, <3>5, <3>6, <3>7, <3>8 DEF Spin
    <2> QED BY <1>1, <1>2, <2>1, <2>2, <2>3
  <1> QED BY <1>3, <1>4

-----------------------------------------------------------------------------
LEMMA WriteOfPublish ==
  ASSUME IInv, NEW p \in Publishers, WriteFirst(p) \/ Publish(p)
  PROVE  WriteInv'
  <1> SUFFICES ASSUME NEW t \in Topics
               PROVE  IF segLock'[t] = NoHolder THEN Whole(seg'[t])
                      ELSE PubTopic[segLock'[t]] = t /\ ppc'[segLock'[t]] = "write"
    BY DEF WriteInv
  <1> USE PubSubAssumption DEF IInv, TypeOK
  <1>1. IF segLock[t] = NoHolder THEN Whole(seg[t])
        ELSE PubTopic[segLock[t]] = t /\ ppc[segLock[t]] = "write"
    BY DEF WriteInv
  <1>2. CASE WriteFirst(p)
    BY <1>1, <1>2 DEF WriteFirst
  <1>3. CASE WriteSecond(p)
    BY <1>1, <1>3 DEF WriteSecond, Whole
  <1>4. CASE TriggerLock(p)
    BY <1>1, <1>4 DEF TriggerLock, segVars
  <1>5. CASE TriggerRaise(p)
    BY <1>1, <1>5 DEF TriggerRaise, segVars
  <1> QED BY <1>2, <1>3, <1>4, <1>5 DEF Publish

\* A segment on whose topic nobody publishes holds a whole message.
LEMMA WholeAtRest ==
  ASSUME IInv, NEW t \in Topics, ~Publishing(t)
  PROVE  Whole(seg[t])
  BY DEF IInv, WriteInv, Publishing, TypeOK

\* A publisher that ends raises the event, and until then holds off the loop of
\* its node: what the loop has read meanwhile is still what is in the segment.
LEMMA LostOfPublish ==
  ASSUME IInv, NEW p \in Publishers, WriteFirst(p) \/ Publish(p)
  PROVE  LostInv'
  <1> SUFFICES ASSUME LocalTopics PROVE NoLostUpdate' /\ ReadInv'
    BY DEF LostInv
  <1> DEFINE q == PubTopic[p]
  <1>1. UNCHANGED <<spc, snap, todo, first, processed, msg, spinning>>
    BY PublishKeepsLoops
  <1>2. NoLostUpdate /\ ReadInv
    BY DEF IInv, LostInv
  <1>3. \A n \in Nodes : Foremost(n)' = Foremost(n)
    BY <1>1 DEF Foremost
  <1>4. \A t \in Topics \ {q} : (Publishing(t)' <=> Publishing(t)) /\ seg'[t] = seg[t]
    <2>1. \A r \in Publishers \ {p} : ppc'[r] = ppc[r]
      BY DEF WriteFirst, Publish, WriteSecond, TriggerLock, TriggerRaise, IInv, TypeOK
    <2>2. \A t \in Topics \ {q} : seg'[t] = seg[t]
      BY DEF WriteFirst, Publish, WriteSecond, TriggerLock, TriggerRaise, segVars, IInv, TypeOK
    <2> QED BY <2>1, <2>2 DEF Publishing
  <1>5. \A s \in Subs : SubTopic[s] \in Topics /\ (Due(s)' <=> Due(s))
    BY <1>1, PubSubAssumption DEF Due
  <1>6. \A n \in Nodes : spc[n] = "read2" => Foremost(n) \in Triggered(n, snap[n])
    BY ForemostIsLeft DEF IInv, PhaseInv
  <1>7. CASE TriggerRaise(p)
    <2>1. flags' = flags \cup {q} /\ seg' = seg
      BY <1>7 DEF TriggerRaise, segVars
    <2>2. NoLostUpdate'
      BY <1>1, <1>2, <1>4, <1>5, <2>1 DEF NoLostUpdate
    <2>3. \A n \in Nodes : spc[n] \in Reading => \A s \in Triggered(n, snap[n]) : SubTopic[s] # q
      <3>1. SUFFICES ASSUME NEW n \in Nodes, spc[n] \in Reading,
                            NEW s \in Triggered(n, snap[n]), SubTopic[s] = q
                     PROVE  FALSE
        OBVIOUS
      <3>2. PubNode[p] = n
        BY <3>1 DEF Triggered, LocalTopics
      <3>3. registry[n] = p /\ registry[n] = n
        BY <1>7, <3>1, <3>2 DEF TriggerRaise, IInv, RegistryExclusive, Reading
      <3> QED BY <3>3, PubSubAssumption
    <2>4. ASSUME NEW n \in Nodes, spc[n] = "read2" PROVE HalfCurrent(n)'
      <3>1. SubTopic[Foremost(n)] \in Topics \ {q}
        BY <1>5, <1>6, <2>3, <2>4 DEF Reading, Triggered
      <3>2. HalfCurrent(n)
        BY <1>2, <2>4 DEF ReadInv
      <3> QED BY <1>1, <1>3, <1>4, <3>1, <3>2 DEF HalfCurrent
    <2>5. ASSUME NEW n \in Nodes, spc[n] \in Reading, spinning[n],
                 NEW s \in Triggered(n, snap[n]) \ todo[n]
          PROVE  Current(s)'
      <3>1. SubTopic[s] \in Topics \ {q}
        BY <1>5, <2>3, <2>5 DEF Triggered
      <3>2. Current(s)
        BY <1>2, <2>5 DEF ReadInv
      <3> QED BY <1>1, <1>4, <3>1, <3>2 DEF Current
    <2>6. ReadInv'
      BY <1>1, <2>4, <2>5 DEF ReadInv, Triggered
    <2> QED BY <2>2, <2>6
  <1>8. CASE ~TriggerRaise(p)
    <2>1. Publishing(q)' /\ flags' = flags
      BY <1>8 DEF WriteFirst, Publish, WriteSecond, TriggerLock, Publishing, IInv, TypeOK
    <2>2. \A t \in Topics : Publishing(t)' \/ (~Publishing(t) /\ seg'[t] = seg[t])
      BY <1>4, <2>1
    <2>3. NoLostUpdate'
      BY <1>1, <1>2, <1>5, <2>1, <2>2 DEF NoLostUpdate
    <2>4. ASSUME NEW n \in Nodes, spc[n] = "read2" PROVE HalfCurrent(n)'
      <3>1. SubTopic[Foremost(n)] \in Topics
        BY <1>5, <1>6, <2>4 DEF Triggered
      <3>2. HalfCurrent(n)
        BY <1>2, <2>4 DEF ReadInv
      <3> QED BY <1>1, <1>3, <2>2, <3>1, <3>2 DEF HalfCurrent
    <2>5. ASSUME NEW n \in Nodes, spc[n] \in Reading, spinning[n],
                 NEW s \in Triggered(n, snap[n]) \ todo[n]
          PROVE  Current(s)'
      <3>1. s \in Subs /\ Current(s)
        BY <1>2, <2>5 DEF ReadInv, Triggered
      <3> QED BY <1>1, <1>5, <2>2, <3>1 DEF Current
    <2>6. ReadInv'
      BY <1>1, <2>4, <2>5 DEF ReadInv, Triggered
    <2> QED BY <2>3, <2>6
  <1> QED BY <1>7, <1>8

\* A message that a loop reads while nobody publishes is the one in the segment.
LEMMA ReadIsCurrent ==
  ASSUME IInv, ReadInv, NEW n \in Nodes, ReadSecond(n), NEW s \in Subs, s = Foremost(n)
  PROVE  /\ s \in todo[n] /\ SubNode[s] = n
         /\ \A u \in Subs \ {s} : msg'[u] = msg[u]
         /\ Current(s)'
  <1> DEFINE t == SubTopic[s]
  <1>1. TypeOK /\ spc[n] = "read2" /\ UNCHANGED <<seg, ppc>>
    BY DEF IInv, ReadSecond, segVars
  <1>2. s \in todo[n] /\ SubNode[s] = n /\ t \in Topics
    <2>1. todo[n] # {} /\ todo[n] \subseteq Triggered(n, snap[n])
      BY <1>1 DEF IInv, PhaseInv
    <2>2. s \in todo[n]
      BY <1>1, <2>1, ForemostIsLeft
    <2> QED BY <2>1, <2>2, PubSubAssumption DEF Triggered
  <1>3. Publishing(t)' <=> Publishing(t)
    BY <1>1 DEF Publishing
  <1>4. ASSUME ~Publishing(t) PROVE msg'[s] = seg[t]
    <2>1. seg[t][1] = seg[t][2] /\ seg[t] \in Message
      BY <1>1, <1>2, <1>4, WholeAtRest DEF Whole, TypeOK
    <2>2. first[n] = seg[t][1]
      BY <1>1, <1>4 DEF ReadInv, HalfCurrent
    <2>3. <<first[n], seg[t][2]>> = seg[t]
      BY <2>1, <2>2 DEF Message
    <2>4. Whole(seg[t])
      BY <2>1 DEF Whole
    <2>5. msg' = [msg EXCEPT ![s] = seg[t]]
      BY <2>3, <2>4 DEF ReadSecond
    <2> QED BY <1>1, <1>2, <2>5 DEF TypeOK
  <1>5. \A u \in Subs \ {s} : msg'[u] = msg[u]
    BY <1>1 DEF ReadSecond, TypeOK
  <1>6. Current(s)'
    <2> SUFFICES Publishing(t)' \/ msg'[s] = seg'[t]
      BY DEF Current
    <2> QED BY <1>1, <1>3, <1>4
  <1> QED BY <1>2, <1>5, <1>6

\* A loop reads and clears only events of its own subscriptions, and clears
\* none that it has not read.
LEMMA LostOfSpin ==
  ASSUME IInv, NEW n \in Nodes, Spin(n)
  PROVE  LostInv'
  <1> SUFFICES ASSUME LocalTopics PROVE NoLostUpdate' /\ ReadInv'
    BY DEF LostInv
  <1>1. TypeOK /\ PhaseInv /\ ReadInv /\ NoLostUpdate
    BY DEF IInv, LostInv
  <1>2. /\ UNCHANGED <<seg, ppc, spinning>>
        /\ \A k \in Nodes \ {n} :
               /\ spc'[k] = spc[k] /\ snap'[k] = snap[k] /\ todo'[k] = todo[k]
               /\ first'[k] = first[k] /\ Foremost(k)' = Foremost(k)
    BY <1>1, SpinIsLocal DEF segVars, stopVars, Foremost
  <1>3. \A t \in Topics : Publishing(t)' <=> Publishing(t)
    BY <1>2 DEF Publishing
  <1>4. \A s \in Subs : SubTopic[s] \in Topics /\ SubNode[s] \in Nodes
    BY PubSubAssumption
  <1>5. ASSUME NEW s \in Subs, msg'[s] # msg[s]
        PROVE  ReadSecond(n) /\ s = Foremost(n) /\ SubNode[s] = n
    <2>1. ReadSecond(n)
      BY <1>5 DEF Spin, SpinWait, SpinCheck, SpinEnter, ReadFirst, ReadSkip, SpinClear, SpinLeave
    <2>2. todo[n] # {} /\ Foremost(n) \in Subs
      BY <1>1, <2>1, ForemostIsLeft DEF ReadSecond, PhaseInv, TypeOK
    <2> QED BY <1>1, <1>5, <2>1, <2>2, ReadIsCurrent
  <1>6. ASSUME NEW s \in Subs, Current(s) PROVE Current(s)'
    <2>1. CASE msg'[s] = msg[s]
      BY <1>2, <1>3, <1>4, <1>6, <2>1 DEF Current
    <2>2. CASE msg'[s] # msg[s]
      BY <1>1, <1>5, <2>2, ReadIsCurrent
    <2> QED BY <2>1, <2>2
  <1>7. ReadInv'
    <2>1. ASSUME NEW k \in Nodes, k # n
          PROVE  /\ spc'[k] = "read2" => HalfCurrent(k)'
                 /\ spc'[k] \in Reading /\ spinning'[k] =>
                        \A s \in Triggered(k, snap'[k]) \ todo'[k] : Current(s)'
      <3>1. spc[k] = "read2" => Foremost(k) \in Subs
        BY <1>1, ForemostIsLeft DEF PhaseInv, TypeOK
      <3>2. spc'[k] = "read2" => HalfCurrent(k)'
        BY <1>1, <1>2, <1>3, <1>4, <2>1, <3>1 DEF ReadInv, HalfCurrent
      <3>3. Triggered(k, snap[k]) \subseteq Subs
        BY DEF Triggered
      <3> QED BY <1>1, <1>2, <1>6, <2>1, <3>2, <3>3 DEF ReadInv
    <2>2. ASSUME spc'[n] = "read2" PROVE HalfCurrent(n)'
      <3>1. ReadFirst(n)
        BY <1>1, <2>2 DEF Spin, SpinWait, SpinCheck, SpinEnter, ReadSkip, ReadSecond,
                          SpinClear, SpinLeave, NextRead, TypeOK
      <3>2. first'[n] = seg[SubTopic[Foremost(n)]][1] /\ Foremost(n)' = Foremost(n)
        BY <1>1, <3>1 DEF ReadFirst, Foremost, TypeOK
      <3> QED BY <1>2, <3>2 DEF HalfCurrent
    <2>3. ASSUME spc'[n] \in Reading, spinning'[n],
                 NEW s \in Triggered(n, snap'[n]) \ todo'[n]
          PROVE  Current(s)'
      <3>1. s \in Subs
        BY DEF Triggered
      <3>2. CASE spc[n] \notin Reading
        <4>1. SpinEnter(n)
          BY <1>1, <2>3, <3>2 DEF Spin, SpinWait, SpinCheck, ReadFirst, ReadSkip, ReadSecond,
                                  SpinClear, SpinLeave, Reading, TypeOK
        <4> QED BY <1>1, <4>1 DEF SpinEnter, TypeOK
      <3>3. CASE spc[n] \in Reading
        <4>1. snap'[n] = snap[n]
          BY <1>1, <2>3, <3>3 DEF Spin, SpinWait, SpinCheck, SpinEnter, ReadFirst, ReadSkip,
                                  ReadSecond, SpinClear, SpinLeave, Reading, TypeOK
        <4>2. CASE s \notin todo[n]
          BY <1>1, <1>2, <1>6, <2>3, <3>1, <3>3, <4>1, <4>2 DEF ReadInv
        <4>3. CASE s \in todo[n]
          <5>1. ReadSecond(n) /\ s = Foremost(n)
            BY <1>1, <1>2, <2>3, <3>3, <4>3
               DEF Spin, SpinWait, SpinCheck, SpinEnter, ReadFirst, ReadSkip,
                   ReadSecond, SpinClear, SpinLeave, Reading, TypeOK
          <5> QED BY <1>1, <3>1, <5>1, ReadIsCurrent
        <4> QED BY <4>2, <4>3
      <3> QED BY <3>2, <3>3
    <2> QED BY <2>1, <2>2, <2>3 DEF ReadInv, Triggered
  <1>8. NoLostUpdate'
    <2> SUFFICES ASSUME NEW s \in Subs, spinning[SubNode[s]]
                 PROVE  SubTopic[s] \in flags' \/ Due(s)' \/ Current(s)'
      BY <1>2 DEF NoLostUpdate, Current
    <2>1. SubTopic[s] \in flags \/ Due(s) \/ Current(s)
      BY <1>1 DEF NoLostUpdate, Current
    <2>2. CASE SubTopic[s] \in flags /\ SubTopic[s] \notin flags'
      <3>1. SpinClear(n) /\ SubTopic[s] = Head(processed[n])
        BY <2>2 DEF Spin, SpinWait, SpinCheck, SpinEnter, ReadFirst, ReadSkip,
                    ReadSecond, SpinClear, SpinLeave
      <3>2. SubTopic[s] \in Processed(n)
        BY <1>1, <3>1, Elements DEF SpinClear, Processed, TypeOK
      <3>3. SubNode[s] = n /\ s \in Triggered(n, snap[n])
        BY <1>1, <3>2 DEF PhaseInv, LocalTopics, Triggered
      <3>4. spc[n] \in Reading /\ s \notin todo[n]
        BY <1>1, <3>1 DEF SpinClear, Reading, PhaseInv
      <3> QED BY <1>1, <1>6, <3>3, <3>4 DEF ReadInv
    <2>3. CASE Due(s)
      <3>1. CASE SubNode[s] # n
        BY <1>2, <1>4, <2>3, <3>1 DEF Due
      <3>2. CASE SubNode[s] = n /\ s \in todo[n]
        <4>1. CASE ReadSecond(n) /\ s = Foremost(n)
          BY <1>1, <4>1, ReadIsCurrent
        <4>2. CASE ~(ReadSecond(n) /\ s = Foremost(n))
          <5>1. spc[n] \in {"read", "read2"}
            BY <1>1, <3>2 DEF PhaseInv
          <5>2. s \in todo'[n]
            BY <1>1, <3>2, <4>2, <5>1
               DEF Spin, SpinWait, SpinCheck, SpinEnter, ReadFirst, ReadSkip,
                   ReadSecond, SpinClear, SpinLeave, TypeOK
          <5> QED BY <3>2, <5>2 DEF Due
        <4> QED BY <4>1, <4>2
      <3>3. CASE SubNode[s] = n /\ spc[n] = "check" /\ SubTopic[s] \in snap[n]
        <4>1. spc'[n] = "enter" /\ snap' = snap
          BY <1>1, <3>3 DEF Spin, SpinWait, SpinCheck, SpinEnter, ReadFirst, ReadSkip,
                            ReadSecond, SpinClear, SpinLeave, TypeOK
        <4> QED BY <3>3, <4>1 DEF Due
      <3>4. CASE SubNode[s] = n /\ spc[n] = "enter" /\ SubTopic[s] \in snap[n]
        <4>1. todo'[n] = Triggered(n, snap[n])
          BY <1>1, <3>4 DEF Spin, SpinWait, SpinCheck, SpinEnter, ReadFirst, ReadSkip,
                            ReadSecond, SpinClear, SpinLeave, TypeOK
        <4> QED BY <3>4, <4>1 DEF Due, Triggered
      <3> QED BY <2>3, <3>1, <3>2, <3>3, <3>4 DEF Due
    <2>4. CASE Current(s)
      BY <1>6, <2>4
    <2> QED BY <2>1, <2>2, <2>3, <2>4
  <1> QED BY <1>7, <1>8

-----------------------------------------------------------------------------
(* The invariant.                                                          *)

\* What publishers and loops rely on is out of reach of the pool, and stop
\* changes of it only the flag of the loop.
LEMMA PoolKeepsIInv ==
  ASSUME IInv, NEW n \in Nodes,
         Worker(n) \/ StopSpinning(n) \/ StopPool(n) \/ StopReturns(n)
  PROVE  IInv'
  <1>1. /\ TypeOK' /\ UNCHANGED <<segVars, flags, registry, ppc, raises, spinVars>>
        /\ \A k \in Nodes : spinning'[k] => spinning[k]
    BY TypeOfPool
  <1>2. UNCHANGED <<seg, segLock, spc, snap, todo, first, processed, msg, captures>>
    BY <1>1 DEF segVars, spinVars
  <1>3. RegistryExclusive' /\ WriteInv'
    BY <1>1, <1>2 DEF IInv, RegistryExclusive, WriteInv
  <1>4. PhaseInv'
    BY <1>2 DEF IInv, PhaseInv, Processed
  <1>5. SpuriousInv'
    BY <1>1, <1>2 DEF IInv, SpuriousInv, Owed, Due, Processed
  <1>6. \A k \in Nodes : HalfCurrent(k)' <=> HalfCurrent(k)
    BY <1>1, <1>2 DEF HalfCurrent, Publishing, Foremost
  <1>7. \A s \in Subs : (Current(s)' <=> Current(s)) /\ (Due(s)' <=> Due(s))
    BY <1>1, <1>2 DEF Current, Publishing, Due
  <1>8. ASSUME LocalTopics PROVE NoLostUpdate' /\ ReadInv'
    <2>1. NoLostUpdate /\ ReadInv
      BY <1>8 DEF IInv, LostInv
    <2>2. NoLostUpdate'
      BY <1>1, <1>2, <1>7, <2>1, PubSubAssumption DEF NoLostUpdate, Current
    <2>3. \A k \in Nodes : Triggered(k, snap[k]) \subseteq Subs
      BY DEF Triggered
    <2>4. ReadInv'
      BY <1>1, <1>2, <1>6, <1>7, <2>1, <2>3 DEF ReadInv
    <2> QED BY <2>2, <2>4
  <1> QED BY <1>1, <1>3, <1>4, <1>5, <1>8 DEF IInv, LostInv

LEMMA NextIInv == IInv /\ [Next]_vars => IInv'
  <1> SUFFICES ASSUME IInv, [Next]_vars PROVE IInv'
    OBVIOUS
  <1>1. ASSUME NEW p \in Publishers, WriteFirst(p) \/ Publish(p) PROVE IInv'
    <2>1. UNCHANGED <<spc, snap, todo, processed>>
      BY <1>1, PublishKeepsLoops
    <2>2. PhaseInv'
      BY <2>1 DEF IInv, PhaseInv, Processed
    <2> QED BY <1>1, <2>2, TypeOfPublish, RegistryOfPublish, SpuriousOfPublish,
               WriteOfPublish, LostOfPublish DEF IInv
  <1>2. ASSUME NEW n \in Nodes, Spin(n) PROVE IInv'
    <2>1. UNCHANGED <<segVars, ppc>>
      BY <1>2, SpinIsLocal DEF IInv
    <2>2. WriteInv'
      BY <2>1 DEF IInv, WriteInv, segVars
    <2> QED BY <1>2, <2>2, TypeOfSpin, RegistryOfSpin, PhaseOfSpin, SpuriousOfSpin,
               LostOfSpin DEF IInv
  <1>3. CASE UNCHANGED vars
    <2> USE <1>3 DEF vars
    <2>1. TypeOK' /\ RegistryExclusive' /\ WriteInv'
      BY DEF IInv, TypeOK, RegistryExclusive, WriteInv
    <2>2. PhaseInv' /\ SpuriousInv'
      BY DEF IInv, PhaseInv, SpuriousInv, Owed, Due, Processed
    <2>3. LostInv'
      <3>1. \A t \in Topics : Publishing(t)' <=> Publishing(t)
        BY DEF Publishing
      <3>2. \A k \in Nodes : HalfCurrent(k)' <=> HalfCurrent(k)
        BY DEF HalfCurrent, Publishing, Foremost
      <3>3. \A s \in Subs : (Current(s)' <=> Current(s)) /\ (Due(s)' <=> Due(s))
        BY DEF Current, Publishing, Due
      <3>4. NoLostUpdate => NoLostUpdate'
        BY <3>1, <3>3, PubSubAssumption DEF NoLostUpdate
      <3>5. ReadInv => ReadInv'
        <4>1. \A k \in Nodes : Triggered(k, snap[k]) \subseteq Subs
          BY DEF Triggered
        <4> QED BY <3>2, <3>3, <4>1 DEF ReadInv
      <3> QED BY <3>4, <3>5 DEF IInv, LostInv
    <2> QED BY <2>1, <2>2, <2>3 DEF IInv
  <1> QED BY <1>1, <1>2, <1>3, PoolKeepsIInv DEF Next

THEOREM Invariance == Spec => []IInv
  <1> QED BY InitIInv, NextIInv, PTL DEF Spec

\* Every variable keeps to its type: the loop of Node::spinLoop never asks for
\* the next of no subscriptions, nor does a worker run a task that is none.
THEOREM TypeCorrect == Spec => []TypeOK
  <1>1. IInv => TypeOK
    BY DEF IInv
  <1> QED BY <1>1, Invariance, PTL

\* registry_mutex_ of a node (shm_manager.h) is held by its spinLoop between
\* shmManagerLockRegistry and shmManagerUnlockRegistry, or by a thread in
\* ShmManager::triggerEvent, and never by two at once.
THEOREM RegistryIsExclusive == Spec => []RegistryExclusive
  <1>1. IInv => RegistryExclusive
    BY DEF IInv
  <1> QED BY <1>1, Invariance, PTL

\* spinLoop queues the callback of a subscription at most once for each call of
\* triggerEvent on its topic, wherever publishers and subscriptions are and
\* whenever nodes are stopped.
THEOREM NoReadIsSpurious == Spec => []NoSpuriousRead
  <1>1. IInv => NoSpuriousRead
    <2> SUFFICES ASSUME IInv, NEW s \in Subs PROVE captures[s] <= raises[SubTopic[s]]
      BY DEF NoSpuriousRead
    <2>1. /\ captures[s] + (IF Owed(s) THEN 1 ELSE 0) <= raises[SubTopic[s]]
          /\ captures[s] \in Nat /\ raises[SubTopic[s]] \in Nat
      BY PubSubAssumption DEF IInv, SpuriousInv, TypeOK
    <2> QED BY <2>1
  <1> QED BY <1>1, Invariance, PTL

\* Where a topic is published and subscribed to in one process only, spinLoop
\* loses no update, however many threads publish on it and although it reads
\* the segment without its mutex: registry_mutex_ keeps triggerEvent out
\* between the read and clearTriggerEvent.
THEOREM NothingIsLost ==
  ASSUME LocalTopics
  PROVE  Spec => []NoLostUpdate
  <1>1. IInv => NoLostUpdate
    BY LocalTopics DEF IInv, LostInv
  <1> QED BY <1>1, Invariance, PTL

-----------------------------------------------------------------------------
(* The pool of each node is the one that ThreadPool implements (TaskPool).  *)

\* What a task that is queued is.
LEMMA QueuedTask ==
  ASSUME IInv, IInv', NEW n \in Nodes, ReadSecond(n)
  PROVE  \E k \in Task : queue' = [queue EXCEPT ![n] = Append(@, k)]
  <1>1. todo[n] \subseteq Subs /\ todo[n] # {}
    BY DEF IInv, TypeOK, PhaseInv, ReadSecond
  <1>2. Foremost(n) \in Subs
    BY <1>1, ForemostIsLeft DEF IInv
  <1>3. msg'[Foremost(n)] \in Message
    BY <1>2 DEF IInv, TypeOK
  <1>4. [sub |-> Foremost(n), msg |-> msg'[Foremost(n)]] \in Task
    BY <1>2, <1>3 DEF Task
  <1> QED BY <1>4 DEF ReadSecond

\* Every step leaves a node's pool alone, or is a step of it.
LEMMA StepRefines ==
  ASSUME IInv, [Next]_vars, NEW n \in Nodes
  PROVE  Pool(n)!Next \/ UNCHANGED Pool(n)!vars
  <1> USE DEF IInv, TypeOK, Pool!vars
  <1>1. ASSUME UNCHANGED <<poolVars, stopping>> PROVE UNCHANGED Pool(n)!vars
    BY <1>1 DEF poolVars, stageBar
  <1>2. ASSUME NEW p \in Publishers, WriteFirst(p) \/ Publish(p)
        PROVE  UNCHANGED <<poolVars, stopping>>
    BY <1>2 DEF Publish, WriteFirst, WriteSecond, TriggerLock, TriggerRaise, stopVars
  <1>3. ASSUME NEW m \in Nodes, Spin(m), ~ReadSecond(m) PROVE UNCHANGED <<poolVars, stopping>>
    BY <1>3 DEF Spin, SpinWait, SpinCheck, SpinEnter, ReadFirst, ReadSkip, SpinClear, SpinLeave,
                stopVars
  <1>4. ASSUME NEW m \in Nodes, ReadSecond(m) PROVE Pool(n)!Next \/ UNCHANGED Pool(n)!vars
    <2>1. IInv'
      BY NextIInv
    <2>2. PICK k \in Task : queue' = [queue EXCEPT ![m] = Append(@, k)]
      BY <1>4, <2>1, QueuedTask
    <2>3. UNCHANGED <<running, exited, stageBar>>
      BY <1>4 DEF ReadSecond, stopVars, stageBar
    <2>4. CASE m = n
      BY <2>2, <2>3, <2>4 DEF Pool!Next, Pool!Enqueue
    <2>5. CASE m # n
      BY <2>2, <2>3, <2>5
    <2> QED BY <2>4, <2>5
  <1>5. ASSUME NEW m \in Nodes, Worker(m) \/ StopSpinning(m) \/ StopPool(m) \/ StopReturns(m),
               m # n
        PROVE  UNCHANGED Pool(n)!vars
    BY <1>5 DEF Worker, Take, Execute, Exit, StopSpinning, StopPool, StopReturns, poolVars,
                stopVars, stageBar
  <1>6. ASSUME NEW i \in 1 .. NumWorkers, Take(n, i) PROVE Pool(n)!Take(i)
    BY <1>6 DEF Take, Pool!Take, Pool!Free, stopVars, stageBar
  <1>7. ASSUME NEW i \in 1 .. NumWorkers, Execute(n, i) PROVE Pool(n)!Finish(i)
    BY <1>7 DEF Execute, Pool!Finish, stopVars, stageBar
  <1>8. ASSUME NEW i \in 1 .. NumWorkers, Exit(n, i) PROVE Pool(n)!Exit(i)
    BY <1>8 DEF Exit, Pool!Exit, Pool!Free, stopVars, stageBar
  <1>9. ASSUME StopSpinning(n) PROVE UNCHANGED Pool(n)!vars
    BY <1>9 DEF StopSpinning, poolVars, stageBar
  <1>10. ASSUME StopPool(n) PROVE Pool(n)!Stop
    BY <1>10 DEF StopPool, Pool!Stop, poolVars, stageBar
  <1>11. ASSUME StopReturns(n) PROVE Pool(n)!StopReturns
    BY <1>11 DEF StopReturns, Pool!StopReturns, poolVars, stageBar
  <1>12. CASE UNCHANGED vars
    BY <1>1, <1>12 DEF vars, poolVars
  <1>13. ASSUME NEW m \in Nodes, Worker(m) \/ StopSpinning(m) \/ StopPool(m) \/ StopReturns(m)
         PROVE  Pool(n)!Next \/ UNCHANGED Pool(n)!vars
    BY <1>5, <1>6, <1>7, <1>8, <1>9, <1>10, <1>11, <1>13 DEF Worker, Pool!Next
  <1> QED BY <1>1, <1>2, <1>3, <1>4, <1>12, <1>13 DEF Next

\* Publishers, loops and stop() use the pool of each node, of which ThreadPool
\* implements the promise, only as it is promised: PubSub's atomic queue and
\* workers stand for the pool with its mutex and condition variable.
THEOREM PoolsAsPromised == Spec => PoolsSpec
  <1>1. Init => \A n \in Nodes : Pool(n)!Init
    BY DEF Init, Pool!Init, stageBar
  <1>2. IInv /\ [Next]_vars =>
          [\A n \in Nodes : Pool(n)!Next \/ UNCHANGED Pool(n)!vars]_vars
    BY StepRefines
  <1> QED BY <1>1, <1>2, Invariance, PTL DEF Spec, PoolsSpec

-----------------------------------------------------------------------------
(* The order of callbacks.                                                  *)

\* Versions only grow on their way from a publisher to a callback.  A segment
\* is written front to back,
SegInv == \A t \in Topics : seg[t][2] <= seg[t][1] /\ seg[t][1] <= sent[t]

\* msg_ is behind the segment, and a read that is half done is between them;
CopyInv ==
    /\ \A s \in Subs : UpTo(msg[s], seg[SubTopic[s]])
    /\ \A n \in Nodes : spc[n] = "read2" =>
          msg[Foremost(n)][1] <= first[n] /\ first[n] <= seg[SubTopic[Foremost(n)]][1]

\* tasks that run, in the pool of their subscription's node, and callbacks that
\* have run are behind msg_.
RunInv ==
    /\ \A n \in Nodes : \A j \in DOMAIN queue[n] : SubNode[queue[n][j].sub] = n
    /\ \A n \in Nodes : \A i \in 1 .. NumWorkers :
          running[n][i] # NoTask => /\ SubNode[running[n][i].sub] = n
                                    /\ UpTo(running[n][i].msg, msg[running[n][i].sub])
    /\ \A s \in Subs : delivered[s] <= msg[s][1]

OrderInv == SegInv /\ CopyInv /\ RunInv /\ BegunInOrder

LEMMA VersionsGrow ==
  /\ Version \subseteq Nat
  /\ \A a \in Message : UpTo(a, a)
  /\ \A a, b, c \in Message : UpTo(a, b) /\ UpTo(b, c) => UpTo(a, c)
  <1>1. Version \subseteq Nat
    BY PubSubAssumption DEF Version
  <1>2. \A a \in Message : a[1] \in Nat /\ a[2] \in Nat
    BY <1>1, Halves
  <1> QED BY <1>1, <1>2 DEF UpTo

LEMMA QueuesAreTasks ==
  ASSUME TypeOK, NEW n \in Nodes
  PROVE  /\ Len(queue[n]) \in Nat /\ DOMAIN queue[n] = 1 .. Len(queue[n])
         /\ \A j \in DOMAIN queue[n] : queue[n][j] \in Task
         /\ \A i \in 1 .. NumWorkers : running[n][i] \in Task \cup {NoTask}
  <1>1. queue[n] \in Seq(Task) /\ running[n] \in [1 .. NumWorkers -> Task \cup {NoTask}]
    BY DEF TypeOK
  <1>2. Len(queue[n]) \in Nat /\ DOMAIN queue[n] = 1 .. Len(queue[n])
    BY <1>1, LenProperties
  <1>3. \A j \in 1 .. Len(queue[n]) : queue[n][j] \in Task
    BY <1>1, ElementOfSeq
  <1> QED BY <1>1, <1>2, <1>3

LEMMA OrderInitially == Init => OrderInv
  <1> SUFFICES ASSUME Init PROVE OrderInv
    OBVIOUS
  <1>1. \A n \in Nodes : DOMAIN queue[n] = {}
    <2>1. \A n \in Nodes : queue[n] = <<>>
      BY DEF Init
    <2>2. \A j \in 1 .. 0 : FALSE
      OBVIOUS
    <2>3. Len(<<>>) = 0 /\ DOMAIN <<>> = 1 .. Len(<<>>)
      BY EmptySeq, LenProperties
    <2> QED BY <2>1, <2>2, <2>3
  <1>2. \A n \in Nodes : \A i \in 1 .. NumWorkers : running[n][i] = NoTask
    BY DEF Init
  <1>3. SegInv /\ CopyInv
    BY PubSubAssumption DEF Init, SegInv, CopyInv, UpTo
  <1>4. RunInv /\ BegunInOrder
    BY <1>1, <1>2 DEF Init, RunInv, BegunInOrder
  <1> QED BY <1>3, <1>4 DEF OrderInv

\* A publisher writes what is newer.
LEMMA OrderOfPublish ==
  ASSUME IInv, OrderInv, NEW p \in Publishers, WriteFirst(p) \/ Publish(p), TypeOK'
  PROVE  OrderInv'
  <1>1. UNCHANGED <<spc, todo, first, msg, queue, running, delivered>>
    BY DEF WriteFirst, Publish, WriteSecond, TriggerLock, TriggerRaise, spinVars, poolVars
  <1>2. \A t \in Topics : seg[t][1] \in Nat /\ seg[t][2] \in Nat /\ sent[t] \in Nat
    BY VersionsGrow, Halves DEF IInv, TypeOK
  <1>3. SegInv' /\ \A t \in Topics : UpTo(seg[t], seg'[t])
    <2> SUFFICES ASSUME NEW t \in Topics
                 PROVE  seg'[t][2] <= seg'[t][1] /\ seg'[t][1] <= sent'[t] /\ UpTo(seg[t], seg'[t])
      BY DEF SegInv
    <2>1. seg[t][2] <= seg[t][1] /\ seg[t][1] <= sent[t]
      BY DEF OrderInv, SegInv
    <2>2. CASE UNCHANGED seg[t] /\ UNCHANGED sent[t]
      BY <1>2, <2>1, <2>2 DEF UpTo
    <2>3. CASE WriteFirst(p) /\ t = PubTopic[p]
      <3>1. sent'[t] = sent[t] + 1 /\ seg'[t] = <<sent[t] + 1, seg[t][2]>>
        BY <2>3 DEF WriteFirst, IInv, TypeOK
      <3> QED BY <1>2, <2>1, <3>1 DEF UpTo
    <2>4. CASE WriteSecond(p) /\ t = PubTopic[p]
      <3>1. sent'[t] = sent[t] /\ seg'[t] = <<seg[t][1], seg[t][1]>>
        BY <2>4 DEF WriteSecond, IInv, TypeOK
      <3> QED BY <1>2, <2>1, <3>1 DEF UpTo
    <2>5. ~(WriteFirst(p) /\ t = PubTopic[p]) /\ ~(WriteSecond(p) /\ t = PubTopic[p])
             => UNCHANGED <<seg[t], sent[t]>>
      BY DEF WriteFirst, Publish, WriteSecond, TriggerLock, TriggerRaise, segVars, IInv, TypeOK
    <2> QED BY <2>2, <2>3, <2>4, <2>5
  <1>4. CopyInv'
    <2>1. ASSUME NEW s \in Subs PROVE UpTo(msg'[s], seg'[SubTopic[s]])
      <3>1. UpTo(msg[s], seg[SubTopic[s]]) /\ UpTo(seg[SubTopic[s]], seg'[SubTopic[s]])
        BY <1>3, PubSubAssumption DEF OrderInv, CopyInv
      <3>2. msg[s] \in Message /\ seg[SubTopic[s]] \in Message /\ seg'[SubTopic[s]] \in Message
        BY PubSubAssumption DEF IInv, TypeOK
      <3> QED BY <1>1, <3>1, <3>2, VersionsGrow
    <2>2. ASSUME NEW n \in Nodes, spc'[n] = "read2"
          PROVE  msg'[Foremost(n)'][1] <= first'[n] /\ first'[n] <= seg'[SubTopic[Foremost(n)']][1]
      <3> DEFINE t == SubTopic[Foremost(n)]
      <3>1. Foremost(n)' = Foremost(n)
        BY <1>1 DEF Foremost
      <3>2. Foremost(n) \in Subs
        BY <1>1, <2>2, ForemostIsLeft DEF IInv, TypeOK, PhaseInv
      <3>3. t \in Topics /\ msg[Foremost(n)][1] <= first[n] /\ first[n] <= seg[t][1]
        <4>1. t \in Topics
          BY <3>2, PubSubAssumption
        <4>2. spc[n] = "read2"
          BY <1>1, <2>2
        <4> QED BY <4>1, <4>2 DEF OrderInv, CopyInv
      <3>4. seg[t][1] <= seg'[t][1] /\ seg[t][1] \in Nat /\ seg'[t][1] \in Nat /\ first[n] \in Nat
        <4>1. seg[t][1] <= seg'[t][1]
          BY <1>3, <3>3 DEF UpTo
        <4>2. seg'[t] \in Message /\ first[n] \in Version
          BY <1>1, <3>3 DEF IInv, TypeOK
        <4> QED BY ONLY <1>2, <3>3, <4>1, <4>2, VersionsGrow, Halves
      <3>5. first[n] <= seg'[t][1]
        BY <3>3, <3>4
      <3> QED BY <1>1, <3>1, <3>3, <3>5
    <2> QED BY <2>1, <2>2 DEF CopyInv
  <1>5. RunInv' /\ BegunInOrder'
    BY <1>1 DEF OrderInv, RunInv, BegunInOrder
  <1> QED BY <1>3, <1>4, <1>5 DEF OrderInv

\* What a loop reads is no older than msg_; msg_ goes into the task.
LEMMA ReadGrows ==
  ASSUME IInv, OrderInv, NEW n \in Nodes, ReadSecond(n), TypeOK', NEW s \in Subs, s = Foremost(n)
  PROVE  /\ SubNode[s] = n
         /\ \A u \in Subs : UpTo(msg[u], msg'[u]) /\ UpTo(msg'[u], seg[SubTopic[u]])
         /\ \A u \in Subs \ {s} : msg'[u] = msg[u]
         /\ queue' = [queue EXCEPT ![n] = Append(@, [sub |-> s, msg |-> msg'[s]])]
  <1> DEFINE t == SubTopic[s]
             m == <<first[n], seg[t][2]>>
  <1>1. s \in todo[n] /\ SubNode[s] = n
    BY ForemostIsLeft DEF IInv, PhaseInv, ReadSecond, Triggered
  <1>2. /\ msg' = [msg EXCEPT ![s] = m] \/ msg' = msg
        /\ queue' = [queue EXCEPT ![n] = Append(@, [sub |-> s, msg |-> msg'[s]])]
    BY DEF ReadSecond
  <1>3. /\ t \in Topics /\ msg[s] \in Message /\ m \in Message /\ seg[t] \in Message
        /\ \A u \in Subs : msg[u] \in Message
    BY PubSubAssumption, Halves DEF IInv, TypeOK
  <1>4. UpTo(msg[s], m) /\ UpTo(m, seg[t])
    <2>1. msg[s][1] <= first[n] /\ first[n] <= seg[t][1] /\ UpTo(msg[s], seg[t])
      BY DEF OrderInv, CopyInv, ReadSecond
    <2>2. seg[t][2] \in Nat
      BY <1>3, VersionsGrow, Halves
    <2> QED BY <2>1, <2>2 DEF UpTo
  <1>5. \A u \in Subs : UpTo(msg[u], msg[u]) /\ UpTo(msg[u], seg[SubTopic[u]])
    BY <1>3, VersionsGrow DEF OrderInv, CopyInv
  <1>6. \A u \in Subs \ {s} : msg'[u] = msg[u]
    BY <1>2 DEF IInv, TypeOK
  <1>7. msg'[s] = m \/ msg'[s] = msg[s]
    BY <1>2 DEF IInv, TypeOK
  <1> HIDE DEF m
  <1>8. \A u \in Subs : UpTo(msg[u], msg'[u]) /\ UpTo(msg'[u], seg[SubTopic[u]])
    BY <1>4, <1>5, <1>6, <1>7
  <1> QED BY <1>1, <1>2, <1>6, <1>8

LEMMA CopyOfSpin ==
  ASSUME IInv, OrderInv, NEW n \in Nodes, Spin(n), TypeOK', PhaseInv'
  PROVE  SegInv' /\ CopyInv'
  <1>1. /\ UNCHANGED <<seg, sent>>
        /\ \A k \in Nodes \ {n} : spc'[k] = spc[k] /\ todo'[k] = todo[k] /\ first'[k] = first[k]
    BY SpinIsLocal DEF segVars, IInv
  <1>2. SegInv'
    BY <1>1 DEF OrderInv, SegInv
  <1>3. /\ \A u \in Subs : UpTo(msg'[u], seg[SubTopic[u]])
        /\ \A u \in Subs : SubNode[u] # n => msg'[u] = msg[u]
        /\ spc'[n] = "read2" => msg' = msg
    <2>1. CASE ReadSecond(n)
      <3>1. Foremost(n) \in Subs /\ spc'[n] # "read2"
        BY <2>1, ForemostIsLeft DEF IInv, TypeOK, PhaseInv, ReadSecond, NextRead
      <3> QED BY <2>1, <3>1, ReadGrows
    <2>2. CASE ~ReadSecond(n)
      <3>1. msg' = msg
        BY <2>2 DEF Spin, SpinWait, SpinCheck, SpinEnter, ReadFirst, ReadSkip, SpinClear,
                    SpinLeave
      <3> QED BY <3>1 DEF OrderInv, CopyInv
    <2> QED BY <2>1, <2>2
  <1>4. ASSUME NEW k \in Nodes, spc'[k] = "read2"
        PROVE  /\ msg'[Foremost(k)'][1] <= first'[k]
               /\ first'[k] <= seg'[SubTopic[Foremost(k)']][1]
    <2>1. CASE k # n
      <3>1. Foremost(k)' = Foremost(k)
        BY <1>1, <2>1 DEF Foremost
      <3>2. Foremost(k) \in Subs /\ SubNode[Foremost(k)] = k
        BY <1>1, <1>4, <2>1, ForemostIsLeft DEF IInv, TypeOK, PhaseInv, Triggered
      <3> QED BY <1>1, <1>3, <1>4, <2>1, <3>1, <3>2 DEF OrderInv, CopyInv
    <2>2. CASE k = n
      <3>1. ReadFirst(n)
        BY <1>4, <2>2 DEF Spin, SpinWait, SpinCheck, SpinEnter, ReadFirst, ReadSkip, ReadSecond,
                          SpinClear, SpinLeave, NextRead, IInv, TypeOK
      <3>2. Foremost(n) \in Subs
        BY <3>1, ForemostIsLeft DEF IInv, TypeOK, PhaseInv, ReadFirst
      <3>3. first'[n] = seg[SubTopic[Foremost(n)]][1] /\ Foremost(n)' = Foremost(n)
        BY <3>1 DEF ReadFirst, Foremost, IInv, TypeOK
      <3>4. seg[SubTopic[Foremost(n)]][1] \in Nat
        BY <3>2, PubSubAssumption, VersionsGrow, Halves DEF IInv, TypeOK
      <3>5. msg[Foremost(n)][1] <= seg[SubTopic[Foremost(n)]][1]
        BY <3>2 DEF OrderInv, CopyInv, UpTo
      <3> QED BY <1>1, <1>3, <1>4, <2>2, <3>3, <3>4, <3>5
    <2> QED BY <2>1, <2>2
  <1> QED BY <1>1, <1>2, <1>3, <1>4 DEF CopyInv

\* Only the second half of a read makes a task, the last of its queue.
LEMMA RunOfSpin ==
  ASSUME IInv, OrderInv, NEW n \in Nodes, Spin(n), TypeOK'
  PROVE  RunInv' /\ BegunInOrder'
  <1>1. CASE ~ReadSecond(n)
    <2>1. UNCHANGED <<msg, queue, running, delivered>>
      BY <1>1 DEF Spin, SpinWait, SpinCheck, SpinEnter, ReadFirst, ReadSkip, SpinClear,
                  SpinLeave, poolVars
    <2> QED BY <2>1 DEF OrderInv, RunInv, BegunInOrder
  <1>2. CASE ReadSecond(n)
    <2> DEFINE s == Foremost(n)
               k == [sub |-> s, msg |-> msg'[s]]
    <2>1. s \in Subs
      BY <1>2, ForemostIsLeft DEF IInv, TypeOK, PhaseInv, ReadSecond
    <2>2. /\ SubNode[s] = n
          /\ \A u \in Subs : UpTo(msg[u], msg'[u])
          /\ queue' = [queue EXCEPT ![n] = Append(@, k)]
      BY <1>2, <2>1, ReadGrows
    <2>3. UNCHANGED <<running, delivered>>
      BY <1>2 DEF ReadSecond
    <2>4. \A u \in Subs : msg[u] \in Message /\ msg'[u] \in Message
      BY DEF IInv, TypeOK
    <2>5. \A x \in Task : x.sub \in Subs /\ x.msg \in Message
      BY DEF Task
    <2>6. \A x \in Task : UpTo(x.msg, msg[x.sub]) => UpTo(x.msg, msg'[x.sub])
      BY <2>2, <2>4, <2>5, VersionsGrow
    <2>7. k.sub = s /\ k.msg = msg'[s]
      OBVIOUS
    <2>8. \A u \in Subs : delivered[u] <= msg'[u][1]
      <3> SUFFICES ASSUME NEW u \in Subs PROVE delivered[u] <= msg'[u][1]
        OBVIOUS
      <3>1. delivered[u] <= msg[u][1] /\ msg[u][1] <= msg'[u][1]
        BY <2>2 DEF OrderInv, RunInv, UpTo
      <3>2. delivered[u] \in Nat /\ msg[u][1] \in Nat /\ msg'[u][1] \in Nat
        BY <2>4, VersionsGrow, Halves DEF IInv, TypeOK
      <3> QED BY <3>1, <3>2
    <2>9. /\ \A x \in Nodes \ {n} : queue'[x] = queue[x]
          /\ DOMAIN queue'[n] = 1 .. Len(queue[n]) + 1
          /\ \A j \in 1 .. Len(queue[n]) : queue'[n][j] = queue[n][j]
          /\ queue'[n][Len(queue[n]) + 1] = k
      <3>1. queue'[n] = Append(queue[n], k) /\ queue[n] \in Seq(Task)
        BY <2>2 DEF IInv, TypeOK
      <3>2. \A x \in Nodes \ {n} : queue'[x] = queue[x]
        BY <2>2 DEF IInv, TypeOK
      <3> HIDE DEF k
      <3> QED BY <3>1, <3>2
    <2> HIDE DEF s, k
    <2> USE QueuesAreTasks DEF IInv
    <2>10. RunInv'
      <3>1. ASSUME NEW x \in Nodes, NEW j \in DOMAIN queue'[x]
            PROVE  SubNode[queue'[x][j].sub] = x
        BY <2>2, <2>7, <2>9 DEF OrderInv, RunInv
      <3>2. ASSUME NEW x \in Nodes, NEW i \in 1 .. NumWorkers, running[x][i] # NoTask
            PROVE  /\ SubNode[running[x][i].sub] = x
                   /\ UpTo(running[x][i].msg, msg'[running[x][i].sub])
        <4>1. running[x][i] \in Task
          BY <3>2
        <4> QED BY <2>6, <3>2, <4>1 DEF OrderInv, RunInv
      <3> QED BY <2>3, <2>8, <3>1, <3>2 DEF RunInv
    <2>11. BegunInOrder'
      <3> SUFFICES ASSUME NEW x \in Nodes, NEW j \in DOMAIN queue'[x]
                   PROVE  LET y == queue'[x][j] IN
                          /\ \A i \in 1 .. j - 1 :
                                queue'[x][i].sub = y.sub => UpTo(queue'[x][i].msg, y.msg)
                          /\ \A i \in 1 .. NumWorkers :
                                running[x][i] # NoTask /\ running[x][i].sub = y.sub
                                   => UpTo(running[x][i].msg, y.msg)
                          /\ delivered[y.sub] <= y.msg[1]
                          /\ UpTo(y.msg, msg'[y.sub])
        BY <2>3 DEF BegunInOrder
      <3>1. CASE x # n \/ j # Len(queue[n]) + 1
        <4>1. j \in DOMAIN queue[x] /\ queue'[x][j] = queue[x][j]
          BY <2>9, <3>1
        <4>2. \A i \in 1 .. j - 1 : queue'[x][i] = queue[x][i]
          BY <2>9, <4>1
        <4>3. queue[x][j] \in Task
          BY <4>1
        <4> QED BY <2>6, <4>1, <4>2, <4>3 DEF OrderInv, BegunInOrder
      <3>2. CASE x = n /\ j = Len(queue[n]) + 1
        <4>1. queue'[x][j] = k
          BY <2>9, <3>2
        <4>2. ASSUME NEW i \in 1 .. j - 1, queue'[x][i].sub = s
              PROVE  UpTo(queue'[x][i].msg, msg'[s])
          <5>1. i \in DOMAIN queue[n] /\ queue'[x][i] = queue[n][i]
            BY <2>9, <3>2
          <5> QED BY <2>6, <3>2, <4>2, <5>1 DEF OrderInv, BegunInOrder
        <4>3. ASSUME NEW i \in 1 .. NumWorkers, running[x][i] # NoTask, running[x][i].sub = s
              PROVE  UpTo(running[x][i].msg, msg'[s])
          <5>1. running[x][i] \in Task
            BY <4>3
          <5> QED BY <2>6, <4>3, <5>1 DEF OrderInv, RunInv
        <4>4. UpTo(msg'[s], msg'[s])
          BY <2>1, <2>4, VersionsGrow
        <4> QED BY <2>1, <2>7, <2>8, <4>1, <4>2, <4>3, <4>4
      <3> QED BY <3>1, <3>2
    <2> QED BY <2>10, <2>11
  <1> QED BY <1>1, <1>2

\* A worker takes the task before all that stay, and runs what is behind none
\* of them.
LEMMA OrderOfPool ==
  ASSUME IInv, OrderInv, NEW n \in Nodes,
         Worker(n) \/ StopSpinning(n) \/ StopPool(n) \/ StopReturns(n), TypeOK'
  PROVE  OrderInv'
  <1>1. UNCHANGED <<segVars, spinVars>>
    BY TypeOfPool
  <1>2. SegInv' /\ CopyInv'
    <2>1. \A k \in Nodes : Foremost(k)' = Foremost(k)
      BY <1>1 DEF spinVars, Foremost
    <2>2. UNCHANGED <<seg, sent, msg, spc, first>>
      BY <1>1 DEF segVars, spinVars
    <2>3. SegInv'
      BY <2>2 DEF OrderInv, SegInv
    <2>4. ASSUME NEW s \in Subs PROVE UpTo(msg'[s], seg'[SubTopic[s]])
      BY <2>2 DEF OrderInv, CopyInv
    <2>5. ASSUME NEW m \in Nodes, spc'[m] = "read2"
          PROVE  /\ msg'[Foremost(m)'][1] <= first'[m]
                 /\ first'[m] <= seg'[SubTopic[Foremost(m)']][1]
      BY <2>1, <2>2, <2>5 DEF OrderInv, CopyInv
    <2> QED BY <2>3, <2>4, <2>5 DEF CopyInv
  <1> USE QueuesAreTasks DEF IInv
  <1>3. ASSUME UNCHANGED <<queue, running, delivered>> PROVE RunInv' /\ BegunInOrder'
    <2>1. UNCHANGED <<queue, running, delivered, msg>>
      BY <1>1, <1>3 DEF spinVars
    <2> QED BY ONLY OrderInv, <2>1 DEF OrderInv, RunInv, BegunInOrder
  <1>4. ASSUME NEW i \in 1 .. NumWorkers, Take(n, i) PROVE RunInv' /\ BegunInOrder'
    <2>1. /\ \A x \in Nodes \ {n} : queue'[x] = queue[x] /\ running'[x] = running[x]
          /\ \A w \in (1 .. NumWorkers) \ {i} : running'[n][w] = running[n][w]
          /\ UNCHANGED <<msg, delivered>>
      BY <1>4 DEF Take, spinVars, TypeOK
    <2>2. queue'[n] = Tail(queue[n]) /\ running'[n][i] = Head(queue[n])
      BY <1>4 DEF Take, TypeOK
    <2>3. queue[n] \in Seq(Task) /\ queue[n] # <<>>
      BY <1>4 DEF Take, TypeOK
    <2>4. Len(queue[n]) \in Nat \ {0} /\ running'[n][i] = queue[n][1]
      <3>1. Len(queue[n]) # 0
        BY <2>3, EmptySeq
      <3>2. Head(queue[n]) = queue[n][1]
        OBVIOUS
      <3> QED BY <2>2, <3>1, <3>2
    <2>5. /\ DOMAIN queue'[n] = 1 .. Len(queue[n]) - 1
          /\ \A j \in 1 .. Len(queue[n]) - 1 : queue'[n][j] = queue[n][j + 1]
      <3>1. Tail(queue[n]) \in Seq(Task) /\ Len(Tail(queue[n])) = Len(queue[n]) - 1
        BY <2>3, HeadTailProperties
      <3>2. DOMAIN Tail(queue[n]) = 1 .. Len(queue[n]) - 1
        BY <3>1, LenProperties
      <3>3. \A j \in 1 .. Len(queue[n]) - 1 : Tail(queue[n])[j] = queue[n][j + 1]
        BY <2>3, <3>1, HeadTailProperties
      <3> QED BY <2>2, <3>2, <3>3
    <2>6. \A j \in DOMAIN queue'[n] : j + 1 \in DOMAIN queue[n] /\ queue'[n][j] = queue[n][j + 1]
      <3>1. DOMAIN queue[n] = 1 .. Len(queue[n])
        OBVIOUS
      <3>2. \A j \in 1 .. Len(queue[n]) - 1 : j + 1 \in 1 .. Len(queue[n])
        BY <2>4
      <3> QED BY ONLY <2>5, <3>1, <3>2
    <2>7. 1 \in DOMAIN queue[n]
      BY <2>4
    <2>8. RunInv'
      <3>1. ASSUME NEW x \in Nodes, NEW j \in DOMAIN queue'[x]
            PROVE  SubNode[queue'[x][j].sub] = x
        BY <2>1, <2>6 DEF OrderInv, RunInv
      <3>2. ASSUME NEW x \in Nodes, NEW w \in 1 .. NumWorkers, running'[x][w] # NoTask
            PROVE  /\ SubNode[running'[x][w].sub] = x
                   /\ UpTo(running'[x][w].msg, msg'[running'[x][w].sub])
        <4>1. CASE x = n /\ w = i
          BY <2>1, <2>4, <2>7, <4>1 DEF OrderInv, RunInv, BegunInOrder
        <4>2. CASE ~(x = n /\ w = i)
          BY <2>1, <3>2, <4>2 DEF OrderInv, RunInv
        <4> QED BY <4>1, <4>2
      <3> QED BY <2>1, <3>1, <3>2 DEF OrderInv, RunInv
    <2>9. ASSUME NEW x \in Nodes, NEW j \in DOMAIN queue'[x]
          PROVE  LET y == queue'[x][j] IN
                 /\ \A w \in 1 .. j - 1 : queue'[x][w].sub = y.sub => UpTo(queue'[x][w].msg, y.msg)
                 /\ \A w \in 1 .. NumWorkers :
                       running'[x][w] # NoTask /\ running'[x][w].sub = y.sub
                          => UpTo(running'[x][w].msg, y.msg)
                 /\ delivered[y.sub] <= y.msg[1]
                 /\ UpTo(y.msg, msg[y.sub])
      <3>1. CASE x # n
        <4>1. queue'[x] = queue[x] /\ running'[x] = running[x]
          BY <2>1, <3>1
        <4> QED BY ONLY OrderInv, x \in Nodes, j \in DOMAIN queue'[x], <4>1 DEF OrderInv, BegunInOrder
      <3>2. CASE x = n
        <4> DEFINE y == queue[n][j + 1]
        <4>1. j + 1 \in DOMAIN queue[n] /\ queue'[n][j] = y /\ j \in Nat \ {0}
          <5>1. j \in DOMAIN queue'[n]
            BY <3>2
          <5>2. j \in Nat \ {0}
            BY ONLY <2>4, <2>5, <5>1
          <5> QED BY ONLY <2>6, <5>1, <5>2
        <4>2. /\ \A v \in 1 .. j : queue[n][v].sub = y.sub => UpTo(queue[n][v].msg, y.msg)
              /\ \A w \in 1 .. NumWorkers :
                    running[n][w] # NoTask /\ running[n][w].sub = y.sub
                       => UpTo(running[n][w].msg, y.msg)
              /\ delivered[y.sub] <= y.msg[1]
              /\ UpTo(y.msg, msg[y.sub])
          <5>1. (j + 1) - 1 = j
            BY <4>1
          <5> QED BY <4>1, <5>1 DEF OrderInv, BegunInOrder
        <4> HIDE DEF y
        <4>3. \A w \in 1 .. j - 1 : w + 1 \in 1 .. j /\ queue'[n][w] = queue[n][w + 1]
          BY <2>5, <3>2, <4>1
        <4>4. \A w \in 1 .. j - 1 : queue'[n][w].sub = y.sub => UpTo(queue'[n][w].msg, y.msg)
          BY <4>2, <4>3
        <4>5. \A w \in 1 .. NumWorkers :
                 running'[n][w] # NoTask /\ running'[n][w].sub = y.sub
                    => UpTo(running'[n][w].msg, y.msg)
          <5>1. 1 \in 1 .. j
            BY <4>1
          <5> QED BY <2>1, <2>4, <4>2, <5>1
        <4> QED BY <3>2, <4>1, <4>2, <4>4, <4>5
      <3> QED BY <3>1, <3>2
    <2> QED BY <2>1, <2>8, <2>9 DEF BegunInOrder
  <1>5. ASSUME NEW i \in 1 .. NumWorkers, Execute(n, i) PROVE RunInv' /\ BegunInOrder'
    <2> DEFINE k == running[n][i]
    <2>1. /\ UNCHANGED <<queue, msg>> /\ k # NoTask
          /\ \A x \in Nodes, w \in 1 .. NumWorkers : running'[x][w] \in {running[x][w], NoTask}
      <3>1. running' = [running EXCEPT ![n][i] = NoTask] /\ UNCHANGED <<queue, msg>> /\ k # NoTask
        BY <1>5 DEF Execute, spinVars
      <3>2. \A x \in Nodes : running[x] \in [1 .. NumWorkers -> Task \cup {NoTask}]
        BY DEF TypeOK
      <3>3. running \in [Nodes -> [1 .. NumWorkers -> Task \cup {NoTask}]]
        BY DEF TypeOK
      <3> QED BY ONLY <3>1, <3>2, <3>3
    <2>2. k.sub \in Subs /\ k.msg \in Message
      <3>1. k \in Task
        <4>1. running[n][i] \in Task \cup {NoTask}
          BY ONLY IInv, n \in Nodes, i \in 1 .. NumWorkers, QueuesAreTasks DEF IInv
        <4> QED BY ONLY <2>1, <4>1
      <3> QED BY ONLY <3>1 DEF Task
    <2>3. \A u \in Subs : delivered'[u] = delivered[u] \/ (u = k.sub /\ delivered'[u] = k.msg[1])
      BY <1>5 DEF Execute, TypeOK
    <2>4. \A u \in Subs : delivered'[u] <= msg[u][1]
      BY <2>1, <2>3 DEF OrderInv, RunInv, UpTo
    <2>5. ASSUME NEW x \in Nodes, NEW j \in DOMAIN queue[x]
          PROVE  delivered'[queue[x][j].sub] <= queue[x][j].msg[1]
      <3> DEFINE u == queue[x][j].sub
      <3>1. u \in Subs /\ delivered[u] <= queue[x][j].msg[1] /\ SubNode[u] = x
        BY DEF OrderInv, BegunInOrder, RunInv, Task
      <3>2. u = k.sub => k.msg[1] <= queue[x][j].msg[1]
        <4>1. SubNode[k.sub] = n
          BY <2>1 DEF OrderInv, RunInv
        <4> QED BY <2>1, <3>1, <4>1 DEF OrderInv, BegunInOrder, UpTo
      <3> QED BY <2>3, <3>1, <3>2
    <2> HIDE DEF k
    <2>6. RunInv'
      <3>1. \A x \in Nodes : \A w \in 1 .. NumWorkers :
               running'[x][w] # NoTask => running'[x][w] = running[x][w]
        BY <2>1
      <3> QED BY <2>1, <2>4, <3>1 DEF OrderInv, RunInv
    <2>7. BegunInOrder'
      <3>1. \A x \in Nodes : \A w \in 1 .. NumWorkers :
               running'[x][w] # NoTask => running'[x][w] = running[x][w]
        BY <2>1
      <3> QED BY <2>1, <2>5, <3>1 DEF OrderInv, BegunInOrder
    <2> QED BY <2>6, <2>7
  <1>6. ASSUME NEW i \in 1 .. NumWorkers, Exit(n, i) PROVE UNCHANGED <<queue, running, delivered>>
    BY <1>6 DEF Exit
  <1>7. ASSUME StopSpinning(n) \/ StopPool(n) \/ StopReturns(n)
        PROVE  UNCHANGED <<queue, running, delivered>>
    BY <1>7 DEF StopSpinning, StopPool, StopReturns, poolVars
  <1> QED BY <1>2, <1>3, <1>4, <1>5, <1>6, <1>7 DEF Worker, OrderInv

LEMMA OrderKept ==
  ASSUME IInv, OrderInv, [Next]_vars
  PROVE  OrderInv'
  <1>1. IInv'
    BY NextIInv
  <1>2. ASSUME NEW p \in Publishers, WriteFirst(p) \/ Publish(p) PROVE OrderInv'
    BY <1>1, <1>2, OrderOfPublish DEF IInv
  <1>3. ASSUME NEW n \in Nodes, Spin(n) PROVE OrderInv'
    BY <1>1, <1>3, CopyOfSpin, RunOfSpin DEF IInv, OrderInv
  <1>4. ASSUME NEW n \in Nodes, Worker(n) \/ StopSpinning(n) \/ StopPool(n) \/ StopReturns(n)
        PROVE  OrderInv'
    BY <1>1, <1>4, OrderOfPool DEF IInv
  <1>5. CASE UNCHANGED vars
    <2>1. \A k \in Nodes : Foremost(k)' = Foremost(k)
      BY <1>5 DEF vars, Foremost
    <2> QED BY <1>5, <2>1 DEF vars, OrderInv, SegInv, CopyInv, RunInv, BegunInOrder
  <1> QED BY <1>2, <1>3, <1>4, <1>5 DEF Next

\* The callbacks of a subscription begin in the order of their messages, with
\* any number of workers, wherever publishers are, and although a message is
\* read while it is being written (subscriber.h:124-143, node.cpp:207-220,
\* thread_pool.h:28-31): an older message comes last only when two workers run
\* callbacks of one subscription at the same time.
THEOREM CallbacksBeginInOrder == Spec => []BegunInOrder
  <1>1. IInv /\ OrderInv /\ [Next]_vars => OrderInv'
    BY OrderKept
  <1>2. OrderInv => BegunInOrder
    BY DEF OrderInv
  <1> QED BY <1>1, <1>2, OrderInitially, Invariance, PTL DEF Spec

=============================================================================
