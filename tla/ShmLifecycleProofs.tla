------------------------- MODULE ShmLifecycleProofs -------------------------
(***************************************************************************)
(* Theorems about ShmLifecycle, for any number of processes that open,     *)
(* use, close and unlink segments at the same time and may be killed.      *)
(***************************************************************************)
EXTENDS ShmLifecycle, TLAPS

\* p has created the segment that goes by name n, and will unlink it.
Holds(p, n) ==
    /\ Live(p)
    /\ owns[p][n] # None \/ (pc[p] = "size" /\ name[p] = n)

\* What makes NameStaysBound inductive: a name has one holder, also between
\* shm_open and the moment the holder becomes the owner.
HolderInv ==
    /\ \A p \in Procs : pc[p] = "off" => \A n \in Names : owns[p][n] = None
    /\ \A p \in Procs : pc[p] = "size" =>
           /\ Mine(p) # None /\ link[name[p]] = Mine(p)
           /\ owns[p][name[p]] = None
    /\ \A p, q \in Procs, n \in Names : Holds(p, n) /\ Holds(q, n) => p = q

\* The places where a process may be with a segment that it must not use yet,
\* and those where it will not use any.
Unready == {"size", "check", "init", "magic"}
Leaving == {"close", "failing"} \cup Dead

\* What makes UsableWhenUp inductive: what a process has mapped, while it is
\* still opening something else.
MappedInv ==
    \A p \in Procs :
        /\ pc[p] = "off" => \A n \in Names : map[p][n] = None
        /\ pc[p] \in {"check", "init", "magic", "reset"} => Mine(p) # None
        /\ pc[p] \in {"init", "magic", "reset"} => Mine(p) \in sized
        /\ pc[p] \in {"up", "use", "read"} \/ (pc[p] \in Opening /\ name[p] = "topic") =>
               map[p]["events"] # None /\ map[p]["registry"] # None
        /\ pc[p] \in Opening /\ name[p] = "registry" => map[p]["events"] # None
        /\ pc[p] \notin Leaving => \A n \in Names :
               map[p][n] # None /\ ~(pc[p] \in Unready /\ n = name[p]) =>
                   map[p][n] \in sized \cap magic

\* What makes NothingLeft inductive: a name that is bound has a holder, unless
\* a process died without its destructors, and those go through the names in
\* their order.
LinkInv ==
    \A n \in Names : link[n] # None =>
        \E p \in Procs : pc[p] \in {"killed", "sigbus"} \/ Holds(p, n)
CloseInv ==
    \A p \in Procs :
        /\ pc[p] = "failing" => name[p] = "events"
        /\ pc[p] = "close" /\ name[p] \in {"registry", "topic"} => owns[p]["events"] = None
        /\ pc[p] = "close" /\ name[p] = "topic" => owns[p]["registry"] = None

\* The objects there are have been created.
CreatedInv ==
    /\ \A n \in Names : link[n] <= created
    /\ \A p \in Procs, n \in Names : map[p][n] <= created
    /\ magic \subseteq 1 .. created
    /\ flagged \subseteq magic

IInv == /\ TypeOK /\ NameStaysBound /\ HolderInv /\ MappedInv
        /\ LinkInv /\ CloseInv /\ CreatedInv

\* The places where a process is about to initialise its segment.
Founding == {"size", "init", "magic", "reset"}

\* What makes MutualExclusion and NoTriggerWiped inductive when processes open
\* segments one at a time: nobody uses a segment that is being initialised,
\* and nobody has set a bit in it.
OneOpens == \A p, q \in Procs : pc[p] \in Opening /\ pc[q] \in Opening => p = q
SoleInv ==
    \A p, q \in Procs : pc[p] \in Founding /\ pc[q] \in {"up", "use"} =>
        \A n \in Names : map[q][n] # Mine(p)
BlankInv == \A p \in Procs : pc[p] \in Founding => Mine(p) \notin flagged
LockInv == \A p \in Procs : pc[p] = "use" => Mine(p) # None /\ locked[Mine(p)] = p

SInv == OneOpens /\ SoleInv /\ BlankInv /\ LockInv

-----------------------------------------------------------------------------
LEMMA InitIInv == Init => IInv
  <1> SUFFICES ASSUME Init PROVE IInv
    OBVIOUS
  <1>1. TypeOK /\ NameStaysBound /\ HolderInv /\ MappedInv
    BY LifecycleAssumption
       DEF Init, TypeOK, NameStaysBound, HolderInv, Holds, Live, MappedInv, Mine,
           Names, None, Objects, Opening, Dead, Unready, Leaving
  <1>2. LinkInv /\ CloseInv /\ CreatedInv
    BY DEF Init, LinkInv, CloseInv, CreatedInv, None
  <1> QED BY <1>1, <1>2 DEF IInv

-----------------------------------------------------------------------------

\* Where Throw and Opened lead.
LEMMA ThrowFacts ==
    ASSUME TypeOK, NEW p \in Procs, Throw(p)
    PROVE  \E x \in {"up", "failing"}, n \in Names :
              /\ pc' = [pc EXCEPT ![p] = x] /\ name' = [name EXCEPT ![p] = n]
              /\ x = "up" => name[p] = "topic"
              /\ x = "failing" => n = "events"
  <1>1. CASE name[p] = "topic"
    <2>1. name' = [name EXCEPT ![p] = "topic"]
      BY <1>1 DEF Throw, TypeOK
    <2> QED BY <1>1, <2>1 DEF Throw, Go, Names
  <1>2. CASE name[p] # "topic"
    BY <1>2 DEF Throw, Go, Names
  <1> QED BY <1>1, <1>2

LEMMA OpenedFacts ==
    ASSUME TypeOK, NEW p \in Procs, Opened(p)
    PROVE  \E x \in {"exists", "read", "up"}, n \in Names :
              /\ pc' = [pc EXCEPT ![p] = x] /\ name' = [name EXCEPT ![p] = n]
              /\ x = "exists" => name[p] = "events" /\ n = "registry"
              /\ x # "exists" => name[p] # "events" /\ n = name[p]
              /\ x = "read" => n = "registry"
  <1>1. CASE name[p] = "events"
    BY <1>1 DEF Opened, Go, Names
  <1>2. CASE name[p] # "events"
    <2>1. name' = [name EXCEPT ![p] = name[p]]
      BY <1>2 DEF Opened, TypeOK
    <2>2. \E x \in {"read", "up"} : /\ pc' = [pc EXCEPT ![p] = x]
                                    /\ x = "read" => name[p] = "registry"
      BY <1>2 DEF Opened, Go
    <2>3. name[p] \in Names
      BY DEF TypeOK
    <2> QED BY <1>2, <2>1, <2>2, <2>3
  <1> QED BY <1>1, <1>2

LEMMA TypeStep == IInv /\ [Next]_vars => TypeOK'
  <1> SUFFICES ASSUME IInv, [Next]_vars PROVE TypeOK'
    OBVIOUS
  <1> USE LifecycleAssumption DEF IInv, TypeOK, objectVars, procVars, Go, Mine, Names, None, Objects, Opening, Dead
  <1>1. ASSUME NEW p \in Procs, Start(p) PROVE TypeOK'
    BY <1>1 DEF Start
  <1>2. ASSUME NEW p \in Procs, Advertise(p) PROVE TypeOK'
    BY <1>2 DEF Advertise
  <1>3. ASSUME NEW p \in Procs, Subscribe(p) PROVE TypeOK'
    BY <1>3 DEF Subscribe
  <1>4. ASSUME NEW p \in Procs, Exists(p) PROVE TypeOK'
    <2>1. CASE Throw(p)
      <3>1. Throw(p)
        BY <1>4, <2>1 DEF Exists
      <3>2. PICK x \in {"up", "failing"}, n \in Names :
                /\ pc' = [pc EXCEPT ![p] = x] /\ name' = [name EXCEPT ![p] = n]
                /\ x = "up" => name[p] = "topic"
        BY <3>1, ThrowFacts DEF IInv
      <3> QED BY <1>4, <2>1, <3>2 DEF Exists
    <2>2. CASE ~Throw(p)
      <3>1. PICK x \in {"open", "create"} : pc' = [pc EXCEPT ![p] = x] /\ UNCHANGED name
        BY <1>4, <2>2 DEF Exists
      <3> QED BY <1>4, <2>2, <3>1 DEF Exists
    <2> QED BY <2>1, <2>2
  <1>5. ASSUME NEW p \in Procs, Create(p) PROVE TypeOK'
    BY <1>5 DEF Create
  <1>6. ASSUME NEW p \in Procs, CreateFails(p) PROVE TypeOK'
    <2>1. Throw(p)
      BY <1>6 DEF CreateFails
    <2>2. PICK x \in {"up", "failing"}, n \in Names :
              /\ pc' = [pc EXCEPT ![p] = x] /\ name' = [name EXCEPT ![p] = n]
              /\ x = "up" => name[p] = "topic"
      BY <2>1, ThrowFacts DEF IInv
    <2> QED BY <1>6, <2>2 DEF CreateFails
  <1>7. ASSUME NEW p \in Procs, Size(p) PROVE TypeOK'
    <2>1. Mine(p) \in Objects
      BY <1>7 DEF Size, HolderInv
    <2> QED BY <1>7, <2>1 DEF Size
  <1>8. ASSUME NEW p \in Procs, SizeFails(p) PROVE TypeOK'
    <2>1. Throw(p)
      BY <1>8 DEF SizeFails
    <2>2. PICK x \in {"up", "failing"}, n \in Names :
              /\ pc' = [pc EXCEPT ![p] = x] /\ name' = [name EXCEPT ![p] = n]
              /\ x = "up" => name[p] = "topic"
      BY <2>1, ThrowFacts DEF IInv
    <2> QED BY <1>8, <2>2 DEF SizeFails
  <1>9. ASSUME NEW p \in Procs, Open(p) PROVE TypeOK'
    <2>1. CASE link[name[p]] = None
      <3>1. Throw(p)
        BY <1>9, <2>1 DEF Open
      <3>2. PICK x \in {"up", "failing"}, n \in Names :
                /\ pc' = [pc EXCEPT ![p] = x] /\ name' = [name EXCEPT ![p] = n]
                /\ x = "up" => name[p] = "topic"
        BY <3>1, ThrowFacts DEF IInv
      <3> QED BY <1>9, <2>1, <3>2 DEF Open
    <2>2. CASE link[name[p]] # None
      <3>1. /\ pc' = [pc EXCEPT ![p] = "check"]
            /\ map' = [map EXCEPT ![p][name[p]] = link[name[p]]]
            /\ UNCHANGED <<link, created, sized, magic, locked, flagged, name, owns,
                           again, tried, kills>>
        BY <1>9, <2>2 DEF Open
      <3>2. link[name[p]] \in Objects
        BY <2>2
      <3>3. map' \in [Procs -> [Names -> Objects \cup {None}]]
        BY <3>1, <3>2
      <3> QED BY <3>1, <3>3
    <2> QED BY <2>1, <2>2
  <1>10. ASSUME NEW p \in Procs, Check(p) PROVE TypeOK'
    <2>1. CASE Mine(p) \in sized /\ Mine(p) \in magic
      <3>1. Opened(p)
        BY <1>10, <2>1 DEF Check
      <3>2. PICK x \in {"exists", "read", "up"}, n \in Names :
                /\ pc' = [pc EXCEPT ![p] = x] /\ name' = [name EXCEPT ![p] = n]
                /\ x = "exists" => name[p] = "events" /\ n = "registry"
                /\ x # "exists" => name[p] # "events" /\ n = name[p]
                /\ x = "read" => n = "registry"
        BY <3>1, OpenedFacts DEF IInv
      <3> QED BY <1>10, <2>1, <3>2 DEF Check
    <2>2. CASE ~(Mine(p) \in sized /\ Mine(p) \in magic)
      <3>1. PICK x \in {"sigbus", "init"} :
                /\ pc' = [pc EXCEPT ![p] = x] /\ UNCHANGED name
                /\ x = "init" => Mine(p) \in sized
        BY <1>10, <2>2 DEF Check
      <3> QED BY <1>10, <2>2, <3>1 DEF Check
    <2> QED BY <2>1, <2>2
  <1>11. ASSUME NEW p \in Procs, InitMutex(p) PROVE TypeOK'
    BY <1>11 DEF InitMutex
  <1>12. ASSUME NEW p \in Procs, SetMagic(p) PROVE TypeOK'
    <2>1. Mine(p) \in Objects
      BY <1>12 DEF SetMagic, MappedInv
    <2>2. CASE name[p] = "events"
      BY <1>12, <2>1, <2>2 DEF SetMagic
    <2>3. CASE name[p] # "events"
      <3>1. Opened(p)
        BY <1>12, <2>3 DEF SetMagic
      <3>2. PICK x \in {"exists", "read", "up"}, n \in Names :
                /\ pc' = [pc EXCEPT ![p] = x] /\ name' = [name EXCEPT ![p] = n]
        BY <3>1, OpenedFacts DEF IInv
      <3> QED BY <1>12, <2>1, <3>2 DEF SetMagic
    <2> QED BY <2>2, <2>3
  <1>13. ASSUME NEW p \in Procs, ResetFlags(p) PROVE TypeOK'
    <2>1. CASE again[p]
      <3> QED BY <1>13, <2>1 DEF ResetFlags
    <2>2. CASE ~again[p]
      <3>1. Opened(p)
        BY <1>13, <2>2 DEF ResetFlags
      <3>2. PICK x \in {"exists", "read", "up"}, n \in Names :
                /\ pc' = [pc EXCEPT ![p] = x] /\ name' = [name EXCEPT ![p] = n]
                /\ x = "exists" => name[p] = "events" /\ n = "registry"
                /\ x # "exists" => name[p] # "events" /\ n = name[p]
                /\ x = "read" => n = "registry"
        BY <3>1, OpenedFacts DEF IInv
      <3> QED BY <1>13, <2>2, <3>2 DEF ResetFlags
    <2> QED BY <2>1, <2>2
  <1>14. ASSUME NEW p \in Procs, NEW n \in Names, Enter(p, n) PROVE TypeOK'
    BY <1>14 DEF Enter
  <1>15. ASSUME NEW p \in Procs, Leave(p) PROVE TypeOK'
    <2>1. name[p] = "events" => Mine(p) \in Objects
      BY <1>15 DEF Leave, MappedInv
    <2> QED BY <1>15, <2>1 DEF Leave
  <1>16. ASSUME NEW p \in Procs, Shutdown(p) PROVE TypeOK'
    BY <1>16 DEF Shutdown
  <1>17. ASSUME NEW p \in Procs, Close(p) PROVE TypeOK'
    BY <1>17 DEF Close, Release
  <1>18. ASSUME NEW p \in Procs, Abort(p) PROVE TypeOK'
    BY <1>18 DEF Abort
  <1>19. ASSUME NEW p \in Procs, Kill(p) PROVE TypeOK'
    BY <1>19 DEF Kill
  <1>20. CASE UNCHANGED vars
    BY <1>20 DEF vars
  <1> QED BY <1>1, <1>2, <1>3, <1>4, <1>5, <1>6, <1>7, <1>8, <1>9, <1>10, <1>11,
             <1>12, <1>13, <1>14, <1>15, <1>16, <1>17, <1>18, <1>19, <1>20
          DEF Next, OpenStep

\* What a step of p may do, whichever it is.
Step(p) ==
    \/ Start(p) \/ Advertise(p) \/ Subscribe(p) \/ OpenStep(p)
    \/ (\E n \in Names : Enter(p, n)) \/ Leave(p)
    \/ Shutdown(p) \/ Close(p) \/ Abort(p) \/ Kill(p)

Alone(p) ==
    \A q \in Procs \ {p} :
        pc'[q] = pc[q] /\ name'[q] = name[q] /\ map'[q] = map[q] /\ owns'[q] = owns[q]

\* Where a step leads: into the opening of a segment only if that is allowed,
\* to work only from there, and to an initialisation only of a segment that
\* is new, that has not been initialised, or that p is initialising already.
Leads(p) ==
    /\ pc'[p] \in Opening => pc[p] \in Opening \/ MayOpen
    /\ pc'[p] \in {"up", "use"} =>
           pc[p] \in Opening \/ (pc[p] \in {"up", "use"} /\ map'[p] = map[p])
    /\ pc'[p] \in Founding =>
           \/ Create(p)
           \/ /\ map'[p] = map[p] /\ name'[p] = name[p]
              /\ pc[p] \in Founding \/ (pc[p] = "check" /\ Mine(p) \notin magic)

\* Either a name is given or taken, or p holds what it held or is dead.
Keeps(p) ==
    \/ Create(p) \/ Size(p) \/ SizeFails(p) \/ Close(p)
    \/ /\ UNCHANGED <<link, created, owns>> /\ pc[p] \notin {"gone", "killed", "sigbus"}
       /\ pc'[p] \notin {"off", "size"}
       /\ \/ pc'[p] \in {"killed", "sigbus"}
          \/ pc[p] # "size" /\ pc'[p] \notin Dead \cup {"off"}
       /\ pc'[p] \in {"close", "failing"} => name'[p] = "events"

\* What becomes of names, mappings and marks.
Marks(p) ==
    /\ created <= created'
    /\ \A n \in Names : /\ link'[n] \in {link[n], None, created'}
                        /\ map'[p][n] \in {map[p][n], None, created', link[n]}
    /\ magic' = magic \/ (SetMagic(p) /\ magic' = magic \cup {Mine(p)})
    /\ flagged' \subseteq flagged \/ Leave(p)

LEMMA AfterOpening ==
  ASSUME TypeOK, NEW p \in Procs, pc[p] \in Opening, Throw(p) \/ Opened(p)
  PROVE  /\ pc'[p] \in {"up", "failing", "exists", "read"}
         /\ pc'[p] = "failing" => name'[p] = "events"
         /\ \A q \in Procs \ {p} : pc'[q] = pc[q] /\ name'[q] = name[q]
  <1>1. CASE Throw(p)
    BY <1>1, ThrowFacts DEF TypeOK
  <1>2. CASE Opened(p)
    BY <1>2, OpenedFacts DEF TypeOK
  <1> QED BY <1>1, <1>2

\* A step that ends the opening of a segment and leaves names and mappings alone.
LEMMA OpeningEnded ==
  ASSUME IInv, NEW p \in Procs, pc[p] \in Opening \ {"size"}, Throw(p) \/ Opened(p),
         UNCHANGED <<link, created, map, owns>>
  PROVE  Alone(p) /\ Leads(p) /\ Keeps(p)
  <1>1. /\ pc'[p] \in {"up", "failing", "exists", "read"}
        /\ pc'[p] = "failing" => name'[p] = "events"
        /\ \A q \in Procs \ {p} : pc'[q] = pc[q] /\ name'[q] = name[q]
    BY AfterOpening DEF IInv
  <1>2. Alone(p)
    BY <1>1 DEF Alone
  <1>3. Leads(p)
    BY <1>1 DEF Leads, Opening, Founding
  <1>4. Keeps(p)
    BY <1>1 DEF Keeps, Opening, Dead
  <1> QED BY <1>2, <1>3, <1>4

LEMMA StepFacts ==
  ASSUME IInv, NEW p \in Procs, Step(p)
  PROVE  Alone(p) /\ Leads(p) /\ Keeps(p) /\ Marks(p)
  <1> USE DEF Alone, Leads, Keeps, Marks, IInv, TypeOK, objectVars, procVars, Go, Mine, Opening,
              Dead, Founding
  <1>1. CASE Start(p) \/ Advertise(p) \/ Subscribe(p)
    BY <1>1 DEF Start, Advertise, Subscribe
  <1>2. CASE Exists(p)
    <2>1. CASE Throw(p)
      <3>1. Marks(p) /\ pc[p] = "exists" /\ UNCHANGED <<link, created, map, owns>>
        BY <1>2 DEF Exists
      <3> QED BY <2>1, <3>1, OpeningEnded
    <2>2. CASE ~Throw(p)
      BY <1>2, <2>2 DEF Exists
    <2> QED BY <2>1, <2>2
  <1>3. CASE Create(p)
    BY <1>3 DEF Create
  <1>4. CASE CreateFails(p)
    <2>1. Marks(p) /\ Throw(p) /\ pc[p] = "create" /\ UNCHANGED <<link, created, map, owns>>
      BY <1>4 DEF CreateFails
    <2> QED BY <2>1, OpeningEnded
  <1>5. CASE Size(p)
    BY <1>5 DEF Size
  <1>6. CASE SizeFails(p)
    <2>1. /\ pc'[p] \in {"up", "failing", "exists", "read"} /\ pc[p] \in Opening
          /\ \A q \in Procs \ {p} : pc'[q] = pc[q] /\ name'[q] = name[q]
      BY <1>6, AfterOpening DEF SizeFails
    <2>2. Marks(p)
      BY <1>6 DEF SizeFails
    <2> QED BY <1>6, <2>1, <2>2 DEF SizeFails
  <1>7. CASE Open(p)
    <2>1. CASE link[name[p]] = None
      <3>1. Marks(p) /\ Throw(p) /\ pc[p] = "open" /\ UNCHANGED <<link, created, map, owns>>
        BY <1>7, <2>1 DEF Open
      <3> QED BY <3>1, OpeningEnded
    <2>2. CASE link[name[p]] # None
      BY <1>7, <2>2 DEF Open
    <2> QED BY <2>1, <2>2
  <1>8. CASE Check(p)
    <2>1. CASE Opened(p)
      <3>1. Marks(p) /\ pc[p] = "check" /\ UNCHANGED <<link, created, map, owns>>
        BY <1>8 DEF Check
      <3> QED BY <2>1, <3>1, OpeningEnded
    <2>2. CASE ~Opened(p)
      BY <1>8, <2>2 DEF Check
    <2> QED BY <2>1, <2>2
  <1>9. CASE InitMutex(p)
    BY <1>9 DEF InitMutex
  <1>10. CASE SetMagic(p)
    <2>1. CASE Opened(p)
      <3>1. Marks(p) /\ pc[p] = "magic" /\ UNCHANGED <<link, created, map, owns>>
        BY <1>10 DEF SetMagic
      <3> QED BY <2>1, <3>1, OpeningEnded
    <2>2. CASE ~Opened(p)
      BY <1>10, <2>2 DEF SetMagic
    <2> QED BY <2>1, <2>2
  <1>11. CASE ResetFlags(p)
    <2>1. CASE Opened(p)
      <3>1. Marks(p) /\ pc[p] = "reset" /\ UNCHANGED <<link, created, map, owns>>
        BY <1>11 DEF ResetFlags
      <3> QED BY <2>1, <3>1, OpeningEnded
    <2>2. CASE ~Opened(p)
      BY <1>11, <2>2 DEF ResetFlags
    <2> QED BY <2>1, <2>2
  <1>12. CASE (\E n \in Names : Enter(p, n)) \/ Leave(p)
    BY <1>12 DEF Enter, Leave
  <1>13. CASE Shutdown(p) \/ Abort(p) \/ Kill(p)
    BY <1>13 DEF Shutdown, Abort, Kill
  <1>14. CASE Close(p)
    BY <1>14 DEF Close, Release
  <1> QED BY <1>1, <1>2, <1>3, <1>4, <1>5, <1>6, <1>7, <1>8, <1>9, <1>10, <1>11,
             <1>12, <1>13, <1>14 DEF Step, OpenStep

-----------------------------------------------------------------------------
LEMMA NextIsStep == Next <=> \E p \in Procs : Step(p)
  BY DEF Next, Step

LEMMA BoundStep ==
  ASSUME IInv, NEW p \in Procs, Step(p)
  PROVE  NameStaysBound'
  <1> SUFFICES ASSUME NEW q \in Procs, NEW n \in Names, Live(q)', owns'[q][n] # None
               PROVE  link'[n] = owns'[q][n]
    BY DEF NameStaysBound
  <1>1. TypeOK /\ Alone(p) /\ Keeps(p)
    BY StepFacts DEF IInv
  <1>2. /\ Live(q) /\ owns[q][n] # None => link[n] = owns[q][n]
        /\ pc[q] = "off" => owns[q][n] = None
        /\ name[p] \in Names
    BY <1>1 DEF IInv, NameStaysBound, HolderInv, TypeOK
  <1>3. CASE Create(p)
    <2>1. Live(q) /\ owns' = owns
      BY <1>1, <1>3 DEF Create, Alone, Live, Dead
    <2>2. link[name[p]] = None /\ link' = [link EXCEPT ![name[p]] = created']
      BY <1>3 DEF Create
    <2> QED BY <1>1, <1>2, <2>1, <2>2 DEF TypeOK
  <1>4. CASE Size(p)
    <2>1. Live(q) /\ link' = link /\ owns' = [owns EXCEPT ![p][name[p]] = Mine(p)]
      BY <1>1, <1>4 DEF Size, Alone, Live, Dead
    <2>2. link[name[p]] = Mine(p)
      BY <1>4 DEF Size, IInv, HolderInv
    <2> QED BY <1>1, <1>2, <2>1, <2>2 DEF TypeOK
  <1>5. CASE SizeFails(p)
    <2>1. Live(q) /\ owns' = owns /\ link' = [link EXCEPT ![name[p]] = None]
      BY <1>1, <1>5 DEF SizeFails, Alone, Live, Dead
    <2>2. Holds(p, name[p]) /\ owns[p][name[p]] = None
      BY <1>5 DEF SizeFails, IInv, HolderInv, Holds, Live, Dead
    <2>3. n # name[p]
      BY <1>2, <2>1, <2>2 DEF IInv, HolderInv, Holds
    <2> QED BY <1>1, <1>2, <2>1, <2>3 DEF TypeOK
  <1>6. CASE Close(p)
    <2>1. Live(q) /\ owns' = [owns EXCEPT ![p][name[p]] = None]
      BY <1>1, <1>6 DEF Close, Release, Alone, Live, Dead
    <2>2. owns[q][n] # None /\ owns'[q][n] = owns[q][n] /\ ~(q = p /\ n = name[p])
      BY <1>1, <2>1 DEF TypeOK
    <2>3. link' = link \/ (owns[p][name[p]] # None /\ link' = [link EXCEPT ![name[p]] = None])
      BY <1>6 DEF Close, Release
    <2>4. owns[p][name[p]] # None /\ n = name[p] => p = q
      BY <1>2, <1>6, <2>1, <2>2 DEF Close, IInv, HolderInv, Holds, Live, Dead
    <2> QED BY <1>1, <1>2, <2>1, <2>2, <2>3, <2>4 DEF TypeOK
  <1>7. CASE ~(Create(p) \/ Size(p) \/ SizeFails(p) \/ Close(p))
    <2>1. UNCHANGED <<link, owns>>
      BY <1>1, <1>7 DEF Keeps
    <2>2. Live(q)
      BY <1>1, <1>2, <1>7, <2>1 DEF Keeps, Alone, Live, Dead
    <2> QED BY <1>2, <2>1, <2>2
  <1> QED BY <1>3, <1>4, <1>5, <1>6, <1>7

\* Only by creating it does a process come to hold a name.
LEMMA HoldsStep ==
  ASSUME IInv, NEW p \in Procs, Step(p), NEW q \in Procs, NEW n \in Names, Holds(q, n)'
  PROVE  Holds(q, n) \/ (q = p /\ n = name[p] /\ Create(p))
  <1>1. TypeOK /\ Alone(p) /\ Keeps(p)
    BY StepFacts DEF IInv
  <1>2. pc[q] = "off" => owns[q][n] = None
    BY DEF IInv, HolderInv
  <1>3. CASE q # p
    BY <1>1, <1>3 DEF Alone, Holds, Live
  <1>4. CASE q = p
    <2>1. CASE Create(p)
      BY <1>1, <1>4, <2>1 DEF Create, Holds, Live, Dead, TypeOK
    <2>2. CASE Size(p)
      BY <1>1, <1>4, <2>2 DEF Size, Holds, Live, Dead, Go, TypeOK
    <2>3. CASE SizeFails(p)
      BY <1>1, <1>4, <2>3, AfterOpening DEF SizeFails, Holds, Live, Dead, Opening
    <2>4. CASE Close(p)
      BY <1>1, <1>4, <2>4 DEF Close, Release, Go, Holds, Live, Dead, TypeOK
    <2>5. CASE ~(Create(p) \/ Size(p) \/ SizeFails(p) \/ Close(p))
      BY <1>1, <1>2, <1>4, <2>5 DEF Keeps, Holds, Live, Dead
    <2> QED BY <2>1, <2>2, <2>3, <2>4, <2>5
  <1> QED BY <1>3, <1>4

LEMMA HolderStep ==
  ASSUME IInv, NEW p \in Procs, Step(p)
  PROVE  HolderInv'
  <1>1. TypeOK /\ Alone(p) /\ Keeps(p) /\ NameStaysBound /\ HolderInv
    BY StepFacts DEF IInv
  <1>2. ASSUME NEW q \in Procs, pc'[q] = "off", NEW n \in Names PROVE owns'[q][n] = None
    <2>1. q # p
      BY <1>1, <1>2 DEF Keeps, TypeOK, Create, Size, SizeFails, Close, Go, Throw
    <2> QED BY <1>1, <1>2, <2>1 DEF Alone, HolderInv
  <1>3. ASSUME NEW q \in Procs, pc'[q] = "size"
        PROVE  /\ map'[q][name'[q]] # None /\ link'[name'[q]] = map'[q][name'[q]]
               /\ owns'[q][name'[q]] = None
    <2>1. CASE q = p
      <3>1. Create(p)
        BY <1>1, <1>3, <2>1 DEF Keeps, TypeOK, Size, SizeFails, Close, Go, Throw
      <3>2. owns[p][name[p]] = None
        BY <1>1, <3>1 DEF Create, NameStaysBound, Live, Dead, TypeOK
      <3>3. created' # None
        BY <1>1, <3>1 DEF Create, None, TypeOK
      <3> QED BY <1>1, <2>1, <3>1, <3>2, <3>3 DEF Create, TypeOK
    <2>2. CASE q # p
      <3>1. /\ pc[q] = "size" /\ name'[q] = name[q] /\ map'[q] = map[q] /\ owns'[q] = owns[q]
            /\ name[q] \in Names /\ name[p] \in Names
        BY <1>1, <1>3, <2>2 DEF Alone, TypeOK
      <3>2. /\ Mine(q) # None /\ link[name[q]] = Mine(q) /\ owns[q][name[q]] = None
            /\ Holds(q, name[q])
        BY <1>1, <3>1 DEF HolderInv, Holds, Live, Dead
      <3>3. link'[name[q]] = link[name[q]]
        <4>1. CASE Create(p)
          BY <1>1, <3>1, <3>2, <4>1 DEF Create, TypeOK
        <4>2. CASE Size(p)
          BY <4>2 DEF Size
        <4>3. CASE SizeFails(p)
          <5>1. Holds(p, name[p])
            BY <4>3 DEF SizeFails, Holds, Live, Dead
          <5> QED BY <1>1, <2>2, <3>1, <3>2, <4>3, <5>1 DEF SizeFails, HolderInv, TypeOK
        <4>4. CASE Close(p)
          <5>1. owns[p][name[p]] # None => Holds(p, name[p])
            BY <4>4 DEF Close, Holds, Live, Dead
          <5> QED BY <1>1, <2>2, <3>1, <3>2, <4>4, <5>1 DEF Close, Release, HolderInv, TypeOK
        <4>5. CASE ~(Create(p) \/ Size(p) \/ SizeFails(p) \/ Close(p))
          BY <1>1, <4>5 DEF Keeps
        <4> QED BY <4>1, <4>2, <4>3, <4>4, <4>5
      <3> QED BY <3>1, <3>2, <3>3 DEF Mine
    <2> QED BY <2>1, <2>2
  <1>4. ASSUME NEW q \in Procs, NEW r \in Procs, NEW n \in Names, Holds(q, n)', Holds(r, n)'
        PROVE  q = r
    <2>1. Create(p) => \A x \in Procs : ~Holds(x, name[p])
      BY <1>1 DEF Create, Holds, HolderInv, NameStaysBound, Live, TypeOK
    <2>2. Holds(q, n) \/ (q = p /\ n = name[p] /\ Create(p))
      BY <1>4, HoldsStep
    <2>3. Holds(r, n) \/ (r = p /\ n = name[p] /\ Create(p))
      BY <1>4, HoldsStep
    <2> QED BY <1>1, <2>1, <2>2, <2>3 DEF HolderInv
  <1> QED BY <1>2, <1>3, <1>4 DEF HolderInv, Mine

LEMMA MappedStep == IInv /\ [Next]_vars => MappedInv'
  <1> SUFFICES ASSUME IInv, [Next]_vars PROVE MappedInv'
    OBVIOUS
  <1> USE DEF IInv, TypeOK, MappedInv, Unready, Leaving, objectVars, procVars, Go, Mine, Names, None, Objects, Opening, Dead
  <1>1. ASSUME NEW p \in Procs, Start(p) PROVE MappedInv'
    BY <1>1 DEF Start
  <1>2. ASSUME NEW p \in Procs, Advertise(p) PROVE MappedInv'
    BY <1>2 DEF Advertise
  <1>3. ASSUME NEW p \in Procs, Subscribe(p) PROVE MappedInv'
    BY <1>3 DEF Subscribe
  <1>4. ASSUME NEW p \in Procs, Exists(p) PROVE MappedInv'
    <2>1. CASE Throw(p)
      <3>1. Throw(p)
        BY <1>4, <2>1 DEF Exists
      <3>2. PICK x \in {"up", "failing"}, n \in Names :
                /\ pc' = [pc EXCEPT ![p] = x] /\ name' = [name EXCEPT ![p] = n]
                /\ x = "up" => name[p] = "topic"
        BY <3>1, ThrowFacts DEF IInv
      <3> QED BY <1>4, <2>1, <3>2 DEF Exists
    <2>2. CASE ~Throw(p)
      <3>1. PICK x \in {"open", "create"} : pc' = [pc EXCEPT ![p] = x] /\ UNCHANGED name
        BY <1>4, <2>2 DEF Exists
      <3> QED BY <1>4, <2>2, <3>1 DEF Exists
    <2> QED BY <2>1, <2>2
  <1>5. ASSUME NEW p \in Procs, Create(p) PROVE MappedInv'
    BY <1>5 DEF Create
  <1>6. ASSUME NEW p \in Procs, CreateFails(p) PROVE MappedInv'
    <2>1. Throw(p)
      BY <1>6 DEF CreateFails
    <2>2. PICK x \in {"up", "failing"}, n \in Names :
              /\ pc' = [pc EXCEPT ![p] = x] /\ name' = [name EXCEPT ![p] = n]
              /\ x = "up" => name[p] = "topic"
      BY <2>1, ThrowFacts DEF IInv
    <2> QED BY <1>6, <2>2 DEF CreateFails
  <1>7. ASSUME NEW p \in Procs, Size(p) PROVE MappedInv'
    <2>1. Mine(p) # None
      BY <1>7 DEF Size, HolderInv
    <2> QED BY <1>7, <2>1 DEF Size
  <1>8. ASSUME NEW p \in Procs, SizeFails(p) PROVE MappedInv'
    <2>1. Throw(p)
      BY <1>8 DEF SizeFails
    <2>2. PICK x \in {"up", "failing"}, n \in Names :
              /\ pc' = [pc EXCEPT ![p] = x] /\ name' = [name EXCEPT ![p] = n]
              /\ x = "up" => name[p] = "topic"
      BY <2>1, ThrowFacts DEF IInv
    <2> QED BY <1>8, <2>2 DEF SizeFails
  <1>9. ASSUME NEW p \in Procs, Open(p) PROVE MappedInv'
    <2>1. CASE link[name[p]] = None
      <3>1. Throw(p)
        BY <1>9, <2>1 DEF Open
      <3>2. PICK x \in {"up", "failing"}, n \in Names :
                /\ pc' = [pc EXCEPT ![p] = x] /\ name' = [name EXCEPT ![p] = n]
                /\ x = "up" => name[p] = "topic"
        BY <3>1, ThrowFacts DEF IInv
      <3> QED BY <1>9, <2>1, <3>2 DEF Open
    <2>2. CASE link[name[p]] # None
      <3> QED BY <1>9, <2>2 DEF Open
    <2> QED BY <2>1, <2>2
  <1>10. ASSUME NEW p \in Procs, Check(p) PROVE MappedInv'
    <2>1. CASE Mine(p) \in sized /\ Mine(p) \in magic
      <3>1. Opened(p)
        BY <1>10, <2>1 DEF Check
      <3>2. PICK x \in {"exists", "read", "up"}, n \in Names :
                /\ pc' = [pc EXCEPT ![p] = x] /\ name' = [name EXCEPT ![p] = n]
                /\ x = "exists" => name[p] = "events" /\ n = "registry"
                /\ x # "exists" => name[p] # "events" /\ n = name[p]
                /\ x = "read" => n = "registry"
        BY <3>1, OpenedFacts DEF IInv
      <3> QED BY <1>10, <2>1, <3>2 DEF Check
    <2>2. CASE ~(Mine(p) \in sized /\ Mine(p) \in magic)
      <3>1. PICK x \in {"sigbus", "init"} :
                /\ pc' = [pc EXCEPT ![p] = x] /\ UNCHANGED name
                /\ x = "init" => Mine(p) \in sized
        BY <1>10, <2>2 DEF Check
      <3> QED BY <1>10, <2>2, <3>1 DEF Check
    <2> QED BY <2>1, <2>2
  <1>11. ASSUME NEW p \in Procs, InitMutex(p) PROVE MappedInv'
    BY <1>11 DEF InitMutex
  <1>12. ASSUME NEW p \in Procs, SetMagic(p) PROVE MappedInv'
    <2>1. CASE name[p] = "events"
      <3> QED BY <1>12, <2>1 DEF SetMagic
    <2>2. CASE name[p] # "events"
      <3>1. Opened(p)
        BY <1>12, <2>2 DEF SetMagic
      <3>2. PICK x \in {"exists", "read", "up"}, n \in Names :
                /\ pc' = [pc EXCEPT ![p] = x] /\ name' = [name EXCEPT ![p] = n]
                /\ x = "exists" => name[p] = "events" /\ n = "registry"
                /\ x # "exists" => name[p] # "events" /\ n = name[p]
                /\ x = "read" => n = "registry"
        BY <3>1, OpenedFacts DEF IInv
      <3> QED BY <1>12, <2>2, <3>2 DEF SetMagic
    <2> QED BY <2>1, <2>2
  <1>13. ASSUME NEW p \in Procs, ResetFlags(p) PROVE MappedInv'
    <2>1. CASE again[p]
      <3>1. pc[p] = "reset" /\ pc' = [pc EXCEPT ![p] = "init"]
            /\ UNCHANGED <<name, map, owns, sized, magic>>
        BY <1>13, <2>1 DEF ResetFlags
      <3> QED BY <3>1
    <2>2. CASE ~again[p]
      <3>1. Opened(p)
        BY <1>13, <2>2 DEF ResetFlags
      <3>2. PICK x \in {"exists", "read", "up"}, n \in Names :
                /\ pc' = [pc EXCEPT ![p] = x] /\ name' = [name EXCEPT ![p] = n]
                /\ x = "exists" => name[p] = "events" /\ n = "registry"
                /\ x # "exists" => name[p] # "events" /\ n = name[p]
                /\ x = "read" => n = "registry"
        BY <3>1, OpenedFacts DEF IInv
      <3> QED BY <1>13, <2>2, <3>2 DEF ResetFlags
    <2> QED BY <2>1, <2>2
  <1>14. ASSUME NEW p \in Procs, NEW n \in Names, Enter(p, n) PROVE MappedInv'
    BY <1>14 DEF Enter
  <1>15. ASSUME NEW p \in Procs, Leave(p) PROVE MappedInv'
    BY <1>15 DEF Leave
  <1>16. ASSUME NEW p \in Procs, Shutdown(p) PROVE MappedInv'
    BY <1>16 DEF Shutdown
  <1>17. ASSUME NEW p \in Procs, Close(p) PROVE MappedInv'
    BY <1>17 DEF Close, Release
  <1>18. ASSUME NEW p \in Procs, Abort(p) PROVE MappedInv'
    BY <1>18 DEF Abort
  <1>19. ASSUME NEW p \in Procs, Kill(p) PROVE MappedInv'
    BY <1>19 DEF Kill
  <1>20. CASE UNCHANGED vars
    BY <1>20 DEF vars
  <1> HIDE DEF IInv, TypeOK, MappedInv
  <1> QED BY <1>1, <1>2, <1>3, <1>4, <1>5, <1>6, <1>7, <1>8, <1>9, <1>10, <1>11,
             <1>12, <1>13, <1>14, <1>15, <1>16, <1>17, <1>18, <1>19, <1>20
          DEF Next, OpenStep

LEMMA LinkStep ==
  ASSUME IInv, NEW p \in Procs, Step(p)
  PROVE  LinkInv'
  <1> SUFFICES ASSUME NEW n \in Names, link'[n] # None
               PROVE  \E q \in Procs : pc'[q] \in {"killed", "sigbus"} \/ Holds(q, n)'
    BY DEF LinkInv
  <1>1. TypeOK /\ Alone(p) /\ Keeps(p)
    BY StepFacts DEF IInv
  <1>2. CASE Create(p) /\ n = name[p]
    <2>1. Holds(p, n)'
      BY <1>1, <1>2 DEF Create, Go, Holds, Live, Dead, TypeOK
    <2> QED BY <2>1
  <1>3. CASE ~(Create(p) /\ n = name[p])
    <2>1. link[n] # None
      <3>1. link' = link \/ (\E x : link' = [link EXCEPT ![name[p]] = x] /\ (Create(p) \/ x = None))
        BY <1>1 DEF Keeps, Create, Size, SizeFails, Close, Release
      <3> QED BY <1>1, <1>3, <3>1 DEF TypeOK
    <2>2. PICK q \in Procs : pc[q] \in {"killed", "sigbus"} \/ Holds(q, n)
      BY <2>1 DEF IInv, LinkInv
    <2>3. CASE q # p
      BY <1>1, <2>2, <2>3 DEF Alone, Holds, Live
    <2>4. CASE q = p
      <3>1. CASE Create(p)
        BY <1>1, <1>3, <2>2, <2>4, <3>1 DEF Create, Go, Holds, Live, Dead, TypeOK
      <3>2. CASE Size(p)
        BY <1>1, <2>2, <2>4, <3>2 DEF Size, Go, Holds, Live, Dead, TypeOK, IInv, HolderInv
      <3>3. CASE SizeFails(p)
        <4>1. n # name[p] /\ owns[p][n] # None
          BY <1>1, <2>2, <2>4, <3>3 DEF SizeFails, Holds, TypeOK
        <4>2. pc'[p] \in {"up", "failing", "exists", "read"} /\ owns' = owns
          BY <1>1, <3>3, AfterOpening DEF SizeFails, Opening
        <4> QED BY <2>4, <4>1, <4>2 DEF Holds, Live, Dead
      <3>4. CASE Close(p)
        <4>1. n # name[p] /\ owns[p][n] # None /\ owns'[p][n] = owns[p][n]
          BY <1>1, <2>2, <2>4, <3>4 DEF Close, Release, Holds, Live, Dead, TypeOK
        <4>2. n \in {"events", "registry"} => name[p] # "topic"
          BY <3>4, <4>1 DEF Close, IInv, CloseInv
        <4>3. name[p] # "topic"
          BY <4>1, <4>2 DEF Names
        <4>4. pc'[p] = "close"
          BY <1>1, <3>4, <4>3 DEF Close, Go, TypeOK
        <4> QED BY <2>4, <4>1, <4>4 DEF Holds, Live, Dead
      <3>5. CASE ~(Create(p) \/ Size(p) \/ SizeFails(p) \/ Close(p))
        BY <1>1, <2>2, <2>4, <3>5 DEF Keeps, Holds, Live, Dead
      <3> QED BY <3>1, <3>2, <3>3, <3>4, <3>5
    <2> QED BY <2>3, <2>4
  <1> QED BY <1>2, <1>3

LEMMA CloseStep ==
  ASSUME IInv, NEW p \in Procs, Step(p)
  PROVE  CloseInv'
  <1> SUFFICES ASSUME NEW q \in Procs
               PROVE  /\ pc'[q] = "failing" => name'[q] = "events"
                      /\ pc'[q] = "close" /\ name'[q] \in {"registry", "topic"} =>
                             owns'[q]["events"] = None
                      /\ pc'[q] = "close" /\ name'[q] = "topic" => owns'[q]["registry"] = None
    BY DEF CloseInv
  <1>1. TypeOK /\ Alone(p) /\ Keeps(p) /\ CloseInv
    BY StepFacts DEF IInv
  <1>2. CASE q # p
    BY <1>1, <1>2 DEF Alone, CloseInv
  <1>3. CASE q = p /\ Close(p)
    <2>1. /\ owns' = [owns EXCEPT ![p][name[p]] = None]
          /\ name' = [name EXCEPT ![p] = IF name[p] = "events" THEN "registry" ELSE "topic"]
          /\ pc[p] \in {"close", "failing"}
          /\ pc[p] = "failing" => name[p] = "events"
      BY <1>1, <1>3 DEF Close, Release, CloseInv
    <2>2. pc'[p] \in {"gone", "close"}
      BY <1>1, <1>3 DEF Close, Go, TypeOK
    <2>3. /\ name'[p] = IF name[p] = "events" THEN "registry" ELSE "topic"
          /\ name[p] \in {"events", "registry", "topic"}
      BY <1>1, <2>1 DEF TypeOK, Names
    <2>4. name'[p] = "registry" => name[p] = "events" /\ owns'[p]["events"] = None
      BY <1>1, <2>1, <2>3 DEF TypeOK, Names
    <2>5. ASSUME name'[p] = "topic" PROVE owns'[p]["events"] = None /\ owns'[p]["registry"] = None
      <3>1. CASE name[p] = "registry"
        BY <1>1, <2>1, <3>1 DEF CloseInv, TypeOK, Names
      <3>2. CASE name[p] = "topic"
        BY <1>1, <2>1, <3>2 DEF CloseInv, TypeOK, Names
      <3> QED BY <2>3, <2>5, <3>1, <3>2
    <2> QED BY <1>3, <2>2, <2>4, <2>5
  <1>4. CASE q = p /\ ~Close(p)
    <2>1. CASE Create(p)
      BY <1>1, <1>4, <2>1 DEF Create, Go, TypeOK
    <2>2. CASE Size(p)
      BY <1>1, <1>4, <2>2 DEF Size, Go, TypeOK
    <2>3. CASE SizeFails(p)
      BY <1>1, <1>4, <2>3, AfterOpening DEF SizeFails, Opening
    <2>4. CASE ~(Create(p) \/ Size(p) \/ SizeFails(p))
      BY <1>1, <1>4, <2>4 DEF Keeps
    <2> QED BY <2>1, <2>2, <2>3, <2>4
  <1> QED BY <1>2, <1>3, <1>4

LEMMA CreatedStep ==
  ASSUME IInv, NEW p \in Procs, Step(p)
  PROVE  CreatedInv'
  <1>1. TypeOK /\ Alone(p) /\ Marks(p) /\ CreatedInv /\ TypeOK'
    BY StepFacts, TypeStep, NextIsStep DEF IInv
  <1>2. created \in Nat /\ created' \in Nat /\ created <= created' /\ None = 0
    BY <1>1 DEF TypeOK, Marks, None
  <1>3. ASSUME NEW n \in Names PROVE link'[n] <= created'
    <2>1. link[n] \in Int /\ link[n] <= created /\ link'[n] \in {link[n], None, created'}
      BY <1>1 DEF Marks, CreatedInv, TypeOK, Objects, None
    <2> QED BY <1>2, <2>1
  <1>4. ASSUME NEW q \in Procs, NEW n \in Names PROVE map'[q][n] <= created'
    <2>1. /\ map[q][n] \in Int /\ map[q][n] <= created
          /\ link[n] \in Int /\ link[n] <= created
      BY <1>1 DEF CreatedInv, TypeOK, Objects, None
    <2>2. map'[q][n] \in {map[q][n], None, created', link[n]}
      BY <1>1 DEF Alone, Marks
    <2> QED BY <1>2, <2>1, <2>2
  <1>5. magic' \subseteq 1 .. created'
    <2>1. SetMagic(p) => Mine(p) \in 1 .. created
      <3>1. SetMagic(p) => Mine(p) # None
        BY DEF SetMagic, IInv, MappedInv
      <3>2. name[p] \in Names /\ Mine(p) \in Objects \cup {None} /\ Mine(p) <= created
        BY <1>1 DEF TypeOK, CreatedInv, Mine
      <3> QED BY <1>1, <1>2, <3>1, <3>2 DEF Objects, TypeOK
    <2>2. 1 .. created \subseteq 1 .. created'
      BY <1>2
    <2> QED BY <1>1, <2>1, <2>2 DEF Marks, CreatedInv
  <1>6. flagged' \subseteq magic'
    <2>1. CASE Leave(p)
      <3>1. Mine(p) # None => Mine(p) \in magic
        BY <1>1, <2>1 DEF Leave, IInv, MappedInv, Unready, Leaving, Dead, Mine, TypeOK
      <3>2. name[p] = "events" => Mine(p) # None
        BY <2>1 DEF Leave, IInv, MappedInv, Mine
      <3> QED BY <1>1, <2>1, <3>1, <3>2 DEF Leave, CreatedInv
    <2>2. CASE ~Leave(p)
      BY <1>1, <2>2 DEF Marks, CreatedInv
    <2> QED BY <2>1, <2>2
  <1> QED BY <1>3, <1>4, <1>5, <1>6 DEF CreatedInv

LEMMA Inductive == IInv /\ [Next]_vars => IInv'
  <1> SUFFICES ASSUME IInv, [Next]_vars PROVE IInv'
    OBVIOUS
  <1>1. CASE Next
    BY <1>1, NextIsStep, TypeStep, BoundStep, HolderStep, MappedStep, LinkStep, CloseStep,
       CreatedStep DEF IInv
  <1>2. CASE UNCHANGED vars
    BY <1>2 DEF vars, IInv, TypeOK, NameStaysBound, HolderInv, Holds, Live, Mine, MappedInv,
                LinkInv, CloseInv, CreatedInv
  <1> QED BY <1>1, <1>2

LEMMA Invariance == Spec => []IInv
  <1> QED BY InitIInv, Inductive, PTL DEF Spec

\* The registers, names and maps of all processes stay in their ranges.
THEOREM TypeCorrect == Spec => []TypeOK
  <1>1. IInv => TypeOK
    BY DEF IInv
  <1> QED BY <1>1, Invariance, PTL

\* As long as the owner of a segment lives its name stays bound to it: the
\* unlink by name in ~SharedMemory never removes a segment of somebody else,
\* however many processes create, open, close and die at the same time.
THEOREM NamesStayBound == Spec => []NameStaysBound
  <1>1. IInv => NameStaysBound
    BY DEF IInv
  <1> QED BY <1>1, Invariance, PTL

\* A process that works has the event flags and the registry, and every
\* segment it has mapped has its size and an initialised mutex.
THEOREM SegmentsAreUsable == Spec => []UsableWhenUp
  <1>1. IInv => UsableWhenUp
    BY DEF IInv, MappedInv, UsableWhenUp, Unready, Leaving, Dead
  <1> QED BY <1>1, Invariance, PTL

\* When every process has ended by itself, its destructors have unlinked what
\* it had created, also where a constructor threw half way or ftruncate
\* failed: no name of a segment is left bound, whatever the order they opened
\* and closed in.
THEOREM NothingIsLeft == Spec => []NothingLeft
  <1>1. IInv => NothingLeft
    <2> SUFFICES ASSUME IInv, \A p \in Procs : pc[p] \in {"off", "gone"},
                        NEW n \in Names, link[n] # None
                 PROVE  FALSE
      BY DEF NothingLeft
    <2>1. PICK p \in Procs : pc[p] \in {"killed", "sigbus"} \/ Holds(p, n)
      BY DEF IInv, LinkInv
    <2> QED BY <2>1 DEF Holds, Live, Dead
  <1> QED BY <1>1, Invariance, PTL

-----------------------------------------------------------------------------
(* Processes that open segments one at a time.                             *)

LEMMA InitSInv == Init => SInv
  BY DEF Init, SInv, OneOpens, SoleInv, BlankInv, LockInv, Opening, Founding

\* Who initialises a segment is alone with it, from shm_open or from the look
\* at the missing magic number on.
LEMMA SoleStep ==
  ASSUME IInv, SInv, Serial, NEW p \in Procs, Step(p)
  PROVE  OneOpens' /\ SoleInv' /\ BlankInv'
  <1>1. /\ TypeOK /\ Alone(p) /\ Leads(p) /\ Marks(p) /\ MappedInv /\ CreatedInv
        /\ OneOpens /\ SoleInv /\ BlankInv
    BY StepFacts DEF IInv, SInv
  <1>2. \A q \in Procs : pc[q] \in Founding => pc[q] \in Opening
    BY DEF Founding, Opening
  <1>3. OneOpens'
    BY <1>1 DEF OneOpens, Alone, Leads, MayOpen
  <1>4. Create(p) => /\ Mine(p)' = created + 1
                     /\ \A q \in Procs \ {p}, n \in Names : map'[q][n] # created + 1
                     /\ created + 1 \notin flagged /\ UNCHANGED flagged
    <2>1. created \in Nat /\ \A q \in Procs, n \in Names : map[q][n] \in Int
      BY <1>1 DEF TypeOK, Objects, None
    <2>2. \A q \in Procs, n \in Names : map[q][n] # created + 1
      BY <1>1, <2>1 DEF CreatedInv
    <2>3. created + 1 \notin flagged
      BY <1>1, <2>1 DEF CreatedInv
    <2>4. Create(p) => Mine(p)' = created + 1
      BY <1>1 DEF Create, Mine, TypeOK
    <2> QED BY <1>1, <2>2, <2>3, <2>4 DEF Alone, Create
  <1>5. ASSUME NEW q \in Procs, pc'[q] \in Founding, ~(q = p /\ Create(p))
        PROVE  /\ Mine(q)' = Mine(q)
               /\ pc[q] \in Founding \/ (q = p /\ pc[q] = "check" /\ Mine(q) \notin magic)
    BY <1>1, <1>5 DEF Alone, Leads, Mine
  <1>6. ASSUME NEW q \in Procs, NEW r \in Procs, NEW n \in Names,
               pc'[q] \in Founding, pc'[r] \in {"up", "use"}
        PROVE  map'[r][n] # Mine(q)'
    <2>1. q # r
      BY <1>6 DEF Founding
    <2>2. CASE q = p /\ Create(p)
      BY <1>4, <2>1, <2>2
    <2>3. CASE ~(q = p /\ Create(p)) /\ r = p
      <3>1. pc[q] \in Founding /\ Mine(q)' = Mine(q)
        BY <1>5, <1>6, <2>1, <2>3
      <3>2. pc[r] \in {"up", "use"} /\ map'[r] = map[r]
        BY <1>1, <1>2, <1>6, <2>1, <2>3, <3>1 DEF Leads, OneOpens
      <3> QED BY <1>1, <3>1, <3>2 DEF SoleInv
    <2>4. CASE ~(q = p /\ Create(p)) /\ r # p
      <3>1. pc[r] \in {"up", "use"} /\ map'[r] = map[r]
        BY <1>1, <1>6, <2>4 DEF Alone
      <3>2. Mine(q)' = Mine(q)
        BY <1>5, <1>6, <2>4
      <3>3. CASE pc[q] \in Founding
        BY <1>1, <3>1, <3>2, <3>3 DEF SoleInv
      <3>4. CASE q = p /\ pc[q] = "check" /\ Mine(q) \notin magic
        <4>1. map[r][n] # None => map[r][n] \in magic
          BY <1>1, <3>1 DEF MappedInv, Unready, Leaving, Dead
        <4>2. Mine(q) # None
          BY <1>1, <3>4 DEF MappedInv
        <4> QED BY <3>1, <3>2, <3>4, <4>1, <4>2
      <3> QED BY <1>5, <1>6, <2>4, <3>3, <3>4
    <2> QED BY <2>2, <2>3, <2>4
  <1>7. ASSUME NEW q \in Procs, pc'[q] \in Founding
        PROVE  Mine(q)' \notin flagged'
    <2>1. CASE q = p /\ Create(p)
      BY <1>4, <2>1
    <2>2. CASE ~(q = p /\ Create(p))
      <3>1. Mine(q)' = Mine(q) /\ Mine(q) \notin flagged
        <4>1. pc[q] \in Founding => Mine(q) \notin flagged
          BY <1>1 DEF BlankInv
        <4> QED BY <1>1, <1>5, <1>7, <2>2, <4>1 DEF CreatedInv
      <3>2. CASE Leave(p)
        <4>1. q # p /\ pc[p] = "use" /\ pc[q] \in Founding
          BY <1>1, <1>5, <1>7, <2>2, <3>2 DEF Leave, Go, Founding, TypeOK
        <4>2. Mine(p) # Mine(q)
          BY <1>1, <4>1 DEF SoleInv, Mine, TypeOK
        <4> QED BY <3>1, <3>2, <4>2 DEF Leave
      <3>3. CASE ~Leave(p)
        BY <1>1, <3>1, <3>3 DEF Marks
      <3> QED BY <3>2, <3>3
    <2> QED BY <2>1, <2>2
  <1>8. SoleInv'
    <2>1. \A q, r \in Procs : pc'[q] \in Founding /\ pc'[r] \in {"up", "use"} =>
              \A n \in Names : map'[r][n] # Mine(q)'
      BY <1>6
    <2> QED BY <2>1 DEF SoleInv
  <1>9. BlankInv'
    BY <1>7 DEF BlankInv
  <1> QED BY <1>3, <1>8, <1>9

\* A mutex that is locked stays so: it is not initialised meanwhile.
LEMMA LockStep ==
  ASSUME IInv, SInv, NEW p \in Procs, Step(p)
  PROVE  LockInv'
  <1> SUFFICES ASSUME NEW q \in Procs, pc'[q] = "use"
               PROVE  Mine(q)' # None /\ locked'[Mine(q)'] = q
    BY DEF LockInv
  <1>1. TypeOK /\ Alone(p) /\ LockInv /\ SoleInv
    BY StepFacts DEF IInv, SInv
  <1>2. CASE \E n \in Names : Enter(p, n)
    <2>1. PICK n \in Names : Enter(p, n)
      BY <1>2
    <2>2. /\ map[p][n] \in Objects /\ name' = [name EXCEPT ![p] = n] /\ map' = map
          /\ locked[map[p][n]] = Nobody /\ locked' = [locked EXCEPT ![map[p][n]] = p]
      BY <1>1, <2>1 DEF Enter, TypeOK, procVars
    <2>3. CASE q = p
      BY <1>1, <2>2, <2>3 DEF Mine, TypeOK, Objects, None
    <2>4. CASE q # p
      <3>1. pc[q] = "use" /\ Mine(q)' = Mine(q)
        BY <1>1, <2>4 DEF Alone, Mine
      <3>2. Mine(q) # None /\ locked[Mine(q)] = q
        BY <1>1, <3>1 DEF LockInv
      <3> QED BY <1>1, <2>2, <3>1, <3>2, LifecycleAssumption DEF TypeOK
    <2> QED BY <2>3, <2>4
  <1>3. CASE ~\E n \in Names : Enter(p, n)
    <2>1. q # p
      BY <1>1, <1>3, AfterOpening
         DEF Step, OpenStep, Start, Advertise, Subscribe, Exists, Create, CreateFails, Size,
             SizeFails, Open, Check, InitMutex, SetMagic, ResetFlags, Leave, Shutdown, Close,
             Abort, Kill, Go, Opening, TypeOK
    <2>2. pc[q] = "use" /\ Mine(q)' = Mine(q)
      BY <1>1, <2>1 DEF Alone, Mine
    <2>3. Mine(q) # None /\ locked[Mine(q)] = q
      BY <1>1, <2>2 DEF LockInv
    <2>4. CASE InitMutex(p)
      <3>1. Mine(q) # Mine(p)
        BY <1>1, <2>2, <2>4 DEF SoleInv, Founding, InitMutex, Mine, TypeOK
      <3> QED BY <1>1, <2>2, <2>3, <2>4, <3>1 DEF InitMutex, TypeOK
    <2>5. CASE Leave(p)
      <3>1. locked[Mine(p)] = p
        BY <1>1, <2>5 DEF Leave, LockInv
      <3> QED BY <1>1, <2>1, <2>2, <2>3, <2>5, <3>1 DEF Leave, TypeOK
    <2>6. CASE ~InitMutex(p) /\ ~Leave(p)
      <3>1. locked' = locked
        BY <1>3, <2>6
           DEF Step, OpenStep, Start, Advertise, Subscribe, Exists, Create, CreateFails, Size,
               SizeFails, Open, Check, SetMagic, ResetFlags, Shutdown, Close, Abort, Kill,
               objectVars
      <3> QED BY <2>2, <2>3, <3>1
    <2> QED BY <2>4, <2>5, <2>6
  <1> QED BY <1>2, <1>3

LEMMA SerialInductive ==
  ASSUME Serial
  PROVE  IInv /\ SInv /\ [Next]_vars => SInv'
  <1> SUFFICES ASSUME IInv, SInv, [Next]_vars PROVE SInv'
    OBVIOUS
  <1>1. CASE Next
    BY <1>1, Serial, NextIsStep, SoleStep, LockStep DEF SInv
  <1>2. CASE UNCHANGED vars
    BY <1>2 DEF vars, SInv, OneOpens, SoleInv, BlankInv, LockInv, Mine
  <1> QED BY <1>1, <1>2

\* Under the assumption of ShmLifecycleSerial.cfg, that processes open their
\* segments one at a time, two processes are never at once between
\* pthread_mutex_lock and pthread_mutex_unlock of one segment, however many
\* are killed on the way: nobody initialises a mutex that another has locked.
\* Without the assumption ShmBase::Open may do just that.
THEOREM MutexesExclude ==
  ASSUME Serial
  PROVE  Spec => []MutualExclusion
  <1>1. SInv => MutualExclusion
    BY DEF SInv, LockInv, MutualExclusion
  <1>2. Init => SInv
    BY InitSInv
  <1>3. IInv /\ SInv /\ [Next]_vars => SInv'
    BY Serial, SerialInductive
  <1> QED BY <1>1, <1>2, <1>3, Invariance, PTL DEF Spec

\* Under the same assumption EventNotificationShm::Open resets the flags of
\* no segment in which an event bit has been set.
THEOREM NoTriggerIsWiped ==
  ASSUME Serial
  PROVE  Spec => NoTriggerWiped
  <1>1. ASSUME IInv, SInv, [Next]_vars PROVE [flagged \subseteq flagged']_vars
    <2>1. ASSUME NEW p \in Procs, Step(p) PROVE flagged \subseteq flagged'
      <3>1. CASE ResetFlags(p)
        <4>1. Mine(p) \notin flagged
          BY <1>1, <3>1 DEF SInv, BlankInv, Founding, ResetFlags
        <4> QED BY <3>1, <4>1 DEF ResetFlags
      <3>2. CASE ~ResetFlags(p)
        BY <2>1, <3>2
           DEF Step, OpenStep, Start, Advertise, Subscribe, Exists, Create, CreateFails, Size,
               SizeFails, Open, Check, InitMutex, SetMagic, Enter, Leave, Shutdown, Close, Abort,
               Kill, objectVars
      <3> QED BY <3>1, <3>2
    <2> QED BY <1>1, <2>1, NextIsStep
  <1>2. Init => SInv
    BY InitSInv
  <1>3. IInv /\ SInv /\ [Next]_vars => SInv'
    BY Serial, SerialInductive
  <1> QED BY <1>1, <1>2, <1>3, Invariance, PTL DEF Spec, NoTriggerWiped

=============================================================================
