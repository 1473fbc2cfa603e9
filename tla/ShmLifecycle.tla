---------------------------- MODULE ShmLifecycle ----------------------------
(***************************************************************************)
(* How processes come by the named shared memory segments, and what they   *)
(* leave behind: SharedMemory (a segment known by its name), ShmBase and   *)
(* EventNotificationShm (a header that is initialised in place), the       *)
(* constructor and destructor of ShmManager, and the first publish and the *)
(* subscribe of a topic.                                                   *)
(*                                                                         *)
(* Every ShmManager has the segment of the event flags, "events", and that *)
(* of the registry, "registry"; "topic" is the segment of one topic.  A    *)
(* name is bound to an object; objects outlive their names while they are  *)
(* mapped.  One action per step that another process can observe.          *)
(***************************************************************************)
EXTENDS Integers

CONSTANTS
    Procs,        \* the runs of programs, one ShmManager each
    Publishers,   \* those that publish on the topic; the others subscribe
    MaxObjects,   \* bound: segments ever created
    MaxKills,     \* bound: processes that are killed
    Serial,       \* do processes open segments one at a time?
    Nobody        \* no process

ASSUME LifecycleAssumption ==
    /\ Publishers \subseteq Procs
    /\ MaxObjects \in Nat
    /\ MaxKills \in Nat
    /\ Serial \in BOOLEAN
    /\ Nobody \notin Procs

Names == {"events", "registry", "topic"}
None == 0
Objects == 1 .. MaxObjects

VARIABLES
    link,      \* the object each name is bound to, or None
    created,   \* the number of objects created so far
    sized,     \* the objects that ftruncate has given their size
    magic,     \* the objects whose header carries the magic number
    locked,    \* who has locked the mutex in each object's header
    flagged,   \* the objects in which an event bit is set
    pc,        \* where each process is
    name,      \* the segment it is busy with
    map,       \* what each process has mapped under each name
    owns,      \* what it has created under each name (is_owner_)
    again,     \* is it in the first of Create's two initialisations?
    tried,     \* has it used up its Publisher?
    kills      \* processes killed

vars == <<link, created, sized, magic, locked, flagged, pc, name, map, owns,
          again, tried, kills>>
objectVars == <<created, sized, magic, locked, flagged>>
procVars == <<map, owns, again, tried, kills>>

\* The places in the opening of a segment, and those of a dead process.
Opening == {"exists", "create", "size", "open", "check", "init", "magic", "reset", "read"}
Dead == {"gone", "killed", "sigbus"}

TypeOK ==
    /\ link \in [Names -> Objects \cup {None}]
    /\ created \in 0 .. MaxObjects
    /\ sized \subseteq Objects /\ magic \subseteq Objects /\ flagged \subseteq Objects
    /\ locked \in [Objects -> Procs \cup {Nobody}]
    /\ pc \in [Procs -> Opening \cup Dead \cup {"off", "up", "use", "close", "failing"}]
    /\ name \in [Procs -> Names]
    /\ map \in [Procs -> [Names -> Objects \cup {None}]]
    /\ owns \in [Procs -> [Names -> Objects \cup {None}]]
    /\ again \in [Procs -> BOOLEAN]
    /\ tried \subseteq Procs
    /\ kills \in 0 .. MaxKills

Init ==
    /\ link = [n \in Names |-> None]
    /\ created = 0
    /\ sized = {} /\ magic = {} /\ flagged = {}
    /\ locked = [o \in Objects |-> Nobody]
    /\ pc = [p \in Procs |-> "off"]
    /\ name = [p \in Procs |-> "events"]
    /\ map = [p \in Procs |-> [n \in Names |-> None]]
    /\ owns = [p \in Procs |-> [n \in Names |-> None]]
    /\ again = [p \in Procs |-> FALSE]
    /\ tried = {}
    /\ kills = 0

\* The object that process p is busy with.
Mine(p) == map[p][name[p]]

Go(p, place) == pc' = [pc EXCEPT ![p] = place]

\* p has its segment: on to the next one, or to work.
Opened(p) ==
    CASE name[p] = "events"   -> Go(p, "exists") /\ name' = [name EXCEPT ![p] = "registry"]
      [] name[p] = "registry" -> /\ Go(p, IF owns[p]["registry"] = None THEN "read" ELSE "up")
                                 /\ UNCHANGED name
      [] OTHER                -> Go(p, "up") /\ UNCHANGED name

\* An exception: out of the constructor of ShmManager, or to the caller of
\* publish or createSubscriber.
Throw(p) ==
    IF name[p] = "topic"
    THEN Go(p, "up") /\ UNCHANGED name
    ELSE Go(p, "failing") /\ name' = [name EXCEPT ![p] = "events"]

MayOpen == Serial => \A q \in Procs : pc[q] \notin Opening

-----------------------------------------------------------------------------
(* Opening.                                                                *)

\* A program constructs its Node, and that its ShmManager.
Start(p) ==
    /\ pc[p] = "off" /\ MayOpen
    /\ Go(p, "exists")
    /\ name' = [name EXCEPT ![p] = "events"]
    /\ UNCHANGED <<link, objectVars, procVars>>

\* The first publish creates the topic's segment without asking.
Advertise(p) ==
    /\ pc[p] = "up" /\ p \in Publishers \ tried /\ MayOpen
    /\ Go(p, "create")
    /\ name' = [name EXCEPT ![p] = "topic"]
    /\ tried' = tried \cup {p}
    /\ UNCHANGED <<link, objectVars, map, owns, again, kills>>

Subscribe(p) ==
    /\ pc[p] = "up" /\ p \notin Publishers /\ map[p]["topic"] = None /\ MayOpen
    /\ Go(p, "exists")
    /\ name' = [name EXCEPT ![p] = "topic"]
    /\ UNCHANGED <<link, objectVars, procVars>>

\* SharedMemory::Exists.  A subscription takes its size from the segment, and
\* cannot map one that has none yet.
Exists(p) ==
    /\ pc[p] = "exists"
    /\ IF name[p] = "topic"
       THEN IF link["topic"] \in sized THEN Go(p, "open") /\ UNCHANGED name ELSE Throw(p)
       ELSE Go(p, IF link[name[p]] # None THEN "open" ELSE "create") /\ UNCHANGED name
    /\ UNCHANGED <<link, objectVars, procVars>>

\* shm_open with O_CREAT and O_EXCL.
Create(p) ==
    /\ pc[p] = "create"
    /\ link[name[p]] = None /\ created < MaxObjects
    /\ created' = created + 1
    /\ link' = [link EXCEPT ![name[p]] = created']
    /\ map' = [map EXCEPT ![p][name[p]] = created']
    /\ Go(p, "size")
    /\ UNCHANGED <<sized, magic, locked, flagged, name, owns, again, tried, kills>>

CreateFails(p) ==
    /\ pc[p] = "create"
    /\ link[name[p]] # None
    /\ Throw(p)
    /\ UNCHANGED <<link, objectVars, procVars>>

\* ftruncate, mmap; from here on the process is the owner.
Size(p) ==
    /\ pc[p] = "size"
    /\ sized' = sized \cup {Mine(p)}
    /\ owns' = [owns EXCEPT ![p][name[p]] = Mine(p)]
    /\ again' = [again EXCEPT ![p] = name[p] = "events"]
    /\ Go(p, "init")
    /\ UNCHANGED <<link, created, magic, locked, flagged, name, map, tried, kills>>

\* ftruncate or mmap fails: the segment is closed, its name removed, and the
\* caller throws.
SizeFails(p) ==
    /\ pc[p] = "size"
    /\ link' = [link EXCEPT ![name[p]] = None]
    /\ map' = [map EXCEPT ![p][name[p]] = None]
    /\ Throw(p)
    /\ UNCHANGED <<objectVars, owns, again, tried, kills>>

\* MUTANT of Open: whoever opens a segment counts as its owner.
Open_Owns(p) ==
    /\ pc[p] = "open"
    /\ IF link[name[p]] = None
       THEN Throw(p) /\ UNCHANGED <<map, owns>>
       ELSE /\ map' = [map EXCEPT ![p][name[p]] = link[name[p]]]
            /\ owns' = [owns EXCEPT ![p][name[p]] = link[name[p]]]
            /\ Go(p, "check") /\ UNCHANGED name
    /\ UNCHANGED <<link, objectVars, again, tried, kills>>

\* SharedMemory::Open of an existing segment.
Open(p) ==
    /\ pc[p] = "open"
    /\ IF link[name[p]] = None
       THEN Throw(p) /\ UNCHANGED map
       ELSE /\ map' = [map EXCEPT ![p][name[p]] = link[name[p]]]
            /\ Go(p, "check") /\ UNCHANGED name
    /\ UNCHANGED <<link, objectVars, owns, again, tried, kills>>

\* MUTANT of Check: no look at the magic number.
Check_NoMagic(p) ==
    /\ pc[p] = "check"
    /\ \/ Mine(p) \notin sized /\ Go(p, "sigbus") /\ UNCHANGED name
       \/ Mine(p) \in sized /\ Opened(p)
    /\ UNCHANGED <<link, objectVars, procVars>>

\* MUTANT of Check: the header is initialised on every opening.
Check_Init(p) ==
    /\ pc[p] = "check"
    /\ \/ Mine(p) \notin sized /\ Go(p, "sigbus")
       \/ Mine(p) \in sized /\ Go(p, "init")
    /\ UNCHANGED <<link, objectVars, name, procVars>>

\* Is the magic number there?  A segment that still has no size cannot be read
\* at all: the process dies of SIGBUS.
Check(p) ==
    /\ pc[p] = "check"
    /\ \/ Mine(p) \notin sized /\ Go(p, "sigbus") /\ UNCHANGED name
       \/ Mine(p) \in sized \ magic /\ Go(p, "init") /\ UNCHANGED name
       \/ Mine(p) \in sized \cap magic /\ Opened(p)
    /\ UNCHANGED <<link, objectVars, procVars>>

\* pthread_mutex_init and pthread_cond_init, whatever is there.
InitMutex(p) ==
    /\ pc[p] = "init"
    /\ locked' = [locked EXCEPT ![Mine(p)] = Nobody]
    /\ Go(p, "magic")
    /\ UNCHANGED <<link, created, sized, magic, flagged, name, procVars>>

\* The magic number, which for the event flags comes before their reset.
SetMagic(p) ==
    /\ pc[p] = "magic"
    /\ magic' = magic \cup {Mine(p)}
    /\ IF name[p] = "events" THEN Go(p, "reset") /\ UNCHANGED name ELSE Opened(p)
    /\ UNCHANGED <<link, created, sized, locked, flagged, procVars>>

\* event_flag_.reset().  EventNotificationShm::Create calls Open, which has
\* initialised everything, and then initialises everything again.
ResetFlags(p) ==
    /\ pc[p] = "reset"
    /\ flagged' = flagged \ {Mine(p)}
    /\ IF again[p] THEN Go(p, "init") /\ UNCHANGED name ELSE Opened(p)
    /\ again' = [again EXCEPT ![p] = FALSE]
    /\ UNCHANGED <<link, created, sized, magic, locked, map, owns, tried, kills>>

OpenStep(p) == \/ Exists(p) \/ Create(p) \/ CreateFails(p) \/ Size(p) \/ SizeFails(p)
               \/ Open(p) \/ Check(p) \/ InitMutex(p) \/ SetMagic(p) \/ ResetFlags(p)

-----------------------------------------------------------------------------
(* Working.                                                                *)

\* MUTANT of Enter: the mutex is not taken.
Enter_Free(p, n) ==
    /\ pc[p] = "up" \/ (pc[p] = "read" /\ n = "registry")
    /\ map[p][n] # None
    /\ locked' = [locked EXCEPT ![map[p][n]] = p]
    /\ name' = [name EXCEPT ![p] = n]
    /\ Go(p, "use")
    /\ UNCHANGED <<link, created, sized, magic, flagged, procVars>>

\* pthread_mutex_lock: to use a segment, or (initializeRegistry_) to read the
\* registry that was found.
Enter(p, n) ==
    /\ pc[p] = "up" \/ (pc[p] = "read" /\ n = "registry")
    /\ map[p][n] # None
    /\ locked[map[p][n]] = Nobody
    /\ locked' = [locked EXCEPT ![map[p][n]] = p]
    /\ name' = [name EXCEPT ![p] = n]
    /\ Go(p, "use")
    /\ UNCHANGED <<link, created, sized, magic, flagged, procVars>>

\* MUTANT of Leave: an early return without pthread_mutex_unlock.
Leave_Locked(p) ==
    /\ pc[p] = "use"
    /\ Go(p, "up")
    /\ UNCHANGED <<link, objectVars, name, procVars>>

\* The use, which for the event flags sets a bit, and pthread_mutex_unlock.
Leave(p) ==
    /\ pc[p] = "use"
    /\ locked' = [locked EXCEPT ![Mine(p)] = Nobody]
    /\ flagged' = IF name[p] = "events" THEN flagged \cup {Mine(p)} ELSE flagged
    /\ Go(p, "up")
    /\ UNCHANGED <<link, created, sized, magic, name, procVars>>

-----------------------------------------------------------------------------
(* Leaving.                                                                *)

\* The destructor of ShmManager, and after it those of the publishers, begin.
Shutdown(p) ==
    /\ pc[p] = "up"
    /\ Go(p, "close")
    /\ name' = [name EXCEPT ![p] = "events"]
    /\ UNCHANGED <<link, objectVars, procVars>>

\* MUTANT of Release: the segment is closed but its name stays.
Release_Keeps(p, n) ==
    /\ map' = [map EXCEPT ![p][n] = None]
    /\ owns' = [owns EXCEPT ![p][n] = None]
    /\ UNCHANGED link

\* ~SharedMemory: munmap, and shm_unlink of the name if the process is owner.
Release(p, n) ==
    /\ map' = [map EXCEPT ![p][n] = None]
    /\ owns' = [owns EXCEPT ![p][n] = None]
    /\ link' = IF owns[p][n] = None THEN link ELSE [link EXCEPT ![n] = None]

\* One segment after the other; after an exception in the constructor, those
\* that had been opened.
Close(p) ==
    /\ pc[p] \in {"close", "failing"}
    /\ Release(p, name[p])
    /\ Go(p, IF name[p] = "topic" THEN "gone" ELSE "close")
    /\ name' = [name EXCEPT ![p] = IF @ = "events" THEN "registry" ELSE "topic"]
    /\ UNCHANGED <<objectVars, again, tried, kills>>

\* Nobody catches the exception, and std::terminate runs no destructor.
Abort(p) ==
    /\ pc[p] = "failing"
    /\ Go(p, "killed")
    /\ UNCHANGED <<link, objectVars, name, procVars>>

\* A crash or kill -9 anywhere: no destructor runs, no mutex is unlocked.
Kill(p) ==
    /\ pc[p] \notin Dead \cup {"off"}
    /\ kills < MaxKills
    /\ kills' = kills + 1
    /\ Go(p, "killed")
    /\ UNCHANGED <<link, objectVars, name, map, owns, again, tried>>

-----------------------------------------------------------------------------
Next == \E p \in Procs :
    \/ Start(p) \/ Advertise(p) \/ Subscribe(p) \/ OpenStep(p)
    \/ (\E n \in Names : Enter(p, n)) \/ Leave(p)
    \/ Shutdown(p) \/ Close(p) \/ Abort(p) \/ Kill(p)

Spec == Init /\ [][Next]_vars

\* Processes are scheduled, and a mutex does not starve them.  Nobody has to
\* start, advertise, subscribe, take a mutex or leave.
Fairness == \A p \in Procs :
    /\ WF_vars(OpenStep(p)) /\ WF_vars(Leave(p)) /\ WF_vars(Close(p) \/ Abort(p))
    /\ SF_vars(pc[p] = "read" /\ Enter(p, "registry"))

FairSpec == Spec /\ Fairness

-----------------------------------------------------------------------------
Live(p) == pc[p] \notin Dead \cup {"off"}

\* A name stays bound to the segment its owner created for as long as the
\* owner lives: nobody else removes it or puts another in its place, so that
\* the unlink by name in the owner's destructor never removes a stranger's.
NameStaysBound ==
    \A p \in Procs, n \in Names :
        Live(p) /\ owns[p][n] # None => link[n] = owns[p][n]

\* A process works only with segments that have their size and whose mutex
\* has been initialised, by itself or by another.
UsableWhenUp ==
    \A p \in Procs : pc[p] \in {"up", "use"} =>
        /\ map[p]["events"] # None /\ map[p]["registry"] # None
        /\ \A n \in Names : map[p][n] # None => map[p][n] \in sized \cap magic

\* Two processes are never inside the critical section of one segment.
MutualExclusion ==
    \A p, q \in Procs :
        p # q /\ pc[p] = "use" /\ pc[q] = "use" => Mine(p) # Mine(q)

\* Opening a segment wipes out no event that another process has triggered in
\* it.  (Clearing events is no part of this module.)
NoTriggerWiped == [][flagged \subseteq flagged']_vars

\* When every process has ended by itself no segment is left behind.
NothingLeft ==
    (\A p \in Procs : pc[p] \in {"off", "gone"}) => \A n \in Names : link[n] = None

\* The opening of a segment comes to an end, one way or the other, unless a
\* process was killed: it may have held the registry's mutex, for good.
OpeningEnds == \A p \in Procs : pc[p] \in Opening ~> pc[p] \notin Opening \/ kills > 0

\* The mutex of a segment that has been initialised is not initialised again.
\* (shm_base.cpp: this should not happen, the flag has been checked.)
NoReinit ==
    [][\A p \in Procs :
          pc[p] = "init" /\ pc'[p] = "magic" /\ name[p] # "events" => Mine(p) \notin magic]_vars

\* Opening a segment whose creator crashed does not kill the process.
\* (shm_base.h: it will be initialised again.)
SurvivesCrash == \A p \in Procs : pc[p] # "sigbus"

=============================================================================
