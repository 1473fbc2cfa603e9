---------------------------- MODULE NodeRegistry ----------------------------
(***************************************************************************)
(* Which nodes there are.  Every process has its own copy of the table of  *)
(* nodes (nodes_ of its ShmManager), puts itself into the first slot that  *)
(* is free in that copy, and writes the table as a whole, as JSON text, to *)
(* the registry segment; it reads the segment when it starts and when the  *)
(* last event bit tells it to.  One node in each process.                  *)
(*                                                                         *)
(* The text may not fit.  Its area is as large as the table in memory is,  *)
(* NODE_INFO_SIZE: 1416 bytes for MAX_NODE_COUNT entries, one of which     *)
(* takes 110 to 210 characters.  Nobody reads more than that, and a write  *)
(* throws where the segment ends, sizeof(ShmHead) characters later.        *)
(*                                                                         *)
(* nodes_count and alive_node_count always change together and are one     *)
(* variable here.  The segment is that of the process that created it;     *)
(* after that process has removed it no others start (see ShmLifecycle).   *)
(* A new table is zero, no entry alive: it comes from fresh pages.         *)
(***************************************************************************)
EXTENDS Integers, Sequences, FiniteSets

CONSTANTS
    Procs,
    NoName,     \* no process
    MaxNodes,   \* MAX_NODE_COUNT: 16
    Sizes,      \* how many characters the entry of a live node can take
    HeadSize,   \* and the text around the entries
    ReadSize,   \* NODE_INFO_SIZE: what readNodesInfo_ copies
    WriteSize   \* and ShmBase::Write accepts: NODE_INFO_SIZE + sizeof(ShmHead)

ASSUME NodesAssumption ==
    /\ IsFiniteSet(Procs) /\ NoName \notin Procs
    /\ MaxNodes \in Nat \ {0}

ASSUME SizesAssumption ==
    /\ ReadSize \in Nat /\ WriteSize \in Nat /\ HeadSize \in Nat \ {0}
    /\ HeadSize < ReadSize /\ ReadSize <= WriteSize
    /\ Sizes # {} /\ Sizes \subseteq 2 .. WriteSize

-----------------------------------------------------------------------------
(* The table as text.                                                      *)

\* The characters of an entry with its comma, and for the tenth with what the
\* counts get longer; "false" has one more than "true".
Chars(e) == IF e.alive THEN e.size ELSE e.size + 1

\* All characters of entries, as pairs of an index and a place.
Letters(table) ==
    {c \in (DOMAIN table) \X (1 .. WriteSize + 1) : c[2] <= Chars(table[c[1]])}
Length(table) == HeadSize + Cardinality(Letters(table))

\* An area that is fresh from ftruncate.
Blank == [table |-> <<>>, extent |-> 0]

\* What ShmBase::Write leaves: the text, without a terminator, and behind it what
\* was longer before.
Write(text, table) ==
    [table  |-> table,
     extent |-> IF Length(table) > text.extent THEN Length(table) ELSE text.extent]

\* What readNodesInfo_ can take the area for.  It copies ReadSize characters.
\* The rest of a longer text behind a shorter one, and a text that is cut, are
\* refused by JsonValue::deserialize, and the table is taken to be empty.  A text
\* that fills the copy is not terminated: what follows it on the stack decides.
Readings(text) ==
    IF Length(text.table) = ReadSize THEN {text.table, <<>>}
    ELSE IF Length(text.table) < ReadSize /\ Length(text.table) = text.extent THEN {text.table}
    ELSE {<<>>}

-----------------------------------------------------------------------------
Slots == 0 .. MaxNodes - 1
NoSlot == -1
LeastSize == CHOOSE n \in Sizes : \A m \in Sizes : n <= m
Entry == [name : Procs \cup {NoName}, alive : BOOLEAN, size : Sizes]
Empty == [name |-> NoName, alive |-> FALSE, size |-> LeastSize]

VARIABLES
    count,     \* nodes_count of each process
    nodes,     \* its nodes
    slot,      \* its node_id_
    area,      \* the text in the registry segment
    pc,        \* where each process is
    first,     \* the process that created the segment
    news,      \* is the last event bit set?
    clearing,  \* the processes that have read the registry and will clear it
    orderly    \* has everybody kept the rules of Orderly so far? (history)

vars == <<count, nodes, slot, area, pc, first, news, clearing, orderly>>

\* "thrown": an exception has left the constructor of Node or has not been caught,
\* and no destructor is run.  "aborted": killed, or std::terminate in one.
Ended == {"gone", "thrown", "aborted"}
Running(p) == pc[p] = "run"

TypeOK ==
    /\ count \in [Procs -> -1 .. MaxNodes]
    /\ \A p \in Procs : count[p] = -1 => pc[p] = "aborted"
    /\ nodes \in [Procs -> [Slots -> Entry]]
    /\ slot \in [Procs -> Slots \cup {NoSlot}]
    /\ area.table \in Seq(Entry) /\ area.extent \in Nat
    /\ pc \in [Procs -> {"off", "register", "run"} \cup Ended]
    /\ first \in Procs \cup {NoName}
    /\ news \in BOOLEAN
    /\ clearing \subseteq Procs
    /\ orderly \in BOOLEAN

Init ==
    /\ count = [p \in Procs |-> 0]
    /\ nodes = [p \in Procs |-> [i \in Slots |-> Empty]]
    /\ slot = [p \in Procs |-> NoSlot]
    /\ area = Blank
    /\ pc = [p \in Procs |-> "off"]
    /\ first = NoName
    /\ news = FALSE
    /\ clearing = {}
    /\ orderly = TRUE

-----------------------------------------------------------------------------
\* The table of a process, as writeNodesInfo_ prints it.
Copy(p) == [i \in 1 .. count[p] |-> nodes[p][i - 1]]

\* readNodesInfo_: entries behind those that are read stay as they are.
Reload(p) ==
    \E t \in Readings(area) :
        /\ count' = [count EXCEPT ![p] = Len(t)]
        /\ nodes' = [nodes EXCEPT ![p] = [i \in Slots |-> IF i < Len(t) THEN t[i + 1] ELSE @[i]]]

\* writeNodesInfo_, of the table as it is after the step, and where the process is
\* then.  ShmBase::Write throws before it has written anything.
Rewrite(p, written, thrown) ==
    IF Length(Copy(p)') <= WriteSize
    THEN area' = Write(area, Copy(p)') /\ pc' = [pc EXCEPT ![p] = written]
    ELSE area' = area /\ \E place \in thrown : pc' = [pc EXCEPT ![p] = place]

\* MUTANT of Free: is_alive is not tested.
Free_All(p) == Slots

\* The slots that getNextNodeId finds free.
Free(p) == {i \in Slots : ~nodes[p][i].alive}

\* The constructor of ShmManager: initializeRegistry_, if the segment exists.
Start(p) ==
    /\ pc[p] = "off" /\ (first # NoName => pc[first] # "gone")
    /\ first' = IF first = NoName THEN p ELSE first
    /\ Reload(p)
    /\ pc' = [pc EXCEPT ![p] = "register"]
    /\ UNCHANGED <<slot, area, news, clearing>>

\* MUTANT of Refused: an off-by-one in the test of the count.
Refused_OffByOne(p) == count[p] >= MaxNodes - 1 \/ Free(p) = {}

\* The two tests of registerNode: getAliveNodeCount and getNextNodeId.
Refused(p) == count[p] >= MaxNodes \/ Free(p) = {}

\* getNextNodeId.
NextSlot(p) == CHOOSE i \in Free(p) : \A j \in Free(p) : i <= j

\* MUTANT of Added: the count is not raised.
Added_NoCount(p, n) ==
    /\ nodes' = [nodes EXCEPT ![p][NextSlot(p)] = [name |-> p, alive |-> TRUE, size |-> n]]
    /\ UNCHANGED count

\* addNode, before it writes the table.
Added(p, n) ==
    /\ nodes' = [nodes EXCEPT ![p][NextSlot(p)] = [name |-> p, alive |-> TRUE, size |-> n]]
    /\ count' = [count EXCEPT ![p] = @ + 1]

\* Node::registerNode.  Without a free slot the node goes on with no id.  How long
\* the entry is depends on the name, the pid, and what the counts of topics, which
\* are not initialised, happen to be.
Register(p) ==
    /\ pc[p] = "register"
    /\ IF Refused(p)
       THEN pc' = [pc EXCEPT ![p] = "run"] /\ UNCHANGED <<count, nodes, slot, area>>
       ELSE /\ slot' = [slot EXCEPT ![p] = NextSlot(p)]
            /\ \E n \in Sizes : Added(p, n)
            /\ Rewrite(p, "run", {"thrown"})
    /\ UNCHANGED <<first, news, clearing>>

\* A topic is published or subscribed to for the first time: addPubTopic and
\* addSubTopic count it in the node's entry and write the table.  What the count
\* gets longer is less than ShmHead.  The program may catch the exception.
Recount(p) ==
    /\ Running(p) /\ slot[p] # NoSlot
    /\ \E n \in Sizes :
          /\ ReadSize + n <= WriteSize + nodes[p][slot[p]].size
          /\ nodes' = [nodes EXCEPT ![p][slot[p]].size = n]
    /\ UNCHANGED count
    /\ Rewrite(p, "run", {"run", "thrown"})
    /\ UNCHANGED <<slot, first, news, clearing>>

\* syncRegistryFromShm, of a spinLoop that has seen the bit.
Sync(p) ==
    /\ Running(p) /\ news /\ p \notin clearing
    /\ Reload(p)
    /\ clearing' = clearing \cup {p}
    /\ UNCHANGED <<slot, area, pc, first, news>>

\* And the clearTriggerEvent after it.
ClearNews(p) ==
    /\ Running(p) /\ p \in clearing
    /\ news' = FALSE
    /\ clearing' = clearing \ {p}
    /\ UNCHANGED <<count, nodes, slot, area, pc, first>>

\* removeNode, in the destructor of Node, where an exception is std::terminate.
Remove(p) ==
    /\ Running(p) /\ slot[p] # NoSlot /\ count[p] > 0
    /\ nodes' = [nodes EXCEPT ![p][slot[p]].alive = FALSE]
    /\ count' = [count EXCEPT ![p] = @ - 1]
    /\ Rewrite(p, "gone", {"aborted"})
    /\ news' = (news \/ pc'[p] = "gone")
    /\ clearing' = clearing \ {p}
    /\ UNCHANGED <<slot, first>>

\* An array of -1 nodes: std::length_error.
RemoveFails(p) ==
    /\ Running(p) /\ slot[p] # NoSlot /\ count[p] = 0
    /\ nodes' = [nodes EXCEPT ![p][slot[p]].alive = FALSE]
    /\ count' = [count EXCEPT ![p] = -1]
    /\ pc' = [pc EXCEPT ![p] = "aborted"]
    /\ clearing' = clearing \ {p}
    /\ UNCHANGED <<slot, area, first, news>>

\* A node that has no slot writes to nodes[-1], in front of the object: it is
\* killed, or some other memory changes.
OutOfBounds(p) ==
    /\ Running(p) /\ slot[p] = NoSlot
    /\ UNCHANGED <<nodes, slot, first>>
    /\ \/ /\ pc' = [pc EXCEPT ![p] = "aborted"]
          /\ clearing' = clearing \ {p}
          /\ UNCHANGED <<count, area, news>>
       \/ /\ UNCHANGED <<count, news, clearing>>          \* another topic
          /\ Rewrite(p, "run", {"run", "thrown"})
       \/ /\ count[p] > 0                                 \* the destructor
          /\ count' = [count EXCEPT ![p] = @ - 1]
          /\ Rewrite(p, "gone", {"aborted"})
          /\ news' = (news \/ pc'[p] = "gone")
          /\ clearing' = clearing \ {p}

Move(p) ==
    \/ Start(p) \/ Register(p) \/ Recount(p) \/ Sync(p) \/ ClearNews(p)
    \/ Remove(p) \/ RemoveFails(p) \/ OutOfBounds(p)

\* A process that writes the table had it as it was in the segment, its own entry
\* does not get shorter, and no node that runs leaves.
Orderly(p) ==
    /\ area' # area =>
          /\ Readings(area) = {Copy(p)}
          /\ slot[p] # NoSlot => nodes'[p][slot[p]].size >= nodes[p][slot[p]].size
    /\ Running(p) => pc'[p] = "run"

Next == \E p \in Procs : Move(p) /\ orderly' = (orderly /\ Orderly(p))

Spec == Init /\ [][Next]_vars

\* No process is special: the runs take one state for all that differ in names.
OneToOne == {f \in [Procs -> Procs] : \A p, q \in Procs : f[p] = f[q] => p = q}
Renamings == {[p \in Procs |-> f[p]] : f \in OneToOne}

-----------------------------------------------------------------------------
\* No text so far was too long to be copied by its readers.
Fits == area.extent < ReadSize

\* A node that starts gets an id nobody has.  (shm_manager.h: getNextNodeId
\* returns the next free id.)
NextIdIsFree ==
    orderly => \A p, q \in Procs :
        p # q /\ Running(p) /\ Running(q) /\ slot[p] = slot[q] => slot[p] = NoSlot

\* As long as all is orderly and the text fits, no two nodes have the same id,
\* which is the index of their entry.
SlotsUnique == Fits => NextIdIsFree

\* As long as all is orderly and the text fits, a node that starts finds every node
\* that runs.  (README: nodes are discovered and registered automatically.)
ListedIn(t, p) == \E i \in DOMAIN t : t[i].name = p /\ t[i].alive
RunningNodesListed ==
    orderly /\ Fits => \A p \in Procs, t \in Readings(area) :
        Running(p) /\ slot[p] # NoSlot => ListedIn(t, p)

\* As long as all is orderly and the text fits, only a full registry refuses a node
\* (the test of the count and the search for a slot agree), and only a text that
\* may not hold one more entry makes its constructor throw.
RefusedOnlyWhenFull ==
    orderly /\ Fits => \A p \in Procs :
        /\ Running(p) /\ slot[p] = NoSlot => Cardinality({q \in Procs \ {p} : Running(q)}) >= MaxNodes
        /\ pc[p] = "thrown" => \E n \in Sizes : Length(area.table) + n > WriteSize

\* As long as the text fits, the entry of a node that leaves is never read as a dead
\* one by anybody: the table that removeNode writes is shorter than one before it,
\* and unreadable.
DeadNeverRead ==
    Fits => \A t \in Readings(area) : \A i \in DOMAIN t : t[i].alive

\* The destructor of a node that has an id completes, and so does the cleaning
\* up of the shared memory.  (node.cpp says it does.)
DestructorCompletes == \A p \in Procs : pc[p] = "aborted" => slot[p] = NoSlot

=============================================================================
