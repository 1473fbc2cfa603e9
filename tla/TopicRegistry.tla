--------------------------- MODULE TopicRegistry ---------------------------
(***************************************************************************)
(* Which event id a topic has.  Every process has its own copy of the      *)
(* table of topics (topics_ of its ShmManager, guarded by registry_mutex_) *)
(* in which it looks topics up and allocates ids, and which it writes to   *)
(* the registry segment as a whole.  It reads the segment when it starts   *)
(* and when the last event bit tells it to (Node::spinLoop).               *)
(*                                                                         *)
(* A name is a topic with its event.  Threads of a process publish, and    *)
(* one at a time creates subscriptions (node_mutex_).  What is done under  *)
(* registry_mutex_ is one action.  A new array of topics is zero: it comes *)
(* from fresh pages.                                                       *)
(***************************************************************************)
EXTENDS Integers, Sequences, FiniteSets

CONSTANTS
    Procs,
    PerProc,       \* the number of threads in each
    Names,         \* topics
    NoName,        \* an entry nobody has written, and no topic
    MaxTopics,     \* MAX_TOPICS_PER_NODE, which is EVENT_MAX_COUNT: 1024
    MaxDepartures  \* bound: nodes that leave and say so

ASSUME RegistryAssumption ==
    /\ NoName \notin Names
    /\ IsFiniteSet(Procs) /\ IsFiniteSet(Names)
    /\ PerProc \in [Procs -> Nat] /\ MaxTopics \in Nat \ {0} /\ MaxDepartures \in Nat

ThreadsOf(p) == {p} \X (1 .. PerProc[p])
Threads == UNION {ThreadsOf(p) : p \in Procs}
NoId == -1
Reserved == MaxTopics - 1     \* the bit for changes of the registry

\* The ids that can be allocated, and the indexes of entries.  The array has
\* MaxTopics of them; what lies behind it is not used by anybody else.
Ids == 0 .. MaxTopics
Index == 0 .. MaxTopics + Cardinality(Threads) * Cardinality(Names)
Entry == [name : Names \cup {NoName}, id : Ids \cup {NoId}]
Empty == [name |-> NoName, id |-> 0]

-----------------------------------------------------------------------------
(* The table as text, in its area of the registry segment.  Its characters *)
(* are written without a terminator, so that a text shorter than one       *)
(* before it is followed by the rest of that one; JsonValue::deserialize   *)
(* refuses characters after the value, and the reader takes the table to   *)
(* be empty.                                                               *)
(*                                                                         *)
(* An entry with a name is twice as long as one without: the lengths of    *)
(* the names and numbers themselves are left out.  So is the end of the    *)
(* area, 69636 bytes: a table of MaxTopics entries in which every second   *)
(* one is empty, as publishers make it, has at most about 60000 characters.*)

Length(table) == 1 + Len(table) + Cardinality({i \in DOMAIN table : table[i].name # NoName})

\* An area that is fresh from ftruncate.
Blank == [table |-> <<>>, extent |-> 0]

\* writeTopicsInfo_, and the ShmBase::Write in it.
Write(text, table) ==
    [table  |-> table,
     extent |-> IF Length(table) > text.extent THEN Length(table) ELSE text.extent]

\* readTopicsInfo_, up to what it does with the table.
Read(text) == IF text.extent = Length(text.table) THEN text.table ELSE <<>>

-----------------------------------------------------------------------------
VARIABLES
    count,     \* topics_count of each process
    topics,    \* its topics
    area,      \* the text in the registry segment
    creator,   \* the process that created the segment of each topic, or NoName
    pc,        \* where each thread is
    name,      \* the topic it is busy with
    subs,      \* subscription_event_ids_ of each process, with the topics
    news,      \* is the bit Reserved set?
    clearing,  \* the processes that have read the registry and will clear it
    departed   \* nodes that have left

vars == <<count, topics, area, creator, pc, name, subs, news, clearing, departed>>
tableVars == <<count, topics>>
newsVars == <<news, clearing, departed>>

TypeOK ==
    /\ count \in [Procs -> Index]
    /\ topics \in [Procs -> [Index -> Entry]]
    /\ area.table \in Seq(Entry) /\ area.extent \in Nat
    /\ creator \in [Names -> Procs \cup {NoName}]
    /\ pc \in [Threads -> {"off", "idle", "look", "add", "trigger", "addsub", "register"}]
    /\ name \in [Threads -> Names \cup {NoName}]
    /\ subs \in [Procs -> SUBSET (Names \X (Ids \cup {NoId}))]
    /\ news \in BOOLEAN /\ clearing \subseteq Procs
    /\ departed \in 0 .. MaxDepartures

Init ==
    /\ count = [p \in Procs |-> 0]
    /\ topics = [p \in Procs |-> [i \in Index |-> Empty]]
    /\ area = Blank
    /\ creator = [t \in Names |-> NoName]
    /\ pc = [th \in Threads |-> "off"]
    /\ name = [th \in Threads |-> NoName]
    /\ subs = [p \in Procs |-> {}]
    /\ news = FALSE /\ clearing = {} /\ departed = 0

-----------------------------------------------------------------------------
(* The table of a process.                                                 *)

\* The entries a search covers, and those that carry the name t.
At(p, t) == {i \in 0 .. count[p] - 1 : topics[p][i].name = t}
Known(p, t) == At(p, t) # {}

\* getTopicEventId_.
Lookup(p, t) ==
    IF Known(p, t)
    THEN topics[p][CHOOSE i \in At(p, t) : \A j \in At(p, t) : i <= j].id
    ELSE NoId

\* writeTopicsInfo_, of the table as it is after the step.
Rewrite(p) == area' = Write(area, [i \in 1 .. count'[p] |-> topics'[p][i - 1]])

\* MUTANT of Reload: the names are restored, the ids are not.
Reload_NoIds(p) ==
    LET t == Read(area) IN
    /\ count' = [count EXCEPT ![p] = Len(t)]
    /\ topics' = [topics EXCEPT ![p] =
          [i \in Index |-> IF i < Len(t) THEN [name |-> t[i + 1].name, id |-> 0] ELSE @[i]]]

\* readTopicsInfo_: entries behind those that are read stay as they are.
Reload(p) ==
    LET t == Read(area) IN
    /\ count' = [count EXCEPT ![p] = Len(t)]
    /\ topics' = [topics EXCEPT ![p] = [i \in Index |-> IF i < Len(t) THEN t[i + 1] ELSE @[i]]]

\* MUTANT of NewId: every topic goes to the first place.
NewId_Same(p) == 1

\* The id of a new topic, which is also the index where it is put.
NewId(p) == count[p] + 1

\* MUTANT of FoundId: the id of a topic that is found is not returned.
FoundId_New(p, t) == IF count[p] >= MaxTopics THEN NoId ELSE NewId(p)

\* The id that findOrCreateTopicEvent_ returns.
FoundId(p, t) ==
    IF Known(p, t) THEN Lookup(p, t)
    ELSE IF count[p] >= MaxTopics THEN NoId ELSE NewId(p)

Created(p, t) == ~Known(p, t) /\ count[p] < MaxTopics

\* Count and entries after it.
FoundCount(p, t) == IF Created(p, t) THEN count[p] + 1 ELSE count[p]
FoundTopics(p, t) ==
    IF Created(p, t) THEN [topics[p] EXCEPT ![NewId(p)] = [name |-> t, id |-> NewId(p)]]
    ELSE topics[p]

\* MUTANT of AddedTopics: the entry does not get its event_id_.
AddedTopics_NoId(p, t) == [FoundTopics(p, t) EXCEPT ![FoundCount(p, t)] = [name |-> t, id |-> 0]]

\* Count and entries after addPubTopic, which finds or creates the topic, and in
\* either case puts it at the end of the table once more.
AddedTopics(p, t) == [FoundTopics(p, t) EXCEPT ![FoundCount(p, t)] = [name |-> t, id |-> FoundId(p, t)]]

\* MUTANT of AddedCount: the count is not raised for the entry.
AddedCount_Same(p, t) == FoundCount(p, t)

AddedCount(p, t) == FoundCount(p, t) + 1

Go(th, place) == pc' = [pc EXCEPT ![th] = place]

-----------------------------------------------------------------------------
(* A node starts: initializeRegistry_.                                     *)
Start(p) ==
    /\ \A th \in ThreadsOf(p) : pc[th] = "off"
    /\ pc' = [th \in Threads |-> IF th[1] = p THEN "idle" ELSE pc[th]]
    /\ Reload(p)
    /\ UNCHANGED <<area, creator, name, subs, newsVars>>

\* publish, whose first call creates the topic's segment; no two publishers
\* can do that.
Publish(th, t) ==
    /\ pc[th] = "idle"
    /\ creator[t] \in {NoName, th[1]}
    /\ creator' = [creator EXCEPT ![t] = th[1]]
    /\ Go(th, "look") /\ name' = [name EXCEPT ![th] = t]
    /\ UNCHANGED <<tableVars, area, subs, newsVars>>

\* isTopicExist.
Look(th) ==
    /\ pc[th] = "look"
    /\ Go(th, IF Known(th[1], name[th]) THEN "trigger" ELSE "add")
    /\ UNCHANGED <<tableVars, area, creator, name, subs, newsVars>>

\* addPubTopic.
AddPubTopic(th) ==
    LET p == th[1]
        t == name[th]
    IN
    /\ pc[th] = "add"
    /\ topics' = [topics EXCEPT ![p] = AddedTopics(p, t)]
    /\ count' = [count EXCEPT ![p] = AddedCount(p, t)]
    /\ Rewrite(p)
    /\ Go(th, "trigger")
    /\ UNCHANGED <<creator, name, subs, newsVars>>

\* triggerEvent, which is silent if the topic is not in the table.
Trigger(th) ==
    /\ pc[th] = "trigger"
    /\ news' = (news \/ Lookup(th[1], name[th]) = Reserved)
    /\ Go(th, "idle") /\ name' = [name EXCEPT ![th] = NoName]
    /\ UNCHANGED <<tableVars, area, creator, subs, clearing, departed>>

-----------------------------------------------------------------------------
(* createSubscriber, for a topic whose segment exists.                     *)
Subscribe(th, t) ==
    /\ pc[th] = "idle"
    /\ creator[t] # NoName /\ \A s \in subs[th[1]] : s[1] # t
    /\ \A u \in ThreadsOf(th[1]) : pc[u] \notin {"addsub", "register"}
    /\ Go(th, "addsub") /\ name' = [name EXCEPT ![th] = t]
    /\ UNCHANGED <<tableVars, area, creator, subs, newsVars>>

\* addSubTopic, which writes no topics.
AddSubTopic(th) ==
    LET p == th[1]
        t == name[th]
    IN
    /\ pc[th] = "addsub"
    /\ topics' = [topics EXCEPT ![p] = FoundTopics(p, t)]
    /\ count' = [count EXCEPT ![p] = FoundCount(p, t)]
    /\ Go(th, "register")
    /\ UNCHANGED <<area, creator, name, subs, newsVars>>

\* registerTopicEvent, whose id the subscription keeps.
RegisterTopicEvent(th) ==
    LET p == th[1]
        t == name[th]
    IN
    /\ pc[th] = "register"
    /\ topics' = [topics EXCEPT ![p] = FoundTopics(p, t)]
    /\ count' = [count EXCEPT ![p] = FoundCount(p, t)]
    /\ IF FoundId(p, t) = NoId THEN UNCHANGED area ELSE Rewrite(p)
    /\ subs' = [subs EXCEPT ![p] = @ \cup {<<t, FoundId(p, t)>>}]
    /\ Go(th, "idle") /\ name' = [name EXCEPT ![th] = NoName]
    /\ UNCHANGED <<creator, newsVars>>

-----------------------------------------------------------------------------
(* Changes of the registry.                                                *)

\* Some node leaves, and sets the bit Reserved (removeNode).
Departure ==
    /\ departed < MaxDepartures
    /\ departed' = departed + 1
    /\ news' = TRUE
    /\ UNCHANGED <<tableVars, area, creator, pc, name, subs, clearing>>

\* syncRegistryFromShm, of a spinLoop that has seen the bit.
Sync(p) ==
    /\ news /\ p \notin clearing
    /\ \A th \in ThreadsOf(p) : pc[th] # "off"
    /\ Reload(p)
    /\ clearing' = clearing \cup {p}
    /\ UNCHANGED <<area, creator, pc, name, subs, news, departed>>

\* And the clearTriggerEvent after it.
ClearNews(p) ==
    /\ p \in clearing
    /\ news' = FALSE
    /\ clearing' = clearing \ {p}
    /\ UNCHANGED <<tableVars, area, creator, pc, name, subs, departed>>

-----------------------------------------------------------------------------
Next ==
    \/ \E th \in Threads :
          \/ \E t \in Names : Publish(th, t) \/ Subscribe(th, t)
          \/ Look(th) \/ AddPubTopic(th) \/ Trigger(th)
          \/ AddSubTopic(th) \/ RegisterTopicEvent(th)
    \/ \E p \in Procs : Start(p) \/ Sync(p) \/ ClearNews(p)
    \/ Departure

Spec == Init /\ [][Next]_vars

\* Programs in which a process subscribes only to what is in its table: its own
\* publishers have published, or it was started after the first message.
PublishFirst ==
    \A th \in Threads :
        pc[th] = "idle" /\ pc'[th] = "addsub" => Known(th[1], name'[th])

\* Systems in which all topics are published before a second process starts.
InTurn ==
    area' # area \/ creator' # creator =>
        \E p \in Procs : \A th \in Threads : th[1] # p => pc[th] = "off"

InTurnSpec == Init /\ [][Next /\ PublishFirst /\ InTurn]_vars

-----------------------------------------------------------------------------
\* A subscription waits for the bit that a publisher of its process sets: the
\* id that registerTopicEvent returned is the one that a look-up finds.
\* (shm_manager.h: it returns the event_id that was allocated.)
RegisteredIdIsFound ==
    \A p \in Procs : \A s \in subs[p] : s[2] = Lookup(p, s[1])

\* Two topics of a table never share an event.
IdsDistinct ==
    \A p \in Procs, t, u \in Names :
        t # u /\ Lookup(p, t) # NoId => Lookup(p, t) # Lookup(p, u)

\* A topic in a table stays there and keeps its event: what subscriptions and
\* publishers have agreed upon holds for good.
IdStable ==
    [][\A p \in Procs, t \in Names : Lookup(p, t) # NoId => Lookup(p, t)' = Lookup(p, t)]_vars

\* A publisher that goes on to trigger has an event to trigger.
NoSilentPublish ==
    \A th \in Threads : pc[th] = "trigger" => Lookup(th[1], name[th]) # NoId

\* Two processes that know a topic trigger and await the same event.
SameIdEverywhere ==
    \A p, q \in Procs, t \in Names :
        Lookup(p, t) # NoId /\ Lookup(q, t) # NoId => Lookup(p, t) = Lookup(q, t)

\* A topic in the registry segment is not lost again.  (shm_manager.h: all
\* accesses to the segment are protected by the lock of ShmBase.)
TextHas(t) == \E i \in DOMAIN Read(area) : Read(area)[i].name = t
NoTopicLost == [][\A t \in Names : TextHas(t) => TextHas(t)']_vars

\* An event id is the index of a bit.  (shm_manager.cpp says so.)
IdsAreBits ==
    \A p \in Procs : \A s \in subs[p] : s[2] < MaxTopics

=============================================================================
