------------------------------ MODULE EventOps ------------------------------
(***************************************************************************)
(* The vocabulary of the event flag word: the bits of                      *)
(* std::bitset<EVENT_MAX_COUNT> event_flag_, the calls a client may make   *)
(* on it, what each call does to the word and what it gives back.          *)
(***************************************************************************)
EXTENDS Integers

CONSTANTS
    Threads,          \* the threads, of any process, that use the flag word
    EVENT_MAX_COUNT   \* the number of bits (1024 in the code)

ASSUME EventOpsAssumption == EVENT_MAX_COUNT \in Nat \ {0}

EventIds == 0 .. EVENT_MAX_COUNT - 1

NoId == -1

\* An event id is an int: clients also pass the "not found" value -1 of
\* getTopicEventId_ and ids past the last bit.
CallerIds == NoId .. EVENT_MAX_COUNT

IdKinds == {"trigger", "clear"}

PlainKinds == {"clearAll", "take", "read", "wait", "notify", "hold"}

Ops == [kind : IdKinds, id : CallerIds] \cup [kind : PlainKinds, id : {NoId}]

\* No call in progress.
NoCall == [kind |-> "none", id |-> NoId]

\* MUTANT of Accepted: no range check at all.
Accepted_Any(o) == TRUE

\* MUTANT of Accepted: clearTriggerEvent without its range check.
Accepted_AnyClear(o) == o.kind = "trigger" => o.id \in EventIds

\* The range checks on the id, made before anything is locked: by
\* triggerEvent itself, and for a clear by its only caller clearTriggerEvent.
Accepted(o) == o.kind \in IdKinds => o.id \in EventIds

\* The calls that answer with the flags.
Answering == {"take", "read", "wait"}

\* The bits a call may clear.
Cleared(o) == CASE o.kind = "clear" -> {o.id}
                [] o.kind \in {"clearAll", "take"} -> EventIds
                [] OTHER -> {}

\* The bits a call raises.
Raised(o) == IF o.kind = "trigger" THEN {o.id} ELSE {}

\* The flag word after a call that found it equal to f.
After(o, f) == (f \ Cleared(o)) \cup Raised(o)

\* What such a call returns.
Answer(o, f) == IF o.kind \in Answering THEN f ELSE {}

=============================================================================
