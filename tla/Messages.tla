------------------------------ MODULE Messages ------------------------------
(***************************************************************************)
(* What a JsonValue goes through from publish() to the callback: it is     *)
(* printed, copied into the segment of its topic and event, copied out and *)
(* parsed.                                                                 *)
(*                                                                         *)
(* A segment has the data size of the first message of the publisher that  *)
(* created it.  Later ones may be shorter, and leave the end of the older  *)
(* one behind themselves, or longer, as Write compares them with the size  *)
(* of header and data together, and are cut off by the reader.  A          *)
(* publisher that ends unlinks the name of its segment, one that is killed *)
(* does not; the subscription keeps the segment it has mapped.             *)
(*                                                                         *)
(* Two publishers may come one after the other; one of them may be of      *)
(* another message type, whose bytes the subscription takes for text.  The *)
(* events are those of one process: reading the message and clearing its   *)
(* event is one step (PubSub separates them).                              *)
(***************************************************************************)
EXTENDS JsonGrammar

CONSTANTS
    Values,       \* the JsonValues that are published
    Foreign,      \* the bytes a publisher of another type writes
    Header,       \* sizeof(ShmHead)
    Page,         \* the size of a page of memory
    MaxMessages,  \* bound: messages of all publishers
    MaxStarts     \* bound: publishers, one after the other; one of another
                  \* type is the only one, is not killed and has one message

ASSUME MessagesAssumption == Page >= 1 /\ Header >= 1

VARIABLES
    segments,  \* every segment created: its data and, as history, the texts
               \* written to it and whether a copy was broken off
    name,      \* the segment that has the name of topic and event, or 0
    pub,       \* the publisher: where it is, its segment, the text it brings
    sub,       \* the subscription: its segment, or 0, and msg_
    raised,    \* the bit of topic and event
    starts,    \* how many publishers there have been (bounded)
    sent,      \* how many messages were published (bounded)
    read       \* the last read: its bytes, what became of them, the newest
               \* text written and whether no copy was under way (history)

vars == <<segments, name, pub, sub, raised, starts, sent, read>>

Null == <<"Null">>
NoPub == [pc |-> "none", json |-> TRUE, seg |-> 0, text |-> <<>>]
NoRead == [bytes |-> <<>>, result |-> "none", newest |-> <<>>, clean |-> TRUE]

TypeOK ==
    /\ \A n \in 1 .. Len(segments) :
           DOMAIN segments[n] = {"data", "written", "torn"}
    /\ name \in 0 .. Len(segments)
    /\ pub.pc \in {"none", "new", "idle", "write", "copy", "trigger", "unmapped"}
    /\ pub.seg \in 0 .. Len(segments)
    /\ sub.seg \in 0 .. Len(segments)
    /\ raised \in BOOLEAN
    /\ starts \in 0 .. MaxStarts /\ sent \in 0 .. MaxMessages
    /\ read.result \in {"none", "refused", "failed", "parsed"}

Init ==
    /\ segments = <<>> /\ name = 0
    /\ pub = NoPub
    /\ sub = [seg |-> 0, msg |-> Null]
    /\ raised = FALSE /\ starts = 0 /\ sent = 0 /\ read = NoRead

-----------------------------------------------------------------------------
(* Memory.                                                                 *)

\* What ftruncate leaves in a segment of n bytes.
Blank(n) == [i \in 1 .. n |-> "NUL"]

\* memcpy of a text to the beginning of the data.
Overlay(data, text) ==
    [i \in 1 .. Len(data) |-> IF i <= Len(text) THEN text[i] ELSE data[i]]

\* A copy that has got as far as byte k, from the front or from the back.
Mixtures(data, text) ==
    LET copied == Overlay(data, text)
    IN UNION {{[i \in 1 .. Len(data) |-> IF i <= k THEN copied[i] ELSE data[i]],
               [i \in 1 .. Len(data) |-> IF i <= k THEN data[i] ELSE copied[i]]} :
              k \in 0 .. Len(data)}

\* The bytes of the mapping of a segment with that much data.
Mapped(size) == Page * ((Header + size + Page - 1) \div Page)

-----------------------------------------------------------------------------
(* The publisher.                                                          *)

PubStarts(json) ==
    /\ pub.pc = "none" /\ starts < MaxStarts
    /\ \/ json /\ starts' = starts + 1 /\ sent' = sent
       \/ ~json /\ starts = 0 /\ starts' = MaxStarts /\ sent' = MaxMessages - 1
    /\ pub' = [NoPub EXCEPT !.pc = "new", !.json = json]
    /\ UNCHANGED <<segments, name, sub, raised, read>>

Texts == IF pub.json THEN {Serialize(v) : v \in Values} ELSE Foreign

Publishes(pc) == pub.pc = pc /\ sent < MaxMessages

Brings(text, pc, seg) ==
    /\ sent' = sent + 1
    /\ pub' = [pub EXCEPT !.pc = pc, !.seg = seg, !.text = text]

\* The first publish creates the segment; Create fails when the name exists,
\* and leaves a ShmBase that maps nothing behind.
PublishFirst ==
    /\ Publishes("new") /\ name = 0
    /\ \E text \in Texts :
          /\ segments' = Append(segments, [data |-> Blank(Len(text)), written |-> <<>>,
                                          torn |-> FALSE])
          /\ Brings(text, "write", Len(segments'))
    /\ name' = Len(segments')
    /\ UNCHANGED <<sub, raised, starts, read>>

CreateFails ==
    /\ Publishes("new") /\ name # 0
    /\ Brings(<<>>, "unmapped", 0)
    /\ UNCHANGED <<segments, name, sub, raised, starts, read>>

PublishAgain ==
    /\ Publishes("idle")
    /\ \E text \in Texts : Brings(text, "write", pub.seg)
    /\ UNCHANGED <<segments, name, sub, raised, starts, read>>

\* Write throws while nothing is mapped, even when the name has become free.
PublishUnmapped ==
    /\ Publishes("unmapped")
    /\ Brings(<<>>, "unmapped", 0)
    /\ UNCHANGED <<segments, name, sub, raised, starts, read>>

Data(n) == segments[n].data

\* The bound Write tests.
Fits(text, size) == Len(text) <= Header + size

Write ==
    /\ pub.pc = "write"
    /\ pub' = IF Fits(pub.text, Len(Data(pub.seg))) THEN [pub EXCEPT !.pc = "copy"]
              ELSE [pub EXCEPT !.pc = "idle", !.text = <<>>]
    /\ UNCHANGED <<segments, name, sub, raised, starts, sent, read>>

Copied ==
    /\ pub.pc = "copy"
    /\ segments' = [segments EXCEPT ![pub.seg].data = Overlay(@, pub.text),
                                    ![pub.seg].written = Append(@, pub.text)]
    /\ pub' = [pub EXCEPT !.pc = "trigger"]
    /\ UNCHANGED <<name, sub, raised, starts, sent, read>>

Trigger ==
    /\ pub.pc = "trigger"
    /\ raised' = TRUE
    /\ pub' = [pub EXCEPT !.pc = "idle", !.text = <<>>]
    /\ UNCHANGED <<segments, name, sub, starts, sent, read>>

\* The destructor of the owner unlinks the name.
PubEnds ==
    /\ pub.pc \in {"new", "idle", "unmapped"}
    /\ name' = IF pub.seg # 0 THEN 0 ELSE name
    /\ pub' = NoPub
    /\ UNCHANGED <<segments, sub, raised, starts, sent, read>>

\* Killed, the name stays, and in a copy the bytes copied so far.
PubKilled ==
    /\ pub.pc # "none" /\ pub.json
    /\ \/ pub.pc # "copy" /\ UNCHANGED segments
       \/ /\ pub.pc = "copy"
          /\ \E bytes \in Mixtures(Data(pub.seg), pub.text) :
                segments' = [segments EXCEPT ![pub.seg].data = bytes, ![pub.seg].torn = TRUE]
    /\ pub' = NoPub
    /\ UNCHANGED <<name, sub, raised, starts, sent, read>>

-----------------------------------------------------------------------------
(* The subscription.                                                       *)

\* subscribe() throws while there is no segment of that name.
Subscribe ==
    /\ sub.seg = 0 /\ name # 0
    /\ sub' = [sub EXCEPT !.seg = name]
    /\ UNCHANGED <<segments, name, pub, raised, starts, sent, read>>

Written(n) == segments[n].written
Copying(n) == pub.pc = "copy" /\ pub.seg = n

\* What becomes of the bytes read when the subscription holds msg.
Outcome(bytes, msg) ==
    LET root == Deserialize(bytes)
    IN IF Len(bytes) < Len(Serialize(msg)) THEN [result |-> "refused", msg |-> msg]
       ELSE IF root.ok THEN [result |-> "parsed", msg |-> root.val]
       ELSE [result |-> "failed", msg |-> msg]

\* The loop has seen the event: getMessage, and the task is queued whatever
\* became of it.  The mutex of the segment is not taken.
GetMessage ==
    /\ raised /\ sub.seg # 0
    /\ \E bytes \in IF Copying(sub.seg) THEN Mixtures(Data(sub.seg), pub.text)
                    ELSE {Data(sub.seg)} :
           LET got == Outcome(bytes, sub.msg)
           IN /\ sub' = [sub EXCEPT !.msg = got.msg]
              /\ read' = [bytes |-> bytes, result |-> got.result,
                          newest |-> IF Written(sub.seg) = <<>> THEN <<>>
                                     ELSE Last(Written(sub.seg)),
                          clean |-> ~Copying(sub.seg) /\ ~segments[sub.seg].torn]
    /\ raised' = FALSE
    /\ UNCHANGED <<segments, name, pub, starts, sent>>

Next ==
    \/ \E json \in BOOLEAN : PubStarts(json)
    \/ PublishFirst \/ CreateFails \/ PublishAgain \/ PublishUnmapped
    \/ Write \/ Copied \/ Trigger
    \/ PubEnds \/ PubKilled
    \/ Subscribe \/ GetMessage

Spec == Init /\ [][Next]_vars

-----------------------------------------------------------------------------
\* Whatever bytes are in the segment - a message, what two of them have left,
\* part of one, the bytes of another type - the parser accepts those that are
\* JSON and no others, and makes of them the value they stand for.
\* json.cpp:102-346
ParserExact ==
    CASE read.result = "parsed" -> ValuesOf(read.bytes) = {sub.msg}
      [] read.result = "failed" -> ValuesOf(read.bytes) = {}
      [] OTHER -> TRUE

\* A message accepted by a read that met no copy is the newest one written to
\* the segment: neither what an older one has left behind it, nor the part of a
\* longer one that fits, is ever taken for a message, as long as what is
\* published is a string, an array or an object.
\* message_serializer.h:42-52
NewestOrNothing ==
    (read.result = "parsed" /\ read.clean) => sub.msg \in ValuesOf(read.newest)

\* How a value comes back: a double without a fraction as an int.
RECURSIVE AsSent(_)
AsSent(v) ==
    CASE v[1] = "Double" ->
            IF Len(v[3]) <= v[4] /\ v[4] <= Precision
            THEN IntOf(v[2], v[3] \o Zeros(v[4] - Len(v[3]))) ELSE v
      [] v[1] = "Array" -> <<"Array", [i \in 1 .. Len(v[2]) |-> AsSent(v[2][i])]>>
      [] v[1] = "Object" -> <<"Object", [k \in DOMAIN v[2] |-> AsSent(v[2][k])]>>
      [] OTHER -> v

\* The publisher of the segment is at rest and its last event handled.
Handled ==
    /\ sub.seg # 0 /\ pub.seg = sub.seg /\ pub.pc = "idle" /\ pub.json
    /\ ~raised /\ Written(sub.seg) # <<>>

\* The subscription holds the newest message.
HoldsNewest ==
    sub.msg = AsSent(CHOOSE v \in Values : Serialize(v) = Last(Written(sub.seg)))

\* A publisher whose messages have all the same length, of at least the four
\* bytes of the null that a subscription starts with, gets each of them through
\* when its event has been handled, with the value it was given.
\* message_serializer.h:24-52
EqualLengthsArrive ==
    (Handled /\ \A t \in Range(Written(sub.seg)) :
                   Len(t) = Len(Data(sub.seg)) /\ Len(t) >= Len(Serialize(Null)))
    => HoldsNewest

\* The same of messages of any lengths, which the code does not give: a shorter
\* or longer one than the first is lost, and the callback runs with the one
\* before it.
\* message_serializer.h:45-52
NewestArrives == Handled => HoldsNewest

\* No copy goes past the pages of the mapping, which the code does not give
\* either: Write compares the size of a message with that of header and data.
\* shm_base.cpp:90-92
NeverOverruns == pub.pc = "copy" => Header + Len(pub.text) <= Mapped(Len(Data(pub.seg)))

=============================================================================
