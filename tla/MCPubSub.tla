------------------------------ MODULE MCPubSub ------------------------------
(***************************************************************************)
(* PubSub for TLC: who publishes and who subscribes, and where.            *)
(***************************************************************************)
EXTENDS PubSub

\* Every thread in node "n1".
AllPubsInN1 == [p \in Publishers |-> "n1"]
AllSubsInN1 == [s \in Subs |-> "n1"]

\* Every subscription in a node of its own process, "n2".
AllSubsInN2 == [s \in Subs |-> "n2"]

\* One subscription in the publisher's node, the other in another process.
SubsInBothNodes == [s \in Subs |-> IF s = "s1" THEN "n1" ELSE "n2"]

\* One topic for all, or one each.
AllPubsOnA == [p \in Publishers |-> "a"]
AllSubsOnA == [s \in Subs |-> "a"]
PubsApart == [p \in Publishers |-> IF p = "p2" THEN "b" ELSE "a"]
SubsApart == [s \in Subs |-> IF s = "s2" THEN "b" ELSE "a"]

\* How many messages a topic gets.
OneEach == [t \in Topics |-> 1]
TwoEach == [t \in Topics |-> 2]
TwoOnAOneOnB == [t \in Topics |-> IF t = "a" THEN 2 ELSE 1]

\* The order in which the subscriptions were created.
ByName == [s \in Subs |-> CASE s = "s1" -> 1 [] s = "s2" -> 2 [] OTHER -> 3]

=============================================================================
