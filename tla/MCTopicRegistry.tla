-------------------------- MODULE MCTopicRegistry --------------------------
(***************************************************************************)
(* TopicRegistry for TLC: how many threads each process has.               *)
(***************************************************************************)
EXTENDS TopicRegistry

OneEach == [p \in Procs |-> 1]
TwoInP == [p \in Procs |-> IF p = "p" THEN 2 ELSE 1]
=============================================================================
