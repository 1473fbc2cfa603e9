---------------------------- MODULE MCNodeLocks ----------------------------
(* Threads and what they do, for TLC. *)
EXTENDS NodeLocks

Four == {"spin", "worker1", "worker2", "main"}

\* Callbacks of subscriptions do not publish; main makes publishers and timers.
Timers == [t \in Four |->
    CASE t = "spin" -> {"spinPass", "spinSync"}
      [] t = "main" -> {"createPublisher"}
      [] OTHER -> {"callback", "timerCallback"}]

\* main subscribes while the node spins.
Subscribing == [t \in Four |->
    CASE t = "spin" -> {"spinPass"}
      [] t = "main" -> {"createSubscriber"}
      [] OTHER -> {}]

\* The callback of a subscription publishes.
Publishing == [t \in Four |->
    CASE t = "spin" -> {"spinPass"}
      [] t = "worker1" -> {"publishingCallback"}
      [] OTHER -> {}]
=============================================================================
