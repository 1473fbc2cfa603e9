-------------------------- MODULE MCNodeLifecycle --------------------------
(***************************************************************************)
(* NodeLifecycle for TLC: the workers and the timers of the node.          *)
(***************************************************************************)
EXTENDS NodeLifecycle

OneWorker == <<"w1">>
OneTimer == <<"t1">>

=============================================================================
