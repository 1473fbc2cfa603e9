----------------------------- MODULE EventFlags -----------------------------
(***************************************************************************)
(* What EventNotificationShm promises: one word of event bits on which     *)
(* every call takes effect at a single instant between the moment it is    *)
(* made and the moment it returns, and a call that answers gives back the  *)
(* flags of that instant.                                                  *)
(***************************************************************************)
EXTENDS EventOps

VARIABLES
    flags,     \* the bits that are set
    call,      \* the call each thread has in progress, or NoCall
    done,      \* has the call taken effect?
    answer     \* the flags it is going to return

vars == <<flags, call, done, answer>>

Init ==
    /\ flags = {}
    /\ call = [t \in Threads |-> NoCall]
    /\ done = [t \in Threads |-> FALSE]
    /\ answer = [t \in Threads |-> {}]

Invoke(t, o) ==
    /\ call[t] = NoCall
    /\ Accepted(o)
    /\ call' = [call EXCEPT ![t] = o]
    /\ UNCHANGED <<flags, done, answer>>

Perform(t) ==
    /\ call[t] # NoCall
    /\ ~done[t]
    /\ flags' = After(call[t], flags)
    /\ answer' = [answer EXCEPT ![t] = Answer(call[t], flags)]
    /\ done' = [done EXCEPT ![t] = TRUE]
    /\ UNCHANGED call

Return(t) ==
    /\ done[t]
    /\ call' = [call EXCEPT ![t] = NoCall]
    /\ done' = [done EXCEPT ![t] = FALSE]
    /\ answer' = [answer EXCEPT ![t] = {}]
    /\ UNCHANGED flags

Next == \E t \in Threads : (\E o \in Ops : Invoke(t, o)) \/ Perform(t) \/ Return(t)

Spec == Init /\ [][Next]_vars

=============================================================================
