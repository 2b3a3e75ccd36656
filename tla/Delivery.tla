------------------------------ MODULE Delivery ------------------------------
(***************************************************************************)
(* What the transactional outbox promises: a message is sent only for an   *)
(* event whose transaction has committed, an event is marked as published  *)
(* only after a message of it has been sent, and a published event is not  *)
(* sent again.  Until then it may be sent any number of times.  The relay  *)
(* of module Relay is shown to implement it.                               *)
(***************************************************************************)
EXTENDS Naturals

CONSTANT Events

VARIABLES
    state,   \* of each event's row
    sent     \* the messages of each event the broker has accepted

Init ==
    /\ state = [e \in Events |-> "absent"]
    /\ sent = [e \in Events |-> 0]

Enqueue(e) ==
    /\ state[e] = "absent"
    /\ state' = [state EXCEPT ![e] = "pending"]
    /\ UNCHANGED sent

Send(e) ==
    /\ state[e] = "pending"
    /\ sent' = [sent EXCEPT ![e] = @ + 1]
    /\ UNCHANGED state

Acknowledge(e) ==
    /\ state[e] = "pending"
    /\ sent[e] > 0
    /\ state' = [state EXCEPT ![e] = "published"]
    /\ UNCHANGED sent

Next == \E e \in Events : Enqueue(e) \/ Send(e) \/ Acknowledge(e)

Spec == Init /\ [][Next]_<<state, sent>>

=============================================================================
