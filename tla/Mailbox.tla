------------------------------ MODULE Mailbox ------------------------------
(***************************************************************************)
(* What zqueue.UnboundedMPSC promises its users (znet.BaseChannel among     *)
(* them): an enqueue takes effect in two steps.  Swapping head gives the    *)
(* elements of the call their places in the order; linking the previous     *)
(* node makes them reachable.  The consumer takes elements from the front,  *)
(* and stops at the first one that is not linked yet, whatever lies behind  *)
(* it.  A call enqueues only after it was admitted, while the mailbox was    *)
(* not stopped; the stop does not take an admission back.                    *)
(***************************************************************************)
EXTENDS Integers, Sequences

VARIABLES box,      \* elements enqueued and not taken: [item, linked]
          entered,  \* items enqueued, in order
          taken,    \* items handed out, in order
          stopped,  \* no call is admitted any more
          admitted  \* number of calls admitted that have not enqueued yet

vars == <<box, entered, taken, stopped, admitted>>

Init == box = <<>> /\ entered = <<>> /\ taken = <<>> /\ stopped = FALSE /\ admitted = 0

Admit ==
  /\ ~stopped
  /\ admitted' = admitted + 1
  /\ UNCHANGED <<box, entered, taken, stopped>>

Stop ==
  /\ stopped' = TRUE
  /\ UNCHANGED <<box, entered, taken, admitted>>

\* Elements are appended: the first one is not linked to what is before it.
Swap ==
  /\ admitted > 0 /\ admitted' = admitted - 1
  /\ Len(box') > Len(box)
  /\ SubSeq(box', 1, Len(box)) = box
  /\ entered' = entered \o [x \in 1 .. Len(box') - Len(box) |-> box'[Len(box) + x].item]
  /\ \A x \in Len(box) + 1 .. Len(box') : box'[x].linked <=> x > Len(box) + 1
  /\ UNCHANGED <<taken, stopped>>

Link == \E x \in DOMAIN box :
  /\ ~box[x].linked
  /\ box' = [box EXCEPT ![x].linked = TRUE]
  /\ UNCHANGED <<entered, taken, stopped, admitted>>

Take ==
  /\ box # <<>> /\ box[1].linked
  /\ taken' = Append(taken, box[1].item)
  /\ box' = Tail(box)
  /\ UNCHANGED <<entered, stopped, admitted>>

Next == Admit \/ Stop \/ Swap \/ Link \/ Take

Spec == Init /\ [][Next]_vars
=============================================================================
