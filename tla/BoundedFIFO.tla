---------------------------- MODULE BoundedFIFO ----------------------------
(***************************************************************************)
(* What the ring queues of zqueue promise: elements are put at the end,     *)
(* several at once and all or none, while there is room; they are taken     *)
(* from the front, several at once, each exactly once.                      *)
(*                                                                          *)
(* Elements are the numbers under which they were offered: the elements of  *)
(* one call are consecutive, and a call that fails leaves a gap.            *)
(*                                                                          *)
(* The end of a closed queue is reported to the consumer once.  A blocking   *)
(* call reports it only when nothing is left.  A Try call looks for elements *)
(* first and whether the queue is closed afterwards: it reports an end that  *)
(* is one only if nothing was put in between.                                *)
(***************************************************************************)
EXTENDS Integers, Sequences

CONSTANT Room(_)     \* is a queue of this length allowed?
VARIABLES q,         \* the elements in the queue
          out,       \* the elements handed out so far
          closed,    \* Close was called
          looked,    \* a Try call is under way that found nothing
          ended      \* the kind of call that reported the end, or "none"

vars == <<q, out, closed, looked, ended>>

Init == q = <<>> /\ out = <<>> /\ closed = FALSE /\ looked = FALSE /\ ended = "none"

\* The last element that entered.
Newest == IF q # <<>> THEN q[Len(q)] ELSE IF out # <<>> THEN out[Len(out)] ELSE 0

Put ==
  /\ Len(q') > Len(q) /\ Room(Len(q'))
  /\ SubSeq(q', 1, Len(q)) = q
  /\ q'[Len(q) + 1] > Newest
  /\ \A x \in Len(q) + 1 .. Len(q') - 1 : q'[x + 1] = q'[x] + 1
  /\ UNCHANGED <<out, closed, looked, ended>>

Take == ended = "none" /\ ~looked /\ \E m \in 1 .. Len(q) :
  /\ out' = out \o SubSeq(q, 1, m)
  /\ q' = SubSeq(q, m + 1, Len(q))
  /\ UNCHANGED <<closed, looked, ended>>

Close == closed' = TRUE /\ UNCHANGED <<q, out, looked, ended>>

\* A blocking call reports the end.
End ==
  /\ closed /\ q = <<>> /\ ended = "none"
  /\ ended' = "blocking"
  /\ UNCHANGED <<q, out, closed, looked>>

\* A Try call finds nothing, ...
Look ==
  /\ q = <<>> /\ ended = "none"
  /\ looked' = TRUE
  /\ UNCHANGED <<q, out, closed, ended>>

\* ... and reports the end if the queue is closed by now, whatever is in it.
TryReturns ==
  /\ looked
  /\ looked' = FALSE
  /\ ended' = IF closed THEN "try" ELSE ended
  /\ UNCHANGED <<q, out, closed>>

Next == Put \/ Take \/ Close \/ End \/ Look \/ TryReturns

Spec == Init /\ [][Next]_vars
=============================================================================
