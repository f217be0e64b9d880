----------------------------- MODULE SPSCQueue -----------------------------
(***************************************************************************)
(* zqueue.SPSCQueue: the bounded ring of one producer and one consumer.     *)
(* Each side owns one counter and keeps a cached copy of the other's.       *)
(*                                                                          *)
(* One action is one atomic access with the local work around it; the copy  *)
(* of elements into or out of the ring is an action of its own.  Enqueue    *)
(* and TryEnqueue are EnqueueBatch and TryEnqueueBatch of one element       *)
(* (head >= limit is head + 1 > limit), Dequeue is DequeueBatch of one.     *)
(***************************************************************************)
EXTENDS Integers, Sequences

CONSTANTS Cap,        \* mask + 1, a power of two
          MaxItems,   \* bound: elements offered in all
          MaxBatch    \* bound: elements of one call

\* NewSPSCQueue raises the capacity to at least 2.
ASSUME CapAssumption == Cap \in Nat \ {0, 1}
ASSUME BoundAssumption == MaxItems \in Nat /\ MaxBatch \in Nat \ {0}

VARIABLES
  head, tail, closed,        \* the atomics
  tailCache, headCache,      \* the producer's view of tail, the consumer's of head
  buffer,
  pc, try, m, sent,          \* producer: step, Try* call, count, elements offered before the call
  cpc, ctry, lim, n,         \* consumer: step, Try* call, room, batchSize
  got, ended                 \* history: elements handed out; the calls that returned (0, false)

vars == <<head, tail, closed, tailCache, headCache, buffer, pc, try, m, sent,
          cpc, ctry, lim, n, got, ended>>
pvars == <<head, tailCache, pc, try, m, sent>>
cvars == <<tail, headCache, cpc, ctry, lim, n, got, ended>>

Slots == 0 .. Cap - 1
Idx(pos) == pos % Cap
Zero == 0                    \* the zero value; elements are 1, 2, 3, ...

Init ==
  /\ head = 0 /\ tail = 0 /\ closed = FALSE
  /\ tailCache = 0 /\ headCache = 0
  /\ buffer = [s \in Slots |-> Zero]
  /\ pc = "idle" /\ try = FALSE /\ m = 0 /\ sent = 0
  /\ cpc = "idle" /\ ctry = FALSE /\ lim = 0 /\ n = 0
  /\ got = <<>> /\ ended = "none"

-----------------------------------------------------------------------------
(* Producer.                                                                *)

\* A call looks at closed, and at the cached tail.
EnqueueBatch(count, t) ==
  /\ pc = "idle" /\ sent + count <= MaxItems
  /\ m' = count /\ try' = t
  /\ pc' = IF closed THEN "idle"
           ELSE IF head + count > tailCache + Cap THEN "tail" ELSE "copy"
  /\ sent' = IF closed THEN sent + count ELSE sent
  /\ UNCHANGED <<head, tailCache, closed, buffer, cvars>>

\* The cached tail leaves no room: load the real one.
LoadTail ==
  /\ pc = "tail"
  /\ \/ head + m <= tail + Cap /\ pc' = "copy" /\ tailCache' = tail /\ UNCHANGED sent
     \/ /\ head + m > tail + Cap
        /\ pc' = IF try THEN "idle" ELSE "spin"
        /\ sent' = IF try THEN sent + m ELSE sent
        /\ UNCHANGED tailCache
  /\ UNCHANGED <<head, try, m, closed, buffer, cvars>>

\* Mutant: the spinning producer does not look at closed.
SpinClosedNever ==
  /\ pc = "spin"
  /\ pc' = "spinTail"
  /\ UNCHANGED <<head, tailCache, try, m, sent, closed, buffer, cvars>>

\* The blocking call spins: closed, then tail.
SpinClosed ==
  /\ pc = "spin"
  /\ pc' = IF closed THEN "idle" ELSE "spinTail"
  /\ sent' = IF closed THEN sent + m ELSE sent
  /\ UNCHANGED <<head, tailCache, try, m, closed, buffer, cvars>>

\* Mutant: one slot too many.
SpinTailOffByOne ==
  /\ pc = "spinTail"
  /\ IF head + m <= tail + Cap + 1 THEN pc' = "copy" /\ tailCache' = tail
                                   ELSE pc' = "spin" /\ UNCHANGED tailCache
  /\ UNCHANGED <<head, try, m, sent, closed, buffer, cvars>>

SpinTail ==
  /\ pc = "spinTail"
  /\ IF head + m <= tail + Cap THEN pc' = "copy" /\ tailCache' = tail
                               ELSE pc' = "spin" /\ UNCHANGED tailCache
  /\ UNCHANGED <<head, try, m, sent, closed, buffer, cvars>>

\* Mutant: the part that wraps around starts again with the first element.
CopyInRestart ==
  /\ pc = "copy"
  /\ buffer' = [s \in Slots |->
       IF \E x \in head .. head + m - 1 : Idx(x) = s
         THEN LET x == CHOOSE x \in head .. head + m - 1 : Idx(x) = s
              IN sent + 1 + (IF s < Idx(head) THEN s ELSE x - head)
         ELSE buffer[s]]
  /\ pc' = "store"
  /\ UNCHANGED <<head, tailCache, try, m, sent, closed, cvars>>

\* The positions written by the copy, and their elements.
CopyIn ==
  /\ pc = "copy"
  /\ buffer' = [s \in Slots |->
       IF \E x \in head .. head + m - 1 : Idx(x) = s
         THEN sent + 1 + (CHOOSE x \in head .. head + m - 1 : Idx(x) = s) - head
         ELSE buffer[s]]
  /\ pc' = "store"
  /\ UNCHANGED <<head, tailCache, try, m, sent, closed, cvars>>

StoreHead ==
  /\ pc = "store"
  /\ head' = head + m
  /\ sent' = sent + m
  /\ pc' = "idle"
  /\ UNCHANGED <<tailCache, try, m, closed, buffer, cvars>>

Close ==
  /\ ~closed
  /\ closed' = TRUE
  /\ UNCHANGED <<buffer, pvars, cvars>>

-----------------------------------------------------------------------------
(* Consumer.                                                                *)

Batch(available, room) == IF available < room THEN available ELSE room

\* A call looks at the cached head first.
DequeueBatch(room, t) ==
  /\ cpc = "idle" /\ ended = "none"
  /\ lim' = room /\ ctry' = t
  /\ IF tail < headCache THEN cpc' = "copy" /\ n' = Batch(headCache - tail, room)
                         ELSE cpc' = "head" /\ UNCHANGED n
  /\ UNCHANGED <<tail, headCache, got, ended, closed, buffer, pvars>>

\* The real head is ahead of tail: take it.
Available(hd) ==
  /\ tail < hd
  /\ headCache' = hd
  /\ n' = Batch(hd - tail, lim)
  /\ cpc' = "copy"

LoadHead ==
  /\ cpc = "head"
  /\ \/ Available(head)
     \/ tail >= head /\ cpc' = (IF ctry THEN "tryClosed" ELSE "spin") /\ UNCHANGED <<headCache, n>>
  /\ UNCHANGED <<tail, ctry, lim, got, ended, closed, buffer, pvars>>

\* TryDequeueBatch found nothing: (0, true) or, when the queue is closed by now,
\* (0, false).  Head is not loaded again.
TryClosed ==
  /\ cpc = "tryClosed"
  /\ cpc' = "idle"
  /\ ended' = IF closed THEN "try" ELSE ended
  /\ UNCHANGED <<tail, headCache, ctry, lim, n, got, closed, buffer, pvars>>

\* The blocking call spins: head, closed, and head again when closed.
SpinHead ==
  /\ cpc = "spin"
  /\ \/ Available(head)
     \/ tail >= head /\ cpc' = "spinClosed" /\ UNCHANGED <<headCache, n>>
  /\ UNCHANGED <<tail, ctry, lim, got, ended, closed, buffer, pvars>>

SpinSeesClosed ==
  /\ cpc = "spinClosed"
  /\ cpc' = IF closed THEN "lastLook" ELSE "spin"
  /\ UNCHANGED <<tail, headCache, ctry, lim, n, got, ended, closed, buffer, pvars>>

LastLook ==
  /\ cpc = "lastLook"
  /\ IF head <= tail THEN cpc' = "idle" /\ ended' = "blocking"
                     ELSE cpc' = "spin" /\ UNCHANGED ended
  /\ UNCHANGED <<tail, headCache, ctry, lim, n, got, closed, buffer, pvars>>

\* consumeBatch: copy out and clear, then move tail.
CopyOut ==
  /\ cpc = "copy"
  /\ got' = got \o [x \in 1 .. n |-> buffer[Idx(tail + x - 1)]]
  /\ buffer' = [s \in Slots |-> IF \E x \in tail .. tail + n - 1 : Idx(x) = s
                                  THEN Zero ELSE buffer[s]]
  /\ cpc' = "store"
  /\ UNCHANGED <<tail, headCache, ctry, lim, n, ended, closed, pvars>>

StoreTail ==
  /\ cpc = "store"
  /\ tail' = tail + n
  /\ cpc' = "idle"
  /\ UNCHANGED <<headCache, ctry, lim, n, got, ended, closed, buffer, pvars>>

-----------------------------------------------------------------------------
ProducerStep == LoadTail \/ SpinClosed \/ SpinTail \/ CopyIn \/ StoreHead

ConsumerStep == LoadHead \/ TryClosed \/ SpinHead \/ SpinSeesClosed \/ LastLook
                \/ CopyOut \/ StoreTail

Enqueues == \E c \in 1 .. MaxBatch, t \in BOOLEAN : EnqueueBatch(c, t)
Dequeues == \E c \in 1 .. MaxBatch, t \in BOOLEAN : DequeueBatch(c, t)

\* The producer has no more elements to offer and the consumer has been told that
\* the queue is closed and empty: nobody calls again.
Finished == pc = "idle" /\ sent = MaxItems /\ ended # "none" /\ closed /\ UNCHANGED vars

Next == ProducerStep \/ ConsumerStep \/ Enqueues \/ Dequeues \/ Close \/ Finished

Spec == Init /\ [][Next]_vars

\* Calls that have begun run on; the consumer keeps calling.
Fairness == WF_vars(ProducerStep) /\ WF_vars(ConsumerStep) /\ WF_vars(Dequeues)

FairSpec == Spec /\ Fairness

-----------------------------------------------------------------------------
(* Properties.                                                              *)

\* Every variable has its type.
TypeOK ==
  /\ head \in Nat /\ tail \in Nat /\ closed \in BOOLEAN
  /\ tailCache \in Nat /\ headCache \in Nat
  /\ buffer \in [Slots -> Nat]
  /\ pc \in {"idle", "tail", "spin", "spinTail", "copy", "store"} /\ try \in BOOLEAN
  /\ m \in Nat /\ sent \in Nat
  /\ cpc \in {"idle", "head", "tryClosed", "spin", "spinClosed", "lastLook", "copy", "store"}
  /\ ctry \in BOOLEAN /\ lim \in Nat /\ n \in Nat
  /\ got \in Seq(Nat) /\ ended \in {"none", "try", "blocking"}

\* The cached counters lag behind the real ones and the copies stay inside what
\* they allow: the two sides never copy to and from one slot at the same time.
NoOverlap ==
  /\ tailCache <= tail /\ headCache <= head /\ tail <= head /\ head <= tail + Cap
  /\ pc \in {"copy", "store"} => head + m <= tailCache + Cap
  /\ cpc \in {"copy", "store"} => tail + n <= headCache
  /\ (pc = "copy" /\ cpc = "copy") =>
       \A x \in head .. head + m - 1, y \in tail .. tail + n - 1 : Idx(x) # Idx(y)

\* The elements in the ring: published, and not copied out yet.
Ring ==
  LET first == IF cpc = "store" THEN tail + n ELSE tail
  IN [x \in 1 .. head - first |-> buffer[Idx(first + x - 1)]]

WithinCap(l) == l <= Cap
TryLooked == cpc = "tryClosed"
Abstract == INSTANCE BoundedFIFO WITH Room <- WithinCap, q <- Ring, out <- got, looked <- TryLooked

\* The ring is a FIFO queue of Cap elements whose batches enter and leave whole.
\* DequeueBatch reports the end of a closed queue only when it is empty (the second
\* look at head after closed catches what was enqueued before the close);
\* TryDequeueBatch does so when it found the queue empty before it found it closed.
ImplementsFIFO == Abstract!Spec

\* "n == 0, ok == false: 队列已关闭且空" (spsc.go:274): when a Try call reports the
\* end, the queue is empty, as it is when a blocking call does.  This does NOT hold:
\* what the producer publishes between the call's loads of head and of closed is
\* left in the queue of a consumer that has been told there is nothing left.
TryEndIsTheEnd == [][ended' = "try" /\ ended = "none" => Ring = <<>>]_vars

\* A blocked producer gets room or learns that the queue is closed.
ProducerReturns == (pc # "idle") ~> (pc = "idle")
=============================================================================
