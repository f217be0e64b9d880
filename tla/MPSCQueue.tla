----------------------------- MODULE MPSCQueue -----------------------------
(***************************************************************************)
(* zqueue.MPSCQueue: the bounded, lock-free, multi-producer single-consumer *)
(* ring.  Producers claim positions by a CAS on head and publish them by    *)
(* storing a slot's sequence; the only consumer owns tail.                  *)
(*                                                                          *)
(* One action is one access to shared memory (an atomic of the code, or the *)
(* plain access to a slot's data between two atomics).  Positions are the   *)
(* code's uint64 counters taken as naturals (2^64 claims are out of reach); *)
(* a slot index is head & mask = head % Cap, Cap being a power of two.      *)
(*                                                                          *)
(* Enqueue(item) is the loop of the slow path of EnqueueBatch over one      *)
(* item, and TryEnqueue is TryEnqueueBatch over one item: a call is         *)
(* therefore an operation ("enqueue", "batch" or "try") on len items.       *)
(* Dequeue is DequeueBatch with a buffer of one (consumeOne performs the    *)
(* same accesses in the same order).                                        *)
(***************************************************************************)
EXTENDS Integers, Sequences

CONSTANTS Producers,   \* goroutines that enqueue
          Cap,         \* mask + 1
          MaxItems,    \* bound: items one producer offers in all
          MaxBatch     \* bound: items of one call, and room of one DequeueBatch

\* NewMPSCQueue allocates nextPowerOfTwo(capacity) slots, which is at least 1.
ASSUME CapAssumption == Cap \in Nat \ {0}
ASSUME BoundAssumption == MaxItems \in Nat /\ MaxBatch \in Nat \ {0}

Attempts == 3          \* fast path retries of EnqueueBatch

VARIABLES
  head, tail, closed,  \* the atomics of the queue
  seq, data,           \* slot[T]: sequence and data, by slot index
  pc, op, base, len,   \* per producer: step, operation, first item, item count
  k, n, i, h, att,     \* items done, size of the claim, published of it, head read, attempts
  cpc, lim, ct, cnt, cr, \* consumer: step, room, local tail, batch size, released of it
  order, got,          \* history: item claimed at each position; items handed out
  reported             \* history: items a call reported as enqueued, by producer

vars == <<head, tail, closed, seq, data, pc, op, base, len, k, n, i, h, att,
          cpc, lim, ct, cnt, cr, order, got, reported>>
callvars == <<op, base, len>>
qvars == <<head, tail, seq, data>>
pvars == <<pc, op, base, len, k, n, i, h, att, reported>>
cvars == <<cpc, lim, ct, cnt, cr, got>>

Slots == 0 .. Cap - 1
Idx(pos) == pos % Cap
Items == Producers \X Nat
None == <<>>                       \* the zero value of T

\* The items of the call of p: the j-th one, j counted from 0.
Item(p, j) == <<p, base[p] + j>>

Init ==
  /\ head = 0 /\ tail = 0 /\ closed = FALSE
  /\ seq = [s \in Slots |-> s]
  /\ data = [s \in Slots |-> None]
  /\ pc = [p \in Producers |-> "idle"]
  /\ op = [p \in Producers |-> "enqueue"]
  /\ base = [p \in Producers |-> 0]
  /\ len = [p \in Producers |-> 0]
  /\ k = [p \in Producers |-> 0]
  /\ n = [p \in Producers |-> 0]
  /\ i = [p \in Producers |-> 0]
  /\ h = [p \in Producers |-> 0]
  /\ att = [p \in Producers |-> 0]
  /\ cpc = "idle" /\ lim = 0 /\ ct = 0 /\ cnt = 0 /\ cr = 0
  /\ order = [x \in {} |-> None]
  /\ got = <<>>
  /\ reported = [p \in Producers |-> {}]

-----------------------------------------------------------------------------
(* Producer steps.                                                          *)

Goto(p, l) == pc' = [pc EXCEPT ![p] = l]

\* The call of p returns r, the number of items it says it enqueued.
Return(p, r) ==
  /\ Goto(p, "idle")
  /\ reported' = [reported EXCEPT ![p] = @ \cup {Item(p, j) : j \in 0 .. r - 1}]

\* A call begins: EnqueueBatch tries its fast path when the batch fits the ring.
Call(p, o, m) ==
  /\ pc[p] = "idle"
  /\ base[p] + len[p] + m <= MaxItems
  /\ op' = [op EXCEPT ![p] = o]
  /\ base' = [base EXCEPT ![p] = @ + len[p]]
  /\ len' = [len EXCEPT ![p] = m]
  /\ k' = [k EXCEPT ![p] = 0]
  /\ att' = [att EXCEPT ![p] = 0]
  /\ Goto(p, IF o = "batch" /\ m <= Cap THEN "bClosed" ELSE "eClosed")
  /\ UNCHANGED <<qvars, closed, cvars, n, i, h, order, reported>>

\* The fast path gives up an attempt: the next one, or the slow path.
NextAttempt(p) ==
  /\ att' = [att EXCEPT ![p] = @ + 1]
  /\ Goto(p, IF att[p] + 1 < Attempts THEN "bClosed" ELSE "eClosed")

BatchClosed(p) ==
  /\ pc[p] = "bClosed"
  /\ IF closed THEN Return(p, 0) ELSE Goto(p, "bHead") /\ UNCHANGED reported
  /\ UNCHANGED <<qvars, closed, cvars, callvars, k, n, i, h, att, order>>

BatchHead(p) ==
  /\ pc[p] = "bHead"
  /\ h' = [h EXCEPT ![p] = head]
  /\ n' = [n EXCEPT ![p] = len[p]]
  /\ Goto(p, "bLast")
  /\ UNCHANGED <<qvars, closed, cvars, callvars, k, i, att, order, reported>>

\* Mutant: only the first slot of the batch is looked at.
BatchLastUnchecked(p) ==
  /\ pc[p] = "bLast"
  /\ Goto(p, "bFirst")
  /\ UNCHANGED <<qvars, closed, cvars, callvars, k, n, i, h, att, order, reported>>

\* The last slot of the claim still belongs to the previous lap: slow path.
BatchLast(p) ==
  /\ pc[p] = "bLast"
  /\ LET last == h[p] + n[p] - 1
     IN Goto(p, IF seq[Idx(last)] - last < 0 THEN "eClosed" ELSE "bFirst")
  /\ UNCHANGED <<qvars, closed, cvars, callvars, k, n, i, h, att, order, reported>>

BatchFirst(p) ==
  /\ pc[p] = "bFirst"
  /\ IF seq[Idx(h[p])] - h[p] # 0
       THEN NextAttempt(p)
       ELSE Goto(p, "bCas") /\ UNCHANGED att
  /\ UNCHANGED <<qvars, closed, cvars, callvars, k, n, i, h, order, reported>>

\* Mutant: the slow path forgets what it had enqueued before the queue closed.
EnqueueClosedForgets(p) ==
  /\ pc[p] = "eClosed"
  /\ IF closed THEN Return(p, 0) ELSE Goto(p, "eHead") /\ UNCHANGED reported
  /\ UNCHANGED <<qvars, closed, cvars, callvars, k, n, i, h, att, order>>

EnqueueClosed(p) ==
  /\ pc[p] = "eClosed"
  /\ IF closed THEN Return(p, k[p]) ELSE Goto(p, "eHead") /\ UNCHANGED reported
  /\ UNCHANGED <<qvars, closed, cvars, callvars, k, n, i, h, att, order>>

EnqueueHead(p) ==
  /\ pc[p] = "eHead"
  /\ h' = [h EXCEPT ![p] = head]
  /\ n' = [n EXCEPT ![p] = 1]
  /\ Goto(p, "eSeq")
  /\ UNCHANGED <<qvars, closed, cvars, callvars, k, i, att, order, reported>>

\* dif = 0: claim; dif < 0: maybe full; dif > 0: stale head, again.
\* TryEnqueue returns false on anything but dif = 0.
EnqueueSeq(p) ==
  /\ pc[p] = "eSeq"
  /\ LET dif == seq[Idx(h[p])] - h[p]
     IN \/ dif = 0 /\ Goto(p, "eCas") /\ UNCHANGED reported
        \/ dif # 0 /\ op[p] = "try" /\ Return(p, k[p])
        \/ dif < 0 /\ op[p] # "try" /\ Goto(p, "eFull") /\ UNCHANGED reported
        \/ dif > 0 /\ op[p] # "try" /\ Goto(p, "eClosed") /\ UNCHANGED reported
  /\ UNCHANGED <<qvars, closed, cvars, callvars, k, n, i, h, att, order>>

\* Mutant: the retry does not look at closed again.
EnqueueFullNoRecheck(p) ==
  /\ pc[p] = "eFull"
  /\ IF head = h[p] THEN Return(p, k[p]) ELSE Goto(p, "eHead") /\ UNCHANGED reported
  /\ UNCHANGED <<qvars, closed, cvars, callvars, k, n, i, h, att, order>>

EnqueueFull(p) ==
  /\ pc[p] = "eFull"
  /\ IF head = h[p] THEN Return(p, k[p]) ELSE Goto(p, "eClosed") /\ UNCHANGED reported
  /\ UNCHANGED <<qvars, closed, cvars, callvars, k, n, i, h, att, order>>

\* Mutant: head is stored, not compared and swapped.
ClaimByStore(p) ==
  /\ head' = h[p] + n[p]
  /\ order' = [x \in 0 .. h[p] + n[p] - 1 |->
                 IF x < h[p] THEN order[x] ELSE Item(p, k[p] + x - h[p])]
  /\ i' = [i EXCEPT ![p] = 0]
  /\ Goto(p, "write")
  /\ UNCHANGED <<att, reported>>

\* head.CompareAndSwap(h, h + n) succeeds: the n positions from h belong to p.
Claim(p) ==
  /\ head = h[p]
  /\ head' = head + n[p]
  /\ order' = [x \in 0 .. head + n[p] - 1 |->
                 IF x < head THEN order[x] ELSE Item(p, k[p] + x - head)]
  /\ i' = [i EXCEPT ![p] = 0]
  /\ Goto(p, "write")
  /\ UNCHANGED <<att, reported>>

BatchCas(p) ==
  /\ pc[p] = "bCas"
  /\ \/ Claim(p)
     \/ head # h[p] /\ NextAttempt(p) /\ UNCHANGED <<head, order, i, reported>>
  /\ UNCHANGED <<tail, seq, data, closed, cvars, callvars, k, n, h>>

EnqueueCas(p) ==
  /\ pc[p] = "eCas"
  /\ \/ Claim(p)
     \/ /\ head # h[p]
        /\ IF op[p] = "try" THEN Return(p, k[p])
                            ELSE Goto(p, "eClosed") /\ UNCHANGED reported
        /\ UNCHANGED <<head, order, i, att>>
  /\ UNCHANGED <<tail, seq, data, closed, cvars, callvars, k, n, h>>

\* *dataAt(idx) = items[...]: a plain write to the slot of the claimed position.
WriteData(p) ==
  /\ pc[p] = "write"
  /\ data' = [data EXCEPT ![Idx(h[p] + i[p])] = Item(p, k[p] + i[p])]
  /\ Goto(p, "publish")
  /\ UNCHANGED <<head, tail, seq, closed, cvars, callvars, k, n, i, h, att, order, reported>>

\* Mutant: the sequence published is the position, not the position plus one.
PublishPos(p) ==
  /\ pc[p] = "publish"
  /\ seq' = [seq EXCEPT ![Idx(h[p] + i[p])] = h[p] + i[p]]
  /\ i' = [i EXCEPT ![p] = @ + 1]
  /\ k' = [k EXCEPT ![p] = @ + IF i[p] + 1 = n[p] THEN n[p] ELSE 0]
  /\ IF i[p] + 1 = n[p] /\ k[p] + n[p] = len[p]
       THEN Return(p, len[p])
       ELSE Goto(p, IF i[p] + 1 < n[p] THEN "write" ELSE "eClosed") /\ UNCHANGED reported
  /\ UNCHANGED <<head, tail, data, closed, cvars, callvars, n, h, att, order>>

\* sequenceAt(idx).Store(pos + 1); after the last item of the claim the call
\* returns, or goes on with the next item of the slow path.
Publish(p) ==
  /\ pc[p] = "publish"
  /\ seq' = [seq EXCEPT ![Idx(h[p] + i[p])] = h[p] + i[p] + 1]
  /\ i' = [i EXCEPT ![p] = @ + 1]
  /\ \/ /\ i[p] + 1 < n[p]
        /\ Goto(p, "write")
        /\ UNCHANGED <<k, reported>>
     \/ /\ i[p] + 1 = n[p]
        /\ k' = [k EXCEPT ![p] = @ + n[p]]
        /\ IF k[p] + n[p] = len[p] THEN Return(p, len[p])
                                   ELSE Goto(p, "eClosed") /\ UNCHANGED reported
  /\ UNCHANGED <<head, tail, data, closed, cvars, callvars, n, h, att, order>>

Close ==
  /\ ~closed
  /\ closed' = TRUE
  /\ UNCHANGED <<qvars, pvars, cvars, order>>

-----------------------------------------------------------------------------
(* Consumer steps (single consumer): phase 1 reads the readable slots,      *)
(* phase 2 stores tail and only then releases the slots.                    *)

Dequeue(m) ==
  /\ cpc = "idle"
  /\ cpc' = "seq" /\ lim' = m /\ ct' = tail /\ cnt' = 0
  /\ UNCHANGED <<qvars, closed, pvars, cr, order, got>>

\* Mutant: a claimed slot is taken for a readable one.
ReadSeqClaimed ==
  /\ cpc = "seq"
  /\ cpc' = IF cnt < lim /\ seq[Idx(ct)] - ct >= 0 /\ ct < head THEN "read"
            ELSE IF cnt = 0 THEN "idle" ELSE "tail"
  /\ UNCHANGED <<qvars, closed, pvars, lim, ct, cnt, cr, order, got>>

\* The slot at the local tail is not readable, or the buffer is full.
ReadSeq ==
  /\ cpc = "seq"
  /\ cpc' = IF cnt < lim /\ seq[Idx(ct)] - ct = 1 THEN "read"
            ELSE IF cnt = 0 THEN "idle" ELSE "tail"
  /\ UNCHANGED <<qvars, closed, pvars, lim, ct, cnt, cr, order, got>>

ReadData ==
  /\ cpc = "read"
  /\ got' = Append(got, data[Idx(ct)])
  /\ data' = [data EXCEPT ![Idx(ct)] = None]
  /\ ct' = ct + 1 /\ cnt' = cnt + 1
  /\ cpc' = "seq"
  /\ UNCHANGED <<head, tail, seq, closed, pvars, lim, cr, order>>

StoreTail ==
  /\ cpc = "tail"
  /\ tail' = ct /\ cr' = 0
  /\ cpc' = "release"
  /\ UNCHANGED <<head, seq, data, closed, pvars, lim, ct, cnt, order, got>>

Release ==
  /\ cpc = "release"
  /\ LET pos == ct - cnt + cr IN seq' = [seq EXCEPT ![Idx(pos)] = pos + Cap]
  /\ cr' = cr + 1
  /\ cpc' = IF cr + 1 = cnt THEN "idle" ELSE "release"
  /\ UNCHANGED <<head, tail, data, closed, pvars, lim, ct, cnt, order, got>>

-----------------------------------------------------------------------------
ProducerStep(p) ==
  \/ BatchClosed(p) \/ BatchHead(p) \/ BatchLast(p) \/ BatchFirst(p) \/ BatchCas(p)
  \/ EnqueueClosed(p) \/ EnqueueHead(p) \/ EnqueueSeq(p) \/ EnqueueFull(p) \/ EnqueueCas(p)
  \/ WriteData(p) \/ Publish(p)

ConsumerStep == ReadSeq \/ ReadData \/ StoreTail \/ Release

Calls(p) == \E m \in 1 .. MaxBatch :
              \/ m = 1 /\ Call(p, "enqueue", m)
              \/ Call(p, "batch", m)
              \/ Call(p, "try", m)

Next ==
  \/ \E p \in Producers : Calls(p) \/ ProducerStep(p)
  \/ \E m \in 1 .. MaxBatch : Dequeue(m)
  \/ ConsumerStep
  \/ Close

Spec == Init /\ [][Next]_vars

-----------------------------------------------------------------------------
(* Properties.                                                              *)

PSteps == {"idle", "bClosed", "bHead", "bLast", "bFirst", "bCas", "eClosed",
           "eHead", "eSeq", "eCas", "eFull", "write", "publish"}

\* Every variable has its type; the order of claims covers positions 0..head-1.
TypeOK ==
  /\ head \in Nat /\ tail \in Nat /\ closed \in BOOLEAN
  /\ seq \in [Slots -> Nat]
  /\ data \in [Slots -> Items \cup {None}]
  /\ pc \in [Producers -> PSteps]
  /\ op \in [Producers -> {"enqueue", "batch", "try"}]
  /\ base \in [Producers -> Nat] /\ len \in [Producers -> Nat]
  /\ k \in [Producers -> Nat] /\ n \in [Producers -> Nat]
  /\ i \in [Producers -> Nat] /\ h \in [Producers -> Nat]
  /\ att \in [Producers -> Nat]
  /\ cpc \in {"idle", "seq", "read", "tail", "release"}
  /\ lim \in Nat /\ ct \in Nat /\ cnt \in Nat /\ cr \in Nat
  /\ order \in [0 .. head - 1 -> Items]
  /\ got \in Seq(Items \cup {None})
  /\ reported \in [Producers -> SUBSET Items]

\* The first position whose slot the consumer has not released yet.
Unreleased == IF cpc = "release" THEN ct - cnt + cr ELSE tail

\* p has claimed position x and has not published it.
InFlight(p, x) ==
  pc[p] \in {"write", "publish"} /\ h[p] + i[p] <= x /\ x < h[p] + n[p]

\* Len() = head - tail read at one instant stays within Cap(): a position is
\* claimed only when the slot it reuses has been released (the comment above
\* DequeueBatch: tail first, sequence after).
NeverOverCapacity == tail <= head /\ head - tail <= Cap

\* What the consumer hands out is, item by item, what was claimed, in the order
\* of the claims: nothing lost, repeated, torn or overwritten before it is read.
FIFO == /\ Len(got) <= head
        /\ \A x \in 1 .. Len(got) : got[x] = order[x - 1]

\* No two goroutines ever touch the data of one slot at the same time.
NoSlotRace ==
  /\ \A p, q \in Producers :
       (p # q /\ pc[p] = "write" /\ pc[q] = "write")
         => Idx(h[p] + i[p]) # Idx(h[q] + i[q])
  /\ \A p \in Producers :
       (pc[p] = "write" /\ cpc = "read") => Idx(h[p] + i[p]) # Idx(ct)

\* When no claim is in flight, everything claimed and not yet read is readable:
\* a Dequeue that fails then means an empty queue, so draining is complete.
EmptyMeansDrained ==
  (\A p \in Producers : pc[p] \notin {"write", "publish"})
    => \A x \in ct .. head - 1 : cpc # "release" => seq[Idx(x)] = x + 1

\* A call that has returned reported exactly the items it put in the queue
\* (EnqueueBatch: items[r:] were not enqueued).
ReportedExactly ==
  \A p \in Producers : pc[p] = "idle" =>
    reported[p] = {order[x] : x \in {y \in 0 .. head - 1 : order[y][1] = p}}

\* p has passed a closed check and may still claim positions because of it.
MayClaim(p) == pc[p] \in {"bHead", "bLast", "bFirst", "bCas", "eHead", "eSeq", "eCas"}

\* Close is final: once the calls that had passed their closed check are over, no
\* call, whether it retries or starts, puts anything in the queue again.
CloseIsFinal ==
  [][(closed /\ \A p \in Producers : ~MayClaim(p))
       => (head' = head /\ \A p \in Producers : ~MayClaim(p)')]_vars

-----------------------------------------------------------------------------
(* The inductive invariant behind NeverOverCapacity, FIFO, NoSlotRace and    *)
(* EmptyMeansDrained (proved in MPSCQueueProofs when Cap >= 2).              *)

Published(x) == x < head /\ \A p \in Producers : ~InFlight(p, x)

\* Positions in the order unreleased <= tail <= read <= head <= unreleased + Cap.
Positions ==
  /\ Unreleased <= tail /\ tail <= ct /\ ct <= head /\ head <= Unreleased + Cap
  /\ Unreleased \in Nat
  /\ Len(got) = ct
  /\ cpc \in {"idle", "release"} => ct = tail
  /\ cpc \in {"seq", "read", "tail"} => ct = tail + cnt
  /\ cpc = "tail" => cnt > 0
  /\ cpc = "release" => cr < cnt /\ cnt <= ct
  /\ cpc = "read" => Published(ct)

\* The window of Cap positions from the first unreleased one covers every slot
\* once; there, the sequence says whether the position is readable.
SeqInv ==
  \A x \in Unreleased .. Unreleased + Cap - 1 :
    seq[Idx(x)] = IF Published(x) THEN x + 1 ELSE x

\* Where a producer stands: its claim is a range of positions not read yet, the
\* head it holds is not ahead of the queue, and if the queue has not moved since
\* it looked at the slots, the positions it is about to claim are free.
ProducerInv ==
  \A p \in Producers :
    /\ pc[p] \in {"bClosed", "bHead", "bLast", "bFirst", "bCas"} => len[p] >= 1
    /\ pc[p] \in {"bLast", "bFirst", "bCas", "eSeq", "eCas", "eFull"} => n[p] >= 1 /\ h[p] <= head
    /\ pc[p] = "eSeq" => n[p] = 1
    /\ pc[p] \in {"bFirst", "bCas", "eCas"} /\ head = h[p] => h[p] + n[p] <= Unreleased + Cap
    /\ pc[p] \in {"write", "publish"} =>
         /\ i[p] < n[p] /\ ct <= h[p] + i[p] /\ h[p] + n[p] <= head
         /\ \A x \in h[p] .. h[p] + n[p] - 1 : order[x] = Item(p, k[p] + x - h[p])

\* Claims of different producers are disjoint.
DisjointClaims ==
  \A p, q \in Producers :
    (p # q /\ pc[p] \in {"write", "publish"} /\ pc[q] \in {"write", "publish"})
      => (h[p] + n[p] <= h[q] \/ h[q] + n[q] <= h[p])

\* A published position, or one about to be, holds the item claimed there.
DataInv ==
  /\ \A x \in ct .. head - 1 : Published(x) => data[Idx(x)] = order[x]
  /\ \A p \in Producers :
       pc[p] = "publish" => data[Idx(h[p] + i[p])] = order[h[p] + i[p]]

GotInv == \A x \in 1 .. Len(got) : got[x] = order[x - 1]

\* The inductive invariant (claims, sequences, data and consumer together).
IInv == /\ TypeOK /\ Positions /\ SeqInv /\ ProducerInv /\ DisjointClaims
        /\ DataInv /\ GotInv
=============================================================================
