-------------------------- MODULE SPSCQueueProofs --------------------------
(***************************************************************************)
(* Proofs about SPSCQueue for every capacity of at least 2 and every bound: *)
(* the two sides never touch one slot at the same time, and the ring is the *)
(* bounded FIFO queue of module BoundedFIFO.                                *)
(***************************************************************************)
EXTENDS SPSCQueue, SequenceTheorems, TLAPS

-----------------------------------------------------------------------------
(* Remainders: a window of c consecutive positions meets every slot once.   *)

\* A remainder is a slot index.
LEMMA ModRange ==
  ASSUME NEW c \in Nat \ {0}, NEW x \in Nat
  PROVE  (x % c) \in 0 .. c - 1
  OBVIOUS

\* Quotient and remainder rebuild the number.
LEMMA DivMod ==
  ASSUME NEW c \in Nat \ {0}, NEW x \in Nat
  PROVE  x \div c \in Nat /\ x = c * (x \div c) + (x % c)
  OBVIOUS

\* A positive multiple of c is at least c.
LEMMA MulAtLeast ==
  ASSUME NEW c \in Nat, NEW a \in Int, a >= 1
  PROVE  c * a >= c
  OBVIOUS

\* Two positions less than a lap apart have different slots.
LEMMA ModInjective ==
  ASSUME NEW c \in Nat \ {0}, NEW x \in Nat, NEW y \in Nat, x < y, y < x + c
  PROVE  (x % c) # (y % c)
<1> SUFFICES ASSUME (x % c) = (y % c) PROVE FALSE
  OBVIOUS
<1> DEFINE a == x \div c
           b == y \div c
           r == x % c
<1>1. a \in Int /\ b \in Int /\ r \in Int
  BY DivMod, ModRange
<1>2. x = c * a + r /\ y = c * b + r
  BY DivMod
<1> HIDE DEF a, b, r
<1>3. y - x = c * (b - a)
  BY <1>1, <1>2
<1>4. b - a >= 1
  BY <1>1, <1>3
<1>5. c * (b - a) >= c
  BY <1>1, <1>4, MulAtLeast
<1> QED
  BY <1>3, <1>5

-----------------------------------------------------------------------------
(* The inductive invariant.                                                 *)

\* The first position that has not been copied out yet.
First == IF cpc = "store" THEN tail + n ELSE tail

\* Each counter is between its cached copy and what the other side allows.
Counters ==
  /\ tailCache <= tail /\ tail <= headCache /\ headCache <= head /\ head <= tailCache + Cap

\* A call under way moves at least one element, and its copy stays inside what the
\* cached counter of its side allows.
Calls ==
  /\ pc # "idle" => m >= 1
  /\ pc \in {"copy", "store"} => head + m <= tailCache + Cap
  /\ cpc # "idle" => lim >= 1
  /\ cpc \in {"copy", "store"} => n >= 1 /\ tail + n <= headCache

\* What the ring holds was offered before the call under way; what that call has
\* copied in and not published yet lies behind it.
Contents ==
  /\ \A x \in First .. head - 1 : buffer[Idx(x)] <= sent
  /\ \A x \in DOMAIN got : got[x] <= sent
  /\ pc = "store" => \A x \in head .. head + m - 1 : buffer[Idx(x)] = sent + 1 + x - head

\* The end is reported once, and a blocking call looks at head again only after it
\* has seen the queue closed.
Ends ==
  /\ cpc # "idle" => ended = "none"
  /\ cpc = "lastLook" => closed

IInv == TypeOK /\ Counters /\ Calls /\ Contents /\ Ends

-----------------------------------------------------------------------------
(* Slots.                                                                   *)

\* The slot index of a position.
LEMMA IdxType == ASSUME NEW x \in Nat PROVE Idx(x) \in Slots
  BY ModRange, CapAssumption DEF Idx, Slots

\* Positions of one window of Cap positions have different slots.
LEMMA IdxInjective ==
  ASSUME NEW r \in Nat, NEW x \in r .. r + Cap - 1, NEW y \in r .. r + Cap - 1, x # y
  PROVE  Idx(x) # Idx(y)
<1>1. x \in Nat /\ y \in Nat /\ x < y + Cap /\ y < x + Cap /\ (x < y \/ y < x)
  BY CapAssumption
<1>2. (x % Cap) # (y % Cap)
  BY <1>1, ModInjective, CapAssumption
<1> QED
  BY <1>2 DEF Idx

-----------------------------------------------------------------------------
(* The invariant is inductive.                                              *)

\* The initial state satisfies it.
LEMMA InitInv == Init => IInv
<1> SUFFICES ASSUME Init PROVE IInv
  OBVIOUS
<1>1. TypeOK
  <2>1. got \in Seq(Nat) /\ buffer \in [Slots -> Nat]
    BY DEF Init, Zero
  <2> QED
    BY <2>1 DEF Init, TypeOK
<1>2. Counters /\ Calls /\ Ends
  BY CapAssumption DEF Init, Counters, Calls, Ends
<1>3. Contents
  BY DEF Init, Contents, First
<1> QED
  BY <1>1, <1>2, <1>3 DEF IInv

\* Every variable keeps its type.
LEMMA TypeStep == IInv /\ [Next]_vars => TypeOK'
<1> SUFFICES ASSUME IInv, [Next]_vars PROVE TypeOK'
  OBVIOUS
<1> USE CapAssumption, BoundAssumption DEF IInv
<1>1. ASSUME NEW c \in 1 .. MaxBatch, NEW t \in BOOLEAN, EnqueueBatch(c, t) PROVE TypeOK'
  BY <1>1 DEF TypeOK, EnqueueBatch, cvars
<1>2. CASE LoadTail
  BY <1>2 DEF TypeOK, LoadTail, cvars
<1>3. CASE SpinClosed
  BY <1>3 DEF TypeOK, SpinClosed, cvars
<1>4. CASE SpinTail
  BY <1>4 DEF TypeOK, SpinTail, cvars
<1>5. CASE CopyIn
  <2>1. ASSUME NEW s \in Slots, NEW x \in head .. head + m - 1
        PROVE  sent + 1 + x - head \in Nat
    BY DEF TypeOK
  <2>2. buffer' \in [Slots -> Nat]
    <3> SUFFICES ASSUME NEW s \in Slots PROVE buffer'[s] \in Nat
      BY <1>5 DEF CopyIn
    <3>1. CASE \E x \in head .. head + m - 1 : Idx(x) = s
      <4> DEFINE z == CHOOSE x \in head .. head + m - 1 : Idx(x) = s
      <4>1. z \in head .. head + m - 1
        BY <3>1
      <4>2. buffer'[s] = sent + 1 + z - head
        BY <1>5, <3>1 DEF CopyIn
      <4> QED
        BY <4>1, <4>2, <2>1
    <3>2. CASE ~\E x \in head .. head + m - 1 : Idx(x) = s
      BY <1>5, <3>2 DEF CopyIn, TypeOK
    <3> QED
      BY <3>1, <3>2
  <2> QED
    BY <1>5, <2>2 DEF TypeOK, CopyIn, cvars
<1>6. CASE StoreHead
  BY <1>6 DEF TypeOK, StoreHead, cvars
<1>7. CASE Close
  BY <1>7 DEF TypeOK, Close, pvars, cvars
<1>8. ASSUME NEW c \in 1 .. MaxBatch, NEW t \in BOOLEAN, DequeueBatch(c, t) PROVE TypeOK'
  BY <1>8 DEF TypeOK, DequeueBatch, Batch, pvars
<1>9. CASE LoadHead
  BY <1>9 DEF TypeOK, LoadHead, Available, Batch, pvars
<1>10. CASE TryClosed
  BY <1>10 DEF TypeOK, TryClosed, pvars
<1>11. CASE SpinHead
  BY <1>11 DEF TypeOK, SpinHead, Available, Batch, pvars
<1>12. CASE SpinSeesClosed
  BY <1>12 DEF TypeOK, SpinSeesClosed, pvars
<1>13. CASE LastLook
  BY <1>13 DEF TypeOK, LastLook, pvars
<1>14. CASE CopyOut
  <2>1. buffer' \in [Slots -> Nat]
    BY <1>14 DEF TypeOK, CopyOut, Zero
  <2>2. got' \in Seq(Nat)
    <3>1. ASSUME NEW x \in 1 .. n PROVE buffer[Idx(tail + x - 1)] \in Nat
      <4>1. Idx(tail + x - 1) \in Slots
        BY IdxType DEF TypeOK
      <4> QED
        BY <4>1 DEF TypeOK
    <3>2. [x \in 1 .. n |-> buffer[Idx(tail + x - 1)]] \in Seq(Nat)
      BY <3>1 DEF TypeOK
    <3> QED
      BY <1>14, <3>2 DEF CopyOut, TypeOK
  <2> QED
    BY <1>14, <2>1, <2>2 DEF TypeOK, CopyOut, pvars
<1>15. CASE StoreTail
  BY <1>15 DEF TypeOK, StoreTail, pvars
<1>16. CASE UNCHANGED vars
  BY <1>16 DEF TypeOK, vars
<1> QED
  BY <1>1, <1>2, <1>3, <1>4, <1>5, <1>6, <1>7, <1>8, <1>9, <1>10, <1>11, <1>12, <1>13, <1>14, <1>15, <1>16
  DEF Next, ProducerStep, ConsumerStep, Enqueues, Dequeues, Finished

\* The counters, the calls under way and the end.
LEMMA CountersStep == IInv /\ [Next]_vars => Counters' /\ Calls' /\ Ends'
<1> SUFFICES ASSUME TypeOK, Counters, Calls, Ends, [Next]_vars PROVE Counters' /\ Calls' /\ Ends'
  BY DEF IInv
<1> USE CapAssumption, BoundAssumption DEF Counters, Calls, Ends, TypeOK
<1>1. ASSUME NEW c \in 1 .. MaxBatch, NEW t \in BOOLEAN, EnqueueBatch(c, t)
      PROVE  Counters' /\ Calls' /\ Ends'
  BY <1>1 DEF EnqueueBatch, cvars
<1>2. CASE LoadTail
  BY <1>2 DEF LoadTail, cvars
<1>3. CASE SpinClosed
  BY <1>3 DEF SpinClosed, cvars
<1>4. CASE SpinTail
  BY <1>4 DEF SpinTail, cvars
<1>5. CASE CopyIn
  BY <1>5 DEF CopyIn, cvars
<1>6. CASE StoreHead
  BY <1>6 DEF StoreHead, cvars
<1>7. CASE Close
  BY <1>7 DEF Close, pvars, cvars
<1>8. ASSUME NEW c \in 1 .. MaxBatch, NEW t \in BOOLEAN, DequeueBatch(c, t)
      PROVE  Counters' /\ Calls' /\ Ends'
  BY <1>8 DEF DequeueBatch, Batch, pvars
<1>9. CASE LoadHead
  BY <1>9 DEF LoadHead, Available, Batch, pvars
<1>10. CASE TryClosed
  BY <1>10 DEF TryClosed, pvars
<1>11. CASE SpinHead
  BY <1>11 DEF SpinHead, Available, Batch, pvars
<1>12. CASE SpinSeesClosed
  BY <1>12 DEF SpinSeesClosed, pvars
<1>13. CASE LastLook
  BY <1>13 DEF LastLook, pvars
<1>14. CASE CopyOut
  BY <1>14 DEF CopyOut, pvars
<1>15. CASE StoreTail
  BY <1>15 DEF StoreTail, pvars
<1>16. CASE UNCHANGED vars
  BY <1>16 DEF vars
<1> QED
  BY <1>1, <1>2, <1>3, <1>4, <1>5, <1>6, <1>7, <1>8, <1>9, <1>10, <1>11, <1>12, <1>13, <1>14, <1>15, <1>16
  DEF Next, ProducerStep, ConsumerStep, Enqueues, Dequeues, Finished

\* The copy of the producer: the new elements lie in the slots of their positions,
\* and no slot of an element still in the ring is written.
LEMMA CopyInWrites ==
  ASSUME IInv, CopyIn
  PROVE  /\ \A x \in head .. head + m - 1 : buffer'[Idx(x)] = sent + 1 + x - head
         /\ \A x \in First .. head - 1 : buffer'[Idx(x)] = buffer[Idx(x)]
<1> USE CapAssumption DEF IInv
<1>1. tail \in Nat /\ head \in Nat /\ m \in Nat /\ First \in Nat /\ sent \in Nat
      /\ tail <= First /\ First <= head /\ head + m <= tail + Cap
  BY DEF TypeOK, Counters, Calls, First, CopyIn
<1>2. ASSUME NEW x \in head .. head + m - 1 PROVE buffer'[Idx(x)] = sent + 1 + x - head
  <2>1. Idx(x) \in Slots
    BY <1>1, IdxType
  <2> DEFINE z == CHOOSE y \in head .. head + m - 1 : Idx(y) = Idx(x)
  <2>2. z \in head .. head + m - 1 /\ Idx(z) = Idx(x)
    OBVIOUS
  <2>3. buffer'[Idx(x)] = sent + 1 + z - head
    BY <2>1, <1>2 DEF CopyIn
  <2>4. z = x
    <3> HIDE DEF z
    <3>1. z \in tail .. tail + Cap - 1 /\ x \in tail .. tail + Cap - 1
      BY <1>1, <2>2
    <3> QED
      BY <3>1, <2>2, <1>1, IdxInjective
  <2> QED
    BY <2>3, <2>4
<1>3. ASSUME NEW x \in First .. head - 1 PROVE buffer'[Idx(x)] = buffer[Idx(x)]
  <2>1. Idx(x) \in Slots
    BY <1>1, IdxType
  <2>2. ASSUME NEW y \in head .. head + m - 1 PROVE Idx(y) # Idx(x)
    <3>1. x \in tail .. tail + Cap - 1 /\ y \in tail .. tail + Cap - 1 /\ x # y
      BY <1>1
    <3> QED
      BY <3>1, <1>1, IdxInjective
  <2> QED
    BY <2>1, <2>2 DEF CopyIn
<1> QED
  BY <1>2, <1>3

\* The copy of the consumer clears the slots it has read, and no other slot of the
\* window between tail and what the producer may be filling.
LEMMA CopyOutClears ==
  ASSUME IInv, CopyOut, NEW x \in tail + n .. tail + Cap - 1
  PROVE  buffer'[Idx(x)] = buffer[Idx(x)]
<1> USE CapAssumption DEF IInv
<1>1. tail \in Nat /\ n \in Nat /\ tail + n <= tail + Cap /\ x \in Nat
  BY DEF TypeOK, Counters, Calls, CopyOut
<1>2. Idx(x) \in Slots
  BY <1>1, IdxType
<1>3. ASSUME NEW y \in tail .. tail + n - 1 PROVE Idx(y) # Idx(x)
  <2>1. x \in tail .. tail + Cap - 1 /\ y \in tail .. tail + Cap - 1 /\ x # y
    BY <1>1
  <2> QED
    BY <2>1, <1>1, IdxInjective
<1> QED
  BY <1>2, <1>3 DEF CopyOut

\* What the consumer has been given after a copy.
LEMMA CopyOutGives ==
  ASSUME IInv, CopyOut
  PROVE  /\ DOMAIN got' = 1 .. Len(got) + n
         /\ \A x \in 1 .. Len(got) : got'[x] = got[x]
         /\ \A x \in Len(got) + 1 .. Len(got) + n : got'[x] = buffer[Idx(tail + (x - Len(got)) - 1)]
<1> DEFINE part == [x \in 1 .. n |-> buffer[Idx(tail + x - 1)]]
<1>1. n \in Nat /\ got \in Seq(Nat)
  BY DEF IInv, TypeOK
<1>2. part \in Seq(Nat) /\ Len(part) = n
  <2>1. ASSUME NEW x \in 1 .. n PROVE buffer[Idx(tail + x - 1)] \in Nat
    <3>1. Idx(tail + x - 1) \in Slots
      BY <1>1, IdxType DEF IInv, TypeOK
    <3> QED
      BY <3>1 DEF IInv, TypeOK
  <2> QED
    BY <2>1, <1>1
<1>3. got' = got \o part
  BY DEF CopyOut
<1>4. \A x \in 1 .. n : part[x] = buffer[Idx(tail + x - 1)]
  OBVIOUS
<1> HIDE DEF part
<1>5. /\ got' \in Seq(Nat) /\ Len(got') = Len(got) + n
      /\ \A x \in 1 .. Len(got) + n : got'[x] = IF x <= Len(got) THEN got[x] ELSE part[x - Len(got)]
  BY <1>1, <1>2, <1>3, ConcatProperties
<1>6. Len(got) \in Nat /\ DOMAIN got' = 1 .. Len(got')
  BY <1>1, <1>5, LenProperties
<1>7. ASSUME NEW x \in Len(got) + 1 .. Len(got) + n
      PROVE  got'[x] = buffer[Idx(tail + (x - Len(got)) - 1)]
  <2>1. x - Len(got) \in 1 .. n
    BY <1>1
  <2>2. got'[x] = part[x - Len(got)]
    BY <1>1, <1>5, <1>6
  <2> QED
    BY <2>1, <2>2, <1>4
<1> QED
  BY <1>1, <1>5, <1>6, <1>7

\* The contents of the ring.
LEMMA ContentsStep == IInv /\ [Next]_vars => Contents'
<1> SUFFICES ASSUME IInv, [Next]_vars PROVE Contents'
  OBVIOUS
<1>0. /\ TypeOK /\ Counters /\ Calls /\ Contents
      /\ head \in Nat /\ tail \in Nat /\ sent \in Nat /\ m \in Nat /\ n \in Nat
      /\ got \in Seq(Nat) /\ First \in Nat
  BY DEF IInv, TypeOK, First
<1>a. /\ \A x \in First .. head - 1 : buffer[Idx(x)] \in Nat
      /\ \A x \in DOMAIN got : got[x] \in Nat
  <2>1. ASSUME NEW x \in First .. head - 1 PROVE buffer[Idx(x)] \in Nat
    BY <1>0, IdxType DEF TypeOK
  <2>2. ASSUME NEW x \in DOMAIN got PROVE got[x] \in Nat
    BY <1>0
  <2> QED
    BY <2>1, <2>2
<1> USE CapAssumption, BoundAssumption
<1>1. ASSUME NEW c \in 1 .. MaxBatch, NEW t \in BOOLEAN, EnqueueBatch(c, t) PROVE Contents'
  BY <1>0, <1>a, <1>1 DEF Contents, First, EnqueueBatch, cvars
<1>2. CASE LoadTail
  BY <1>0, <1>a, <1>2 DEF Contents, First, LoadTail, cvars
<1>3. CASE SpinClosed
  BY <1>0, <1>a, <1>3 DEF Contents, First, SpinClosed, cvars
<1>4. CASE SpinTail
  BY <1>0, <1>4 DEF Contents, First, SpinTail, cvars
<1>5. CASE CopyIn
  <2>1. First' = First /\ head' = head /\ m' = m /\ sent' = sent /\ got' = got
    BY <1>5 DEF First, CopyIn, cvars
  <2> QED
    BY <1>0, <1>5, <2>1, CopyInWrites DEF Contents
<1>6. CASE StoreHead
  <2>1. /\ First' = First /\ head' = head + m /\ sent' = sent + m /\ got' = got
        /\ buffer' = buffer /\ pc' = "idle" /\ pc = "store" /\ First \in Nat
    BY <1>0, <1>6 DEF First, StoreHead, cvars
  <2>2. ASSUME NEW x \in First .. head + m - 1 PROVE buffer[Idx(x)] <= sent + m
    <3>1. CASE x < head
      <4>1. buffer[Idx(x)] <= sent
        BY <1>0, <2>1, <3>1 DEF Contents
      <4>2. buffer[Idx(x)] \in Nat
        BY <1>0, <2>1, IdxType DEF TypeOK
      <4> QED
        BY <1>0, <4>1, <4>2
    <3>2. CASE x >= head
      <4>1. buffer[Idx(x)] = sent + 1 + x - head
        BY <1>0, <2>1, <3>2 DEF Contents
      <4> QED
        BY <1>0, <2>1, <3>2, <4>1
    <3> QED
      BY <1>0, <2>1, <3>1, <3>2
  <2>3. ASSUME NEW x \in DOMAIN got PROVE got[x] <= sent + m
    BY <1>0 DEF Contents
  <2> QED
    BY <1>0, <2>1, <2>2, <2>3 DEF Contents
<1>7. CASE Close
  BY <1>0, <1>7 DEF Contents, First, Close, pvars, cvars
<1>8. ASSUME NEW c \in 1 .. MaxBatch, NEW t \in BOOLEAN, DequeueBatch(c, t) PROVE Contents'
  BY <1>0, <1>8 DEF Contents, First, DequeueBatch, pvars
<1>9. CASE LoadHead
  BY <1>0, <1>9 DEF Contents, First, LoadHead, Available, pvars
<1>10. CASE TryClosed
  BY <1>0, <1>10 DEF Contents, First, TryClosed, pvars
<1>11. CASE SpinHead
  BY <1>0, <1>11 DEF Contents, First, SpinHead, Available, pvars
<1>12. CASE SpinSeesClosed
  BY <1>0, <1>12 DEF Contents, First, SpinSeesClosed, pvars
<1>13. CASE LastLook
  BY <1>0, <1>13 DEF Contents, First, LastLook, pvars
<1>14. CASE CopyOut
  <2>1. /\ First = tail /\ First' = tail + n /\ head' = head /\ m' = m /\ sent' = sent /\ pc' = pc
        /\ tail + n <= head /\ head <= tail + Cap /\ (pc = "store" => head + m <= tail + Cap)
    BY <1>0, <1>14 DEF First, CopyOut, pvars, TypeOK, Counters, Calls
  <2>2. ASSUME NEW x \in tail + n .. head - 1 PROVE buffer'[Idx(x)] <= sent
    <3>1. x \in tail + n .. tail + Cap - 1 /\ x \in First .. head - 1
      BY <1>0, <2>1
    <3> QED
      BY <1>0, <1>14, <3>1, CopyOutClears DEF Contents
  <2>3. ASSUME NEW x \in DOMAIN got' PROVE got'[x] <= sent
    <3>1. x \in 1 .. Len(got) + n
      BY <1>14, CopyOutGives
    <3>2. CASE x <= Len(got)
      <4>1. got'[x] = got[x] /\ x \in DOMAIN got
        BY <1>0, <1>14, <3>1, <3>2, CopyOutGives
      <4> QED
        BY <1>0, <4>1 DEF Contents
    <3>3. CASE x > Len(got)
      <4> DEFINE y == tail + (x - Len(got)) - 1
      <4>1. y \in First .. head - 1
        BY <1>0, <2>1, <3>1, <3>3
      <4>2. got'[x] = buffer[Idx(y)]
        <5>1. x \in Len(got) + 1 .. Len(got) + n
          BY <1>0, <3>1, <3>3
        <5> QED
          BY <1>14, <5>1, CopyOutGives
      <4> QED
        BY <1>0, <4>1, <4>2 DEF Contents
    <3> QED
      BY <1>0, <3>1, <3>2, <3>3
  <2>4. ASSUME pc = "store", NEW x \in head .. head + m - 1
        PROVE  buffer'[Idx(x)] = sent + 1 + x - head
    <3>1. x \in tail + n .. tail + Cap - 1
      BY <1>0, <2>1, <2>4
    <3> QED
      BY <1>0, <1>14, <2>4, <3>1, CopyOutClears DEF Contents
  <2> QED
    BY <2>1, <2>2, <2>3, <2>4 DEF Contents
<1>15. CASE StoreTail
  BY <1>0, <1>15 DEF Contents, First, StoreTail, pvars
<1>16. CASE UNCHANGED vars
  BY <1>0, <1>16 DEF Contents, First, vars
<1> QED
  BY <1>1, <1>2, <1>3, <1>4, <1>5, <1>6, <1>7, <1>8, <1>9, <1>10, <1>11, <1>12, <1>13, <1>14, <1>15, <1>16
  DEF Next, ProducerStep, ConsumerStep, Enqueues, Dequeues, Finished

\* The inductive invariant holds in every reachable state of the queue.
THEOREM InvariantHolds == Spec => []IInv
<1>1. IInv /\ [Next]_vars => IInv'
  BY TypeStep, CountersStep, ContentsStep DEF IInv
<1> QED
  BY InitInv, <1>1, PTL DEF Spec

\* The cached counters lag behind the real ones and the copies stay inside what they
\* allow, so the copy into the ring and the copy out of it never meet in a slot.
THEOREM SidesDisjoint == Spec => []NoOverlap
<1>1. IInv => NoOverlap
  <2> SUFFICES ASSUME IInv PROVE NoOverlap
    OBVIOUS
  <2>1. /\ tailCache <= tail /\ headCache <= head /\ tail <= head /\ head <= tail + Cap
        /\ pc \in {"copy", "store"} => head + m <= tailCache + Cap
        /\ cpc \in {"copy", "store"} => tail + n <= headCache
    BY CapAssumption DEF IInv, TypeOK, Counters, Calls
  <2>2. ASSUME pc = "copy", cpc = "copy", NEW x \in head .. head + m - 1, NEW y \in tail .. tail + n - 1
        PROVE  Idx(x) # Idx(y)
    <3>1. tail \in Nat /\ x \in tail .. tail + Cap - 1 /\ y \in tail .. tail + Cap - 1 /\ x # y
      BY <2>1, <2>2, CapAssumption DEF IInv, TypeOK
    <3> QED
      BY <3>1, IdxInjective
  <2> QED
    BY <2>1, <2>2 DEF NoOverlap
<1> QED
  BY <1>1, InvariantHolds, PTL

-----------------------------------------------------------------------------
(* The refinement.                                                          *)

\* What a part of a sequence of numbers is.
LEMMA PartIs ==
  ASSUME NEW s \in Seq(Nat), NEW a \in Nat \ {0}, NEW b \in 0 .. Len(s), a <= b + 1,
         NEW t \in Seq(Nat), Len(t) = b - a + 1, \A x \in 1 .. b - a + 1 : t[x] = s[a + x - 1]
  PROVE  SubSeq(s, a, b) = t
<1> DEFINE r == SubSeq(s, a, b)
<1>1. Len(s) \in Nat /\ b \in Nat /\ \A x \in a .. b : s[x] \in Nat
  <2>1. Len(s) \in Nat
    BY LenProperties
  <2>2. ASSUME NEW x \in a .. b PROVE s[x] \in Nat
    <3>1. x \in 1 .. Len(s)
      BY <2>1
    <3> QED
      BY <3>1, ElementOfSeq
  <2> QED
    BY <2>1, <2>2
<1>2. /\ r \in Seq(Nat) /\ Len(r) = IF a <= b THEN b - a + 1 ELSE 0
      /\ \A x \in 1 .. b - a + 1 : r[x] = s[a + x - 1]
  BY <1>1, SubSeqProperties
<1> HIDE DEF r
<1>3. Len(r) = b - a + 1
  BY <1>1, <1>2
<1>4. r = t
  BY <1>2, <1>3, SeqEqual
<1> QED
  BY <1>4 DEF r

\* The ring as a sequence: the published positions that have not been copied out.
RingShape ==
  /\ First \in Nat /\ First <= head /\ head <= First + Cap
  /\ Ring \in Seq(Nat) /\ Len(Ring) = head - First
  /\ \A x \in 1 .. head - First : Ring[x] = buffer[Idx(First + x - 1)]

\* It is no longer than the capacity.
LEMMA RingIs == IInv => RingShape
<1> SUFFICES ASSUME IInv PROVE RingShape
  OBVIOUS
<1>1. /\ First \in Nat /\ head \in Nat /\ First <= head /\ head <= First + Cap
      /\ tail \in Nat /\ n \in Nat
  BY CapAssumption DEF IInv, TypeOK, Counters, Calls, First
<1>2. Ring = [x \in 1 .. head - First |-> buffer[Idx(First + x - 1)]]
  BY DEF Ring, First
<1>3. ASSUME NEW x \in 1 .. head - First PROVE buffer[Idx(First + x - 1)] \in Nat
  <2>1. Idx(First + x - 1) \in Slots
    BY <1>1, IdxType
  <2> QED
    BY <2>1 DEF IInv, TypeOK
<1>4. head - First \in Nat
  BY <1>1
<1>5. Ring \in Seq(Nat) /\ Len(Ring) = head - First
  BY <1>2, <1>3, <1>4
<1> QED
  BY <1>1, <1>2, <1>5 DEF RingShape

\* The same of the state after a step.
LEMMA RingIsNext == IInv' => RingShape'
  BY RingIs, PTL

\* What the abstract queue calls the newest element was offered before the call
\* under way.
LEMMA NewestOffered ==
  ASSUME IInv PROVE Abstract!Newest <= sent
<1>1. CASE Ring # <<>>
  <2>1. Len(Ring) \in 1 .. head - First
    BY <1>1, RingIs DEF RingShape
  <2>2. First + Len(Ring) - 1 \in First .. head - 1
    BY <2>1, RingIs DEF RingShape, IInv, TypeOK
  <2>3. Ring[Len(Ring)] = buffer[Idx(First + Len(Ring) - 1)]
    BY <2>1, RingIs DEF RingShape
  <2> QED
    BY <1>1, <2>2, <2>3 DEF Abstract!Newest, IInv, Contents
<1>2. CASE Ring = <<>> /\ got # <<>>
  <2>1. got \in Seq(Nat) /\ Len(got) \in DOMAIN got
    BY <1>2 DEF IInv, TypeOK
  <2> QED
    BY <1>2, <2>1 DEF Abstract!Newest, IInv, Contents
<1>3. CASE Ring = <<>> /\ got = <<>>
  BY <1>3 DEF Abstract!Newest, IInv, TypeOK
<1> QED
  BY <1>1, <1>2, <1>3

\* Publishing head is one Put of the whole batch.
LEMMA StoreHeadPuts ==
  ASSUME IInv, IInv', StoreHead PROVE Abstract!Put
<1>1. /\ First' = First /\ head' = head + m /\ buffer' = buffer /\ m >= 1 /\ pc = "store"
      /\ UNCHANGED <<got, closed, TryLooked, ended>>
  BY DEF StoreHead, First, TryLooked, cvars, IInv, Calls
<1>2. head \in Nat /\ m \in Nat /\ sent \in Nat
  BY DEF IInv, TypeOK
<1>3. /\ First \in Nat /\ First <= head
      /\ Ring \in Seq(Nat) /\ Len(Ring) = head - First
      /\ \A x \in 1 .. head - First : Ring[x] = buffer[Idx(First + x - 1)]
  BY RingIs DEF RingShape
<1>4. /\ Ring' \in Seq(Nat) /\ Len(Ring') = head + m - First /\ head + m <= First + Cap
      /\ \A x \in 1 .. head + m - First : Ring'[x] = buffer[Idx(First + x - 1)]
  <2>1. IInv'
    OBVIOUS
  <2>2. /\ Ring' \in Seq(Nat) /\ Len(Ring') = head' - First' /\ head' <= First' + Cap
        /\ \A x \in 1 .. head' - First' : Ring'[x] = buffer'[Idx(First' + x - 1)]
    BY <2>1, RingIsNext DEF RingShape
  <2>3. head' - First' = head + m - First /\ buffer' = buffer
    BY <1>1, <1>2, <1>3
  <2>4. Len(Ring') = head + m - First
    BY <2>2, <2>3
  <2>5. \A x \in 1 .. head + m - First : Ring'[x] = buffer[Idx(First + x - 1)]
    BY <1>1, <2>2, <2>3
  <2> QED
    BY <1>1, <2>2, <2>4, <2>5
<1>5. Len(Ring') > Len(Ring) /\ WithinCap(Len(Ring'))
  BY <1>1, <1>2, <1>3, <1>4, CapAssumption DEF WithinCap
<1>6. SubSeq(Ring', 1, Len(Ring)) = Ring
  <2>1. Len(Ring) \in 0 .. Len(Ring') /\ 1 <= Len(Ring) + 1 /\ Len(Ring) = Len(Ring) - 1 + 1
    BY <1>2, <1>3, <1>4, <1>5
  <2>2. \A x \in 1 .. Len(Ring) - 1 + 1 : Ring[x] = Ring'[1 + x - 1]
    BY <1>2, <1>3, <1>4, <1>5
  <2> QED
    BY <1>3, <1>4, <2>1, <2>2, PartIs
<1>7. \A x \in Len(Ring) + 1 .. Len(Ring') : Ring'[x] = sent + (x - Len(Ring))
  <2> SUFFICES ASSUME NEW x \in Len(Ring) + 1 .. Len(Ring') PROVE Ring'[x] = sent + (x - Len(Ring))
    OBVIOUS
  <2>1. First + x - 1 \in head .. head + m - 1 /\ x \in 1 .. head + m - First
    BY <1>2, <1>3, <1>4
  <2>2. buffer[Idx(First + x - 1)] = sent + 1 + (First + x - 1) - head
    BY <1>1, <2>1 DEF IInv, Contents
  <2> QED
    BY <1>2, <1>3, <1>4, <2>1, <2>2
<1>8. Ring'[Len(Ring) + 1] > Abstract!Newest
  <2>1. Ring'[Len(Ring) + 1] = sent + 1
    BY <1>2, <1>3, <1>4, <1>5, <1>7
  <2>2. Abstract!Newest \in Nat
    <3>1. Ring # <<>> => Ring[Len(Ring)] \in Nat
      BY <1>3
    <3>2. got # <<>> => got[Len(got)] \in Nat
      BY DEF IInv, TypeOK
    <3> QED
      BY <3>1, <3>2 DEF Abstract!Newest
  <2> QED
    BY <1>2, <2>1, <2>2, NewestOffered
<1>9. \A x \in Len(Ring) + 1 .. Len(Ring') - 1 : Ring'[x + 1] = Ring'[x] + 1
  BY <1>2, <1>3, <1>4, <1>7
<1> QED
  BY <1>1, <1>5, <1>6, <1>8, <1>9 DEF Abstract!Put

\* Copying out is one Take of the whole batch.
LEMMA CopyOutTakes ==
  ASSUME IInv, IInv', CopyOut PROVE Abstract!Take
<1>1. /\ First = tail /\ First' = tail + n /\ head' = head /\ n >= 1 /\ tail + n <= head
      /\ ended = "none" /\ ~TryLooked /\ UNCHANGED <<closed, TryLooked, ended>>
  BY DEF CopyOut, TryLooked, First, pvars, IInv, TypeOK, Counters, Calls, Ends
<1>2. head \in Nat /\ tail \in Nat /\ n \in Nat /\ Cap \in Nat /\ got \in Seq(Nat)
  BY CapAssumption DEF IInv, TypeOK
<1>3. /\ head <= tail + Cap
      /\ Ring \in Seq(Nat) /\ Len(Ring) = head - tail
      /\ \A x \in 1 .. head - tail : Ring[x] = buffer[Idx(tail + x - 1)]
  BY <1>1, RingIs DEF RingShape
<1>4. /\ Ring' \in Seq(Nat) /\ Len(Ring') = head - (tail + n)
      /\ \A x \in 1 .. head - (tail + n) : Ring'[x] = buffer[Idx(tail + n + x - 1)]
  <2>1. /\ Ring' \in Seq(Nat) /\ Len(Ring') = head' - First'
        /\ \A x \in 1 .. head' - First' : Ring'[x] = buffer'[Idx(First' + x - 1)]
    BY RingIsNext DEF RingShape
  <2>2. head' - First' = head - (tail + n)
    BY <1>1, <1>2
  <2>3. ASSUME NEW x \in 1 .. head - (tail + n)
        PROVE  Ring'[x] = buffer[Idx(tail + n + x - 1)]
    <3>1. tail + n + x - 1 \in tail + n .. tail + Cap - 1
      BY <1>1, <1>2, <1>3
    <3>2. buffer'[Idx(tail + n + x - 1)] = buffer[Idx(tail + n + x - 1)]
      BY <3>1, CopyOutClears
    <3>3. Ring'[x] = buffer'[Idx(tail + n + x - 1)]
      BY <1>1, <2>1, <2>2
    <3> QED
      BY <3>2, <3>3
  <2> QED
    BY <2>1, <2>2, <2>3
<1>5. n \in 1 .. Len(Ring)
  BY <1>1, <1>2, <1>3
<1>6. got' = got \o SubSeq(Ring, 1, n)
  <2> DEFINE part == [x \in 1 .. n |-> buffer[Idx(tail + x - 1)]]
  <2>a. ASSUME NEW x \in 1 .. n
        PROVE  buffer[Idx(tail + x - 1)] = Ring[x] /\ buffer[Idx(tail + x - 1)] \in Nat
    <3>1. x \in 1 .. Len(Ring) /\ x \in 1 .. head - tail
      BY <1>2, <1>3, <1>5
    <3>2. Ring[x] \in Nat
      BY <1>3, <3>1, ElementOfSeq
    <3> QED
      BY <1>3, <3>1, <3>2
  <2>1. \A x \in 1 .. n : part[x] = Ring[x]
    BY <2>a
  <2>2. part \in Seq(Nat) /\ Len(part) = n
    <3>1. \A x \in 1 .. n : buffer[Idx(tail + x - 1)] \in Nat
      BY <2>a
    <3> QED
      BY <1>2, <3>1
  <2>3. got' = got \o part
    BY DEF CopyOut
  <2> HIDE DEF part
  <2>4. SubSeq(Ring, 1, n) = part
    <3>1. n \in 0 .. Len(Ring) /\ 1 <= n + 1 /\ Len(part) = n - 1 + 1
      BY <1>2, <1>3, <1>5, <2>2
    <3>2. \A x \in 1 .. n - 1 + 1 : part[x] = Ring[1 + x - 1]
      BY <1>2, <2>1
    <3> QED
      BY <1>3, <2>2, <3>1, <3>2, PartIs
  <2> QED
    BY <2>3, <2>4
<1>7. Ring' = SubSeq(Ring, n + 1, Len(Ring))
  <2>1. /\ n + 1 \in Nat \ {0} /\ Len(Ring) \in 0 .. Len(Ring) /\ n + 1 <= Len(Ring) + 1
        /\ Len(Ring') = Len(Ring) - (n + 1) + 1
    BY <1>1, <1>2, <1>3, <1>4
  <2>2. ASSUME NEW x \in 1 .. Len(Ring) - (n + 1) + 1 PROVE Ring'[x] = Ring[n + 1 + x - 1]
    <3>1. x \in 1 .. head - (tail + n) /\ n + 1 + x - 1 \in 1 .. head - tail
      BY <1>1, <1>2, <1>3
    <3>2. tail + (n + 1 + x - 1) - 1 = tail + n + x - 1
      BY <1>2, <3>1
    <3> QED
      BY <1>3, <1>4, <3>1, <3>2
  <2> QED
    BY <1>3, <1>4, <2>1, <2>2, PartIs
<1> QED
  BY <1>1, <1>5, <1>6, <1>7 DEF Abstract!Take

\* Filling the free slots changes nothing the consumer can see.
LEMMA CopyInInvisible ==
  ASSUME IInv, IInv', CopyIn PROVE UNCHANGED <<Ring, got, closed, TryLooked, ended>>
<1>1. First' = First /\ head' = head /\ UNCHANGED <<got, closed, TryLooked, ended>>
  BY DEF CopyIn, First, TryLooked, cvars
<1>2. head \in Nat /\ First \in Nat
  BY RingIs DEF RingShape, IInv, TypeOK
<1>3. /\ Ring \in Seq(Nat) /\ Len(Ring) = head - First
      /\ \A x \in 1 .. head - First : Ring[x] = buffer[Idx(First + x - 1)]
  BY RingIs DEF RingShape
<1>4. /\ Ring' \in Seq(Nat) /\ Len(Ring') = head - First
      /\ \A x \in 1 .. head - First : Ring'[x] = buffer'[Idx(First + x - 1)]
  BY <1>1, RingIsNext DEF RingShape
<1>5. ASSUME NEW x \in 1 .. head - First PROVE Ring'[x] = Ring[x]
  <2>1. First + x - 1 \in First .. head - 1
    BY <1>2
  <2>2. buffer'[Idx(First + x - 1)] = buffer[Idx(First + x - 1)]
    BY <2>1, CopyInWrites
  <2> QED
    BY <1>3, <1>4, <2>2
<1>6. Ring' = Ring
  BY <1>3, <1>4, <1>5, SeqEqual
<1> QED
  BY <1>1, <1>6

\* Every step of the ring is a step of the bounded FIFO queue or leaves it alone.
LEMMA StepImplements ==
  IInv /\ IInv' /\ [Next]_vars => [Abstract!Next]_<<Ring, got, closed, TryLooked, ended>>
<1> SUFFICES ASSUME IInv, IInv', [Next]_vars
             PROVE  Abstract!Next \/ UNCHANGED <<Ring, got, closed, TryLooked, ended>>
  OBVIOUS
<1>1. ASSUME NEW c \in 1 .. MaxBatch, NEW t \in BOOLEAN, EnqueueBatch(c, t)
      PROVE  UNCHANGED <<Ring, got, closed, TryLooked, ended>>
  BY <1>1 DEF EnqueueBatch, Ring, TryLooked, cvars
<1>2. CASE LoadTail \/ SpinClosed \/ SpinTail
  BY <1>2 DEF LoadTail, SpinClosed, SpinTail, Ring, TryLooked, cvars
<1>3. CASE CopyIn
  BY <1>3, CopyInInvisible
<1>4. CASE StoreHead
  BY <1>4, StoreHeadPuts DEF Abstract!Next
<1>5. CASE Close
  <2>1. Abstract!Close
    BY <1>5 DEF Close, Abstract!Close, Ring, TryLooked, pvars, cvars
  <2> QED
    BY <2>1 DEF Abstract!Next
<1>6. ASSUME NEW c \in 1 .. MaxBatch, NEW t \in BOOLEAN, DequeueBatch(c, t)
      PROVE  UNCHANGED <<Ring, got, closed, TryLooked, ended>>
  BY <1>6 DEF DequeueBatch, Ring, TryLooked, pvars
<1>7. CASE LoadHead \/ SpinHead \/ SpinSeesClosed
  <2>1. UNCHANGED <<Ring, got, closed, ended>>
    BY <1>7 DEF LoadHead, SpinHead, SpinSeesClosed, Available, Ring, pvars
  <2>2. CASE TryLooked'
    <3>1. LoadHead /\ head <= tail
      BY <1>7, <2>2 DEF TryLooked, LoadHead, SpinHead, SpinSeesClosed, Available, IInv, TypeOK
    <3>2. Ring = <<>>
      BY <3>1 DEF LoadHead, Ring, IInv, TypeOK
    <3>3. Abstract!Look
      BY <2>1, <2>2, <3>1, <3>2 DEF LoadHead, Abstract!Look, IInv, Ends
    <3> QED
      BY <3>3 DEF Abstract!Next
  <2>3. CASE ~TryLooked'
    BY <1>7, <2>1, <2>3 DEF TryLooked, LoadHead, SpinHead, SpinSeesClosed
  <2> QED
    BY <2>2, <2>3
<1>8. CASE TryClosed
  <2>1. Abstract!TryReturns
    BY <1>8 DEF TryClosed, Abstract!TryReturns, TryLooked, Ring, pvars
  <2> QED
    BY <2>1 DEF Abstract!Next
<1>9. CASE LastLook
  <2>1. UNCHANGED <<Ring, got, closed, TryLooked>>
    BY <1>9 DEF LastLook, Ring, TryLooked, pvars
  <2>2. CASE head <= tail
    <3>1. Ring = <<>>
      BY <1>9, <2>2 DEF LastLook, Ring, IInv, TypeOK
    <3>2. Abstract!End
      BY <1>9, <2>1, <2>2, <3>1 DEF LastLook, Abstract!End, IInv, Ends
    <3> QED
      BY <3>2 DEF Abstract!Next
  <2>3. CASE ~(head <= tail)
    BY <1>9, <2>1, <2>3 DEF LastLook
  <2> QED
    BY <2>2, <2>3
<1>10. CASE CopyOut
  BY <1>10, CopyOutTakes DEF Abstract!Next
<1>11. CASE StoreTail
  BY <1>11 DEF StoreTail, Ring, TryLooked, pvars
<1>12. CASE UNCHANGED vars
  BY <1>12 DEF vars, Ring, TryLooked
<1> QED
  BY <1>1, <1>2, <1>3, <1>4, <1>5, <1>6, <1>7, <1>8, <1>9, <1>10, <1>11, <1>12
  DEF Next, ProducerStep, ConsumerStep, Enqueues, Dequeues, Finished

\* The ring with its cached counters, its copies in two parts and its separate
\* publication is the bounded FIFO queue: batches enter and leave whole, in order,
\* each once; a blocking DequeueBatch reports the end only of an empty queue, a
\* TryDequeueBatch only of one it found empty before it found it closed.
THEOREM RingImplementsFIFO == Spec => ImplementsFIFO
<1>1. Init => Abstract!Init
  BY DEF Init, Abstract!Init, Ring, TryLooked
<1> QED
  BY <1>1, InvariantHolds, StepImplements, PTL DEF Spec, ImplementsFIFO, Abstract!Spec, Abstract!vars
=============================================================================
