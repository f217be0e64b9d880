-------------------------- MODULE MPSCQueueProofs --------------------------
(***************************************************************************)
(* Proofs about MPSCQueue for every set of producers, every bound and every *)
(* capacity of at least 2 (a ring of one slot breaks the properties: there  *)
(* pos + 1 and pos + Cap are the same sequence value).                      *)
(***************************************************************************)
EXTENDS MPSCQueue, TLAPS

-----------------------------------------------------------------------------
(* Remainders: a window of c consecutive positions meets every slot once.   *)

\* A remainder is a slot index.
LEMMA ModRange ==
  ASSUME NEW c \in Nat \ {0}, NEW x \in Nat
  PROVE  (x % c) \in 0 .. c - 1
  OBVIOUS

\* Quotient and remainder rebuild the number.
LEMMA DivMod ==
  ASSUME NEW c \in Nat \ {0}, NEW x \in Nat
  PROVE  x \div c \in Nat /\ x = c * (x \div c) + (x % c)
  OBVIOUS

\* The remainder of a multiple of c plus a slot index is that index.
LEMMA ModUnique ==
  ASSUME NEW c \in Nat \ {0}, NEW q \in Int, NEW r \in 0 .. c - 1
  PROVE  (c * q + r) % c = r
  OBVIOUS

\* A positive multiple of c is at least c.
LEMMA MulAtLeast ==
  ASSUME NEW c \in Nat, NEW a \in Int, a >= 1
  PROVE  c * a >= c
  OBVIOUS

\* Moving by whole laps keeps the slot.
LEMMA ModShift ==
  ASSUME NEW c \in Nat \ {0}, NEW x \in Nat, NEW q \in Nat
  PROVE  (x + c * q) % c = (x % c)
<1> DEFINE d == x \div c
           r == x % c
<1>1. d \in Int /\ r \in 0 .. c - 1 /\ x = c * d + r
  BY DivMod, ModRange
<1> HIDE DEF d, r
<1>2. x + c * q = c * (d + q) + r
  BY <1>1
<1>3. (c * (d + q) + r) % c = r
  BY <1>1, ModUnique
<1> QED
  BY <1>2, <1>3 DEF r

\* Two positions less than a lap apart have different slots.
LEMMA ModInjective ==
  ASSUME NEW c \in Nat \ {0}, NEW x \in Nat, NEW y \in Nat, x < y, y < x + c
  PROVE  (x % c) # (y % c)
<1> SUFFICES ASSUME (x % c) = (y % c) PROVE FALSE
  OBVIOUS
<1> DEFINE a == x \div c
           b == y \div c
           r == x % c
<1>1. a \in Int /\ b \in Int /\ r \in Int
  BY DivMod, ModRange
<1>2. x = c * a + r /\ y = c * b + r
  BY DivMod
<1> HIDE DEF a, b, r
<1>3. y - x = c * (b - a)
  BY <1>1, <1>2
<1>4. b - a >= 1
  BY <1>1, <1>3
<1>5. c * (b - a) >= c
  BY <1>1, <1>4, MulAtLeast
<1> QED
  BY <1>3, <1>5

\* A position beyond the window of c positions from r shares its slot with a
\* position of the window at least one lap earlier.
LEMMA ModWindow ==
  ASSUME NEW c \in Nat \ {0}, NEW r \in Nat, NEW x \in Nat, x >= r + c
  PROVE  \E y \in r .. r + c - 1 : (y % c) = (x % c) /\ y <= x - c
<1> DEFINE e == x - r
           m == e % c
           q == e \div c
           y == r + m
<1>1. e \in Nat
  OBVIOUS
<1>2. m \in 0 .. c - 1 /\ q \in Nat /\ e = c * q + m
  BY <1>1, DivMod, ModRange
<1>3. y \in r .. r + c - 1 /\ y \in Nat
  BY <1>2
<1>4. (y + c * q) % c = (y % c)
  BY <1>2, <1>3, ModShift
<1>5. e = x - r
  OBVIOUS
<1> HIDE DEF m, q, e
<1>6. y + c * q = x
  BY <1>1, <1>2, <1>5
<1>7. q >= 1
  BY <1>1, <1>2, <1>5
<1>8. c * q >= c
  BY <1>2, <1>7, MulAtLeast
<1>9. y <= x - c
  BY <1>2, <1>3, <1>6, <1>8
<1> QED
  BY <1>3, <1>4, <1>6, <1>9

-----------------------------------------------------------------------------
(* Slots and positions.                                                     *)

\* The slot index of a position.
LEMMA IdxType == ASSUME NEW x \in Nat PROVE Idx(x) \in Slots
  BY ModRange, CapAssumption DEF Idx, Slots

\* Positions of one window of Cap positions have different slots.
LEMMA IdxInjective ==
  ASSUME NEW r \in Nat, NEW x \in r .. r + Cap - 1, NEW y \in r .. r + Cap - 1, x # y
  PROVE  Idx(x) # Idx(y)
<1>1. x \in Nat /\ y \in Nat /\ x < y + Cap /\ y < x + Cap /\ (x < y \/ y < x)
  BY CapAssumption
<1>2. (x % Cap) # (y % Cap)
  BY <1>1, ModInjective, CapAssumption
<1> QED
  BY <1>2 DEF Idx

\* One lap later the slot is the same.
LEMMA IdxLap == ASSUME NEW x \in Nat PROVE Idx(x + Cap) = Idx(x)
<1>1. (x + Cap * 1) % Cap = (x % Cap)
  BY ModShift, CapAssumption
<1> QED
  BY <1>1, CapAssumption DEF Idx

\* Beyond the window, the slot is that of an earlier position of the window.
LEMMA IdxWindow ==
  ASSUME NEW r \in Nat, NEW x \in Nat, x >= r + Cap
  PROVE  \E y \in r .. r + Cap - 1 : Idx(y) = Idx(x) /\ y <= x - Cap
  BY ModWindow, CapAssumption DEF Idx

\* What a sequence in the ring says of a position that may lie beyond the window:
\* a value not below the position means that the position is in the window.
LEMMA SeqTells ==
  ASSUME Cap >= 2, IInv, NEW x \in Nat, seq[Idx(x)] >= x, x >= Unreleased
  PROVE  x < Unreleased + Cap
<1> DEFINE r == Unreleased
<1>1. r \in Nat
  BY DEF IInv, Positions
<1> HIDE DEF r
<1> SUFFICES ASSUME x >= r + Cap PROVE FALSE
  BY <1>1, CapAssumption DEF r
<1>2. PICK y \in r .. r + Cap - 1 : Idx(y) = Idx(x) /\ y <= x - Cap
  BY <1>1, IdxWindow
<1>3. seq[Idx(y)] = y \/ seq[Idx(y)] = y + 1
  BY DEF IInv, SeqInv, r
<1> QED
  BY <1>1, <1>2, <1>3, CapAssumption

WritingSteps == {"write", "publish"}

\* p moves outside of a claim: what it shares with the others does not change.
Local(p) ==
  /\ pc[p] \notin WritingSteps
  /\ pc' = [pc EXCEPT ![p] = pc'[p]]
  /\ pc'[p] \notin WritingSteps
  /\ \A q \in Producers : q # p =>
       h'[q] = h[q] /\ n'[q] = n[q] /\ i'[q] = i[q] /\ k'[q] = k[q] /\ base'[q] = base[q]
       /\ len'[q] = len[q]
  /\ UNCHANGED <<head, tail, seq, data, cvars, order>>

\* A step outside of a claim preserves all of the invariant but the types and
\* what it says of p itself.
LEMMA LocalStep ==
  ASSUME IInv, NEW p \in Producers, Local(p), TypeOK'
  PROVE  /\ Positions' /\ SeqInv' /\ DisjointClaims' /\ DataInv' /\ GotInv'
         /\ \A x : Published(x)' <=> Published(x)
         /\ Unreleased' = Unreleased
<1>1. \A q \in Producers : q # p => pc'[q] = pc[q]
  BY DEF Local, IInv, TypeOK
<1>2. \A q \in Producers : \A x : InFlight(q, x)' <=> InFlight(q, x)
  BY <1>1 DEF Local, InFlight, WritingSteps
<1>3. \A x : Published(x)' <=> Published(x)
  BY <1>2 DEF Published, Local
<1>4. Unreleased' = Unreleased
  BY DEF Unreleased, Local, cvars
<1>5. Positions'
  BY <1>3, <1>4 DEF IInv, Positions, Local, cvars
<1>6. SeqInv'
  BY <1>3, <1>4 DEF IInv, SeqInv, Local
<1>7. DisjointClaims'
  BY <1>1 DEF IInv, DisjointClaims, Local, WritingSteps
<1>8. DataInv'
  BY <1>1, <1>3 DEF IInv, DataInv, Local, cvars, WritingSteps
<1>9. GotInv'
  BY DEF IInv, GotInv, Local, cvars
<1> QED
  BY <1>3, <1>4, <1>5, <1>6, <1>7, <1>8, <1>9

\* What ProducerInv says of one producer.
ProducerOK(p) ==
  /\ pc[p] \in {"bClosed", "bHead", "bLast", "bFirst", "bCas"} => len[p] >= 1
  /\ pc[p] \in {"bLast", "bFirst", "bCas", "eSeq", "eCas", "eFull"} => n[p] >= 1 /\ h[p] <= head
  /\ pc[p] = "eSeq" => n[p] = 1
  /\ pc[p] \in {"bFirst", "bCas", "eCas"} /\ head = h[p] => h[p] + n[p] <= Unreleased + Cap
  /\ pc[p] \in {"write", "publish"} =>
       /\ i[p] < n[p] /\ ct <= h[p] + i[p] /\ h[p] + n[p] <= head
       /\ \A x \in h[p] .. h[p] + n[p] - 1 : order[x] = Item(p, k[p] + x - h[p])

\* ProducerInv, producer by producer.
LEMMA ProducerInvSplit == ProducerInv <=> \A p \in Producers : ProducerOK(p)
  BY DEF ProducerInv, ProducerOK

\* A step outside of a claim preserves the invariant if it does so for p.
LEMMA LocalPreserves ==
  ASSUME IInv, NEW p \in Producers, Local(p), TypeOK', ProducerOK(p)'
  PROVE  IInv'
<1>1. \A q \in Producers : q # p => pc'[q] = pc[q]
  BY DEF Local, IInv, TypeOK
<1>2. Unreleased' = Unreleased
  BY LocalStep
<1>3. ASSUME NEW q \in Producers, q # p PROVE ProducerOK(q)'
  BY <1>1, <1>2, <1>3 DEF IInv, ProducerInv, ProducerOK, Local, Item, cvars
<1>4. ProducerInv'
  BY <1>3 DEF ProducerInv, ProducerOK
<1> QED
  BY <1>4, LocalStep DEF IInv

-----------------------------------------------------------------------------
(* Types.                                                                   *)

\* The items of a call are items.
LEMMA ItemType ==
  ASSUME TypeOK, NEW p \in Producers, NEW j \in Nat
  PROVE  Item(p, j) \in Items
  BY DEF TypeOK, Item, Items

\* Return only names items of the calling producer.
LEMMA ReturnType ==
  ASSUME TypeOK, NEW p \in Producers, NEW r \in Nat, Return(p, r)
  PROVE  reported' \in [Producers -> SUBSET Items]
<1>1. \A j \in 0 .. r - 1 : Item(p, j) \in Items
  BY ItemType
<1> HIDE DEF Item
<1> QED
  BY <1>1 DEF TypeOK, Return

\* Every step keeps the types (Release needs the consumer's positions for it).
LEMMA TypePreserved ==
  ASSUME IInv, [Next]_vars
  PROVE  TypeOK'
<1> USE DEF IInv
<1>1. CASE UNCHANGED vars
  BY <1>1 DEF TypeOK, vars
<1>2. ASSUME NEW p \in Producers, NEW m \in 1 .. MaxBatch,
             NEW o \in {"enqueue", "batch", "try"}, Call(p, o, m)
      PROVE  TypeOK'
  <2>1. m \in Nat
    BY BoundAssumption
  <2>2. pc' \in [Producers -> PSteps]
    BY <1>2 DEF TypeOK, Call, Goto, PSteps
  <2>3. op' \in [Producers -> {"enqueue", "batch", "try"}]
    BY <1>2 DEF TypeOK, Call
  <2>4. base' \in [Producers -> Nat]
    BY <1>2 DEF TypeOK, Call
  <2>5. len' \in [Producers -> Nat] /\ k' \in [Producers -> Nat] /\ att' \in [Producers -> Nat]
    BY <2>1, <1>2 DEF TypeOK, Call
  <2> QED
    BY <2>2, <2>3, <2>4, <2>5, <1>2 DEF TypeOK, Call, qvars, cvars
<1>3. ASSUME NEW p \in Producers, ProducerStep(p) PROVE TypeOK'
  <2>1. CASE BatchClosed(p)
    <3>1. reported' \in [Producers -> SUBSET Items]
      BY <2>1, ReturnType DEF TypeOK, BatchClosed
    <3> QED
      BY <3>1, <2>1 DEF TypeOK, BatchClosed, Return, Goto, PSteps, qvars, cvars, callvars
  <2>2. CASE BatchHead(p)
    BY <2>2, <1>3 DEF TypeOK, BatchHead, Goto, PSteps, qvars, cvars, callvars
  <2>3. CASE BatchLast(p)
    BY <2>3, <1>3 DEF TypeOK, BatchLast, Goto, PSteps, qvars, cvars, callvars
  <2>4. CASE BatchFirst(p)
    <3>1. pc' \in [Producers -> PSteps]
      <4>1. \E l \in PSteps : pc' = [pc EXCEPT ![p] = l]
        <5>1. \/ pc' = [pc EXCEPT ![p] = "bClosed"]
              \/ pc' = [pc EXCEPT ![p] = "eClosed"]
              \/ pc' = [pc EXCEPT ![p] = "bCas"]
          BY <2>4 DEF BatchFirst, NextAttempt, Goto
        <5> QED
          BY <5>1 DEF PSteps
      <4> QED
        BY <4>1 DEF TypeOK
    <3>2. att' \in [Producers -> Nat]
      <4>1. att' = att \/ att' = [att EXCEPT ![p] = att[p] + 1]
        BY <2>4 DEF BatchFirst, NextAttempt
      <4>2. att[p] + 1 \in Nat
        BY DEF TypeOK
      <4> QED
        BY <4>1, <4>2 DEF TypeOK
    <3> QED
      BY <3>1, <3>2, <2>4 DEF TypeOK, BatchFirst, qvars, cvars, callvars
  <2>5. CASE BatchCas(p)
    <3>1. CASE Claim(p)
      <4>1. head' \in Nat /\ head' = head + n[p]
        BY <3>1, <1>3 DEF TypeOK, Claim
      <4>2. order' \in [0 .. head' - 1 -> Items]
        <5>1. \A x \in 0 .. head + n[p] - 1 : x >= head => Item(p, k[p] + x - head) \in Items
          BY <1>3, SMTT(30) DEF TypeOK, Item, Items
        <5> QED
          BY <5>1, <4>1, <3>1, <1>3, SMTT(30) DEF TypeOK, Claim
      <4> QED
        BY <4>1, <4>2, <3>1, <2>5, <1>3 DEF TypeOK, BatchCas, Claim, Goto, PSteps, cvars, callvars
    <3>2. CASE ~Claim(p)
      <4>1. pc' \in [Producers -> PSteps]
        BY <3>2, <2>5 DEF TypeOK, BatchCas, NextAttempt, Goto, PSteps
      <4>2. att' \in [Producers -> Nat]
        <5>1. att' = [att EXCEPT ![p] = att[p] + 1]
          BY <3>2, <2>5 DEF BatchCas, NextAttempt
        <5>2. att[p] + 1 \in Nat
          BY DEF TypeOK
        <5> QED
          BY <5>1, <5>2 DEF TypeOK
      <4> QED
        BY <4>1, <4>2, <3>2, <2>5 DEF TypeOK, BatchCas, cvars, callvars
    <3> QED
      BY <3>1, <3>2
  <2>6. CASE EnqueueClosed(p)
    BY <2>6, <1>3, ReturnType
    DEF TypeOK, EnqueueClosed, Return, Goto, PSteps, qvars, cvars, callvars
  <2>7. CASE EnqueueHead(p)
    BY <2>7, <1>3 DEF TypeOK, EnqueueHead, Goto, PSteps, qvars, cvars, callvars
  <2>8. CASE EnqueueSeq(p)
    BY <2>8, <1>3, ReturnType
    DEF TypeOK, EnqueueSeq, Return, Goto, PSteps, qvars, cvars, callvars
  <2>9. CASE EnqueueFull(p)
    BY <2>9, <1>3, ReturnType
    DEF TypeOK, EnqueueFull, Return, Goto, PSteps, qvars, cvars, callvars
  <2>10. CASE EnqueueCas(p)
    <3>1. CASE Claim(p)
      <4>1. head' \in Nat /\ head' = head + n[p]
        BY <3>1, <1>3 DEF TypeOK, Claim
      <4>2. order' \in [0 .. head' - 1 -> Items]
        <5>1. \A x \in 0 .. head + n[p] - 1 : x >= head => Item(p, k[p] + x - head) \in Items
          BY <1>3, SMTT(30) DEF TypeOK, Item, Items
        <5> QED
          BY <5>1, <4>1, <3>1, <1>3, SMTT(30) DEF TypeOK, Claim
      <4> QED
        BY <4>1, <4>2, <3>1, <2>10, <1>3 DEF TypeOK, EnqueueCas, Claim, Goto, PSteps, cvars, callvars
    <3>2. CASE ~Claim(p)
      BY <3>2, <2>10, <1>3, ReturnType
      DEF TypeOK, EnqueueCas, Return, Goto, PSteps, cvars, callvars
    <3> QED
      BY <3>1, <3>2
  <2>11. CASE WriteData(p)
    <3>1. Item(p, k[p] + i[p]) \in Items
      BY <1>3 DEF TypeOK, Item, Items
    <3> QED
      BY <3>1, <2>11, <1>3 DEF TypeOK, WriteData, Goto, PSteps, cvars, callvars
  <2>12. CASE Publish(p)
    <3>1. reported' \in [Producers -> SUBSET Items]
      BY <2>12, ReturnType DEF TypeOK, Publish
    <3>2. pc' \in [Producers -> PSteps]
      BY <2>12 DEF TypeOK, Publish, Return, Goto, PSteps
    <3>3. seq' \in [Slots -> Nat]
      <4>1. h[p] + i[p] + 1 \in Nat
        BY DEF TypeOK
      <4>2. seq' = [seq EXCEPT ![Idx(h[p] + i[p])] = h[p] + i[p] + 1]
        BY <2>12 DEF Publish
      <4> QED
        BY <4>1, <4>2 DEF TypeOK
    <3>4. k' \in [Producers -> Nat] /\ i' \in [Producers -> Nat]
      <4>1. i' = [i EXCEPT ![p] = i[p] + 1] /\ (k' = k \/ k' = [k EXCEPT ![p] = k[p] + n[p]])
        BY <2>12 DEF Publish
      <4>2. i[p] + 1 \in Nat /\ k[p] + n[p] \in Nat
        BY DEF TypeOK
      <4> QED
        BY <4>1, <4>2 DEF TypeOK
    <3> QED
      BY <3>1, <3>2, <3>3, <3>4, <2>12 DEF TypeOK, Publish, cvars, callvars
  <2> QED
    BY <2>1, <2>2, <2>3, <2>4, <2>5, <2>6, <2>7, <2>8, <2>9, <2>10, <2>11, <2>12, <1>3
    DEF ProducerStep
<1>4. ASSUME NEW m \in 1 .. MaxBatch, Dequeue(m) PROVE TypeOK'
  BY <1>4, BoundAssumption DEF TypeOK, Dequeue, qvars, pvars
<1>5. CASE ReadSeq
  BY <1>5 DEF TypeOK, ReadSeq, qvars, pvars
<1>6. CASE ReadData
  <2>1. data[Idx(ct)] \in Items \cup {None}
    BY IdxType DEF TypeOK
  <2>2. got' \in Seq(Items \cup {None})
    BY <2>1, <1>6 DEF TypeOK, ReadData
  <2>3. data' \in [Slots -> Items \cup {None}]
    BY <1>6 DEF TypeOK, ReadData
  <2> QED
    BY <2>2, <2>3, <1>6 DEF TypeOK, ReadData, pvars
<1>7. CASE StoreTail
  BY <1>7 DEF TypeOK, StoreTail, pvars
<1>8. CASE Release
  <2>1. ct - cnt + cr + Cap \in Nat
    BY <1>8, CapAssumption DEF TypeOK, Release, Positions
  <2>2. seq' \in [Slots -> Nat]
    BY <2>1, <1>8 DEF TypeOK, Release
  <2> QED
    BY <2>2, <1>8 DEF TypeOK, Release, pvars
<1>9. CASE Close
  BY <1>9 DEF TypeOK, Close, qvars, pvars, cvars
<1> QED
  BY <1>1, <1>2, <1>3, <1>4, <1>5, <1>6, <1>7, <1>8, <1>9 DEF Next, Calls, ConsumerStep

-----------------------------------------------------------------------------
(* Steps of a producer outside of a claim.                                  *)

\* Going to a step that is not part of a claim.
LEMMA GotoIs ==
  ASSUME TypeOK, NEW p \in Producers, NEW l, Goto(p, l)
  PROVE  pc' = [pc EXCEPT ![p] = pc'[p]] /\ pc'[p] = l
  BY DEF Goto, TypeOK

\* A call only sets up the local state of its producer.
LEMMA CallPreserves ==
  ASSUME IInv, TypeOK', NEW p \in Producers, NEW m \in 1 .. MaxBatch,
         NEW o \in {"enqueue", "batch", "try"}, Call(p, o, m)
  PROVE  IInv'
<1>1. pc' = [pc EXCEPT ![p] = pc'[p]] /\ pc'[p] \in {"bClosed", "eClosed"}
  BY GotoIs DEF Call, IInv
<1>2. Local(p)
  BY <1>1 DEF Local, Call, WritingSteps, qvars, IInv, TypeOK
<1>3. len'[p] = m /\ m >= 1
  BY BoundAssumption DEF Call, IInv, TypeOK
<1>4. ProducerOK(p)'
  BY <1>1, <1>3 DEF ProducerOK
<1> QED
  BY <1>2, <1>4, LocalPreserves

\* The closed check of the fast path.
LEMMA BatchClosedPreserves ==
  ASSUME IInv, TypeOK', NEW p \in Producers, BatchClosed(p)
  PROVE  IInv'
<1>1. pc' = [pc EXCEPT ![p] = pc'[p]] /\ pc'[p] \in {"bHead", "idle"}
  BY GotoIs DEF BatchClosed, Return, IInv
<1>2. Local(p)
  BY <1>1 DEF Local, BatchClosed, WritingSteps, qvars, callvars
<1>3. ProducerOK(p)'
  BY <1>1 DEF ProducerOK, BatchClosed, callvars, IInv, ProducerInv
<1> QED
  BY <1>2, <1>3, LocalPreserves

\* Reading head: the position held is not ahead of the queue.
LEMMA BatchHeadPreserves ==
  ASSUME IInv, TypeOK', NEW p \in Producers, BatchHead(p)
  PROVE  IInv'
<1>1. pc' = [pc EXCEPT ![p] = pc'[p]] /\ pc'[p] = "bLast"
  BY GotoIs DEF BatchHead, IInv
<1>2. Local(p)
  BY <1>1 DEF Local, BatchHead, WritingSteps, qvars, callvars, IInv, TypeOK
<1>3. len[p] >= 1
  BY DEF IInv, ProducerInv, BatchHead
<1>4. n'[p] = len[p] /\ h'[p] = head /\ head' = head /\ len' = len
  BY DEF BatchHead, qvars, callvars, IInv, TypeOK
<1>5. head \in Nat
  BY DEF IInv, TypeOK
<1>6. ProducerOK(p)'
  BY <1>1, <1>3, <1>4, <1>5 DEF ProducerOK
<1> QED
  BY <1>2, <1>6, LocalPreserves

\* The check of the last slot: when the queue has not moved, the whole claim
\* fits the window of positions whose slots are free or in use by this lap.
LEMMA BatchLastPreserves ==
  ASSUME Cap >= 2, IInv, TypeOK', NEW p \in Producers, BatchLast(p)
  PROVE  IInv'
<1>1. pc' = [pc EXCEPT ![p] = pc'[p]] /\ pc'[p] \in {"eClosed", "bFirst"}
  BY GotoIs DEF BatchLast, IInv
<1>2. Local(p)
  BY <1>1 DEF Local, BatchLast, WritingSteps, qvars, callvars
<1>3. n[p] >= 1 /\ h[p] <= head /\ len[p] >= 1
  BY DEF IInv, ProducerInv, BatchLast
<1>4. n' = n /\ h' = h /\ head' = head /\ len' = len
  BY DEF BatchLast, qvars, callvars
<1>5. Unreleased' = Unreleased
  BY <1>2, LocalStep
<1>6. ASSUME pc'[p] = "bFirst", head = h[p] PROVE h[p] + n[p] <= Unreleased + Cap
  <2> DEFINE last == h[p] + n[p] - 1
  <2>0. h[p] \in Nat /\ n[p] \in Nat
    BY DEF IInv, TypeOK
  <2>1. last \in Nat /\ h[p] \in Nat /\ n[p] \in Nat
    BY <2>0, <1>3
  <2>2. ~(seq[Idx(last)] - last < 0)
    BY <1>6, <1>1, GotoIs DEF BatchLast, IInv
  <2>3. seq[Idx(last)] \in Nat
    BY <2>1, IdxType DEF IInv, TypeOK
  <2>4. Unreleased \in Nat /\ Unreleased <= h[p]
    BY <1>6, <2>1 DEF IInv, Positions, TypeOK
  <2> HIDE DEF last
  <2>5. seq[Idx(last)] >= last
    BY <2>1, <2>2, <2>3
  <2>6. last >= Unreleased
    BY <2>1, <2>4, <1>3 DEF last
  <2>7. last < Unreleased + Cap
    BY <2>1, <2>5, <2>6, SeqTells
  <2> QED
    BY <2>1, <2>4, <2>7, CapAssumption DEF last
<1>7. ProducerOK(p)'
  BY <1>1, <1>3, <1>4, <1>5, <1>6 DEF ProducerOK
<1> QED
  BY <1>2, <1>7, LocalPreserves

\* The check of the first slot keeps what the check of the last one found.
LEMMA BatchFirstPreserves ==
  ASSUME IInv, TypeOK', NEW p \in Producers, BatchFirst(p)
  PROVE  IInv'
<1>1. pc' = [pc EXCEPT ![p] = pc'[p]] /\ pc'[p] \in {"bClosed", "eClosed", "bCas"}
  BY GotoIs DEF BatchFirst, NextAttempt, IInv
<1>2. Local(p)
  BY <1>1 DEF Local, BatchFirst, WritingSteps, qvars, callvars
<1>3. Unreleased' = Unreleased
  BY <1>2, LocalStep
<1>4. n' = n /\ h' = h /\ head' = head /\ len' = len /\ pc[p] = "bFirst"
  BY DEF BatchFirst, qvars, callvars
<1>5. ProducerOK(p)
  BY ProducerInvSplit DEF IInv
<1>6. ProducerOK(p)'
  BY <1>1, <1>3, <1>4, <1>5 DEF ProducerOK
<1> QED
  BY <1>2, <1>6, LocalPreserves

\* The closed check of Enqueue.
LEMMA EnqueueClosedPreserves ==
  ASSUME IInv, TypeOK', NEW p \in Producers, EnqueueClosed(p)
  PROVE  IInv'
<1>1. pc' = [pc EXCEPT ![p] = pc'[p]] /\ pc'[p] \in {"eHead", "idle"}
  BY GotoIs DEF EnqueueClosed, Return, IInv
<1>2. Local(p)
  BY <1>1 DEF Local, EnqueueClosed, WritingSteps, qvars, callvars
<1>3. ProducerOK(p)'
  BY <1>1 DEF ProducerOK
<1> QED
  BY <1>2, <1>3, LocalPreserves

\* Enqueue reads head and will claim one position.
LEMMA EnqueueHeadPreserves ==
  ASSUME IInv, TypeOK', NEW p \in Producers, EnqueueHead(p)
  PROVE  IInv'
<1>1. pc' = [pc EXCEPT ![p] = pc'[p]] /\ pc'[p] = "eSeq"
  BY GotoIs DEF EnqueueHead, IInv
<1>2. Local(p)
  BY <1>1 DEF Local, EnqueueHead, WritingSteps, qvars, callvars, IInv, TypeOK
<1>3. n'[p] = 1 /\ h'[p] = head /\ head' = head /\ head \in Nat
  BY DEF EnqueueHead, qvars, IInv, TypeOK
<1>4. ProducerOK(p)'
  BY <1>1, <1>3 DEF ProducerOK
<1> QED
  BY <1>2, <1>4, LocalPreserves

\* The check of a single slot: a sequence equal to the position read means, when
\* the queue has not moved, that the position is in the window.
LEMMA EnqueueSeqPreserves ==
  ASSUME Cap >= 2, IInv, TypeOK', NEW p \in Producers, EnqueueSeq(p)
  PROVE  IInv'
<1>1. pc' = [pc EXCEPT ![p] = pc'[p]] /\ pc'[p] \in {"eCas", "idle", "eFull", "eClosed"}
  BY GotoIs DEF EnqueueSeq, Return, IInv
<1>2. Local(p)
  BY <1>1 DEF Local, EnqueueSeq, WritingSteps, qvars, callvars
<1>3. n[p] = 1 /\ h[p] <= head
  BY DEF IInv, ProducerInv, EnqueueSeq
<1>4. n' = n /\ h' = h /\ head' = head
  BY DEF EnqueueSeq, qvars
<1>5. Unreleased' = Unreleased
  BY <1>2, LocalStep
<1>6. ASSUME pc'[p] = "eCas", head = h[p] PROVE h[p] + n[p] <= Unreleased + Cap
  <2>1. h[p] \in Nat
    BY DEF IInv, TypeOK
  <2>2. seq[Idx(h[p])] - h[p] = 0
    BY <1>6, <2>1 DEF EnqueueSeq, Goto, Return, IInv, TypeOK
  <2>3. seq[Idx(h[p])] \in Nat
    BY <2>1, IdxType DEF IInv, TypeOK
  <2>4. Unreleased \in Nat /\ Unreleased <= h[p]
    BY <1>6, <2>1 DEF IInv, Positions, TypeOK
  <2>5. seq[Idx(h[p])] >= h[p]
    BY <2>1, <2>2, <2>3
  <2>6. h[p] < Unreleased + Cap
    BY <2>1, <2>4, <2>5, SeqTells
  <2> QED
    BY <2>1, <2>4, <2>6, <1>3, CapAssumption
<1>7. ProducerOK(p)'
  BY <1>1, <1>3, <1>4, <1>5, <1>6 DEF ProducerOK
<1> QED
  BY <1>2, <1>7, LocalPreserves

\* The second look at head before reporting a full queue.
LEMMA EnqueueFullPreserves ==
  ASSUME IInv, TypeOK', NEW p \in Producers, EnqueueFull(p)
  PROVE  IInv'
<1>1. pc' = [pc EXCEPT ![p] = pc'[p]] /\ pc'[p] \in {"eClosed", "idle"}
  BY GotoIs DEF EnqueueFull, Return, IInv
<1>2. Local(p)
  BY <1>1 DEF Local, EnqueueFull, WritingSteps, qvars, callvars
<1>3. ProducerOK(p)'
  BY <1>1 DEF ProducerOK
<1> QED
  BY <1>2, <1>3, LocalPreserves

\* A CAS that fails leaves the queue alone.
LEMMA CasFailedPreserves ==
  ASSUME IInv, TypeOK', NEW p \in Producers, ~Claim(p), BatchCas(p) \/ EnqueueCas(p)
  PROVE  IInv'
<1>1. pc' = [pc EXCEPT ![p] = pc'[p]] /\ pc'[p] \in {"bClosed", "eClosed", "idle"}
  BY GotoIs DEF BatchCas, EnqueueCas, NextAttempt, Return, IInv
<1>2. Local(p)
  BY <1>1 DEF Local, BatchCas, EnqueueCas, WritingSteps, callvars
<1>3. ProducerOK(p)'
  <2>1. CASE BatchCas(p)
    BY <1>1, <2>1 DEF ProducerOK, BatchCas, callvars, IInv, ProducerInv
  <2>2. CASE EnqueueCas(p)
    BY <1>1, <2>2, GotoIs DEF ProducerOK, EnqueueCas, Return, IInv
  <2> QED
    BY <2>1, <2>2
<1> QED
  BY <1>2, <1>3, LocalPreserves

-----------------------------------------------------------------------------
(* Steps of a producer that claims and fills positions.                     *)

\* A successful CAS: the claimed range lies inside the window and is in flight, so
\* no position becomes published or loses its slot.
LEMMA ClaimPreserves ==
  ASSUME IInv, TypeOK', NEW p \in Producers, Claim(p), BatchCas(p) \/ EnqueueCas(p)
  PROVE  IInv'
<1> USE DEF IInv
<1>1. /\ head = h[p] /\ head' = head + n[p] /\ n[p] \in Nat /\ n[p] >= 1 /\ head \in Nat
      /\ h[p] + n[p] <= Unreleased + Cap
      /\ pc[p] \notin WritingSteps /\ pc'[p] = "write" /\ i'[p] = 0
  BY DEF Claim, BatchCas, EnqueueCas, ProducerInv, TypeOK, Goto, WritingSteps
<1>2. /\ UNCHANGED <<tail, seq, data, cpc, lim, ct, cnt, cr, got, op, base, len, k, n, h>>
      /\ \A q \in Producers : q # p => pc'[q] = pc[q] /\ i'[q] = i[q]
  BY DEF Claim, BatchCas, EnqueueCas, cvars, callvars, Goto, TypeOK
<1>3. /\ \A x \in 0 .. head - 1 : order'[x] = order[x]
      /\ \A x \in head .. head + n[p] - 1 : order'[x] = Item(p, k[p] + x - head)
  BY <1>1 DEF Claim
<1>4. Unreleased' = Unreleased
  BY <1>2 DEF Unreleased
<1>5. \A q \in Producers : pc[q] \in WritingSteps => ct <= h[q] + i[q] /\ h[q] + n[q] <= head
  BY DEF ProducerInv, WritingSteps
<1>6. \A x \in Nat : Published(x)' <=> Published(x)
  <2> SUFFICES ASSUME NEW x \in Nat PROVE Published(x)' <=> Published(x)
    OBVIOUS
  <2>1. \A q \in Producers : q # p => (InFlight(q, x)' <=> InFlight(q, x))
    BY <1>2 DEF InFlight
  <2>2. ~InFlight(p, x)
    BY <1>1 DEF InFlight, WritingSteps
  <2>3. InFlight(p, x)' <=> (head <= x /\ x < head + n[p])
    BY <1>1, <1>2 DEF InFlight
  <2>4. CASE x < head
    BY <2>1, <2>2, <2>3, <2>4, <1>1 DEF Published
  <2>5. CASE x >= head
    BY <2>3, <2>5, <1>1 DEF Published
  <2> QED
    BY <2>4, <2>5, <1>1
<1>7. Unreleased \in Nat /\ Unreleased <= ct /\ ct <= head
  BY <1>1 DEF Positions, TypeOK
<1>8. Positions'
  <2>1. ct \in Nat /\ Unreleased <= tail /\ tail <= ct /\ (cpc = "read" => Published(ct))
    BY DEF Positions, TypeOK
  <2>2. cpc' = "read" => Published(ct)'
    <3>1. \A x \in Nat : Published(x) => Published(x)'
      BY <1>6
    <3> QED
      BY <2>1, <3>1, <1>2 DEF Published, InFlight
  <2>3. /\ Unreleased' <= tail' /\ tail' <= ct' /\ ct' <= head'
        /\ head' <= Unreleased' + Cap /\ Unreleased' \in Nat
    BY <2>1, <1>1, <1>2, <1>4, <1>7
  <2>4. /\ Len(got') = ct'
        /\ cpc' \in {"idle", "release"} => ct' = tail'
        /\ cpc' \in {"seq", "read", "tail"} => ct' = tail' + cnt'
        /\ cpc' = "tail" => cnt' > 0
        /\ cpc' = "release" => cr' < cnt' /\ cnt' <= ct'
    BY <1>2 DEF Positions
  <2> QED
    BY <2>2, <2>3, <2>4 DEF Positions
<1>9. SeqInv'
  BY <1>2, <1>4, <1>6, <1>7, CapAssumption DEF SeqInv
<1>10. ProducerInv'
  <2>1. ProducerOK(p)'
    <3>1. \A x \in head .. head + n[p] - 1 : order'[x] = <<p, base[p] + (k[p] + x - head)>>
      BY <1>3 DEF Item
    <3>2. /\ h'[p] = head /\ n'[p] = n[p] /\ k'[p] = k[p] /\ base'[p] = base[p]
          /\ ct' = ct /\ ct \in Nat
      BY <1>1, <1>2 DEF TypeOK
    <3> QED
      BY <3>1, <3>2, <1>1, <1>7 DEF ProducerOK, Item
  <2>2. ASSUME NEW q \in Producers, q # p PROVE ProducerOK(q)'
    <3>1. ProducerOK(q)
      BY ProducerInvSplit
    <3>2. pc'[q] \in WritingSteps =>
            \A x \in h[q] .. h[q] + n[q] - 1 : order'[x] = Item(q, k[q] + x - h[q])
      <4> SUFFICES ASSUME pc'[q] \in WritingSteps, NEW x \in h[q] .. h[q] + n[q] - 1
                   PROVE  order'[x] = Item(q, k[q] + x - h[q])
        OBVIOUS
      <4>1. pc[q] \in WritingSteps
        BY <2>2, <1>2
      <4>2. h[q] \in Nat /\ n[q] \in Nat /\ h[q] + n[q] <= head
        BY <4>1, <1>5 DEF TypeOK
      <4>3. x \in 0 .. head - 1
        BY <4>2, <1>1
      <4>4. order[x] = Item(q, k[q] + x - h[q])
        BY <4>1, <3>1 DEF ProducerOK, WritingSteps
      <4> QED
        BY <4>3, <4>4, <1>3
    <3>3. head' >= head + 1
      BY <1>1
    <3>4. h[q] \in Nat /\ n[q] \in Nat /\ i[q] \in Nat
      BY DEF TypeOK
    <3> QED
      BY <3>1, <3>2, <3>3, <3>4, <2>2, <1>1, <1>2 DEF ProducerOK, WritingSteps, Item
  <2> QED
    BY <2>1, <2>2, ProducerInvSplit DEF ProducerInv, ProducerOK
<1>11. DisjointClaims'
  BY <1>1, <1>2, <1>5 DEF DisjointClaims, WritingSteps
<1>12. DataInv'
  <2>1. \A x \in ct .. head' - 1 : Published(x)' => data[Idx(x)] = order'[x]
    <3> SUFFICES ASSUME NEW x \in ct .. head' - 1, Published(x)'
                 PROVE  data[Idx(x)] = order'[x]
      OBVIOUS
    <3>1. x \in Nat /\ ct \in Nat
      BY <1>7 DEF TypeOK
    <3>2. Published(x)
      BY <3>1, <1>6
    <3>3. x < head
      BY <3>2 DEF Published
    <3> QED
      BY <3>1, <3>2, <3>3, <1>1, <1>3 DEF DataInv
  <2>2. \A q \in Producers : pc'[q] = "publish" => data[Idx(h[q] + i[q])] = order'[h[q] + i[q]] /\ i'[q] = i[q]
    <3> SUFFICES ASSUME NEW q \in Producers, pc'[q] = "publish"
                 PROVE  data[Idx(h[q] + i[q])] = order'[h[q] + i[q]] /\ i'[q] = i[q]
      OBVIOUS
    <3>1. q # p /\ pc[q] = "publish" /\ i'[q] = i[q]
      BY <1>1, <1>2
    <3>2. h[q] + i[q] \in 0 .. head - 1
      <4>1. h[q] \in Nat /\ i[q] \in Nat /\ n[q] \in Nat
        BY DEF TypeOK
      <4>2. i[q] < n[q] /\ h[q] + n[q] <= head
        BY <3>1 DEF ProducerInv
      <4> QED
        BY <4>1, <4>2, <1>1
    <3> QED
      BY <3>1, <3>2, <1>3 DEF DataInv
  <2> QED
    BY <2>1, <2>2, <1>2 DEF DataInv
<1>13. GotInv'
  BY <1>2, <1>3, <1>7, <1>1 DEF GotInv, Positions
<1> QED
  BY <1>8, <1>9, <1>10, <1>11, <1>12, <1>13

\* Two positions that are in use and different have different slots.
LEMMA DifferentSlots ==
  ASSUME IInv, NEW x \in Nat, NEW y \in Nat, x # y,
         ct <= x, x < head, ct <= y, y < head
  PROVE  Idx(x) # Idx(y)
<1> DEFINE r == Unreleased
<1>1. r \in Nat /\ r <= ct /\ head <= r + Cap /\ ct \in Nat /\ head \in Nat
  BY CapAssumption DEF IInv, Positions, TypeOK
<1> HIDE DEF r
<1>2. x \in r .. r + Cap - 1 /\ y \in r .. r + Cap - 1
  BY <1>1, CapAssumption
<1> QED
  BY <1>1, <1>2, IdxInjective

\* The position a producer is filling: claimed by it alone and not read yet.
LEMMA Filling ==
  ASSUME IInv, NEW p \in Producers, pc[p] \in WritingSteps
  PROVE  /\ h[p] + i[p] \in Nat /\ ct <= h[p] + i[p] /\ h[p] + i[p] < head
         /\ InFlight(p, h[p] + i[p])
         /\ \A q \in Producers : q # p => ~InFlight(q, h[p] + i[p])
         /\ \A q \in Producers : (q # p /\ pc[q] \in WritingSteps) => h[q] + i[q] # h[p] + i[p]
         /\ order[h[p] + i[p]] = Item(p, k[p] + i[p])
<1>1. /\ h[p] \in Nat /\ i[p] \in Nat /\ n[p] \in Nat /\ k[p] \in Nat /\ head \in Nat /\ ct \in Nat
      /\ \A q \in Producers : h[q] \in Nat /\ i[q] \in Nat /\ n[q] \in Nat
  BY DEF IInv, TypeOK
<1>2. /\ i[p] < n[p] /\ ct <= h[p] + i[p] /\ h[p] + n[p] <= head
      /\ \A x \in h[p] .. h[p] + n[p] - 1 : order[x] = Item(p, k[p] + x - h[p])
  BY DEF IInv, ProducerInv, WritingSteps
<1>3. \A q \in Producers : (q # p /\ pc[q] \in WritingSteps) =>
        (h[p] + n[p] <= h[q] \/ h[q] + n[q] <= h[p])
  BY DEF IInv, DisjointClaims, WritingSteps
<1>4. \A q \in Producers : pc[q] \in WritingSteps => i[q] < n[q]
  BY DEF IInv, ProducerInv, WritingSteps
<1>5. h[p] + i[p] \in Nat /\ h[p] + i[p] < head /\ InFlight(p, h[p] + i[p])
  BY <1>1, <1>2 DEF InFlight, WritingSteps
<1>6. \A q \in Producers : q # p => ~InFlight(q, h[p] + i[p])
  BY <1>1, <1>2, <1>3 DEF InFlight, WritingSteps
<1>7. \A q \in Producers : (q # p /\ pc[q] \in WritingSteps) => h[q] + i[q] # h[p] + i[p]
  BY <1>1, <1>2, <1>3, <1>4
<1>8. order[h[p] + i[p]] = Item(p, k[p] + i[p])
  <2>1. h[p] + i[p] \in h[p] .. h[p] + n[p] - 1
    BY <1>1, <1>2
  <2>2. k[p] + (h[p] + i[p]) - h[p] = k[p] + i[p]
    BY <1>1
  <2> QED
    BY <2>1, <2>2, <1>2
<1> QED
  BY <1>2, <1>5, <1>6, <1>7, <1>8

\* Writing a claimed slot: it is nobody else's, and no readable position uses it.
LEMMA WriteDataPreserves ==
  ASSUME IInv, TypeOK', NEW p \in Producers, WriteData(p)
  PROVE  IInv'
<1> DEFINE w == h[p] + i[p]
<1>1. pc[p] = "write" /\ pc'[p] = "publish" /\ \A q \in Producers : q # p => pc'[q] = pc[q]
  BY DEF WriteData, Goto, IInv, TypeOK
<1>2. UNCHANGED <<head, tail, seq, closed, cpc, lim, ct, cnt, cr, got, op, base, len,
                  k, n, i, h, att, order, reported>>
  BY DEF WriteData, cvars, callvars
<1>3. /\ w \in Nat /\ ct <= w /\ w < head /\ InFlight(p, w)
      /\ \A q \in Producers : (q # p /\ pc[q] \in WritingSteps) => h[q] + i[q] # w
      /\ order[w] = Item(p, k[p] + i[p])
  BY <1>1, Filling DEF WritingSteps
<1>4. data' = [data EXCEPT ![Idx(w)] = Item(p, k[p] + i[p])]
  BY DEF WriteData
<1>5. Idx(w) \in Slots
  BY <1>3, IdxType
<1> HIDE DEF w
<1>6. \A q \in Producers : \A x : InFlight(q, x)' <=> InFlight(q, x)
  BY <1>1, <1>2 DEF InFlight
<1>7. \A x : Published(x)' <=> Published(x)
  BY <1>2, <1>6 DEF Published
<1>8. Unreleased' = Unreleased
  BY <1>2 DEF Unreleased
<1>9. Positions'
  BY <1>2, <1>7, <1>8 DEF IInv, Positions
<1>10. SeqInv'
  BY <1>2, <1>7, <1>8 DEF IInv, SeqInv
<1>11. ProducerInv'
  BY <1>1, <1>2, <1>8 DEF IInv, ProducerInv, Item
<1>12. DisjointClaims'
  BY <1>1, <1>2 DEF IInv, DisjointClaims
<1>13. DataInv'
  <2>1. ASSUME NEW x \in ct .. head - 1, Published(x) PROVE data'[Idx(x)] = order[x]
    <3>1. x \in Nat /\ ct <= x /\ x < head
      BY <2>1 DEF IInv, TypeOK
    <3>2. x # w
      BY <2>1, <1>3 DEF Published
    <3>3. Idx(x) # Idx(w)
      BY <3>1, <3>2, <1>3, DifferentSlots
    <3>4. data'[Idx(x)] = data[Idx(x)]
      BY <3>1, <3>3, <1>4, IdxType DEF IInv, TypeOK
    <3> QED
      BY <2>1, <3>4 DEF IInv, DataInv
  <2>2. data'[Idx(w)] = order[w]
    BY <1>3, <1>4, <1>5 DEF IInv, TypeOK
  <2>3. ASSUME NEW q \in Producers, q # p, pc[q] = "publish"
        PROVE  data'[Idx(h[q] + i[q])] = order[h[q] + i[q]]
    <3>1. h[q] + i[q] \in Nat /\ ct <= h[q] + i[q] /\ h[q] + i[q] < head /\ h[q] + i[q] # w
      BY <2>3, <1>3, Filling DEF WritingSteps
    <3>2. Idx(h[q] + i[q]) # Idx(w)
      BY <3>1, <1>3, DifferentSlots
    <3>3. data'[Idx(h[q] + i[q])] = data[Idx(h[q] + i[q])]
      BY <3>1, <3>2, <1>4, IdxType DEF IInv, TypeOK
    <3> QED
      BY <2>3, <3>3 DEF IInv, DataInv
  <2> QED
    BY <2>1, <2>2, <2>3, <1>1, <1>2, <1>7 DEF DataInv, w
<1>14. GotInv'
  BY <1>2 DEF IInv, GotInv
<1> QED
  BY <1>9, <1>10, <1>11, <1>12, <1>13, <1>14 DEF IInv

\* Publishing turns exactly one position from in flight into readable.
LEMMA PublishPreserves ==
  ASSUME IInv, TypeOK', NEW p \in Producers, Publish(p)
  PROVE  IInv'
<1> DEFINE w == h[p] + i[p]
<1>1. /\ pc[p] = "publish" /\ \A q \in Producers : q # p => pc'[q] = pc[q] /\ i'[q] = i[q] /\ k'[q] = k[q]
      /\ i'[p] = i[p] + 1
      /\ \/ i[p] + 1 < n[p] /\ pc'[p] = "write" /\ k' = k
         \/ i[p] + 1 = n[p] /\ pc'[p] \in {"idle", "eClosed"}
  <2>1. /\ pc[p] = "publish" /\ i' = [i EXCEPT ![p] = @ + 1]
        /\ \/ i[p] + 1 < n[p] /\ Goto(p, "write") /\ k' = k
           \/ i[p] + 1 = n[p] /\ k' = [k EXCEPT ![p] = @ + n[p]] /\ (Goto(p, "idle") \/ Goto(p, "eClosed"))
    BY DEF Publish, Return
  <2> QED
    BY <2>1 DEF Goto, IInv, TypeOK
<1>2. UNCHANGED <<head, tail, data, cpc, lim, ct, cnt, cr, got, op, base, len, n, h, att, order>>
  BY DEF Publish, cvars, callvars
<1>3. /\ w \in Nat /\ ct <= w /\ w < head /\ InFlight(p, w)
      /\ \A q \in Producers : q # p => ~InFlight(q, w)
  BY <1>1, Filling DEF WritingSteps
<1>4. seq' = [seq EXCEPT ![Idx(w)] = w + 1]
  BY DEF Publish
<1>5. h[p] \in Nat /\ i[p] \in Nat /\ n[p] \in Nat /\ ct \in Nat /\ head \in Nat
  BY DEF IInv, TypeOK
<1>6. ASSUME NEW x \in Nat PROVE Published(x)' <=> (Published(x) \/ x = w)
  <2>1. \A q \in Producers : q # p => (InFlight(q, x)' <=> InFlight(q, x))
    BY <1>1, <1>2 DEF InFlight
  <2>2. InFlight(p, x)' <=> (InFlight(p, x) /\ x # w)
    BY <1>1, <1>2, <1>5 DEF InFlight
  <2>3. CASE x = w
    BY <2>1, <2>2, <2>3, <1>2, <1>3 DEF Published
  <2>4. CASE x # w
    BY <2>1, <2>2, <2>4, <1>2 DEF Published
  <2> QED
    BY <2>3, <2>4
<1>7. data[Idx(w)] = order[w]
  BY <1>1 DEF IInv, DataInv
<1>8. Unreleased' = Unreleased
  BY <1>2 DEF Unreleased
<1>9. Unreleased \in Nat /\ Unreleased <= ct /\ head <= Unreleased + Cap
  BY <1>5, CapAssumption DEF IInv, Positions, TypeOK
<1> HIDE DEF w
<1>10. Positions'
  BY <1>2, <1>5, <1>6, <1>8 DEF IInv, Positions
<1>11. SeqInv'
  <2> SUFFICES ASSUME NEW x \in Unreleased .. Unreleased + Cap - 1
               PROVE  seq'[Idx(x)] = IF Published(x)' THEN x + 1 ELSE x
    BY <1>8 DEF SeqInv
  <2>1. x \in Nat /\ w \in Unreleased .. Unreleased + Cap - 1
    BY <1>3, <1>5, <1>9, CapAssumption
  <2>2. CASE x = w
    BY <2>1, <2>2, <1>4, <1>6, IdxType DEF IInv, TypeOK
  <2>3. CASE x # w
    <3>1. Idx(x) # Idx(w)
      BY <2>1, <2>3, <1>9, IdxInjective
    <3>2. seq'[Idx(x)] = seq[Idx(x)]
      BY <3>1, <2>1, <1>4, IdxType DEF IInv, TypeOK
    <3> QED
      BY <3>2, <2>1, <2>3, <1>6 DEF IInv, SeqInv
  <2> QED
    BY <2>2, <2>3
<1>12. ProducerInv'
  <2>1. ASSUME NEW q \in Producers, q # p PROVE ProducerOK(q)'
    <3>1. ProducerOK(q)
      BY ProducerInvSplit DEF IInv
    <3> QED
      BY <3>1, <2>1, <1>1, <1>2, <1>8 DEF ProducerOK, Item
  <2>2. ProducerOK(p)'
    <3>1. ProducerOK(p)
      BY ProducerInvSplit DEF IInv
    <3>2. ct <= h[p] + (i[p] + 1)
      BY <1>3, <1>5 DEF w
    <3> QED
      BY <3>1, <3>2, <1>1, <1>2 DEF ProducerOK, Item
  <2> QED
    BY <2>1, <2>2 DEF ProducerInv, ProducerOK
<1>13. DisjointClaims'
  BY <1>1, <1>2 DEF IInv, DisjointClaims
<1>14. DataInv'
  <2>1. ASSUME NEW x \in ct .. head - 1, Published(x)' PROVE data[Idx(x)] = order[x]
    <3>1. x \in Nat
      BY <1>5
    <3> QED
      BY <3>1, <2>1, <1>6, <1>7 DEF IInv, DataInv
  <2>2. \A q \in Producers : pc'[q] = "publish" =>
          q # p /\ data[Idx(h[q] + i[q])] = order[h[q] + i[q]]
    BY <1>1 DEF IInv, DataInv
  <2> QED
    BY <2>1, <2>2, <1>1, <1>2 DEF DataInv
<1>15. GotInv'
  BY <1>2 DEF IInv, GotInv
<1> QED
  BY <1>10, <1>11, <1>12, <1>13, <1>14, <1>15 DEF IInv

-----------------------------------------------------------------------------
(* Steps of the consumer, and Close.                                        *)

\* A step that leaves producers, slots and positions alone, but for where the
\* consumer stands, preserves everything that is not about the consumer.
LEMMA ConsumerMoves ==
  ASSUME IInv, TypeOK', Positions', Unreleased' = Unreleased, ct' = ct,
         UNCHANGED <<head, seq, data, pc, base, len, k, n, i, h, order, got>>
  PROVE  IInv'
<1>1. \A q \in Producers : \A x : InFlight(q, x)' <=> InFlight(q, x)
  BY DEF InFlight
<1>2. \A x : Published(x)' <=> Published(x)
  BY <1>1 DEF Published
<1>3. SeqInv' /\ DataInv' /\ GotInv' /\ DisjointClaims'
  BY <1>2 DEF IInv, SeqInv, DataInv, GotInv, DisjointClaims
<1>4. ProducerInv'
  BY DEF IInv, ProducerInv, Item
<1> QED
  BY <1>3, <1>4 DEF IInv

\* The consumer starts a batch at tail.
LEMMA DequeuePreserves ==
  ASSUME IInv, TypeOK', NEW m, Dequeue(m)
  PROVE  IInv'
<1>1. ct' = ct /\ Unreleased' = Unreleased
  BY DEF Dequeue, Unreleased, IInv, Positions, qvars
<1>2. Positions'
  BY <1>1 DEF IInv, TypeOK, Positions, Dequeue, qvars
<1> QED
  BY <1>1, <1>2, ConsumerMoves DEF Dequeue, qvars, pvars

\* A sequence of ct + 1 at the local tail means that position ct is published.
LEMMA ReadSeqPreserves ==
  ASSUME Cap >= 2, IInv, TypeOK', ReadSeq
  PROVE  IInv'
<1>1. ct \in Nat /\ cnt \in Nat /\ lim \in Nat /\ tail \in Nat /\ head \in Nat
  BY DEF IInv, TypeOK
<1>2. Unreleased = tail /\ Unreleased' = Unreleased /\ ct' = ct /\ ct = tail + cnt
  BY DEF ReadSeq, Unreleased, IInv, Positions, qvars
<1>3. ASSUME cpc' = "read" PROVE Published(ct)
  <2>1. seq[Idx(ct)] = ct + 1
    <3>1. seq[Idx(ct)] - ct = 1
      BY <1>3 DEF ReadSeq
    <3>2. seq[Idx(ct)] \in Nat
      BY <1>1, IdxType DEF IInv, TypeOK
    <3> QED
      BY <3>1, <3>2, <1>1
  <2>2. ct >= Unreleased /\ seq[Idx(ct)] >= ct
    BY <2>1, <1>1, <1>2
  <2>3. ct < Unreleased + Cap
    BY <2>2, <1>1, SeqTells
  <2>4. ct \in Unreleased .. Unreleased + Cap - 1
    BY <2>2, <2>3, <1>1, <1>2, CapAssumption
  <2> QED
    BY <2>1, <2>4, <1>1 DEF IInv, SeqInv
<1>4. Published(ct)' <=> Published(ct)
  BY DEF ReadSeq, Published, InFlight, qvars, pvars
<1>5. Positions'
  BY <1>1, <1>2, <1>3, <1>4 DEF IInv, Positions, ReadSeq, qvars
<1> QED
  BY <1>2, <1>5, ConsumerMoves DEF ReadSeq, qvars, pvars

\* Reading takes the item claimed at position ct and clears a slot nobody uses.
LEMMA ReadDataPreserves ==
  ASSUME IInv, TypeOK', ReadData
  PROVE  IInv'
<1>1. ct \in Nat /\ cnt \in Nat /\ tail \in Nat /\ head \in Nat /\ cpc = "read" /\ cpc' = "seq"
      /\ ct' = ct + 1 /\ cnt' = cnt + 1
  BY DEF IInv, TypeOK, ReadData
<1>2. UNCHANGED <<head, tail, seq, pc, op, base, len, k, n, i, h, att, order>>
  BY DEF ReadData, pvars
<1>3. Published(ct) /\ ct < head
  BY <1>1 DEF IInv, Positions, Published
<1>4. Unreleased = tail /\ Unreleased' = tail /\ tail <= ct /\ ct = tail + cnt /\ head <= tail + Cap
  BY <1>1, <1>2 DEF Unreleased, IInv, Positions
<1>5. \A x : Published(x)' <=> Published(x)
  BY <1>2 DEF Published, InFlight
<1>6. data' = [data EXCEPT ![Idx(ct)] = None]
  BY DEF ReadData
<1>7. got' = Append(got, order[ct])
  <2>1. ct \in ct .. head - 1
    BY <1>1, <1>3
  <2>2. data[Idx(ct)] = order[ct]
    BY <2>1, <1>3 DEF IInv, DataInv
  <2> QED
    BY <2>2 DEF ReadData
<1>8. got \in Seq(Items \cup {None}) /\ Len(got) = ct
  BY DEF IInv, TypeOK, Positions
<1>9. ASSUME NEW q \in Producers, pc[q] \in WritingSteps
      PROVE  /\ h[q] + i[q] \in Nat /\ ct < h[q] + i[q] /\ h[q] + i[q] < head
  <2>1. h[q] + i[q] \in Nat /\ ct <= h[q] + i[q] /\ h[q] + i[q] < head /\ InFlight(q, h[q] + i[q])
    BY <1>9, Filling
  <2>2. h[q] + i[q] # ct
    BY <2>1, <1>3 DEF Published
  <2> QED
    BY <2>1, <2>2, <1>1
<1>10. order[ct] \in Items
  <2>1. ct \in 0 .. head - 1
    BY <1>1, <1>3
  <2> QED
    BY <2>1 DEF IInv, TypeOK
<1>11. Len(got') = ct + 1 /\ got'[ct + 1] = order[ct] /\ \A x \in 1 .. ct : got'[x] = got[x]
  BY <1>1, <1>7, <1>8, <1>10
<1>12. Positions'
  BY <1>1, <1>2, <1>3, <1>4, <1>11 DEF IInv, Positions
<1>13. SeqInv'
  BY <1>2, <1>4, <1>5 DEF IInv, SeqInv
<1>14. ProducerInv'
  <2> SUFFICES ASSUME NEW q \in Producers PROVE ProducerOK(q)'
    BY DEF ProducerInv, ProducerOK
  <2>1. ProducerOK(q)
    BY ProducerInvSplit DEF IInv
  <2>2. pc[q] \in {"write", "publish"} => ct' <= h[q] + i[q]
    BY <1>1, <1>9 DEF WritingSteps
  <2> QED
    BY <2>1, <2>2, <1>2, <1>4 DEF ProducerOK, Item
<1>15. DisjointClaims'
  BY <1>2 DEF IInv, DisjointClaims
<1>16. ASSUME NEW x \in Nat, ct < x, x < head PROVE data'[Idx(x)] = data[Idx(x)]
  <2>1. Idx(x) # Idx(ct)
    BY <1>16, <1>1, <1>3, DifferentSlots
  <2> QED
    BY <2>1, <1>6, IdxType DEF IInv, TypeOK
<1>17. DataInv'
  <2>1. ASSUME NEW x \in ct + 1 .. head - 1, Published(x) PROVE data'[Idx(x)] = order[x]
    <3>1. x \in Nat /\ ct < x /\ x < head /\ x \in ct .. head - 1
      BY <1>1
    <3> QED
      BY <3>1, <2>1, <1>16 DEF IInv, DataInv
  <2>2. ASSUME NEW q \in Producers, pc[q] = "publish"
        PROVE  data'[Idx(h[q] + i[q])] = order[h[q] + i[q]]
    BY <2>2, <1>9, <1>16 DEF IInv, DataInv, WritingSteps
  <2> QED
    BY <2>1, <2>2, <1>1, <1>2, <1>5 DEF DataInv
<1>18. GotInv'
  <2> SUFFICES ASSUME NEW x \in 1 .. ct + 1 PROVE got'[x] = order[x - 1]
    BY <1>2, <1>11 DEF GotInv
  <2>1. CASE x = ct + 1
    BY <2>1, <1>1, <1>11
  <2>2. CASE x # ct + 1
    <3>1. x \in 1 .. ct
      BY <2>2, <1>1
    <3> QED
      BY <3>1, <1>8, <1>11 DEF IInv, GotInv
  <2> QED
    BY <2>1, <2>2
<1> QED
  BY <1>12, <1>13, <1>14, <1>15, <1>17, <1>18 DEF IInv

\* Storing tail before the slots are released does not move the window.
LEMMA StoreTailPreserves ==
  ASSUME IInv, TypeOK', StoreTail
  PROVE  IInv'
<1>1. ct \in Nat /\ cnt \in Nat /\ tail \in Nat /\ head \in Nat
  BY DEF IInv, TypeOK
<1>2. ct = tail + cnt /\ cnt > 0
  BY DEF StoreTail, IInv, Positions
<1>3. /\ cpc = "tail" /\ cpc' = "release" /\ tail' = ct /\ cr' = 0 /\ ct' = ct /\ cnt' = cnt
      /\ head' = head /\ got' = got
  BY DEF StoreTail
<1>4. Unreleased = tail /\ Unreleased' = Unreleased
  BY <1>1, <1>2, <1>3 DEF Unreleased
<1>5. Positions'
  BY <1>1, <1>2, <1>3, <1>4 DEF IInv, Positions
<1> QED
  BY <1>3, <1>4, <1>5, ConsumerMoves DEF StoreTail, pvars

\* Releasing the first slot of the window moves the window by one position.
LEMMA ReleasePreserves ==
  ASSUME IInv, TypeOK', Release
  PROVE  IInv'
<1> DEFINE r == Unreleased
<1>1. ct \in Nat /\ cnt \in Nat /\ cr \in Nat /\ tail \in Nat /\ head \in Nat /\ Cap \in Nat
  BY CapAssumption DEF IInv, TypeOK
<1>2. UNCHANGED <<head, tail, data, pc, base, len, k, n, i, h, order, got, ct, cnt>>
  BY DEF Release, pvars
<1>3. /\ cpc = "release" /\ cr < cnt /\ cnt <= ct /\ ct = tail /\ cr' = cr + 1
      /\ cpc' = IF cr + 1 = cnt THEN "idle" ELSE "release"
  BY DEF Release, IInv, Positions
<1>4. r = ct - cnt + cr /\ r \in Nat /\ r < ct /\ head <= r + Cap /\ ct <= head
  BY <1>1, <1>3 DEF Unreleased, IInv, Positions
<1>5. seq' = [seq EXCEPT ![Idx(r)] = r + Cap]
  BY <1>4 DEF Release
<1>6. Unreleased' = r + 1
  BY <1>1, <1>2, <1>3, <1>4 DEF Unreleased
<1> HIDE DEF r
<1>7. \A x : Published(x)' <=> Published(x)
  BY <1>2 DEF Published, InFlight
<1>8. Positions'
  BY <1>1, <1>2, <1>3, <1>4, <1>6 DEF IInv, Positions
<1>9. SeqInv'
  <2> SUFFICES ASSUME NEW x \in r + 1 .. r + Cap
               PROVE  seq'[Idx(x)] = IF Published(x) THEN x + 1 ELSE x
    BY <1>1, <1>4, <1>6, <1>7 DEF SeqInv
  <2>1. CASE x = r + Cap
    <3>1. Idx(x) = Idx(r) /\ Idx(r) \in Slots
      BY <2>1, <1>4, IdxLap, IdxType
    <3>2. ~Published(x)
      BY <2>1, <1>1, <1>4 DEF Published
    <3> QED
      BY <3>1, <3>2, <2>1, <1>5 DEF IInv, TypeOK
  <2>2. CASE x # r + Cap
    <3>1. x \in r .. r + Cap - 1 /\ r \in r .. r + Cap - 1 /\ x # r /\ x \in Nat
      BY <2>2, <1>1, <1>4
    <3>2. Idx(x) # Idx(r)
      BY <3>1, <1>4, IdxInjective
    <3>3. seq'[Idx(x)] = seq[Idx(x)]
      BY <3>1, <3>2, <1>5, IdxType DEF IInv, TypeOK
    <3> QED
      BY <3>1, <3>3 DEF IInv, SeqInv, r
  <2> QED
    BY <2>1, <2>2
<1>10. ProducerInv'
  <2> SUFFICES ASSUME NEW q \in Producers PROVE ProducerOK(q)'
    BY DEF ProducerInv, ProducerOK
  <2>1. ProducerOK(q)
    BY ProducerInvSplit DEF IInv
  <2>2. h[q] + n[q] <= r + Cap => h[q] + n[q] <= (r + 1) + Cap
    <3>1. h[q] \in Nat /\ n[q] \in Nat
      BY DEF IInv, TypeOK
    <3> QED
      BY <3>1, <1>1, <1>4
  <2> QED
    BY <2>1, <2>2, <1>2, <1>6 DEF ProducerOK, Item, r
<1>11. DisjointClaims' /\ DataInv' /\ GotInv'
  BY <1>2, <1>7 DEF IInv, DisjointClaims, DataInv, GotInv
<1> QED
  BY <1>8, <1>9, <1>10, <1>11 DEF IInv

-----------------------------------------------------------------------------
(* The invariant and what it implies.                                       *)

\* The empty ring satisfies the invariant.
LEMMA InitIInv == Init => IInv
<1> SUFFICES ASSUME Init PROVE IInv
  OBVIOUS
<1> USE DEF Init
<1>1. TypeOK
  BY CapAssumption DEF TypeOK, Slots, PSteps, Items
<1>2. Unreleased = 0
  BY DEF Unreleased
<1>3. \A x \in Nat : ~Published(x)
  BY DEF Published
<1>4. Positions
  BY <1>2, CapAssumption DEF Positions
<1>5. SeqInv
  <2> SUFFICES ASSUME NEW x \in Unreleased .. Unreleased + Cap - 1
               PROVE  seq[Idx(x)] = IF Published(x) THEN x + 1 ELSE x
    BY DEF SeqInv
  <2> x \in 0 .. Cap - 1 /\ ~Published(x)
    BY <1>2, <1>3, CapAssumption
  <2>1. Idx(x) = x
    <3>1. (Cap * 0 + x) % Cap = x
      BY ModUnique, CapAssumption
    <3> QED
      BY <3>1, CapAssumption DEF Idx
  <2> QED
    BY <2>1 DEF Slots
<1>6. ProducerInv /\ DisjointClaims /\ DataInv /\ GotInv
  BY DEF ProducerInv, DisjointClaims, DataInv, GotInv
<1> QED
  BY <1>1, <1>4, <1>5, <1>6 DEF IInv

\* The invariant is inductive.
LEMMA NextIInv ==
  ASSUME Cap >= 2, IInv, [Next]_vars
  PROVE  IInv'
<1>1. TypeOK'
  BY TypePreserved
<1>2. CASE UNCHANGED vars
  <2>1. Unreleased' = Unreleased
    BY <1>2 DEF vars, Unreleased
  <2>2. Positions'
    BY <1>2, <2>1 DEF vars, IInv, Positions, Published, InFlight
  <2> QED
    BY <1>1, <1>2, <2>1, <2>2, ConsumerMoves DEF vars
<1>3. ASSUME NEW p \in Producers, ProducerStep(p) PROVE IInv'
  BY <1>1, <1>3, BatchClosedPreserves, BatchHeadPreserves, BatchLastPreserves,
     BatchFirstPreserves, EnqueueClosedPreserves, EnqueueHeadPreserves, EnqueueSeqPreserves,
     EnqueueFullPreserves, CasFailedPreserves, ClaimPreserves, WriteDataPreserves,
     PublishPreserves DEF ProducerStep
<1>4. ASSUME NEW p \in Producers, Calls(p) PROVE IInv'
  BY <1>1, <1>4, CallPreserves DEF Calls
<1>5. ASSUME NEW m \in 1 .. MaxBatch, Dequeue(m) PROVE IInv'
  BY <1>1, <1>5, DequeuePreserves
<1>6. CASE ConsumerStep
  BY <1>1, <1>6, ReadSeqPreserves, ReadDataPreserves, StoreTailPreserves, ReleasePreserves
  DEF ConsumerStep
<1>7. CASE Close
  <2>1. Unreleased' = Unreleased
    BY <1>7 DEF Close, Unreleased, qvars, cvars
  <2>2. Positions'
    BY <1>7, <2>1 DEF Close, qvars, pvars, cvars, IInv, Positions, Published, InFlight
  <2> QED
    BY <1>1, <1>7, <2>1, <2>2, ConsumerMoves DEF Close, qvars, pvars, cvars
<1> QED
  BY <1>2, <1>3, <1>4, <1>5, <1>6, <1>7 DEF Next

\* The inductive invariant holds in every state of the ring, whatever the number
\* of producers, the capacity (of at least 2), and the length of the run.
THEOREM InvariantHolds == ASSUME Cap >= 2 PROVE Spec => []IInv
<1>1. IInv /\ [Next]_vars => IInv'
  BY NextIInv
<1> QED
  BY <1>1, InitIInv, PTL DEF Spec

\* Every variable keeps its type.
THEOREM TypeCorrect == ASSUME Cap >= 2 PROVE Spec => []TypeOK
<1>1. IInv => TypeOK
  BY DEF IInv
<1> QED
  BY <1>1, InvariantHolds, PTL

\* head never runs more than Cap() positions ahead of tail.
THEOREM CapacityRespected == ASSUME Cap >= 2 PROVE Spec => []NeverOverCapacity
<1>1. IInv => NeverOverCapacity
  <2> SUFFICES ASSUME IInv PROVE NeverOverCapacity
    OBVIOUS
  <2>1. head \in Nat /\ tail \in Nat /\ ct \in Nat
    BY DEF IInv, TypeOK
  <2> QED
    BY <2>1, CapAssumption DEF IInv, Positions, NeverOverCapacity
<1> QED
  BY <1>1, InvariantHolds, PTL

\* The consumer hands out the claimed items, each once, in the order of the
\* claims, with the data that was written.
THEOREM FirstInFirstOut == ASSUME Cap >= 2 PROVE Spec => []FIFO
<1>1. IInv => FIFO
  BY DEF IInv, Positions, GotInv, FIFO
<1> QED
  BY <1>1, InvariantHolds, PTL

\* The plain accesses to slot data never race.
THEOREM NoDataRace == ASSUME Cap >= 2 PROVE Spec => []NoSlotRace
<1>1. IInv => NoSlotRace
  <2> SUFFICES ASSUME IInv PROVE NoSlotRace
    OBVIOUS
  <2>1. ASSUME NEW p \in Producers, NEW q \in Producers, p # q, pc[p] = "write", pc[q] = "write"
        PROVE  Idx(h[p] + i[p]) # Idx(h[q] + i[q])
    <3>1. /\ h[p] + i[p] \in Nat /\ ct <= h[p] + i[p] /\ h[p] + i[p] < head
          /\ h[q] + i[q] \in Nat /\ ct <= h[q] + i[q] /\ h[q] + i[q] < head
          /\ h[p] + i[p] # h[q] + i[q]
      BY <2>1, Filling DEF WritingSteps
    <3> QED
      BY <3>1, DifferentSlots
  <2>2. ASSUME NEW p \in Producers, pc[p] = "write", cpc = "read"
        PROVE  Idx(h[p] + i[p]) # Idx(ct)
    <3>1. /\ h[p] + i[p] \in Nat /\ ct <= h[p] + i[p] /\ h[p] + i[p] < head
          /\ InFlight(p, h[p] + i[p])
      BY <2>2, Filling DEF WritingSteps
    <3>2. Published(ct) /\ ct \in Nat /\ ct < head
      BY <2>2 DEF IInv, TypeOK, Positions, Published
    <3>3. h[p] + i[p] # ct
      BY <3>1, <3>2 DEF Published
    <3>4. ct <= ct
      BY <3>2
    <3> QED
      BY <3>1, <3>2, <3>3, <3>4, DifferentSlots
  <2> QED
    BY <2>1, <2>2 DEF NoSlotRace
<1> QED
  BY <1>1, InvariantHolds, PTL

\* With no claim in flight, whatever is claimed and unread is readable.
THEOREM DrainIsComplete == ASSUME Cap >= 2 PROVE Spec => []EmptyMeansDrained
<1>1. IInv => EmptyMeansDrained
  <2> SUFFICES ASSUME IInv, \A p \in Producers : pc[p] \notin {"write", "publish"},
                      NEW x \in ct .. head - 1, cpc # "release"
               PROVE  seq[Idx(x)] = x + 1
    BY DEF EmptyMeansDrained
  <2>1. ct \in Nat /\ head \in Nat /\ tail \in Nat
    BY DEF IInv, TypeOK
  <2>2. Published(x)
    BY <2>1 DEF Published, InFlight
  <2>3. Unreleased = tail /\ tail <= ct /\ head <= tail + Cap
    BY DEF IInv, Positions, Unreleased
  <2>4. x \in Unreleased .. Unreleased + Cap - 1
    BY <2>1, <2>3, CapAssumption
  <2> QED
    BY <2>2, <2>4 DEF IInv, SeqInv
<1> QED
  BY <1>1, InvariantHolds, PTL

\* Where a producer may be (the part of TypeOK that CloseHolds needs).
PcType == pc \in [Producers -> PSteps]

\* Producers stay at steps of their operations.
LEMMA PcTypePreserved ==
  ASSUME PcType, [Next]_vars
  PROVE  PcType'
<1>1. ASSUME NEW p \in Producers, NEW l \in PSteps, Goto(p, l) PROVE PcType'
  BY <1>1 DEF PcType, Goto
<1>2. ASSUME NEW p \in Producers, Calls(p) PROVE PcType'
  BY <1>1, <1>2 DEF Calls, Call, PSteps
<1>3. ASSUME NEW p \in Producers, ProducerStep(p) PROVE PcType'
  BY <1>1, <1>3
  DEF ProducerStep, BatchClosed, BatchHead, BatchLast, BatchFirst, BatchCas, EnqueueClosed,
      EnqueueHead, EnqueueSeq, EnqueueFull, EnqueueCas, WriteData, Publish, Claim, Return,
      NextAttempt, PSteps
<1>4. ASSUME pc' = pc PROVE PcType'
  BY <1>4 DEF PcType
<1> QED
  BY <1>2, <1>3, <1>4
  DEF Next, vars, Dequeue, ConsumerStep, ReadSeq, ReadData, StoreTail, Release, Close, pvars

\* Close is final: without a producer past its closed check, no step claims a
\* position or lets a producer past that check again.
THEOREM CloseHolds == Spec => CloseIsFinal
<1> DEFINE Quiet == closed /\ \A p \in Producers : ~MayClaim(p)
<1>1. ASSUME PcType, Quiet, NEW p \in Producers, NEW l \in PSteps, Goto(p, l),
             l \in {"idle", "bClosed", "eClosed", "eFull", "write", "publish"}
      PROVE  \A q \in Producers : ~MayClaim(q)'
  BY <1>1 DEF PcType, Goto, MayClaim
<1>2. ASSUME PcType, Quiet, NEW p \in Producers, Calls(p)
      PROVE  head' = head /\ \A q \in Producers : ~MayClaim(q)'
  BY <1>1, <1>2 DEF Calls, Call, PSteps, qvars
<1>3. ASSUME PcType, Quiet, NEW p \in Producers, ProducerStep(p)
      PROVE  head' = head /\ \A q \in Producers : ~MayClaim(q)'
  <2>1. pc[p] \notin {"bHead", "bLast", "bFirst", "bCas", "eHead", "eSeq", "eCas"}
    BY <1>3 DEF MayClaim
  <2>2. BatchClosed(p) \/ EnqueueClosed(p) \/ EnqueueFull(p) \/ WriteData(p) \/ Publish(p)
    BY <2>1, <1>3 DEF ProducerStep, BatchHead, BatchLast, BatchFirst, BatchCas,
                      EnqueueHead, EnqueueSeq, EnqueueCas
  <2> QED
    BY <1>1, <1>3, <2>2 DEF BatchClosed, EnqueueClosed, EnqueueFull, WriteData, Publish,
                            Return, PSteps, qvars
<1>4. ASSUME Quiet, pc' = pc, head' = head
      PROVE  head' = head /\ \A q \in Producers : ~MayClaim(q)'
  BY <1>4 DEF MayClaim
<1>5. ASSUME PcType, [Next]_vars, Quiet
      PROVE  head' = head /\ \A q \in Producers : ~MayClaim(q)'
  BY <1>2, <1>3, <1>4, <1>5
  DEF Next, vars, Dequeue, ConsumerStep, ReadSeq, ReadData, StoreTail, Release, Close, pvars, qvars
<1>6. Init => PcType
  BY DEF Init, PcType, PSteps
<1>7. PcType /\ [Next]_vars => PcType'
  BY PcTypePreserved
<1>8. PcType /\ [Next]_vars =>
        [(closed /\ \A p \in Producers : ~MayClaim(p))
           => (head' = head /\ \A p \in Producers : ~MayClaim(p)')]_vars
  BY <1>5
<1> QED
  BY <1>6, <1>7, <1>8, PTL DEF Spec, CloseIsFinal

-----------------------------------------------------------------------------
(* What a call reports.                                                     *)

BatchSteps == {"bClosed", "bHead", "bLast", "bFirst", "bCas"}

\* The items of p that have positions, and the first c items of its call.
Mine(p) == {order[x] : x \in {y \in 0 .. head - 1 : order[y][1] = p}}
Offered(p, c) == {Item(p, j) : j \in 0 .. c - 1}

\* How many items of the call of p have positions.
Counted(p) == IF pc[p] = "idle" THEN 0
              ELSE IF pc[p] \in WritingSteps THEN k[p] + n[p] ELSE k[p]

\* The items of p with positions are those of its earlier calls, as reported, and
\* the ones its present call has claimed so far; the fast path has claimed none.
ReportOK(p) == /\ Mine(p) = reported[p] \cup Offered(p, Counted(p))
               /\ pc[p] \in BatchSteps => k[p] = 0
ReportInv == \A p \in Producers : ReportOK(p)

\* A claim adds the items of its range to the items of p and to no other's.
LEMMA MineClaim ==
  ASSUME TypeOK, NEW p \in Producers, Claim(p)
  PROVE  /\ Mine(p)' = Mine(p) \cup {Item(p, j) : j \in k[p] .. k[p] + n[p] - 1}
         /\ \A q \in Producers : q # p => Mine(q)' = Mine(q)
<1>1. head \in Nat /\ n[p] \in Nat /\ k[p] \in Nat /\ head' = head + n[p]
  BY DEF TypeOK, Claim
<1>2. /\ \A x \in 0 .. head - 1 : order'[x] = order[x]
      /\ \A x \in head .. head + n[p] - 1 : order'[x] = Item(p, k[p] + x - head)
  BY <1>1 DEF Claim
<1>3. \A j : Item(p, j)[1] = p
  BY DEF Item
<1>4. ASSUME NEW q \in Producers, q # p PROVE Mine(q)' = Mine(q)
  BY <1>1, <1>2, <1>3, <1>4 DEF Mine
<1>5. ASSUME NEW z \in Mine(p)' PROVE z \in Mine(p) \cup {Item(p, j) : j \in k[p] .. k[p] + n[p] - 1}
  <2>1. PICK x \in 0 .. head + n[p] - 1 : z = order'[x] /\ order'[x][1] = p
    BY <1>1 DEF Mine
  <2>2. CASE x < head
    BY <1>1, <1>2, <2>1, <2>2 DEF Mine
  <2>3. CASE x >= head
    <3>1. k[p] + x - head \in k[p] .. k[p] + n[p] - 1 /\ z = Item(p, k[p] + x - head)
      BY <1>1, <1>2, <2>1, <2>3
    <3> QED
      BY <3>1
  <2> QED
    BY <1>1, <2>2, <2>3
<1>6. ASSUME NEW z \in Mine(p) PROVE z \in Mine(p)'
  BY <1>1, <1>2 DEF Mine
<1>7. ASSUME NEW j \in k[p] .. k[p] + n[p] - 1 PROVE Item(p, j) \in Mine(p)'
  <2>1. head + (j - k[p]) \in head .. head + n[p] - 1 /\ k[p] + (head + (j - k[p])) - head = j
    BY <1>1
  <2>2. order'[head + (j - k[p])] = Item(p, j)
    BY <1>2, <2>1
  <2>3. head + (j - k[p]) \in 0 .. head' - 1
    BY <1>1, <2>1
  <2> QED
    BY <1>3, <2>2, <2>3 DEF Mine
<1> QED
  BY <1>4, <1>5, <1>6, <1>7

\* A step that gives nobody a position keeps the sets.
LEMMA MineKept ==
  ASSUME UNCHANGED <<head, order>> PROVE \A q : Mine(q)' = Mine(q)
  BY DEF Mine

\* A step of p leaves the others alone.
LEMMA OthersReport ==
  ASSUME TypeOK, ReportInv, NEW p \in Producers, NEW q \in Producers, q # p, Mine(q)' = Mine(q),
         pc'[q] = pc[q], k'[q] = k[q], n'[q] = n[q], base'[q] = base[q], reported'[q] = reported[q]
  PROVE  ReportOK(q)'
<1>1. Counted(q)' = Counted(q)
  BY DEF Counted
<1>2. \A c : Offered(q, c)' = Offered(q, c)
  BY DEF Offered, Item
<1>3. ReportOK(q)
  BY DEF ReportInv
<1> QED
  BY <1>1, <1>2, <1>3 DEF ReportOK

\* What a producer's step changes of the report of p, when it claims nothing.
LEMMA ReportStep ==
  ASSUME TypeOK, ReportInv, NEW p \in Producers, UNCHANGED <<head, order>>, base'[p] = base[p],
         pc'[p] \in BatchSteps => k'[p] = 0,
         \/ reported'[p] = reported[p] /\ Counted(p)' = Counted(p)
         \/ reported'[p] = reported[p] \cup Offered(p, Counted(p)) /\ Counted(p)' = 0
  PROVE  ReportOK(p)'
<1>1. Mine(p)' = Mine(p)
  BY MineKept
<1>2. /\ Offered(p, Counted(p))' = Offered(p, Counted(p)')
      /\ Offered(p, 0) = {}
  BY DEF Offered, Item
<1>3. Mine(p) = reported[p] \cup Offered(p, Counted(p))
  BY DEF ReportInv, ReportOK
<1>4. Mine(p)' = reported'[p] \cup Offered(p, Counted(p))'
  BY <1>1, <1>2, <1>3
<1> QED
  BY <1>4 DEF ReportOK

\* A step of a producer keeps the reports right.
LEMMA ProducerReports ==
  ASSUME IInv, ReportInv, NEW p \in Producers, Calls(p) \/ ProducerStep(p)
  PROVE  ReportInv'
<1>0. TypeOK /\ k[p] \in Nat /\ n[p] \in Nat /\ len[p] \in Nat /\ ReportOK(p)
  BY DEF IInv, TypeOK, ReportInv
<1>a. ASSUME UNCHANGED <<head, order>>, ReportOK(p)',
             \A q \in Producers : q # p => /\ pc'[q] = pc[q] /\ k'[q] = k[q] /\ n'[q] = n[q]
                                           /\ base'[q] = base[q] /\ reported'[q] = reported[q]
      PROVE  ReportInv'
  BY <1>0, <1>a, MineKept, OthersReport DEF ReportInv
<1>1. CASE Calls(p)
  <2>1. PICK o \in {"enqueue", "batch", "try"}, m \in 1 .. MaxBatch : Call(p, o, m)
    BY <1>1 DEF Calls
  <2>2. /\ Mine(p) = reported[p] /\ k'[p] = 0 /\ pc'[p] \in {"bClosed", "eClosed"}
        /\ UNCHANGED <<head, order, reported>>
    BY <1>0, <2>1 DEF Call, Goto, TypeOK, ReportOK, Counted, Offered, qvars
  <2>3. Mine(p)' = reported'[p] \cup Offered(p, Counted(p))'
    BY <2>2, MineKept DEF Counted, Offered, WritingSteps
  <2>4. ReportOK(p)'
    BY <2>2, <2>3 DEF ReportOK
  <2> QED
    BY <1>0, <1>a, <2>1, <2>2, <2>4 DEF Call, Goto, TypeOK
<1>2. ASSUME NEW r, Return(p, r), r = k[p], UNCHANGED <<head, order, base, k, n>>,
             pc[p] \notin {"idle", "write", "publish"}
      PROVE  ReportInv'
  <2>1. /\ pc'[p] = "idle" /\ Counted(p) = k[p]
        /\ reported'[p] = reported[p] \cup Offered(p, k[p])
    BY <1>0, <1>2 DEF Return, Goto, TypeOK, Counted, WritingSteps, Offered
  <2>2. ReportOK(p)'
    BY <1>0, <1>2, <2>1, ReportStep DEF Counted, BatchSteps
  <2> QED
    BY <1>0, <1>2, <1>a, <2>2 DEF Return, Goto, TypeOK
<1>3. ASSUME NEW l, Goto(p, l), UNCHANGED <<head, order, base, k, reported>>,
             pc[p] \notin {"idle", "write", "publish"}, l \notin {"idle", "write", "publish"},
             l \in BatchSteps => pc[p] \in BatchSteps,
             \A q \in Producers : q # p => n'[q] = n[q]
      PROVE  ReportInv'
  <2>1. pc'[p] = l /\ Counted(p) = k[p] /\ Counted(p)' = k[p]
    BY <1>0, <1>3 DEF Goto, TypeOK, Counted, WritingSteps
  <2>2. ReportOK(p)'
    BY <1>0, <1>3, <2>1, ReportStep DEF ReportOK
  <2> QED
    BY <1>0, <1>3, <1>a, <2>2 DEF Goto, TypeOK
<1> USE DEF qvars, callvars, cvars
<1>4. CASE BatchClosed(p)
  BY <1>0, <1>2, <1>3, <1>4 DEF BatchClosed, ReportOK, BatchSteps
<1>5. CASE BatchHead(p)
  BY <1>0, <1>3, <1>5 DEF BatchHead, BatchSteps, TypeOK
<1>6. CASE BatchLast(p)
  BY <1>3, <1>6 DEF BatchLast, BatchSteps
<1>7. CASE BatchFirst(p)
  BY <1>3, <1>7 DEF BatchFirst, NextAttempt, BatchSteps
<1>8. CASE EnqueueClosed(p)
  BY <1>2, <1>3, <1>8 DEF EnqueueClosed, BatchSteps
<1>9. CASE EnqueueHead(p)
  BY <1>0, <1>3, <1>9 DEF EnqueueHead, BatchSteps, TypeOK
<1>10. CASE EnqueueSeq(p)
  BY <1>2, <1>3, <1>10 DEF EnqueueSeq, BatchSteps
<1>11. CASE EnqueueFull(p)
  BY <1>2, <1>3, <1>11 DEF EnqueueFull, BatchSteps
<1>12. CASE (BatchCas(p) \/ EnqueueCas(p)) /\ ~Claim(p)
  BY <1>2, <1>3, <1>12 DEF BatchCas, EnqueueCas, NextAttempt, BatchSteps
<1>13. CASE (BatchCas(p) \/ EnqueueCas(p)) /\ Claim(p)
  <2>1. /\ pc[p] \notin {"idle", "write", "publish"} /\ pc'[p] = "write"
        /\ UNCHANGED <<base, k, n, reported>>
        /\ \A q \in Producers : q # p => pc'[q] = pc[q]
    BY <1>0, <1>13 DEF BatchCas, EnqueueCas, Claim, Goto, TypeOK
  <2>2. Counted(p) = k[p] /\ Counted(p)' = k[p] + n[p]
    BY <2>1 DEF Counted, WritingSteps
  <2>3. Offered(p, Counted(p))' = Offered(p, k[p]) \cup {Item(p, j) : j \in k[p] .. k[p] + n[p] - 1}
    <3>1. Offered(p, Counted(p))' = {Item(p, j) : j \in 0 .. k[p] + n[p] - 1}
      <4>1. Offered(p, Counted(p))' = {<<p, base'[p] + j>> : j \in 0 .. Counted(p)' - 1}
        BY DEF Offered, Item
      <4>2. base'[p] = base[p] /\ Counted(p)' - 1 = k[p] + n[p] - 1
        BY <1>0, <2>1, <2>2
      <4> QED
        BY <4>1, <4>2 DEF Item
    <3>2. 0 .. k[p] + n[p] - 1 = 0 .. k[p] - 1 \cup k[p] .. k[p] + n[p] - 1
      BY <1>0
    <3> QED
      BY <3>1, <3>2 DEF Offered
  <2>4. ReportOK(p)'
    BY <1>0, <1>13, <2>1, <2>2, <2>3, MineClaim DEF ReportOK, BatchSteps
  <2>5. ASSUME NEW q \in Producers, q # p PROVE ReportOK(q)'
    BY <1>0, <1>13, <2>1, <2>5, MineClaim, OthersReport
  <2> QED
    BY <2>4, <2>5 DEF ReportInv
<1>14. CASE WriteData(p)
  <2>1. pc[p] = "write" /\ pc'[p] = "publish" /\ UNCHANGED <<head, order, base, k, n, reported>>
    BY <1>0, <1>14 DEF WriteData, Goto, TypeOK
  <2>2. ReportOK(p)'
    BY <1>0, <2>1, ReportStep DEF Counted, WritingSteps, BatchSteps
  <2> QED
    BY <1>0, <1>14, <1>a, <2>1, <2>2 DEF WriteData, Goto, TypeOK
<1>15. CASE Publish(p)
  <2>1. pc[p] = "publish" /\ UNCHANGED <<head, order, base, n>> /\ Counted(p) = k[p] + n[p]
    BY <1>15 DEF Publish, Counted, WritingSteps
  <2>2. \/ pc'[p] \in {"write", "eClosed"} /\ reported'[p] = reported[p] /\ Counted(p)' = Counted(p)
        \/ pc'[p] = "idle" /\ reported'[p] = reported[p] \cup Offered(p, Counted(p)) /\ Counted(p)' = 0
    BY <1>0, <1>15, <2>1 DEF Publish, Return, Goto, TypeOK, Counted, WritingSteps, Offered
  <2>3. ReportOK(p)'
    BY <1>0, <2>1, <2>2, ReportStep DEF BatchSteps
  <2>4. \A q \in Producers : q # p => pc'[q] = pc[q] /\ k'[q] = k[q] /\ reported'[q] = reported[q]
    BY <1>0, <1>15 DEF Publish, Return, Goto, TypeOK
  <2> QED
    BY <1>a, <2>1, <2>3, <2>4
<1> QED
  BY <1>1, <1>4, <1>5, <1>6, <1>7, <1>8, <1>9, <1>10, <1>11, <1>12, <1>13, <1>14, <1>15 DEF ProducerStep

\* A call that has returned reported exactly the items it put in the queue: the r of
\* EnqueueBatch is right whatever path the call took and wherever it gave up.
THEOREM ReportsHold == ASSUME Cap >= 2 PROVE Spec => []ReportedExactly
<1>1. Init => ReportInv
  <2> SUFFICES ASSUME Init, NEW p \in Producers PROVE ReportOK(p)
    BY DEF ReportInv
  <2>1. Mine(p) = {}
    BY DEF Init, Mine
  <2>2. reported[p] = {} /\ pc[p] = "idle"
    BY DEF Init
  <2>3. Offered(p, Counted(p)) = {}
    BY <2>2 DEF Offered, Counted
  <2> QED
    BY <2>1, <2>2, <2>3 DEF ReportOK, BatchSteps
<1>2. ASSUME IInv, ReportInv, [Next]_vars PROVE ReportInv'
  <2>1. CASE \E p \in Producers : Calls(p) \/ ProducerStep(p)
    BY <1>2, <2>1, ProducerReports
  <2>2. CASE UNCHANGED <<pc, base, k, n, reported, head, order>>
    BY <1>2, <2>2 DEF ReportInv, ReportOK, Mine, Offered, Counted, Item
  <2> QED
    BY <1>2, <2>1, <2>2
    DEF Next, Dequeue, ConsumerStep, ReadSeq, ReadData, StoreTail, Release, Close, vars, pvars, qvars
<1>3. ReportInv => ReportedExactly
  BY DEF ReportInv, ReportOK, ReportedExactly, Mine, Offered, Counted
<1> QED
  BY <1>1, <1>2, <1>3, InvariantHolds, PTL DEF Spec
=============================================================================
