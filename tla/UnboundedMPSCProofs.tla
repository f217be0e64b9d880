------------------------ MODULE UnboundedMPSCProofs ------------------------
(***************************************************************************)
(* The linked queue implements the mailbox, for every number of producers,  *)
(* nodes and elements.                                                       *)
(*                                                                          *)
(* The argument.  There is always a list L of different nodes from the       *)
(* consumer's sentinel to head (Shape); no node of it is spare or in a chain *)
(* that is not swapped in yet, so none can be given out again or written by  *)
(* a call (Apart, Loose); each one points to the next, or points nowhere and *)
(* exactly one producer, between its two atomics, is about to link it        *)
(* (Linked).  The walk of the refinement mapping goes down this list, so the *)
(* mailbox is the list.  Three actions change it: SwapHead puts a chain at   *)
(* its end, LinkPrev closes its open place, TakeVal drops its first node;    *)
(* all the others are steps that leave it alone (QuietStep).                 *)
(*                                                                          *)
(* The walk is a recursive function; that it goes down the list is shown by  *)
(* looking at the smallest index where it would not (Smallest).              *)
(***************************************************************************)
EXTENDS UnboundedMPSC, WellFoundedInduction, FiniteSetTheorems, SequenceTheorems, TLAPS

\* A non-empty set of natural numbers has a smallest element.
LEMMA Smallest ==
  ASSUME NEW S \in SUBSET Nat, S # {}
  PROVE  \E m \in S : \A n \in S : m <= n
<1> DEFINE R == {ss \in Nat \X Nat : ss[1] < ss[2]}
<1>1. IsWellFoundedOn(R, Nat)
  BY NatLessThanWellFounded DEF OpToRel
<1>2. PICK m \in S : \A n \in S : ~(<<n, m>> \in R)
  BY <1>1, WFMin
<1>3. ASSUME NEW n \in S PROVE m <= n
  <2>1. <<n, m>> \in Nat \X Nat /\ <<n, m>>[1] = n /\ <<n, m>>[2] = m
    OBVIOUS
  <2> QED
    BY <1>2, <2>1
<1> QED
  BY <1>3

Top == Cardinality(Nodes)

\* The sentinel that the next element lies behind.
Start == IF cpc = "tail" THEN nxt ELSE tail

\* When some function satisfies the equation of the walk, the walk does.
LEMMA WalkDef ==
  ASSUME NEW f, f = [j \in 0 .. Top |-> IF j = 0 THEN Start ELSE Succ(f[j - 1])]
  PROVE  Walk = [j \in 0 .. Top |-> IF j = 0 THEN Start ELSE Succ(Walk[j - 1])]
  BY Zenon DEF Walk, Top, Start
----------------------------------------------------------------------------
(* Who has which node.                                                      *)

\* p's call has nodes that nobody else can reach.
Building(p) == pc[p] \in {"alloc", "check", "rollback", "swap"}

\* The nodes that Alloc may give out, now or later.
Spare == pool \cup fresh \cup cache

\* A node that is in no list: spare, or in a chain that is not swapped in yet.
Loose(x) ==
  x \in Spare \/ \E p \in Producers : Building(p) /\ \E i \in 1 .. Len(chain[p]) : chain[p][i] = x

\* A chain under construction is linked, and its nodes are in no other place.
Chains ==
  /\ \A p \in Producers : pc[p] \in {"check", "rollback", "swap", "link"} => chain[p] # <<>>
  /\ \A p \in Producers : Building(p) => \A i \in 1 .. Len(chain[p]) : chain[p][i] \notin Spare
  /\ \A p, q \in Producers : Building(p) /\ Building(q) =>
       \A i \in 1 .. Len(chain[p]), j \in 1 .. Len(chain[q]) : chain[p][i] = chain[q][j] => p = q /\ i = j
  /\ \A p \in Producers : pc[p] \in {"alloc", "check", "swap"} =>
       \A i \in 1 .. Len(chain[p]) : next[chain[p][i]] = IF i < Len(chain[p]) THEN chain[p][i + 1] ELSE Nil
  /\ cache \cap (pool \cup fresh) = {}

\* The consumer has left the sentinel cur and not yet recycled it.
Leaving == cpc \in {"tail", "recycle"}

\* What the consumer knows between its steps.
Consumer ==
  /\ cpc \in {"next", "take", "tail"} => cur = tail
  /\ cpc = "take" => nxt # Nil /\ next[cur] = nxt
  /\ cpc # "idle" => ~Loose(cur)
  /\ Leaving => nxt # Nil
  /\ cpc = "recycle" => tail = nxt

\* L is a list of different nodes from the sentinel to head.
Shape(L) ==
  /\ L \in Seq(Nodes) /\ Len(L) > 0 /\ L[1] = Start /\ L[Len(L)] = head
  /\ \A i, j \in 1 .. Len(L) : L[i] = L[j] => i = j

\* No node of it can be given out again.
Apart(L) ==
  /\ \A i \in 1 .. Len(L) : ~Loose(L[i])
  /\ Leaving => \A i \in 1 .. Len(L) : L[i] # cur

\* Each node is linked to its successor, or exactly one producer is about to do that.
Linked(L) ==
  /\ next[head] = Nil
  /\ \A i \in 1 .. Len(L) - 1 :
       next[L[i]] = L[i + 1] \/ (next[L[i]] = Nil /\ \E p \in Producers : pc[p] = "link" /\ prev[p] = L[i])
  /\ \A p \in Producers : pc[p] = "link" =>
       \E i \in 1 .. Len(L) - 1 : prev[p] = L[i] /\ next[L[i]] = Nil /\ chain[p][1] = L[i + 1]
  /\ \A p, q \in Producers : pc[p] = "link" /\ pc[q] = "link" /\ prev[p] = prev[q] => p = q

List(L) == Shape(L) /\ Apart(L) /\ Linked(L)

\* The values in the list.
Contents(L) == [j \in 1 .. Len(L) - 1 |-> val[L[j + 1]]]

\* The chain of a call holds the elements of the call so far.
Values ==
  /\ \A p \in Producers : pc[p] \in {"alloc", "check", "swap"} =>
       \A i \in 1 .. Len(chain[p]) : val[chain[p][i]] = Item(p, i)
  /\ \A p \in Producers : pc[p] \in {"check", "swap"} => Len(chain[p]) = want[p]
  /\ \A p \in Producers : pc[p] = "alloc" => Len(chain[p]) < want[p]

\* The inductive invariant.
IInv ==
  /\ TypeOK /\ Chains /\ Consumer /\ Values
  /\ \E L \in Seq(Nodes) : List(L) /\ order = got \o Contents(L)

----------------------------------------------------------------------------
(* The mailbox of a list.                                                   *)

\* A list without repetition is no longer than the memory.
LEMMA ListIsShort ==
  ASSUME NEW L \in Seq(Nodes), \A i, j \in 1 .. Len(L) : L[i] = L[j] => i = j
  PROVE  Len(L) \in Nat /\ Top \in Nat /\ Len(L) <= Top
<1>1. Len(L) \in Nat /\ Top \in Nat /\ DOMAIN L = 1 .. Len(L)
  BY LenProperties, NodesAssumption, FS_CardinalityType DEF Top
<1>2. L \in Injection(1 .. Len(L), Nodes)
  <2>1. L \in [1 .. Len(L) -> Nodes]
    BY LenProperties
  <2> QED
    BY <2>1 DEF Injection, IsInjective
<1>3. Cardinality(1 .. Len(L)) <= Cardinality(Nodes)
  BY <1>2, NodesAssumption, FS_Injection DEF ExistsInjection
<1>4. Cardinality(1 .. Len(L)) = Len(L)
  BY <1>1, FS_Interval
<1> QED
  BY <1>1, <1>3, <1>4 DEF Top

\* Succ follows the list, linked or not yet, and ends at head.
LEMMA SuccOfList ==
  ASSUME TypeOK, NEW L, List(L)
  PROVE  /\ \A i \in 1 .. Len(L) - 1 : Succ(L[i]) = L[i + 1]
         /\ Succ(L[Len(L)]) = Nil /\ Succ(Nil) = Nil
<1>1. L \in Seq(Nodes) /\ Len(L) \in Nat /\ \A i \in 1 .. Len(L) : L[i] \in Nodes /\ L[i] # Nil
  BY LenProperties, NodesAssumption, ElementOfSeq DEF List, Shape, Linked
<1>2. ASSUME NEW i \in 1 .. Len(L) - 1 PROVE Succ(L[i]) = L[i + 1]
  <2>1. L[i] # Nil /\ L[i + 1] # Nil
    BY <1>1
  <2>2. CASE next[L[i]] = L[i + 1]
    BY <2>1, <2>2 DEF Succ
  <2>3. CASE next[L[i]] = Nil /\ \E p \in Producers : pc[p] = "link" /\ prev[p] = L[i]
    <3> DEFINE c == CHOOSE p \in Producers : pc[p] = "link" /\ prev[p] = L[i]
    <3>1. c \in Producers /\ pc[c] = "link" /\ prev[c] = L[i]
      BY <2>3
    <3>2. Succ(L[i]) = chain[c][1]
      BY <2>1, <2>3 DEF Succ
    <3> HIDE DEF c
    <3>3. PICK k \in 1 .. Len(L) - 1 : prev[c] = L[k] /\ chain[c][1] = L[k + 1]
      BY <3>1 DEF List, Shape, Linked
    <3>4. k = i
      <4>1. k \in 1 .. Len(L) /\ i \in 1 .. Len(L) /\ L[k] = L[i]
        BY <3>1, <3>3, <1>1
      <4> QED
        BY <4>1 DEF List, Shape, Linked
    <3> QED
      BY <3>2, <3>3, <3>4
  <2> QED
    BY <2>2, <2>3 DEF List, Shape, Linked
<1>3. Succ(L[Len(L)]) = Nil
  <2>1. L[Len(L)] # Nil /\ next[L[Len(L)]] = Nil
    BY <1>1 DEF List, Shape, Linked
  <2>2. ASSUME NEW p \in Producers, pc[p] = "link" PROVE prev[p] # L[Len(L)]
    <3>1. PICK k \in 1 .. Len(L) - 1 : prev[p] = L[k]
      BY <2>2 DEF List, Shape, Linked
    <3> QED
      BY <3>1, <1>1 DEF List, Shape, Linked
  <2> QED
    BY <2>1, <2>2 DEF Succ
<1>4. Succ(Nil) = Nil
  BY DEF Succ
<1> QED
  BY <1>2, <1>3, <1>4

\* The walk of the refinement mapping goes down the list and stays at Nil.
LEMMA WalkOfList ==
  ASSUME TypeOK, NEW L, List(L)
  PROVE  Walk = [j \in 0 .. Top |-> IF j < Len(L) THEN L[j + 1] ELSE Nil]
<1> DEFINE f == [j \in 0 .. Top |-> IF j < Len(L) THEN L[j + 1] ELSE Nil]
<1>1. L \in Seq(Nodes) /\ Len(L) \in Nat /\ Len(L) > 0 /\ Top \in Nat /\ L[1] = Start
  BY ListIsShort DEF List, Shape, Linked
<1>2. /\ \A i \in 1 .. Len(L) - 1 : Succ(L[i]) = L[i + 1]
      /\ Succ(L[Len(L)]) = Nil /\ Succ(Nil) = Nil
  BY SuccOfList
<1>3. ASSUME NEW j \in 1 .. Top PROVE f[j] = Succ(f[j - 1])
  <2>1. j - 1 \in 0 .. Top /\ j \in 0 .. Top
    BY <1>1
  <2>2. CASE j < Len(L)
    <3>1. j \in 1 .. Len(L) - 1 /\ f[j] = L[j + 1] /\ f[j - 1] = L[j]
      BY <2>1, <2>2, <1>1
    <3> QED
      BY <3>1, <1>2
  <2>3. CASE j = Len(L)
    <3>1. f[j] = Nil /\ f[j - 1] = L[Len(L)]
      BY <2>1, <2>3, <1>1
    <3> QED
      BY <3>1, <1>2
  <2>4. CASE j > Len(L)
    <3>1. f[j] = Nil /\ f[j - 1] = Nil
      BY <2>1, <2>4, <1>1
    <3> QED
      BY <3>1, <1>2
  <2> QED
    BY <2>2, <2>3, <2>4, <1>1
<1>4. f[0] = Start
  BY <1>1
<1>f. f = [j \in 0 .. Top |-> f[j]]
  OBVIOUS
<1> HIDE DEF f
<1>5. f = [j \in 0 .. Top |-> IF j = 0 THEN Start ELSE Succ(f[j - 1])]
  <2>1. ASSUME NEW j \in 0 .. Top PROVE f[j] = IF j = 0 THEN Start ELSE Succ(f[j - 1])
    <3>1. j = 0 \/ j \in 1 .. Top
      BY <1>1
    <3> QED
      BY <3>1, <1>3, <1>4
  <2>2. [j \in 0 .. Top |-> f[j]] = [j \in 0 .. Top |-> IF j = 0 THEN Start ELSE Succ(f[j - 1])]
    BY <2>1
  <2> QED
    BY <2>2, <1>f
<1>6. Walk = [j \in 0 .. Top |-> IF j = 0 THEN Start ELSE Succ(Walk[j - 1])]
  BY <1>5, WalkDef
<1>7. \A j \in 0 .. Top : Walk[j] = f[j]
  <2> DEFINE S == {j \in 0 .. Top : Walk[j] # f[j]}
  <2>1. SUFFICES ASSUME S # {} PROVE FALSE
    OBVIOUS
  <2>2. S \in SUBSET Nat
    BY <1>1
  <2>3. PICK m \in S : \A n \in S : m <= n
    BY <2>1, <2>2, Smallest
  <2>4. m \in 0 .. Top /\ Walk[m] # f[m]
    OBVIOUS
  <2>5. m # 0
    BY <1>4, <1>6, <1>1, <2>4
  <2>6. m - 1 \in 0 .. Top /\ m - 1 \notin S
    BY <2>3, <2>4, <2>5, <1>1
  <2>7. Walk[m - 1] = f[m - 1]
    BY <2>6
  <2>8. Walk[m] = Succ(Walk[m - 1])
    BY <1>6, <2>4, <2>5
  <2>9. m \in 1 .. Top
    BY <2>4, <2>5, <1>1
  <2> QED
    BY <1>3, <2>4, <2>7, <2>8, <2>9
<1>8. Walk = [j \in 0 .. Top |-> Walk[j]]
  BY <1>6
<1>9. Walk = f
  BY <1>7, <1>8, <1>f
<1> QED
  BY <1>9 DEF f

\* The elements behind the sentinel, each with whether its place is linked.
BoxOf(L) == [j \in 1 .. Len(L) - 1 |-> [item |-> val[L[j + 1]], linked |-> next[L[j]] = L[j + 1]]]

\* The mailbox is the list behind the sentinel.
LEMMA MailboxIs == \A L : TypeOK /\ List(L) => MailboxOf = BoxOf(L)
<1> SUFFICES ASSUME TypeOK, NEW L, List(L) PROVE MailboxOf = BoxOf(L)
  OBVIOUS
<1> DEFINE w == Walk
           D == {j \in DOMAIN w : w[j] # Nil}
<1>1. L \in Seq(Nodes) /\ Len(L) \in Nat /\ Len(L) > 0 /\ Top \in Nat /\ Len(L) <= Top
  BY ListIsShort DEF List, Shape, Linked
<1>2. w = [j \in 0 .. Top |-> IF j < Len(L) THEN L[j + 1] ELSE Nil]
  BY WalkOfList
<1>3. \A i \in 1 .. Len(L) : L[i] # Nil
  BY <1>1, ElementOfSeq, NodesAssumption
<1>4. D = 0 .. Len(L) - 1
  <2>1. \A j \in D : j \in 0 .. Len(L) - 1
    BY <1>1, <1>2
  <2>2. \A j \in 0 .. Len(L) - 1 : j \in 0 .. Top /\ w[j] = L[j + 1] /\ w[j] # Nil
    BY <1>1, <1>2, <1>3
  <2> QED
    BY <2>1, <2>2, <1>2
<1>6. \A j \in 1 .. Len(L) - 1 : w[j] = L[j + 1] /\ w[j - 1] = L[j]
  BY <1>1, <1>2
<1>7. MailboxOf = [j \in 1 .. Cardinality(D) - 1 |-> [item |-> val[w[j]], linked |-> next[w[j - 1]] = w[j]]]
  BY DEF MailboxOf
<1> HIDE DEF w, D
<1>5. Cardinality(D) - 1 = Len(L) - 1
  <2>0. 0 \in Int /\ Len(L) - 1 \in Int /\ ~(0 > Len(L) - 1)
    BY <1>1
  <2>1. Cardinality(0 .. Len(L) - 1) = (Len(L) - 1) - 0 + 1
    BY <2>0, FS_Interval
  <2> QED
    BY <2>1, <1>4, <1>1
<1>8. MailboxOf = [j \in 1 .. Len(L) - 1 |-> [item |-> val[w[j]], linked |-> next[w[j - 1]] = w[j]]]
  BY <1>5, <1>7
<1> QED
  BY <1>6, <1>8 DEF BoxOf

----------------------------------------------------------------------------
(* Types.                                                                   *)

\* A function on 1 .. n is a sequence.
LEMMA FunIsSeq ==
  ASSUME NEW S, NEW n \in Nat, NEW f \in [1 .. n -> S]
  PROVE  f \in Seq(S) /\ Len(f) = n
<1>1. f \in Seq(S)
  BY SeqDef, Zenon
<1> QED
  BY <1>1, LenProperties

\* The elements of a call are items.
LEMMA CallItemsType ==
  ASSUME TypeOK, NEW p \in Producers
  PROVE  /\ CallItems(p) \in Seq(Items) /\ Len(CallItems(p)) = want[p]
         /\ \A j \in 1 .. want[p] : CallItems(p)[j] = Item(p, j)
         /\ \A j \in Nat : Item(p, j) \in Items
<1>1. want[p] \in Nat /\ sent[p] \in Nat
  BY DEF TypeOK
<1>2. \A j \in Nat : Item(p, j) \in Items
  BY <1>1 DEF Item, Items
<1>3. CallItems(p) \in [1 .. want[p] -> Items]
  BY <1>1, <1>2 DEF CallItems
<1>4. CallItems(p) \in Seq(Items) /\ Len(CallItems(p)) = want[p]
  BY <1>1, <1>3, FunIsSeq
<1>5. \A j \in 1 .. want[p] : CallItems(p)[j] = Item(p, j)
  BY DEF CallItems
<1> QED
  BY <1>1, <1>2, <1>3, <1>4, <1>5

\* The variables start with their types.
LEMMA InitTypes == Init => TypeOK
<1> SUFFICES ASSUME Init PROVE TypeOK
  OBVIOUS
<1>1. (CHOOSE x \in Nodes : TRUE) \in Nodes
  BY NodesAssumption
<1>2. head \in Nodes /\ tail \in Nodes /\ cur \in Nodes /\ fresh \in SUBSET Nodes
  BY <1>1 DEF Init
<1>3. order \in Seq(Items) /\ got \in Seq(Items \cup {Zero})
  BY EmptySeq DEF Init
<1>4. chain \in [Producers -> Seq(Nodes)]
  BY EmptySeq DEF Init
<1>5. /\ next \in [Nodes -> Nodes \cup {Nil}] /\ val \in [Nodes -> Items \cup {Zero}] /\ pc \in [Producers -> PSteps]
      /\ want \in [Producers -> Nat] /\ prev \in [Producers -> Nodes \cup {Nil}] /\ sent \in [Producers -> Nat]
  BY DEF Init, PSteps
<1>6. stopped \in BOOLEAN /\ pool \in SUBSET Nodes /\ cache \in SUBSET Nodes
  BY DEF Init
<1>7. cpc \in {"idle", "next", "take", "tail", "recycle"} /\ lim \in Nat /\ cnt \in Nat /\ nxt \in Nodes \cup {Nil}
  BY DEF Init
<1> QED
  BY <1>2, <1>3, <1>4, <1>5, <1>6, <1>7 DEF TypeOK

\* What a producer's step does to the types.
LEMMA ProducerTypes ==
  ASSUME TypeOK, NEW p \in Producers, ProducerStep(p) \/ \E m \in 1 .. MaxBatch : TryEnqueue(p, m),
         pc[p] \in {"check", "rollback", "swap", "link"} => chain[p] # <<>>
  PROVE  TypeOK'
<1> USE DEF TypeOK
<1>0. sent[p] \in Nat /\ want[p] \in Nat /\ chain[p] \in Seq(Nodes) /\ Len(chain[p]) \in Nat /\ pc[p] \in PSteps
  BY LenProperties
<1>1. ASSUME NEW m \in 1 .. MaxBatch, TryEnqueue(p, m) PROVE TypeOK'
  <2>1. m \in Nat
    BY BoundAssumption
  <2>2. CASE stopped
    <3>1. sent' = [sent EXCEPT ![p] = sent[p] + m] /\ UNCHANGED <<pc, want, chain>>
      BY <1>1, <2>2 DEF TryEnqueue
    <3>2. sent[p] + m \in Nat
      BY <1>0, <2>1
    <3>3. sent' \in [Producers -> Nat]
      BY <3>1, <3>2
    <3> QED
      BY <1>1, <3>1, <3>3 DEF TryEnqueue, cvars
  <2>3. CASE ~stopped
    <3>1. /\ UNCHANGED sent /\ pc' = [pc EXCEPT ![p] = "alloc"]
          /\ want' = [want EXCEPT ![p] = m] /\ chain' = [chain EXCEPT ![p] = <<>>]
      BY <1>1, <2>3 DEF TryEnqueue, Goto
    <3>2. pc' \in [Producers -> PSteps] /\ want' \in [Producers -> Nat]
      BY <3>1, <2>1 DEF PSteps
    <3>3. <<>> \in Seq(Nodes)
      BY EmptySeq
    <3>4. chain' \in [Producers -> Seq(Nodes)]
      BY <3>1, <3>3
    <3> QED
      BY <1>1, <3>1, <3>2, <3>4 DEF TryEnqueue, cvars
  <2> QED
    BY <2>2, <2>3
<1>2. CASE Alloc(p)
  <2>1. PICK x \in pool \cup NewNode :
          /\ pool' = pool \ {x} /\ fresh' = fresh \ {x}
          /\ val' = [val EXCEPT ![x] = Item(p, Len(chain[p]) + 1)]
          /\ next' = [y \in Nodes |-> IF y = x THEN Nil
                                      ELSE IF chain[p] # <<>> /\ y = chain[p][Len(chain[p])] THEN x
                                      ELSE next[y]]
          /\ chain' = [chain EXCEPT ![p] = Append(@, x)]
    BY <1>2 DEF Alloc
  <2>2. x \in Nodes
    BY DEF NewNode
  <2>3. Item(p, Len(chain[p]) + 1) \in Items
    BY <1>0, CallItemsType
  <2>4. Append(chain[p], x) \in Seq(Nodes)
    BY <1>0, <2>2, AppendProperties
  <2>5. chain' \in [Producers -> Seq(Nodes)]
    BY <2>1, <2>4
  <2>6. val' \in [Nodes -> Items \cup {Zero}] /\ next' \in [Nodes -> Nodes \cup {Nil}]
    BY <2>1, <2>2, <2>3
  <2>7. pool' \in SUBSET Nodes /\ fresh' \in SUBSET Nodes
    BY <2>1
  <2>8. pc' \in [Producers -> PSteps]
    BY <1>2 DEF Alloc, Goto, PSteps
  <2> QED
    BY <1>2, <2>5, <2>6, <2>7, <2>8 DEF Alloc, cvars
<1>3. CASE Recheck(p)
  <2>1. pc' \in [Producers -> PSteps]
    BY <1>3 DEF Recheck, Goto, PSteps
  <2> QED
    BY <1>3, <2>1 DEF Recheck, cvars
<1>4. CASE Rollback(p)
  <2>1. Head(chain[p]) \in Nodes /\ Tail(chain[p]) \in Seq(Nodes)
    BY <1>0, <1>4, HeadTailProperties DEF Rollback
  <2>2. val' \in [Nodes -> Items \cup {Zero}] /\ pool' \in SUBSET Nodes
    BY <1>4, <2>1 DEF Rollback
  <2>3. chain' \in [Producers -> Seq(Nodes)]
    BY <1>4, <2>1 DEF Rollback
  <2>4. pc' \in [Producers -> PSteps] /\ sent' \in [Producers -> Nat]
    <3>1. CASE Len(chain[p]) = 1
      <4>1. pc' = [pc EXCEPT ![p] = "idle"] /\ sent' = [sent EXCEPT ![p] = sent[p] + want[p]]
        BY <1>4, <3>1 DEF Rollback, Goto
      <4>2. sent[p] + want[p] \in Nat
        BY <1>0
      <4> QED
        BY <4>1, <4>2 DEF PSteps
    <3>2. CASE Len(chain[p]) # 1
      BY <1>4, <3>2 DEF Rollback
    <3> QED
      BY <3>1, <3>2
  <2> QED
    BY <1>4, <2>2, <2>3, <2>4 DEF Rollback, cvars
<1>5. CASE SwapHead(p)
  <2>1. chain[p][Len(chain[p])] \in Nodes
    <3>1. Len(chain[p]) \in 1 .. Len(chain[p])
      BY <1>0, <1>5, EmptySeq DEF SwapHead
    <3> QED
      BY <1>0, <3>1, ElementOfSeq
  <2>2. order' \in Seq(Items)
    BY <1>5, CallItemsType, ConcatProperties DEF SwapHead
  <2>3. pc' \in [Producers -> PSteps] /\ prev' \in [Producers -> Nodes \cup {Nil}] /\ head' \in Nodes
    BY <1>5, <2>1 DEF SwapHead, Goto, PSteps
  <2> QED
    BY <1>5, <2>2, <2>3 DEF SwapHead, cvars
<1>6. CASE LinkPrev(p)
  <2>1. chain[p][1] \in Nodes
    <3>1. 1 \in 1 .. Len(chain[p])
      BY <1>0, <1>6, EmptySeq DEF LinkPrev
    <3> QED
      BY <1>0, <3>1, ElementOfSeq
  <2>2. next' \in [Nodes -> Nodes \cup {Nil}]
    BY <1>6, <2>1 DEF LinkPrev
  <2>3. chain' \in [Producers -> Seq(Nodes)]
    BY <1>6, EmptySeq DEF LinkPrev, ReturnTrue
  <2>4. pc' \in [Producers -> PSteps] /\ prev' \in [Producers -> Nodes \cup {Nil}] /\ sent' \in [Producers -> Nat]
    BY <1>0, <1>6 DEF LinkPrev, ReturnTrue, Goto, PSteps
  <2> QED
    BY <1>6, <2>2, <2>3, <2>4 DEF LinkPrev, cvars
<1> QED
  BY <1>1, <1>2, <1>3, <1>4, <1>5, <1>6 DEF ProducerStep

\* The same for the consumer and StopEnqueue.
LEMMA ConsumerTypes ==
  ASSUME TypeOK, Consumer, ConsumerStep \/ (\E m \in 1 .. MaxBatch : DequeueBatch(m)) \/ Shrink \/ StopEnqueue
  PROVE  TypeOK'
<1> USE DEF TypeOK
<1>1. ASSUME NEW m \in 1 .. MaxBatch, DequeueBatch(m) PROVE TypeOK'
  <2>1. m \in Nat
    BY BoundAssumption
  <2> QED
    BY <1>1, <2>1 DEF DequeueBatch, pvars
<1>2. CASE LoadNext
  BY <1>2 DEF LoadNext, pvars
<1>3. CASE TakeVal
  <2>1. nxt \in Nodes
    BY <1>3 DEF TakeVal, Consumer
  <2>2. got' \in Seq(Items \cup {Zero})
    BY <1>3, <2>1, AppendProperties DEF TakeVal
  <2> QED
    BY <1>3, <2>1, <2>2 DEF TakeVal, pvars
<1>4. CASE StoreTail
  BY <1>4 DEF StoreTail, Consumer, Leaving, pvars
<1>5. CASE Recycle
  BY <1>5 DEF Recycle, Consumer, Leaving, pvars
<1>6. CASE Shrink
  BY <1>6 DEF Shrink, pvars
<1>7. CASE StopEnqueue
  BY <1>7 DEF StopEnqueue, pvars, cvars
<1> QED
  BY <1>1, <1>2, <1>3, <1>4, <1>5, <1>6, <1>7 DEF ConsumerStep

----------------------------------------------------------------------------
(* The steps that leave the list alone.                                     *)

\* Nothing that the list or the mailbox depends on changes.
QuietStep ==
  /\ head' = head /\ Start' = Start /\ order' = order /\ got' = got
  /\ \A x \in Nodes : Loose(x)' => Loose(x) \/ (Leaving /\ x = cur)
  /\ \A x \in Nodes : ~Loose(x) /\ ~(Leaving /\ x = cur) => next'[x] = next[x] /\ val'[x] = val[x]
  /\ \A p \in Producers : pc'[p] = "link" <=> pc[p] = "link"
  /\ \A p \in Producers : pc[p] = "link" => prev'[p] = prev[p] /\ chain'[p] = chain[p]
  /\ Leaving' => Leaving /\ cur' = cur

\* The nodes of a list keep their fields in such a step, and the list stays.
LEMMA QuietKeeps ==
  ASSUME NEW L, List(L), QuietStep
  PROVE  List(L)' /\ Contents(L)' = Contents(L) /\ BoxOf(L)' = BoxOf(L)
<1>0. L \in Seq(Nodes) /\ Len(L) \in Nat /\ Len(L) > 0 /\ head = L[Len(L)] /\ \A i \in 1 .. Len(L) : L[i] \in Nodes
  BY LenProperties, ElementOfSeq DEF List, Shape
<1>1. \A i \in 1 .. Len(L) : ~Loose(L[i]) /\ ~(Leaving /\ L[i] = cur)
  BY DEF List, Apart
<1>2. \A i \in 1 .. Len(L) : next'[L[i]] = next[L[i]] /\ val'[L[i]] = val[L[i]]
  BY <1>0, <1>1 DEF QuietStep
<1>3. Shape(L)'
  BY DEF List, Shape, QuietStep
<1>4. Apart(L)'
  BY <1>0, <1>1 DEF Apart, QuietStep
<1>5. Linked(L)'
  <2>1. head' \in Nodes /\ head' = L[Len(L)] /\ next'[head'] = Nil
    BY <1>0, <1>2 DEF QuietStep, List, Linked
  <2>2. ASSUME NEW i \in 1 .. Len(L) - 1
        PROVE  next'[L[i]] = L[i + 1] \/ (next'[L[i]] = Nil /\ \E p \in Producers : pc'[p] = "link" /\ prev'[p] = L[i])
    <3>1. i \in 1 .. Len(L)
      BY <1>0
    <3> QED
      BY <1>2, <3>1 DEF List, Linked, QuietStep
  <2>3. ASSUME NEW p \in Producers, pc'[p] = "link"
        PROVE  \E i \in 1 .. Len(L) - 1 : prev'[p] = L[i] /\ next'[L[i]] = Nil /\ chain'[p][1] = L[i + 1]
    <3>1. pc[p] = "link" /\ prev'[p] = prev[p] /\ chain'[p] = chain[p]
      BY <2>3 DEF QuietStep
    <3>2. PICK i \in 1 .. Len(L) - 1 : prev[p] = L[i] /\ next[L[i]] = Nil /\ chain[p][1] = L[i + 1]
      BY <3>1 DEF List, Linked
    <3>3. i \in 1 .. Len(L)
      BY <1>0
    <3> QED
      BY <1>2, <3>1, <3>2, <3>3
  <2>4. \A p, q \in Producers : pc'[p] = "link" /\ pc'[q] = "link" /\ prev'[p] = prev'[q] => p = q
    BY DEF List, Linked, QuietStep
  <2> QED
    BY <2>1, <2>2, <2>3, <2>4 DEF Linked
<1>6. \A j \in 1 .. Len(L) - 1 : /\ next'[L[j]] = next[L[j]] /\ val'[L[j + 1]] = val[L[j + 1]]
  BY <1>0, <1>2
<1>7. Contents(L)' = Contents(L) /\ BoxOf(L)' = BoxOf(L)
  BY <1>6 DEF Contents, BoxOf
<1> QED
  BY <1>3, <1>4, <1>5, <1>7 DEF List

\* A call begins: it has no nodes yet.
LEMMA TryEnqueueQuiet ==
  ASSUME TypeOK, Chains, Consumer, Values, NEW p \in Producers, NEW m \in 1 .. MaxBatch, TryEnqueue(p, m)
  PROVE  QuietStep /\ Chains' /\ Consumer' /\ Values'
<1>0. m \in Nat /\ m > 0
  BY BoundAssumption
<1>1. pc[p] = "idle" /\ UNCHANGED <<head, next, val, stopped, fresh, pool, prev, cvars, order>>
  BY DEF TryEnqueue
<1>2. CASE stopped
  <2>1. sent' = [sent EXCEPT ![p] = sent[p] + m] /\ UNCHANGED <<pc, want, chain>>
    BY <1>2 DEF TryEnqueue
  <2>2. \A q \in Producers : q # p => sent'[q] = sent[q]
    BY <2>1 DEF TypeOK
  <2>3. QuietStep
    BY <1>1, <2>1 DEF QuietStep, Start, Loose, Building, Spare, Leaving, cvars
  <2>4. Chains' /\ Consumer'
    BY <1>1, <2>1 DEF Chains, Consumer, Building, Spare, Loose, Leaving, cvars
  <2>5. Values'
    BY <1>1, <2>1, <2>2 DEF Values, Item
  <2> QED
    BY <2>3, <2>4, <2>5
<1>3. CASE ~stopped
  <2>1. /\ UNCHANGED sent /\ pc' = [pc EXCEPT ![p] = "alloc"]
        /\ want' = [want EXCEPT ![p] = m] /\ chain' = [chain EXCEPT ![p] = <<>>]
    BY <1>3 DEF TryEnqueue, Goto
  <2>2. /\ \A q \in Producers : q # p => pc'[q] = pc[q] /\ want'[q] = want[q] /\ chain'[q] = chain[q]
        /\ pc'[p] = "alloc" /\ want'[p] = m /\ chain'[p] = <<>> /\ Len(chain'[p]) = 0
    BY <2>1 DEF TypeOK
  <2>3. \A q \in Producers : Building(q)' <=> Building(q) \/ q = p
    BY <2>2, <1>1 DEF Building
  <2>4. Spare' = Spare
    BY <1>1 DEF Spare, cvars
  <2>5. \A x : Loose(x)' => Loose(x)
    BY <2>2, <2>3, <2>4 DEF Loose
  <2>6. QuietStep
    BY <1>1, <2>2, <2>5 DEF QuietStep, Start, Leaving, cvars
  <2>7. Chains'
    <3>1. \A q \in Producers : pc'[q] \in {"check", "rollback", "swap", "link"} => chain'[q] # <<>>
      BY <2>2 DEF Chains
    <3>2. \A q \in Producers : Building(q)' => \A i \in 1 .. Len(chain'[q]) : chain'[q][i] \notin Spare'
      BY <2>2, <2>3, <2>4 DEF Chains
    <3>3. \A q, r \in Producers : Building(q)' /\ Building(r)' =>
            \A i \in 1 .. Len(chain'[q]), j \in 1 .. Len(chain'[r]) : chain'[q][i] = chain'[r][j] => q = r /\ i = j
      BY <2>2, <2>3 DEF Chains
    <3>4. \A q \in Producers : pc'[q] \in {"alloc", "check", "swap"} =>
            \A i \in 1 .. Len(chain'[q]) : next'[chain'[q][i]] = IF i < Len(chain'[q]) THEN chain'[q][i + 1] ELSE Nil
      BY <1>1, <2>2 DEF Chains
    <3>5. (cache \cap (pool \cup fresh) = {})'
      BY <1>1 DEF Chains, cvars
    <3> QED
      BY <3>1, <3>2, <3>3, <3>4, <3>5 DEF Chains
  <2>8. Consumer'
    BY <1>1, <2>5 DEF Consumer, Leaving, cvars
  <2>9. Values'
    <3>1. ASSUME NEW q \in Producers, pc'[q] \in {"alloc", "check", "swap"}, NEW i \in 1 .. Len(chain'[q])
          PROVE  val'[chain'[q][i]] = Item(q, i)'
      <4>1. q # p
        BY <2>2, <3>1
      <4>2. chain'[q] = chain[q] /\ pc'[q] = pc[q] /\ val' = val /\ sent' = sent
        BY <1>1, <2>1, <2>2, <4>1
      <4>3. val[chain[q][i]] = Item(q, i)
        BY <3>1, <4>2 DEF Values
      <4> QED
        BY <4>2, <4>3 DEF Item
    <3>2. \A q \in Producers : pc'[q] \in {"check", "swap"} => Len(chain'[q]) = want'[q]
      BY <2>2 DEF Values
    <3>3. \A q \in Producers : pc'[q] = "alloc" => Len(chain'[q]) < want'[q]
      BY <1>0, <2>2 DEF Values
    <3> QED
      BY <3>1, <3>2, <3>3 DEF Values
  <2> QED
    BY <2>6, <2>7, <2>8, <2>9
<1> QED
  BY <1>2, <1>3

\* The second look at enqueueStopped changes nothing but the producer's place.
LEMMA RecheckQuiet ==
  ASSUME TypeOK, Chains, Consumer, Values, NEW p \in Producers, Recheck(p)
  PROVE  QuietStep /\ Chains' /\ Consumer' /\ Values'
<1>1. pc[p] = "check" /\ UNCHANGED <<head, next, val, stopped, fresh, pool, want, chain, prev, sent, cvars, order>>
  BY DEF Recheck
<1>2. pc'[p] \in {"rollback", "swap"} /\ \A q \in Producers : q # p => pc'[q] = pc[q]
  BY DEF Recheck, Goto, TypeOK
<1>3. \A q \in Producers : Building(q)' <=> Building(q)
  BY <1>1, <1>2 DEF Building
<1>4. \A x : Loose(x)' <=> Loose(x)
  BY <1>1, <1>3 DEF Loose, Spare, cvars
<1>5. QuietStep
  BY <1>1, <1>2, <1>4 DEF QuietStep, Start, Leaving, cvars
<1>6. Chains'
  BY <1>1, <1>2, <1>3 DEF Chains, Spare, cvars
<1>7. Consumer'
  BY <1>1, <1>4 DEF Consumer, Leaving, cvars
<1>8. Values'
  BY <1>1, <1>2 DEF Values, Item
<1> QED
  BY <1>5, <1>6, <1>7, <1>8

\* A node moves from the pool, or from the heap, to the chain under construction.
LEMMA AllocQuiet ==
  ASSUME TypeOK, Chains, Consumer, Values, NEW p \in Producers, Alloc(p)
  PROVE  QuietStep /\ Chains' /\ Consumer' /\ Values'
<1> DEFINE n == Len(chain[p])
<1>1. /\ pc[p] = "alloc" /\ UNCHANGED <<head, stopped, want, prev, sent, cvars, order>>
      /\ pc' = [pc EXCEPT ![p] = IF n + 1 = want[p] THEN "check" ELSE "alloc"]
  BY DEF Alloc, Goto
<1>2. PICK x \in pool \cup NewNode :
        /\ pool' = pool \ {x} /\ fresh' = fresh \ {x}
        /\ val' = [val EXCEPT ![x] = Item(p, n + 1)]
        /\ next' = [y \in Nodes |-> IF y = x THEN Nil
                                    ELSE IF chain[p] # <<>> /\ y = chain[p][n] THEN x
                                    ELSE next[y]]
        /\ chain' = [chain EXCEPT ![p] = Append(@, x)]
  BY DEF Alloc
<1>3. x \in Nodes /\ x \in pool \cup fresh /\ x \in Spare /\ x \notin cache
  BY DEF NewNode, TypeOK, Spare, Chains
<1>4. n \in Nat /\ chain[p] \in Seq(Nodes) /\ want[p] \in Nat /\ \A i \in 1 .. n : chain[p][i] \in Nodes
  BY LenProperties, ElementOfSeq DEF TypeOK
<1>5. /\ chain'[p] = Append(chain[p], x) /\ Len(chain'[p]) = n + 1 /\ chain'[p][n + 1] = x
      /\ \A i \in 1 .. n : chain'[p][i] = chain[p][i]
  BY <1>2, <1>3, <1>4, AppendProperties DEF TypeOK
<1>6. \A q \in Producers : q # p => pc'[q] = pc[q] /\ chain'[q] = chain[q]
  BY <1>1, <1>2 DEF TypeOK
<1>7. pc'[p] = IF n + 1 = want[p] THEN "check" ELSE "alloc"
  BY <1>1 DEF TypeOK
<1>8. \A q \in Producers : Building(q)' <=> Building(q)
  BY <1>1, <1>6, <1>7 DEF Building
<1>9. Spare' = Spare \ {x}
  BY <1>1, <1>2, <1>3 DEF Spare, cvars
<1>10. Building(p)
  BY <1>1 DEF Building
<1>11. \A q \in Producers : Building(q) => \A i \in 1 .. Len(chain[q]) : chain[q][i] # x /\ chain[q][i] \notin Spare /\ chain[q][i] \in Nodes
  BY <1>3, ElementOfSeq DEF Chains, TypeOK
<1>12. \A i \in 1 .. n + 1 : i \in 1 .. n \/ i = n + 1
  BY <1>4
<1> HIDE DEF n
<1>13. \A y : Loose(y)' => Loose(y)
  <2> SUFFICES ASSUME NEW y, Loose(y)', y \notin Spare
               PROVE  \E q \in Producers : Building(q) /\ \E i \in 1 .. Len(chain[q]) : chain[q][i] = y
    BY DEF Loose
  <2>1. PICK q \in Producers : Building(q)' /\ \E i \in 1 .. Len(chain'[q]) : chain'[q][i] = y
    BY <1>9 DEF Loose
  <2>2. PICK i \in 1 .. Len(chain'[q]) : chain'[q][i] = y
    BY <2>1
  <2>3. CASE q # p
    BY <2>1, <2>2, <2>3, <1>6, <1>8
  <2>4. CASE q = p
    <3>1. i \in 1 .. n
      BY <2>2, <2>4, <1>3, <1>5, <1>12
    <3> QED
      BY <3>1, <2>2, <2>4, <1>5, <1>10 DEF n
  <2> QED
    BY <2>3, <2>4
<1>14. \A y \in Nodes : ~Loose(y) => next'[y] = next[y] /\ val'[y] = val[y]
  <2> SUFFICES ASSUME NEW y \in Nodes, ~Loose(y) PROVE next'[y] = next[y] /\ val'[y] = val[y]
    OBVIOUS
  <2>1. y # x
    BY <1>3 DEF Loose
  <2>2. ~(chain[p] # <<>> /\ y = chain[p][n])
    <3>1. chain[p] # <<>> => n \in 1 .. n
      BY <1>4, EmptySeq DEF n
    <3> QED
      BY <3>1, <1>10 DEF Loose, n
  <2> QED
    BY <2>1, <2>2, <1>2 DEF TypeOK
<1>15. QuietStep
  BY <1>1, <1>2, <1>6, <1>7, <1>13, <1>14 DEF QuietStep, Start, Leaving, cvars
<1>16. Consumer'
  <2>1. cpc = "take" => next'[cur'] = next[cur]
    <3> SUFFICES ASSUME cpc = "take" PROVE next'[cur'] = next[cur]
      OBVIOUS
    <3>1. ~Loose(cur) /\ cur \in Nodes /\ cur' = cur
      BY <1>1 DEF TypeOK, Consumer, cvars
    <3> QED
      BY <3>1, <1>14
  <2> QED
    BY <2>1, <1>1, <1>13 DEF Consumer, Leaving, cvars
<1>17. Chains'
  <2>1. \A q \in Producers : pc'[q] \in {"check", "rollback", "swap", "link"} => chain'[q] # <<>>
    <3>1. chain'[p] # <<>>
      BY <1>3, <1>4, <1>5, AppendProperties
    <3> QED
      BY <3>1, <1>6 DEF Chains
  <2>2. \A q \in Producers : Building(q)' => \A i \in 1 .. Len(chain'[q]) : chain'[q][i] \notin Spare'
    <3> SUFFICES ASSUME NEW q \in Producers, Building(q)', NEW i \in 1 .. Len(chain'[q])
                 PROVE  chain'[q][i] \notin Spare'
      OBVIOUS
    <3>1. CASE q # p
      BY <3>1, <1>6, <1>8, <1>9, <1>11
    <3>2. CASE q = p
      BY <3>2, <1>5, <1>9, <1>10, <1>11, <1>12 DEF n
    <3> QED
      BY <3>1, <3>2
  <2>3. \A q, r \in Producers : Building(q)' /\ Building(r)' =>
          \A i \in 1 .. Len(chain'[q]), j \in 1 .. Len(chain'[r]) : chain'[q][i] = chain'[r][j] => q = r /\ i = j
    <3>0. ASSUME NEW q \in Producers, Building(q)', NEW i \in 1 .. Len(chain'[q])
          PROVE  \/ q = p /\ i = n + 1 /\ chain'[q][i] = x
                 \/ Building(q) /\ i \in 1 .. Len(chain[q]) /\ chain'[q][i] = chain[q][i] /\ chain'[q][i] # x
      <4>1. CASE q # p
        BY <4>1, <3>0, <1>6, <1>8, <1>11
      <4>2. CASE q = p
        BY <4>2, <1>5, <1>10, <1>11, <1>12 DEF n
      <4> QED
        BY <4>1, <4>2
    <3> SUFFICES ASSUME NEW q \in Producers, NEW r \in Producers, Building(q)', Building(r)',
                        NEW i \in 1 .. Len(chain'[q]), NEW j \in 1 .. Len(chain'[r]), chain'[q][i] = chain'[r][j]
                 PROVE  q = r /\ i = j
      OBVIOUS
    <3>1. \/ q = p /\ i = n + 1 /\ chain'[q][i] = x
          \/ Building(q) /\ i \in 1 .. Len(chain[q]) /\ chain'[q][i] = chain[q][i] /\ chain'[q][i] # x
      BY <3>0
    <3>2. \/ r = p /\ j = n + 1 /\ chain'[r][j] = x
          \/ Building(r) /\ j \in 1 .. Len(chain[r]) /\ chain'[r][j] = chain[r][j] /\ chain'[r][j] # x
      BY <3>0
    <3> QED
      BY <3>1, <3>2 DEF Chains
  <2>4. \A q \in Producers : pc'[q] \in {"alloc", "check", "swap"} =>
          \A i \in 1 .. Len(chain'[q]) : next'[chain'[q][i]] = IF i < Len(chain'[q]) THEN chain'[q][i + 1] ELSE Nil
    <3> SUFFICES ASSUME NEW q \in Producers, pc'[q] \in {"alloc", "check", "swap"}, NEW i \in 1 .. Len(chain'[q])
                 PROVE  next'[chain'[q][i]] = IF i < Len(chain'[q]) THEN chain'[q][i + 1] ELSE Nil
      OBVIOUS
    <3>0. Building(q) /\ Building(q)'
      BY <1>8 DEF Building
    <3>1. CASE q # p
      <4>1. chain'[q] = chain[q] /\ pc'[q] = pc[q] /\ i \in 1 .. Len(chain[q])
        BY <3>1, <1>6
      <4>2. chain[q][i] \in Nodes /\ chain[q][i] # x
        BY <4>1, <3>0, <1>11
      <4>3. ~(chain[p] # <<>> /\ chain[q][i] = chain[p][n])
        <5>1. chain[p] # <<>> => n \in 1 .. n
          BY <1>4, EmptySeq DEF n
        <5> QED
          BY <5>1, <4>1, <3>0, <3>1, <1>10 DEF Chains, n
      <4>4. next'[chain[q][i]] = next[chain[q][i]]
        BY <4>2, <4>3, <1>2
      <4> QED
        BY <4>1, <4>4 DEF Chains
    <3>2. CASE q = p /\ i = n + 1
      BY <3>2, <1>2, <1>3, <1>4, <1>5
    <3>3. CASE q = p /\ i = n /\ n > 0
      <4>1. i \in 1 .. n /\ chain'[q][i] = chain[p][n] /\ chain[p][n] \in Nodes /\ chain[p][n] # x /\ chain[p] # <<>>
        BY <3>3, <1>4, <1>5, <1>10, <1>11 DEF n
      <4>2. next'[chain[p][n]] = x
        BY <4>1, <1>2
      <4> QED
        BY <4>1, <4>2, <3>3, <1>4, <1>5
    <3>4. CASE q = p /\ i \in 1 .. n - 1
      <4>1. i \in 1 .. n /\ i + 1 \in 1 .. n /\ n \in 1 .. n /\ chain'[q][i] = chain[p][i] /\ chain'[q][i + 1] = chain[p][i + 1]
        BY <3>4, <1>4, <1>5
      <4>2. chain[p][i] \in Nodes /\ chain[p][i] # x
        BY <4>1, <1>10, <1>11 DEF n
      <4>3. chain[p][i] # chain[p][n]
        <5>1. i # n
          BY <3>4, <1>4
        <5> QED
          BY <5>1, <4>1, <1>10 DEF Chains, n
      <4>4. next'[chain[p][i]] = next[chain[p][i]]
        BY <4>2, <4>3, <1>2
      <4>5. next[chain[p][i]] = chain[p][i + 1]
        <5>1. i < n /\ pc[p] \in {"alloc", "check", "swap"}
          BY <3>4, <1>1, <1>4
        <5> QED
          BY <5>1, <4>1 DEF Chains, n
      <4> QED
        BY <4>1, <4>4, <4>5, <3>4, <1>4, <1>5
    <3> QED
      BY <3>1, <3>2, <3>3, <3>4, <1>4, <1>5, <1>12
  <2>5. (cache \cap (pool \cup fresh) = {})'
    BY <1>1, <1>2 DEF Chains, cvars
  <2> QED
    BY <2>1, <2>2, <2>3, <2>4, <2>5 DEF Chains
<1>18. Values'
  <2>1. ASSUME NEW q \in Producers, pc'[q] \in {"alloc", "check", "swap"}, NEW i \in 1 .. Len(chain'[q])
        PROVE  val'[chain'[q][i]] = Item(q, i)'
    <3>0. Building(q) /\ Item(q, i)' = Item(q, i)
      BY <2>1, <1>1, <1>8 DEF Building, Item
    <3>1. CASE q = p /\ i = n + 1
      BY <3>0, <3>1, <1>2, <1>3, <1>5 DEF TypeOK
    <3>2. CASE i \in 1 .. Len(chain[q]) /\ chain'[q][i] = chain[q][i]
      <4>1. pc[q] \in {"alloc", "check", "swap"}
        BY <2>1, <1>1, <1>6
      <4>2. chain[q][i] # x
        BY <3>0, <3>2, <1>11
      <4>3. val'[chain[q][i]] = val[chain[q][i]]
        BY <4>2, <3>0, <3>2, <1>2, <1>11 DEF TypeOK
      <4> QED
        BY <4>1, <4>3, <3>0, <3>2 DEF Values
    <3>3. CASE q # p
      BY <3>2, <3>3, <1>6
    <3> QED
      BY <3>1, <3>2, <3>3, <1>5, <1>12 DEF n
  <2>2. \A q \in Producers : pc'[q] \in {"check", "swap"} => Len(chain'[q]) = want'[q]
    BY <1>1, <1>5, <1>6, <1>7 DEF Values
  <2>3. \A q \in Producers : pc'[q] = "alloc" => Len(chain'[q]) < want'[q]
    <3>1. n < want[p]
      BY <1>1 DEF Values, n
    <3> QED
      BY <3>1, <1>1, <1>4, <1>5, <1>6, <1>7 DEF Values
  <2> QED
    BY <2>1, <2>2, <2>3 DEF Values
<1> QED
  BY <1>15, <1>16, <1>17, <1>18

\* A call that was stopped gives a node back.
LEMMA RollbackQuiet ==
  ASSUME TypeOK, Chains, Consumer, Values, NEW p \in Producers, Rollback(p)
  PROVE  QuietStep /\ Chains' /\ Consumer' /\ Values'
<1> DEFINE n == Len(chain[p])
           x == Head(chain[p])
<1>1. /\ pc[p] = "rollback" /\ UNCHANGED <<head, next, stopped, fresh, want, prev, cvars, order>>
      /\ val' = [val EXCEPT ![x] = Zero] /\ pool' = pool \cup {x}
      /\ chain' = [chain EXCEPT ![p] = Tail(chain[p])]
  BY DEF Rollback
<1>2. chain[p] \in Seq(Nodes) /\ chain[p] # <<>> /\ n \in Nat /\ n > 0
  BY <1>1, LenProperties, EmptySeq DEF TypeOK, Chains
<1>3. /\ x \in Nodes /\ x = chain[p][1] /\ Len(chain'[p]) = n - 1
      /\ \A i \in 1 .. n - 1 : chain'[p][i] = chain[p][i + 1]
  <2>1. chain'[p] = Tail(chain[p])
    BY <1>1 DEF TypeOK
  <2> QED
    BY <2>1, <1>2, HeadTailProperties
<1>4. Building(p)
  BY <1>1 DEF Building
<1>5. \A q \in Producers : q # p => pc'[q] = pc[q] /\ chain'[q] = chain[q] /\ sent'[q] = sent[q]
  <2>1. CASE n = 1
    BY <1>1, <2>1 DEF TypeOK, Rollback, Goto
  <2>2. CASE n # 1
    BY <1>1, <2>2 DEF TypeOK, Rollback
  <2> QED
    BY <2>1, <2>2
<1>6. pc'[p] = IF n = 1 THEN "idle" ELSE "rollback"
  <2>1. CASE n = 1
    BY <1>1, <2>1 DEF TypeOK, Rollback, Goto
  <2>2. CASE n # 1
    BY <1>1, <2>2 DEF TypeOK, Rollback
  <2> QED
    BY <2>1, <2>2
<1>7. \A q \in Producers : Building(q)' => Building(q)
  BY <1>4, <1>5 DEF Building
<1>8. x \notin Spare
  BY <1>2, <1>3, <1>4 DEF Chains
<1>9. Spare' = Spare \cup {x}
  BY <1>1 DEF Spare, cvars
<1>10. ASSUME NEW q \in Producers, Building(q)', NEW i \in 1 .. Len(chain'[q])
       PROVE  \E k \in 1 .. Len(chain[q]) : /\ chain'[q][i] = chain[q][k] /\ chain[q][k] # x
                                            /\ k = IF q = p THEN i + 1 ELSE i
  <2>1. CASE q # p
    <3>1. chain'[q] = chain[q] /\ chain[q][i] # chain[p][1]
      BY <2>1, <1>2, <1>4, <1>5, <1>7, <1>10 DEF Chains
    <3> QED
      BY <3>1, <2>1, <1>3
  <2>2. CASE q = p
    <3>1. i \in 1 .. n - 1 /\ i + 1 \in 1 .. n /\ 1 \in 1 .. n /\ i + 1 # 1
      BY <2>2, <1>2, <1>3
    <3>2. chain[p][i + 1] # chain[p][1]
      BY <3>1, <1>4 DEF Chains
    <3> QED
      BY <3>1, <3>2, <2>2, <1>3
  <2> QED
    BY <2>1, <2>2
<1> HIDE DEF n, x
<1>11. \A y : Loose(y)' => Loose(y)
  <2> SUFFICES ASSUME NEW y, Loose(y)', y \notin Spare, y # x
               PROVE  \E q \in Producers : Building(q) /\ \E i \in 1 .. Len(chain[q]) : chain[q][i] = y
    <3>1. Loose(x)
      BY <1>2, <1>3, <1>4 DEF Loose, n
    <3> QED
      BY <3>1 DEF Loose
  <2>1. PICK q \in Producers : Building(q)' /\ \E i \in 1 .. Len(chain'[q]) : chain'[q][i] = y
    BY <1>9 DEF Loose
  <2> QED
    BY <2>1, <1>7, <1>10
<1>12. \A y \in Nodes : ~Loose(y) => next'[y] = next[y] /\ val'[y] = val[y]
  <2>1. Loose(x)
    BY <1>2, <1>3, <1>4 DEF Loose, n
  <2> QED
    BY <2>1, <1>1 DEF TypeOK
<1>13. QuietStep
  BY <1>1, <1>5, <1>6, <1>11, <1>12 DEF QuietStep, Start, Leaving, cvars
<1>14. Consumer'
  BY <1>1, <1>11 DEF Consumer, Leaving, cvars
<1>15. Chains'
  <2>1. \A q \in Producers : pc'[q] \in {"check", "rollback", "swap", "link"} => chain'[q] # <<>>
    <3>1. n # 1 => chain'[p] # <<>>
      BY <1>2, <1>3, EmptySeq
    <3> QED
      BY <3>1, <1>5, <1>6 DEF Chains
  <2>2. \A q \in Producers : Building(q)' => \A i \in 1 .. Len(chain'[q]) : chain'[q][i] \notin Spare'
    BY <1>7, <1>9, <1>10 DEF Chains
  <2>3. \A q, r \in Producers : Building(q)' /\ Building(r)' =>
          \A i \in 1 .. Len(chain'[q]), j \in 1 .. Len(chain'[r]) : chain'[q][i] = chain'[r][j] => q = r /\ i = j
    <3> SUFFICES ASSUME NEW q \in Producers, NEW r \in Producers, Building(q)', Building(r)',
                        NEW i \in 1 .. Len(chain'[q]), NEW j \in 1 .. Len(chain'[r]), chain'[q][i] = chain'[r][j]
                 PROVE  q = r /\ i = j
      OBVIOUS
    <3>1. PICK k \in 1 .. Len(chain[q]) : chain'[q][i] = chain[q][k] /\ k = IF q = p THEN i + 1 ELSE i
      BY <1>10
    <3>2. PICK l \in 1 .. Len(chain[r]) : chain'[r][j] = chain[r][l] /\ l = IF r = p THEN j + 1 ELSE j
      BY <1>10
    <3>3. q = r /\ k = l
      <4>1. Building(q) /\ Building(r) /\ chain[q][k] = chain[r][l]
        BY <3>1, <3>2, <1>7
      <4> QED
        BY <4>1 DEF Chains
    <3> QED
      BY <3>1, <3>2, <3>3
  <2>4. \A q \in Producers : pc'[q] \in {"alloc", "check", "swap"} =>
          \A i \in 1 .. Len(chain'[q]) : next'[chain'[q][i]] = IF i < Len(chain'[q]) THEN chain'[q][i + 1] ELSE Nil
    BY <1>1, <1>5, <1>6 DEF Chains
  <2>5. (cache \cap (pool \cup fresh) = {})'
    BY <1>1, <1>8 DEF Chains, Spare, cvars
  <2> QED
    BY <2>1, <2>2, <2>3, <2>4, <2>5 DEF Chains
<1>16. Values'
  <2>1. ASSUME NEW q \in Producers, pc'[q] \in {"alloc", "check", "swap"}, NEW i \in 1 .. Len(chain'[q])
        PROVE  val'[chain'[q][i]] = Item(q, i)'
    <3>1. q # p /\ chain'[q] = chain[q] /\ pc'[q] = pc[q] /\ sent'[q] = sent[q]
      BY <2>1, <1>5, <1>6
    <3>2. chain[q][i] # x /\ chain[q][i] \in Nodes
      <4>1. Building(q)'
        BY <2>1 DEF Building
      <4>2. chain[q] \in Seq(Nodes) /\ i \in 1 .. Len(chain[q])
        BY <3>1 DEF TypeOK
      <4> QED
        BY <4>1, <4>2, <3>1, <1>10, ElementOfSeq
    <3>3. val'[chain[q][i]] = val[chain[q][i]]
      BY <3>2, <1>1 DEF TypeOK
    <3>4. val[chain[q][i]] = Item(q, i)
      BY <3>1, <2>1 DEF Values
    <3> QED
      BY <3>1, <3>3, <3>4 DEF Item
  <2>2. \A q \in Producers : pc'[q] \in {"check", "swap"} => Len(chain'[q]) = want'[q]
    BY <1>1, <1>5, <1>6 DEF Values
  <2>3. \A q \in Producers : pc'[q] = "alloc" => Len(chain'[q]) < want'[q]
    BY <1>1, <1>5, <1>6 DEF Values
  <2> QED
    BY <2>1, <2>2, <2>3 DEF Values
<1> QED
  BY <1>13, <1>14, <1>15, <1>16

\* StopEnqueue touches the flag only.
LEMMA StopQuiet ==
  ASSUME TypeOK, Chains, Consumer, Values, StopEnqueue
  PROVE  QuietStep /\ Chains' /\ Consumer' /\ Values'
<1>1. UNCHANGED <<next, val, pool, cvars, pvars>>
  BY DEF StopEnqueue
<1>2. \A x : Loose(x)' <=> Loose(x)
  BY <1>1 DEF Loose, Spare, Building, cvars, pvars
<1>3. QuietStep
  BY <1>1, <1>2 DEF QuietStep, Start, Leaving, cvars, pvars
<1>4. Chains' /\ Values'
  BY <1>1 DEF Chains, Values, Building, Spare, Item, cvars, pvars
<1>5. Consumer'
  BY <1>1, <1>2 DEF Consumer, Leaving, cvars
<1> QED
  BY <1>3, <1>4, <1>5

\* The consumer's steps, apart from taking a value.
LEMMA ConsumerQuiet ==
  ASSUME TypeOK, Chains, Consumer, Values, NEW L, List(L),
         (\E m \in 1 .. MaxBatch : DequeueBatch(m)) \/ LoadNext \/ StoreTail \/ Recycle \/ Shrink
  PROVE  QuietStep /\ Chains' /\ Consumer' /\ Values'
<1>0. UNCHANGED pvars
  BY DEF DequeueBatch, LoadNext, StoreTail, Recycle, Shrink
<1>1. \A q \in Producers : Building(q)' <=> Building(q)
  BY <1>0 DEF Building, pvars
<1>2. ~Loose(Start) /\ (Leaving => Start # cur) /\ Start \in Nodes
  <2>1. L[1] = Start /\ 1 \in 1 .. Len(L) /\ L \in Seq(Nodes)
    BY LenProperties DEF List, Shape
  <2> QED
    BY <2>1, ElementOfSeq DEF List, Apart
<1>3. ASSUME UNCHANGED <<next, val>>, Spare' = Spare, (cache \cap (pool \cup fresh) = {})'
      PROVE  Chains' /\ Values' /\ \A x : Loose(x)' <=> Loose(x)
  <2>1. \A x : Loose(x)' <=> Loose(x)
    BY <1>0, <1>1, <1>3 DEF Loose, pvars
  <2>2. pc' = pc /\ chain' = chain /\ want' = want /\ sent' = sent /\ next' = next /\ val' = val
    BY <1>0, <1>3 DEF pvars
  <2>3. Chains'
    BY <1>1, <1>3, <2>2 DEF Chains
  <2>4. Values'
    BY <2>2 DEF Values, Item
  <2> QED
    BY <2>1, <2>3, <2>4
<1>4. ASSUME NEW m \in 1 .. MaxBatch, DequeueBatch(m) PROVE QuietStep /\ Chains' /\ Consumer' /\ Values'
  <2>1. /\ cpc = "idle" /\ cpc' = "next" /\ cur' = tail
        /\ UNCHANGED <<next, val, stopped, pool, pvars, tail, cache, nxt, got>>
    BY <1>4 DEF DequeueBatch
  <2>2. Chains' /\ Values' /\ \A x : Loose(x)' <=> Loose(x)
    BY <2>1, <1>3 DEF Spare, Chains, pvars
  <2>3. Start = tail /\ Start' = tail
    BY <2>1 DEF Start
  <2>4. QuietStep
    BY <2>1, <2>2, <2>3 DEF QuietStep, Leaving, pvars
  <2>5. Consumer'
    BY <2>1, <2>2, <2>3, <1>2 DEF Consumer, Leaving
  <2> QED
    BY <2>2, <2>4, <2>5
<1>5. CASE LoadNext
  <2>1. /\ cpc = "next" /\ UNCHANGED <<next, val, stopped, pool, pvars, tail, cache, lim, cur, cnt, got>>
        /\ cpc' = (IF nxt' = Nil THEN "idle" ELSE "take") /\ (nxt' # Nil => nxt' = next[cur])
    BY <1>5 DEF LoadNext
  <2>2. Chains' /\ Values' /\ \A x : Loose(x)' <=> Loose(x)
    BY <2>1, <1>3 DEF Spare, Chains, pvars
  <2>3. Start = tail /\ Start' = tail
    BY <2>1 DEF Start
  <2>4. QuietStep
    BY <2>1, <2>2, <2>3 DEF QuietStep, Leaving, pvars
  <2>5. Consumer'
    BY <2>1, <2>2 DEF Consumer, Leaving
  <2> QED
    BY <2>2, <2>4, <2>5
<1>6. CASE StoreTail
  <2>1. /\ cpc = "tail" /\ tail' = nxt /\ cpc' = "recycle"
        /\ UNCHANGED <<next, val, stopped, pool, pvars, cache, lim, cur, nxt, cnt, got>>
    BY <1>6 DEF StoreTail
  <2>2. Chains' /\ Values' /\ \A x : Loose(x)' <=> Loose(x)
    BY <2>1, <1>3 DEF Spare, Chains, pvars
  <2>3. Start = nxt /\ Start' = nxt
    BY <2>1 DEF Start
  <2>4. QuietStep
    BY <2>1, <2>2, <2>3 DEF QuietStep, Leaving, pvars
  <2>5. Consumer'
    BY <2>1, <2>2 DEF Consumer, Leaving
  <2> QED
    BY <2>2, <2>4, <2>5
<1>7. CASE Recycle
  <2>1. /\ cpc = "recycle" /\ cpc' = "next" /\ cur' = nxt
        /\ next' = [next EXCEPT ![cur] = Nil] /\ val' = [val EXCEPT ![cur] = Zero]
        /\ UNCHANGED <<stopped, pvars, tail, lim, nxt, cnt, got>>
    BY <1>7 DEF Recycle
  <2>2. Leaving /\ tail = nxt /\ Start = tail /\ Start' = tail /\ ~Loose(cur) /\ cur # tail /\ ~Loose(tail)
    BY <2>1, <1>2 DEF Leaving, Consumer, Start
  <2>3. cur \notin Spare /\ Spare' = Spare \cup {cur} /\ (cache \cap (pool \cup fresh) = {})'
    <3>1. cur \notin Spare
      BY <2>2 DEF Loose
    <3>2. CASE Cardinality(cache) < RecycleCap
      <4>1. cache' = cache \cup {cur} /\ pool' = pool /\ fresh' = fresh
        BY <3>2, <1>7 DEF Recycle, pvars
      <4> QED
        BY <3>1, <4>1 DEF Spare, Chains
    <3>3. CASE ~(Cardinality(cache) < RecycleCap)
      <4>1. cache' = {cur} /\ pool' = pool \cup cache /\ fresh' = fresh
        BY <3>3, <1>7 DEF Recycle, pvars
      <4> QED
        BY <3>1, <4>1 DEF Spare, Chains
    <3> QED
      BY <3>1, <3>2, <3>3
  <2>4. \A x : Loose(x)' => Loose(x) \/ x = cur
    BY <1>0, <1>1, <2>3 DEF Loose, pvars
  <2>5. \A x \in Nodes : x # cur => next'[x] = next[x] /\ val'[x] = val[x]
    BY <2>1 DEF TypeOK
  <2>6. QuietStep
    BY <1>0, <2>1, <2>2, <2>4, <2>5 DEF QuietStep, Leaving, pvars
  <2>7. \A q \in Producers : Building(q) => \A i \in 1 .. Len(chain[q]) : chain[q][i] # cur /\ chain[q][i] \in Nodes
    BY <2>2, ElementOfSeq DEF Loose, TypeOK
  <2>8. /\ \A q \in Producers : Building(q) => \A i \in 1 .. Len(chain[q]) :
             next'[chain[q][i]] = next[chain[q][i]] /\ val'[chain[q][i]] = val[chain[q][i]]
        /\ pc' = pc /\ chain' = chain /\ want' = want /\ sent' = sent
    BY <1>0, <2>5, <2>7 DEF pvars
  <2>9. Chains'
    <3>1. \A q \in Producers : Building(q) => \A i \in 1 .. Len(chain[q]) : chain[q][i] \notin Spare'
      BY <2>3, <2>7 DEF Chains
    <3>2. \A q \in Producers : pc[q] \in {"alloc", "check", "swap"} =>
            \A i \in 1 .. Len(chain[q]) : next'[chain[q][i]] = IF i < Len(chain[q]) THEN chain[q][i + 1] ELSE Nil
      BY <2>8 DEF Chains, Building
    <3> QED
      BY <3>1, <3>2, <2>3, <2>8, <1>1 DEF Chains
  <2>10. Values'
    <3>1. \A q \in Producers : pc[q] \in {"alloc", "check", "swap"} =>
            \A i \in 1 .. Len(chain[q]) : val'[chain[q][i]] = Item(q, i)
      BY <2>8 DEF Values, Building
    <3> QED
      BY <3>1, <2>8 DEF Values, Item
  <2>11. Consumer'
    BY <2>1, <2>2, <2>4 DEF Consumer, Leaving
  <2> QED
    BY <2>6, <2>9, <2>10, <2>11
<1>8. CASE Shrink
  <2>1. /\ cpc = "idle" /\ pool' = pool \cup cache /\ cache' = {}
        /\ UNCHANGED <<next, val, stopped, pvars, tail, cpc, lim, cur, nxt, cnt, got>>
    BY <1>8 DEF Shrink
  <2>2. Spare' = Spare /\ (cache \cap (pool \cup fresh) = {})'
    BY <2>1 DEF Spare, pvars
  <2>3. Chains' /\ Values' /\ \A x : Loose(x)' <=> Loose(x)
    BY <2>1, <2>2, <1>3
  <2>4. Start = tail /\ Start' = tail
    BY <2>1 DEF Start
  <2>5. QuietStep
    BY <2>1, <2>3, <2>4 DEF QuietStep, Leaving, pvars
  <2>6. Consumer'
    BY <2>1 DEF Consumer, Leaving
  <2> QED
    BY <2>3, <2>5, <2>6
<1> QED
  BY <1>4, <1>5, <1>6, <1>7, <1>8

----------------------------------------------------------------------------
(* The steps that the mailbox sees.                                         *)

\* An element moves from the front of one sequence to the end of another.
LEMMA MoveOver ==
  ASSUME NEW S, NEW s \in Seq(S), NEW c \in Seq(S), c # <<>>
  PROVE  s \o c = Append(s, c[1]) \o Tail(c)
<1>1. Len(s) \in Nat /\ Len(c) \in Nat /\ Len(c) > 0 /\ c[1] \in S
  BY LenProperties, EmptySeq, ElementOfSeq
<1>2. /\ Append(s, c[1]) \in Seq(S) /\ Len(Append(s, c[1])) = Len(s) + 1 /\ Append(s, c[1])[Len(s) + 1] = c[1]
      /\ \A i \in 1 .. Len(s) : Append(s, c[1])[i] = s[i]
  BY <1>1, AppendProperties
<1>3. Tail(c) \in Seq(S) /\ Len(Tail(c)) = Len(c) - 1 /\ \A i \in 1 .. Len(c) - 1 : Tail(c)[i] = c[i + 1]
  BY <1>1, HeadTailProperties
<1> DEFINE a == s \o c
           b == Append(s, c[1]) \o Tail(c)
<1>4. /\ a \in Seq(S) /\ Len(a) = Len(s) + Len(c)
      /\ \A i \in 1 .. Len(s) + Len(c) : a[i] = IF i <= Len(s) THEN s[i] ELSE c[i - Len(s)]
  BY ConcatProperties
<1>5. /\ b \in Seq(S) /\ Len(b) = Len(s) + 1 + (Len(c) - 1)
      /\ \A i \in 1 .. Len(s) + 1 + (Len(c) - 1) :
           b[i] = IF i <= Len(s) + 1 THEN Append(s, c[1])[i] ELSE Tail(c)[i - (Len(s) + 1)]
  BY <1>2, <1>3, ConcatProperties
<1> HIDE DEF a, b
<1>6. Len(a) = Len(b)
  BY <1>1, <1>4, <1>5
<1>7. ASSUME NEW i \in 1 .. Len(a) PROVE a[i] = b[i]
  <2>0. i \in 1 .. Len(s) + Len(c) /\ i \in 1 .. Len(s) + 1 + (Len(c) - 1) /\ i \in Nat
    BY <1>1, <1>4
  <2>1. CASE i <= Len(s)
    <3>1. i \in 1 .. Len(s) /\ i <= Len(s) + 1
      BY <2>0, <2>1, <1>1
    <3>2. a[i] = s[i]
      BY <3>1, <2>0, <2>1, <1>4
    <3>3. b[i] = Append(s, c[1])[i]
      BY <3>1, <2>0, <1>5
    <3> QED
      BY <3>1, <3>2, <3>3, <1>2
  <2>2. CASE i = Len(s) + 1
    <3>1. i - Len(s) = 1 /\ ~(i <= Len(s)) /\ i <= Len(s) + 1
      BY <2>2, <1>1
    <3>2. a[i] = c[1]
      BY <3>1, <2>0, <1>4
    <3>3. b[i] = c[1]
      BY <3>1, <2>0, <2>2, <1>2, <1>5
    <3> QED
      BY <3>2, <3>3
  <2>3. CASE i > Len(s) + 1
    <3>1. i - (Len(s) + 1) \in 1 .. Len(c) - 1 /\ (i - (Len(s) + 1)) + 1 = i - Len(s)
      BY <2>3, <1>1, <1>4
    <3>2. ~(i <= Len(s)) /\ ~(i <= Len(s) + 1)
      BY <2>3, <2>0, <1>1
    <3>3. a[i] = c[i - Len(s)]
      BY <3>2, <2>0, <1>4
    <3>4. b[i] = Tail(c)[i - (Len(s) + 1)]
      BY <3>2, <2>0, <1>5
    <3> QED
      BY <3>1, <3>3, <3>4, <1>3
  <2> QED
    BY <2>0, <2>1, <2>2, <2>3, <1>1
<1>8. a = b
  BY <1>4, <1>5, <1>6, <1>7, SeqEqual
<1> QED
  BY <1>8 DEF a, b

\* The values of a list are a sequence.
LEMMA ContentsType ==
  ASSUME TypeOK, NEW L, List(L)
  PROVE  /\ Contents(L) \in Seq(Items \cup {Zero}) /\ Len(Contents(L)) = Len(L) - 1
         /\ \A j \in 1 .. Len(L) - 1 : Contents(L)[j] = val[L[j + 1]]
<1>1. L \in Seq(Nodes) /\ Len(L) - 1 \in Nat
  BY LenProperties DEF List, Shape
<1>2. \A j \in 1 .. Len(L) - 1 : val[L[j + 1]] \in Items \cup {Zero}
  BY <1>1, ElementOfSeq DEF TypeOK
<1>3. Contents(L) \in [1 .. Len(L) - 1 -> Items \cup {Zero}]
  BY <1>2 DEF Contents
<1>4. Contents(L) \in Seq(Items \cup {Zero}) /\ Len(Contents(L)) = Len(L) - 1
  BY <1>1, <1>3, FunIsSeq
<1> QED
  BY <1>4 DEF Contents

\* The element behind the sentinel is taken, and its node is the new sentinel.
LEMMA TakeSteps ==
  ASSUME TypeOK, Chains, Consumer, Values, NEW L, List(L), order = got \o Contents(L), TakeVal
  PROVE  /\ Chains' /\ Consumer' /\ Values' /\ List(Tail(L))' /\ order' = got' \o Contents(Tail(L))'
         /\ BoxOf(L) # <<>> /\ BoxOf(L)[1].linked /\ got' = Append(got, BoxOf(L)[1].item)
         /\ BoxOf(Tail(L))' = Tail(BoxOf(L))
<1> DEFINE M == Tail(L)
<1>0. L \in Seq(Nodes) /\ Len(L) \in Nat /\ Len(L) > 0 /\ \A i \in 1 .. Len(L) : L[i] \in Nodes /\ L[i] # Nil
  BY LenProperties, ElementOfSeq, NodesAssumption DEF List, Shape
<1>1. /\ cpc = "take" /\ got' = Append(got, val[nxt]) /\ val' = [val EXCEPT ![nxt] = Zero] /\ cpc' = "tail"
      /\ UNCHANGED <<next, stopped, pool, pvars, tail, cache, lim, cur, nxt>>
  BY DEF TakeVal
<1>2. /\ head' = head /\ order' = order /\ pc' = pc /\ chain' = chain /\ prev' = prev /\ want' = want /\ sent' = sent
      /\ fresh' = fresh /\ next' = next /\ pool' = pool /\ cache' = cache /\ tail' = tail /\ cur' = cur /\ nxt' = nxt
  BY <1>1 DEF pvars
<1>3. cur = tail /\ nxt # Nil /\ next[cur] = nxt /\ L[1] = cur /\ ~Loose(cur) /\ nxt \in Nodes
  BY <1>1 DEF Consumer, List, Shape, Start, TypeOK
<1>4. Len(L) > 1
  BY <1>0, <1>3 DEF List, Shape, Linked
<1>5. L[2] = nxt
  <2>1. 1 \in 1 .. Len(L) - 1
    BY <1>0, <1>4
  <2> QED
    BY <2>1, <1>3 DEF List, Linked
<1>6. M \in Seq(Nodes) /\ Len(M) = Len(L) - 1 /\ \A i \in 1 .. Len(L) - 1 : M[i] = L[i + 1]
  BY <1>0, <1>4, HeadTailProperties, EmptySeq
<1>7. \A x : Loose(x)' <=> Loose(x)
  BY <1>2 DEF Loose, Spare, Building
<1>8. \A i \in 1 .. Len(L) : i # 2 => L[i] # nxt
  BY <1>0, <1>4, <1>5 DEF List, Shape
<1>9. \A x \in Nodes : x # nxt => val'[x] = val[x]
  BY <1>1 DEF TypeOK
<1> HIDE DEF M
<1>10. Chains'
  <2>1. Spare' = Spare /\ \A q \in Producers : Building(q)' <=> Building(q)
    BY <1>2 DEF Spare, Building
  <2> QED
    BY <2>1, <1>2 DEF Chains
<1>11. Consumer'
  BY <1>1, <1>2, <1>3, <1>7 DEF Consumer, Leaving
<1>12. Values'
  <2>0. 2 \in 1 .. Len(L)
    BY <1>0, <1>4
  <2>1. ~Loose(nxt)
    BY <2>0, <1>5 DEF List, Apart
  <2>2. \A q \in Producers : Building(q) => \A i \in 1 .. Len(chain[q]) : val'[chain[q][i]] = val[chain[q][i]]
    BY <2>1, <1>9, ElementOfSeq DEF Loose, TypeOK
  <2>3. ASSUME NEW q \in Producers, pc[q] \in {"alloc", "check", "swap"}, NEW i \in 1 .. Len(chain[q])
        PROVE  val'[chain[q][i]] = Item(q, i)
    <3>1. Building(q)
      BY <2>3 DEF Building
    <3>2. val[chain[q][i]] = Item(q, i)
      BY <2>3 DEF Values
    <3> QED
      BY <3>1, <3>2, <2>2
  <2> QED
    BY <2>3, <1>2 DEF Values, Item
<1>13. Shape(M)'
  <2>1. Len(M) > 0 /\ M[1] = nxt /\ Start' = nxt
    BY <1>0, <1>1, <1>2, <1>4, <1>5, <1>6 DEF Start
  <2>2. M[Len(M)] = head
    BY <1>0, <1>4, <1>6 DEF List, Shape
  <2>3. \A i, j \in 1 .. Len(M) : M[i] = M[j] => i = j
    <3> SUFFICES ASSUME NEW i \in 1 .. Len(M), NEW j \in 1 .. Len(M), M[i] = M[j] PROVE i = j
      OBVIOUS
    <3>1. i + 1 \in 1 .. Len(L) /\ j + 1 \in 1 .. Len(L) /\ L[i + 1] = L[j + 1]
      BY <1>0, <1>6
    <3>2. i + 1 = j + 1
      BY <3>1 DEF List, Shape
    <3> QED
      BY <3>2, <1>0, <1>6
  <2> QED
    BY <2>1, <2>2, <2>3, <1>2, <1>6 DEF Shape
<1>14. Apart(M)'
  <2>1. ASSUME NEW i \in 1 .. Len(M) PROVE ~Loose(M[i])' /\ M[i] # cur'
    <3>1. i + 1 \in 1 .. Len(L) /\ 1 \in 1 .. Len(L) /\ i + 1 # 1 /\ M[i] = L[i + 1]
      BY <1>0, <1>6
    <3>2. ~Loose(L[i + 1]) /\ L[i + 1] # L[1]
      BY <3>1 DEF List, Apart, Shape
    <3> QED
      BY <3>1, <3>2, <1>2, <1>3, <1>7
  <2> QED
    BY <2>1 DEF Apart
<1>15. Linked(M)'
  <2>1. next'[head'] = Nil
    BY <1>2 DEF List, Linked
  <2>2. ASSUME NEW i \in 1 .. Len(M) - 1
        PROVE  next'[M[i]] = M[i + 1] \/ (next'[M[i]] = Nil /\ \E q \in Producers : pc'[q] = "link" /\ prev'[q] = M[i])
    <3>1. i + 1 \in 1 .. Len(L) - 1 /\ M[i] = L[i + 1] /\ M[i + 1] = L[(i + 1) + 1]
      BY <1>0, <1>6
    <3> QED
      BY <3>1, <1>2 DEF List, Linked
  <2>3. ASSUME NEW q \in Producers, pc'[q] = "link"
        PROVE  \E i \in 1 .. Len(M) - 1 : prev'[q] = M[i] /\ next'[M[i]] = Nil /\ chain'[q][1] = M[i + 1]
    <3>1. PICK k \in 1 .. Len(L) - 1 : prev[q] = L[k] /\ next[L[k]] = Nil /\ chain[q][1] = L[k + 1]
      BY <2>3, <1>2 DEF List, Linked
    <3>2. k # 1
      BY <3>1, <1>3
    <3>3. k - 1 \in 1 .. Len(M) - 1 /\ M[k - 1] = L[k] /\ M[(k - 1) + 1] = L[k + 1]
      BY <3>2, <1>0, <1>6
    <3> QED
      BY <3>1, <3>3, <1>2
  <2>4. \A q, r \in Producers : pc'[q] = "link" /\ pc'[r] = "link" /\ prev'[q] = prev'[r] => q = r
    BY <1>2 DEF List, Linked
  <2> QED
    BY <2>1, <2>2, <2>3, <2>4 DEF Linked
<1>16. /\ Contents(L) \in Seq(Items \cup {Zero}) /\ Len(Contents(L)) = Len(L) - 1
       /\ \A j \in 1 .. Len(L) - 1 : Contents(L)[j] = val[L[j + 1]]
  BY ContentsType
<1>17. Contents(L) # <<>> /\ Contents(L)[1] = val[nxt]
  BY <1>0, <1>4, <1>5, <1>16, EmptySeq
<1>18. \A j \in 1 .. Len(M) - 1 : val'[M[j + 1]] = val[L[j + 2]]
  BY <1>0, <1>6, <1>8, <1>9
<1>19. Contents(M)' = Tail(Contents(L))
  <2>1. /\ Tail(Contents(L)) \in Seq(Items \cup {Zero}) /\ Len(Tail(Contents(L))) = Len(M) - 1
        /\ \A j \in 1 .. Len(M) - 1 : Tail(Contents(L))[j] = Contents(L)[j + 1]
    BY <1>16, <1>17, <1>6, <1>0, HeadTailProperties
  <2>2. Tail(Contents(L)) = [j \in 1 .. Len(M) - 1 |-> Tail(Contents(L))[j]]
    BY <2>1, LenProperties
  <2>3. ASSUME NEW j \in 1 .. Len(M) - 1 PROVE Contents(L)[j + 1] = val'[M[j + 1]]
    <3>1. j + 1 \in 1 .. Len(L) - 1 /\ (j + 1) + 1 = j + 2
      BY <1>6, <1>0
    <3>2. Contents(L)[j + 1] = val[L[j + 2]]
      BY <3>1, <1>16
    <3> QED
      BY <3>2, <1>18
  <2> QED
    BY <2>1, <2>2, <2>3 DEF Contents
<1>20. order' = got' \o Contents(M)'
  <2>1. got \in Seq(Items \cup {Zero})
    BY DEF TypeOK
  <2>2. got \o Contents(L) = Append(got, Contents(L)[1]) \o Tail(Contents(L))
    BY <2>1, <1>16, <1>17, MoveOver
  <2> QED
    BY <2>2, <1>1, <1>2, <1>17, <1>19
<1>21. BoxOf(L) # <<>> /\ BoxOf(L)[1].linked /\ got' = Append(got, BoxOf(L)[1].item)
  <2>1. 1 \in 1 .. Len(L) - 1
    BY <1>0, <1>4
  <2>2. BoxOf(L)[1] = [item |-> val[L[1 + 1]], linked |-> next[L[1]] = L[1 + 1]] /\ 1 \in DOMAIN BoxOf(L)
    BY <2>1 DEF BoxOf
  <2>3. L[1 + 1] = nxt /\ next[L[1]] = nxt
    BY <1>3, <1>5
  <2>4. BoxOf(L) # <<>>
    BY <2>2
  <2>5. BoxOf(L)[1].linked
    <3>1. (next[L[1]] = L[1 + 1]) = TRUE
      BY <2>3
    <3>2. BoxOf(L)[1] = [item |-> val[L[1 + 1]], linked |-> TRUE]
      BY <2>2, <3>1
    <3> QED
      BY <3>2
  <2>6. BoxOf(L)[1].item = val[L[1 + 1]]
    BY <2>2
  <2> QED
    BY <2>3, <2>4, <2>5, <2>6, <1>1
<1>22. BoxOf(M)' = Tail(BoxOf(L))
  <2>1. Tail(BoxOf(L)) = [j \in 1 .. Len(M) - 1 |-> BoxOf(L)[j + 1]]
    BY <1>0, <1>4, <1>6 DEF BoxOf
  <2>2. ASSUME NEW j \in 1 .. Len(M) - 1
        PROVE  BoxOf(L)[j + 1] = [item |-> val'[M[j + 1]], linked |-> next'[M[j]] = M[j + 1]]
    <3>1. j + 1 \in 1 .. Len(L) - 1 /\ M[j] = L[j + 1] /\ M[j + 1] = L[(j + 1) + 1] /\ j + 2 = (j + 1) + 1
      BY <1>0, <1>6
    <3>2. BoxOf(L)[j + 1] = [item |-> val[L[(j + 1) + 1]], linked |-> next[L[j + 1]] = L[(j + 1) + 1]]
      BY <3>1 DEF BoxOf
    <3> QED
      BY <3>1, <3>2, <1>2, <1>18
  <2>3. BoxOf(M)' = [j \in 1 .. Len(M) - 1 |-> [item |-> val'[M[j + 1]], linked |-> next'[M[j]] = M[j + 1]]]
    BY DEF BoxOf
  <2> QED
    BY <2>1, <2>2, <2>3
<1> QED
  BY <1>10, <1>11, <1>12, <1>13, <1>14, <1>15, <1>20, <1>21, <1>22 DEF List, M

\* What the mailbox sees when the list L grows to M: the elements behind L enter, and
\* the first of them is not linked.
Grows(L, M) ==
  /\ BoxOf(L) = [j \in 1 .. Len(L) - 1 |-> BoxOf(M)'[j]]
  /\ Len(M) - 1 > Len(L) - 1
  /\ \A x \in Len(L) .. Len(M) - 1 : BoxOf(M)'[x].linked <=> x > Len(L)
  /\ order' = order \o [j \in 1 .. Len(M) - Len(L) |-> BoxOf(M)'[Len(L) - 1 + j].item]

\* The chain of a call is put behind head: the list grows by it, and one place is
\* not linked yet.
LEMMA SwapSteps ==
  ASSUME TypeOK, Chains, Consumer, Values, NEW L, List(L), order = got \o Contents(L),
         NEW p \in Producers, SwapHead(p), NEW c, c = chain[p]
  PROVE  /\ Chains' /\ Consumer' /\ Values' /\ List(L \o c)' /\ order' = got' \o Contents(L \o c)'
         /\ Grows(L, L \o c)
<1> DEFINE M == L \o c
           n == Len(c)
           l == Len(L)
<1>0. L \in Seq(Nodes) /\ l \in Nat /\ l > 0 /\ (\A i \in 1 .. l : L[i] \in Nodes /\ L[i] # Nil) /\ L[l] = head
  BY LenProperties, ElementOfSeq, NodesAssumption DEF List, Shape
<1>1. /\ pc[p] = "swap" /\ head' = c[n] /\ order' = order \o CallItems(p)
      /\ UNCHANGED <<next, val, stopped, fresh, pool, want, chain, sent, cvars>>
  BY DEF SwapHead
<1>2. /\ prev'[p] = head /\ pc'[p] = "link"
      /\ \A q \in Producers : q # p => prev'[q] = prev[q] /\ pc'[q] = pc[q]
  BY DEF SwapHead, Goto, TypeOK
<1>3. /\ chain' = chain /\ want' = want /\ sent' = sent /\ next' = next /\ val' = val
      /\ fresh' = fresh /\ pool' = pool /\ cache' = cache /\ tail' = tail /\ cur' = cur /\ nxt' = nxt
      /\ cpc' = cpc /\ got' = got
  BY <1>1 DEF cvars
<1>4. c \in Seq(Nodes) /\ n \in Nat /\ n > 0 /\ \A i \in 1 .. n : c[i] \in Nodes /\ c[i] # Nil
  <2>1. c \in Seq(Nodes) /\ c # <<>>
    BY <1>1 DEF TypeOK, Chains
  <2> QED
    BY <2>1, LenProperties, ElementOfSeq, EmptySeq, NodesAssumption
<1>5. /\ M \in Seq(Nodes) /\ Len(M) = l + n
      /\ \A i \in 1 .. l : M[i] = L[i]
      /\ \A i \in 1 .. n : M[l + i] = c[i]
  <2>1. /\ M \in Seq(Nodes) /\ Len(M) = l + n
        /\ \A i \in 1 .. l + n : M[i] = IF i <= l THEN L[i] ELSE c[i - l]
    BY <1>0, <1>4, ConcatProperties
  <2>2. ASSUME NEW i \in 1 .. n PROVE M[l + i] = c[i]
    <3>1. l + i \in 1 .. l + n /\ ~(l + i <= l) /\ (l + i) - l = i
      BY <1>0, <1>4
    <3> QED
      BY <3>1, <2>1
  <2>3. ASSUME NEW i \in 1 .. l PROVE M[i] = L[i]
    <3>1. i \in 1 .. l + n /\ i <= l
      BY <1>0, <1>4
    <3> QED
      BY <3>1, <2>1
  <2> QED
    BY <2>1, <2>2, <2>3
<1>6. ASSUME NEW i \in 1 .. l + n PROVE i \in 1 .. l \/ \E k \in 1 .. n : i = l + k
  <2>1. i \notin 1 .. l => i - l \in 1 .. n /\ i = l + (i - l)
    BY <1>0, <1>4
  <2> QED
    BY <2>1
<1>7. Building(p) /\ \A q \in Producers : Building(q)' <=> Building(q) /\ q # p
  BY <1>1, <1>2 DEF Building
<1>8. Spare' = Spare /\ \A x : Loose(x)' => Loose(x)
  BY <1>3, <1>7 DEF Loose, Spare
<1>9. \A i \in 1 .. n : Loose(c[i]) /\ ~Loose(c[i])'
  <2> SUFFICES ASSUME NEW i \in 1 .. n PROVE Loose(c[i]) /\ ~Loose(c[i])'
    OBVIOUS
  <2>1. Loose(c[i])
    BY <1>7 DEF Loose
  <2>2. c[i] \notin Spare'
    BY <1>7, <1>8 DEF Chains
  <2>3. ASSUME NEW q \in Producers, Building(q)', NEW j \in 1 .. Len(chain'[q]), chain'[q][j] = c[i] PROVE FALSE
    <3>1. Building(q) /\ q # p /\ chain'[q] = chain[q]
      BY <2>3, <1>3, <1>7
    <3> QED
      BY <3>1, <2>3, <1>7 DEF Chains
  <2> QED
    BY <2>1, <2>2, <2>3 DEF Loose
<1>10. \A i \in 1 .. l : ~Loose(L[i])
  BY DEF List, Apart
<1>11. \A i \in 1 .. n : next[c[i]] = IF i < n THEN c[i + 1] ELSE Nil
  BY <1>1 DEF Chains
<1>12. \A i, j \in 1 .. n : c[i] = c[j] => i = j
  BY <1>7 DEF Chains
<1> HIDE DEF M, n, l
<1>13. Chains'
  <2>1. \A q \in Producers : pc'[q] \in {"check", "rollback", "swap", "link"} => chain'[q] # <<>>
    BY <1>1, <1>2, <1>3 DEF Chains
  <2>2. \A q \in Producers : Building(q)' => \A i \in 1 .. Len(chain'[q]) : chain'[q][i] \notin Spare'
    BY <1>3, <1>7, <1>8 DEF Chains
  <2>3. \A q, r \in Producers : Building(q)' /\ Building(r)' =>
          \A i \in 1 .. Len(chain'[q]), j \in 1 .. Len(chain'[r]) : chain'[q][i] = chain'[r][j] => q = r /\ i = j
    BY <1>3, <1>7 DEF Chains
  <2>4. ASSUME NEW q \in Producers, pc'[q] \in {"alloc", "check", "swap"}, NEW i \in 1 .. Len(chain'[q])
        PROVE  next'[chain'[q][i]] = IF i < Len(chain'[q]) THEN chain'[q][i + 1] ELSE Nil
    <3>1. pc[q] \in {"alloc", "check", "swap"} /\ chain' = chain /\ next' = next /\ i \in 1 .. Len(chain[q])
      BY <2>4, <1>2, <1>3
    <3>2. next[chain[q][i]] = IF i < Len(chain[q]) THEN chain[q][i + 1] ELSE Nil
      BY <3>1 DEF Chains
    <3> QED
      BY <3>1, <3>2
  <2>5. (cache \cap (pool \cup fresh) = {})'
    BY <1>3 DEF Chains
  <2> QED
    BY <2>1, <2>2, <2>3, <2>4, <2>5 DEF Chains
<1>14. Consumer'
  BY <1>3, <1>8 DEF Consumer, Leaving
<1>15. Values'
  <2>1. \A q \in Producers : pc'[q] \in {"alloc", "check", "swap"} => pc'[q] = pc[q]
    BY <1>2
  <2>2. \A q \in Producers : pc'[q] \in {"alloc", "check", "swap"} =>
          \A i \in 1 .. Len(chain[q]) : val[chain[q][i]] = Item(q, i)
    BY <2>1 DEF Values
  <2>3. \A q \in Producers : pc'[q] \in {"check", "swap"} => Len(chain[q]) = want[q]
    BY <2>1 DEF Values
  <2>4. \A q \in Producers : pc'[q] = "alloc" => Len(chain[q]) < want[q]
    BY <2>1 DEF Values
  <2> QED
    BY <2>2, <2>3, <2>4, <1>3 DEF Values, Item
<1>16. Shape(M)'
  <2>1. Start' = Start /\ 1 \in 1 .. l /\ n \in 1 .. n /\ Len(M) > 0
    BY <1>0, <1>3, <1>4, <1>5 DEF Start
  <2>2. M[1] = Start /\ M[Len(M)] = head'
    BY <2>1, <1>1, <1>5 DEF List, Shape
  <2>3. ASSUME NEW i \in 1 .. Len(M), NEW j \in 1 .. Len(M), M[i] = M[j] PROVE i = j
    <3>1. CASE i \in 1 .. l /\ j \in 1 .. l
      <4>1. L[i] = L[j]
        BY <3>1, <2>3, <1>5
      <4> QED
        BY <4>1, <3>1 DEF List, Shape, l
    <3>2. ASSUME NEW k \in 1 .. n, NEW m \in 1 .. l PROVE M[l + k] # M[m]
      BY <1>5, <1>9, <1>10
    <3>3. ASSUME NEW k \in 1 .. n, NEW m \in 1 .. n, i = l + k, j = l + m PROVE i = j
      <4>1. c[k] = c[m]
        BY <3>3, <2>3, <1>5
      <4> QED
        BY <4>1, <3>3, <1>12
    <3> QED
      BY <3>1, <3>2, <3>3, <2>3, <1>5, <1>6
  <2> QED
    BY <2>1, <2>2, <2>3, <1>5 DEF Shape
<1>17. Apart(M)'
  <2>1. ASSUME NEW i \in 1 .. Len(M) PROVE ~Loose(M[i])' /\ (Leaving' => M[i] # cur')
    <3>1. CASE i \in 1 .. l
      <4>1. M[i] = L[i] /\ ~Loose(L[i]) /\ (Leaving => L[i] # cur)
        BY <3>1, <1>5, <1>10 DEF List, Apart, l
      <4> QED
        BY <4>1, <1>3, <1>8 DEF Leaving
    <3>2. ASSUME NEW k \in 1 .. n, i = l + k PROVE ~Loose(M[i])' /\ (Leaving' => M[i] # cur')
      <4>1. M[i] = c[k] /\ Loose(c[k]) /\ ~Loose(c[k])'
        BY <3>2, <1>5, <1>9
      <4>2. Leaving => c[k] # cur
        BY <4>1 DEF Consumer, Leaving
      <4> QED
        BY <4>1, <4>2, <1>3 DEF Leaving
    <3> QED
      BY <3>1, <3>2, <1>5, <1>6
  <2> QED
    BY <2>1 DEF Apart
<1>18. Linked(M)'
  <2>1. next'[head'] = Nil
    <3>1. n \in 1 .. n /\ ~(n < n)
      BY <1>4
    <3> QED
      BY <3>1, <1>1, <1>3, <1>11 DEF n
  <2>2. ASSUME NEW i \in 1 .. Len(M) - 1
        PROVE  next'[M[i]] = M[i + 1] \/ (next'[M[i]] = Nil /\ \E q \in Producers : pc'[q] = "link" /\ prev'[q] = M[i])
    <3>0. i \in 1 .. l + n
      BY <1>0, <1>4, <1>5
    <3>1. CASE i \in 1 .. l - 1
      <4>1. i \in 1 .. l /\ i + 1 \in 1 .. l
        BY <3>1, <1>0
      <4>2. M[i] = L[i] /\ M[i + 1] = L[i + 1]
        BY <4>1, <1>5
      <4>3. next[L[i]] = L[i + 1] \/ (next[L[i]] = Nil /\ \E q \in Producers : pc[q] = "link" /\ prev[q] = L[i])
        BY <3>1 DEF List, Linked, l
      <4>4. \A q \in Producers : pc[q] = "link" => pc'[q] = "link" /\ prev'[q] = prev[q]
        BY <1>1, <1>2
      <4> QED
        BY <4>2, <4>3, <4>4, <1>3
    <3>2. CASE i = l
      <4>1. M[i] = head /\ next'[M[i]] = Nil
        BY <3>2, <1>0, <1>3, <1>5 DEF List, Linked
      <4> QED
        BY <4>1, <1>2
    <3>3. ASSUME NEW k \in 1 .. n, i = l + k PROVE next'[M[i]] = M[i + 1]
      <4>1. k < n /\ k + 1 \in 1 .. n /\ i + 1 = l + (k + 1)
        BY <3>3, <1>0, <1>4, <1>5
      <4> QED
        BY <4>1, <3>3, <1>3, <1>5, <1>11
    <3> QED
      BY <3>0, <3>1, <3>2, <3>3, <1>0, <1>6
  <2>3. ASSUME NEW q \in Producers, pc'[q] = "link"
        PROVE  \E i \in 1 .. Len(M) - 1 : prev'[q] = M[i] /\ next'[M[i]] = Nil /\ chain'[q][1] = M[i + 1]
    <3>1. CASE q = p
      <4>1. l \in 1 .. Len(M) - 1 /\ l \in 1 .. l /\ 1 \in 1 .. n
        BY <1>0, <1>4, <1>5
      <4>2. M[l] = head /\ M[l + 1] = c[1] /\ next'[M[l]] = Nil /\ chain'[q][1] = c[1]
        BY <4>1, <3>1, <1>0, <1>3, <1>5 DEF List, Linked
      <4> QED
        BY <4>1, <4>2, <3>1, <1>2
    <3>2. CASE q # p
      <4>1. pc[q] = "link" /\ prev'[q] = prev[q] /\ chain'[q] = chain[q]
        BY <3>2, <2>3, <1>2, <1>3
      <4>2. PICK k \in 1 .. l - 1 : prev[q] = L[k] /\ next[L[k]] = Nil /\ chain[q][1] = L[k + 1]
        BY <4>1 DEF List, Linked, l
      <4>3. k \in 1 .. Len(M) - 1 /\ k \in 1 .. l /\ k + 1 \in 1 .. l
        BY <1>0, <1>4, <1>5
      <4> QED
        BY <4>1, <4>2, <4>3, <1>3, <1>5
    <3> QED
      BY <3>1, <3>2
  <2>4. ASSUME NEW q \in Producers, NEW r \in Producers, pc'[q] = "link", pc'[r] = "link", prev'[q] = prev'[r] PROVE q = r
    <3>1. ASSUME NEW u \in Producers, u # p, pc'[u] = "link" PROVE prev'[u] = prev[u] /\ pc[u] = "link" /\ prev[u] # head
      <4>1. prev'[u] = prev[u] /\ pc[u] = "link"
        BY <3>1, <1>2
      <4>2. PICK k \in 1 .. l - 1 : prev[u] = L[k]
        BY <4>1 DEF List, Linked, l
      <4>3. k \in 1 .. l /\ l \in 1 .. l /\ k # l
        BY <1>0
      <4>4. L[k] # L[l]
        BY <4>3 DEF List, Shape, l
      <4> QED
        BY <4>1, <4>2, <4>4, <1>0
    <3>2. CASE q # p /\ r # p
      BY <3>1, <3>2, <2>4 DEF List, Linked
    <3>3. CASE q = p \/ r = p
      BY <3>1, <3>3, <2>4, <1>2
    <3> QED
      BY <3>2, <3>3
  <2> QED
    BY <2>1, <2>2, <2>3, <2>4 DEF Linked
<1>19. \A j \in 1 .. Len(M) - 1 : Contents(M)'[j] = val[M[j + 1]]
  BY <1>3 DEF Contents
<1>20. order' = got' \o Contents(M)'
  <2> DEFINE S == Items \cup {Zero}
             d == CallItems(p)
             o == Contents(L)
  <2>1. d \in Seq(S) /\ Len(d) = n /\ \A j \in 1 .. n : d[j] = Item(p, j)
    <3>1. want[p] = n
      BY <1>1 DEF Values, n
    <3>2. Seq(Items) \subseteq Seq(S)
      BY SeqMonotonic
    <3> QED
      BY <3>1, <3>2, CallItemsType
  <2>2. o \in Seq(S) /\ Len(o) = l - 1 /\ \A j \in 1 .. l - 1 : o[j] = val[L[j + 1]]
    BY ContentsType DEF l
  <2>3. got \in Seq(S)
    BY DEF TypeOK
  <2> HIDE DEF S, d, o
  <2>4. (got \o o) \o d = got \o (o \o d)
    BY <2>1, <2>2, <2>3, ConcatAssociative
  <2>5. /\ o \o d \in Seq(S) /\ Len(o \o d) = (l - 1) + n
        /\ \A j \in 1 .. (l - 1) + n : (o \o d)[j] = IF j <= l - 1 THEN o[j] ELSE d[j - (l - 1)]
    <3>1. /\ o \o d \in Seq(S) /\ Len(o \o d) = Len(o) + Len(d)
          /\ \A j \in 1 .. Len(o) + Len(d) : (o \o d)[j] = IF j <= Len(o) THEN o[j] ELSE d[j - Len(o)]
      BY <2>1, <2>2, ConcatProperties
    <3>2. Len(o) = l - 1 /\ Len(d) = n
      BY <2>1, <2>2
    <3> QED
      BY <3>1, <3>2, Zenon
  <2>6. (l - 1) + n = Len(M) - 1
    BY <1>0, <1>4, <1>5
  <2>7. ASSUME NEW j \in 1 .. Len(M) - 1 PROVE (o \o d)[j] = val'[M[j + 1]]
    <3>1. CASE j <= l - 1
      <4>1. j \in 1 .. l - 1 /\ j + 1 \in 1 .. l /\ j \in 1 .. (l - 1) + n
        BY <3>1, <1>0, <1>4, <1>5
      <4> QED
        BY <4>1, <3>1, <2>2, <2>5, <1>3, <1>5
    <3>2. CASE ~(j <= l - 1)
      <4>1. j - (l - 1) \in 1 .. n /\ j + 1 = l + (j - (l - 1)) /\ j \in 1 .. (l - 1) + n
        BY <3>2, <1>0, <1>4, <1>5
      <4>2. (o \o d)[j] = Item(p, j - (l - 1))
        BY <4>1, <3>2, <2>1, <2>5
      <4>3. M[j + 1] = c[j - (l - 1)]
        BY <4>1, <1>5
      <4>4. val[c[j - (l - 1)]] = Item(p, j - (l - 1))
        BY <4>1, <1>1 DEF Values, n
      <4> QED
        BY <4>2, <4>3, <4>4, <1>3
    <3> QED
      BY <3>1, <3>2
  <2>8. o \o d = [j \in 1 .. Len(M) - 1 |-> (o \o d)[j]]
    BY <2>5, <2>6, LenProperties
  <2>9. Contents(M)' = o \o d
    BY <2>7, <2>8 DEF Contents
  <2> QED
    BY <2>4, <2>9, <1>1, <1>3 DEF o, d
<1>21. \A j \in 1 .. Len(M) - 1 : BoxOf(M)'[j] = [item |-> val[M[j + 1]], linked |-> next[M[j]] = M[j + 1]]
  BY <1>3 DEF BoxOf
<1>22. BoxOf(L) = [j \in 1 .. l - 1 |-> BoxOf(M)'[j]]
  <2>1. ASSUME NEW j \in 1 .. l - 1
        PROVE  BoxOf(M)'[j] = [item |-> val[L[j + 1]], linked |-> next[L[j]] = L[j + 1]]
    <3>1. j \in 1 .. Len(M) - 1 /\ j \in 1 .. l /\ j + 1 \in 1 .. l
      BY <1>0, <1>4, <1>5
    <3> QED
      BY <3>1, <1>5, <1>21
  <2> QED
    BY <2>1 DEF BoxOf, l
<1>23. Len(M) - 1 > l - 1
  BY <1>0, <1>4, <1>5
<1>24. ASSUME NEW x \in l .. Len(M) - 1 PROVE BoxOf(M)'[x].linked <=> x > l
  <2>1. x \in 1 .. Len(M) - 1 /\ (x = l \/ x > l)
    BY <1>0, <1>4, <1>5
  <2>2. CASE x = l
    <3>1. next[M[x]] = Nil /\ M[x + 1] = c[1] /\ c[1] # Nil
      <4>1. l \in 1 .. l /\ 1 \in 1 .. n
        BY <1>0, <1>4
      <4> QED
        BY <4>1, <2>2, <1>0, <1>4, <1>5 DEF List, Linked
    <3>2. (next[M[x]] = M[x + 1]) = FALSE
      BY <3>1
    <3>3. BoxOf(M)'[x] = [item |-> val[M[x + 1]], linked |-> FALSE]
      BY <3>2, <2>1, <1>21
    <3> QED
      BY <3>3, <2>2, <1>0
  <2>3. CASE x > l
    <3>1. x - l \in 1 .. n /\ (x - l) + 1 \in 1 .. n /\ x = l + (x - l) /\ x + 1 = l + ((x - l) + 1) /\ x - l < n
      BY <2>3, <1>0, <1>4, <1>5
    <3>2. M[x] = c[x - l] /\ M[x + 1] = c[(x - l) + 1]
      BY <3>1, <1>5
    <3>3. (next[M[x]] = M[x + 1]) = TRUE
      BY <3>1, <3>2, <1>11
    <3>4. BoxOf(M)'[x] = [item |-> val[M[x + 1]], linked |-> TRUE]
      BY <3>3, <2>1, <1>21
    <3> QED
      BY <3>4, <2>3
  <2> QED
    BY <2>1, <2>2, <2>3
<1>25. order' = order \o [j \in 1 .. Len(M) - l |-> BoxOf(M)'[l - 1 + j].item]
  <2>1. want[p] = n /\ Len(M) - l = n
    BY <1>0, <1>1, <1>4, <1>5 DEF Values, n
  <2>2. ASSUME NEW j \in 1 .. n PROVE BoxOf(M)'[l - 1 + j].item = Item(p, j)
    <3>1. l - 1 + j \in 1 .. Len(M) - 1 /\ (l - 1 + j) + 1 = l + j
      BY <1>0, <1>4, <1>5
    <3>2. BoxOf(M)'[l - 1 + j] = [item |-> val[M[l + j]], linked |-> next[M[l - 1 + j]] = M[l + j]]
      BY <3>1, <1>21
    <3>3. val[M[l + j]] = Item(p, j)
      BY <1>1, <1>5 DEF Values, n
    <3> QED
      BY <3>2, <3>3
  <2>3. CallItems(p) = [j \in 1 .. n |-> BoxOf(M)'[l - 1 + j].item]
    BY <2>1, <2>2 DEF CallItems
  <2> QED
    BY <2>1, <2>3, <1>1
<1>26. Grows(L, M)
  BY <1>22, <1>23, <1>24, <1>25 DEF Grows, l
<1> QED
  BY <1>13, <1>14, <1>15, <1>16, <1>17, <1>18, <1>20, <1>26 DEF List, M

\* The place that a call left open is linked.
LEMMA LinkSteps ==
  ASSUME TypeOK, Chains, Consumer, Values, NEW L, List(L), order = got \o Contents(L),
         NEW p \in Producers, LinkPrev(p)
  PROVE  /\ Chains' /\ Consumer' /\ Values' /\ List(L)' /\ order' = got' \o Contents(L)'
         /\ \E x \in 1 .. Len(L) - 1 : ~BoxOf(L)[x].linked /\ BoxOf(L)' = [BoxOf(L) EXCEPT ![x].linked = TRUE]
<1> DEFINE l == Len(L)
<1>0. L \in Seq(Nodes) /\ l \in Nat /\ l > 0 /\ (\A i \in 1 .. l : L[i] \in Nodes /\ L[i] # Nil) /\ L[l] = head
  BY LenProperties, ElementOfSeq, NodesAssumption DEF List, Shape
<1>1. /\ pc[p] = "link" /\ next' = [next EXCEPT ![prev[p]] = chain[p][1]]
      /\ UNCHANGED <<head, val, stopped, fresh, pool, want, cvars, order>>
  BY DEF LinkPrev
<1>2. /\ pc'[p] = "idle" /\ chain'[p] = <<>>
      /\ \A q \in Producers : q # p => pc'[q] = pc[q] /\ prev'[q] = prev[q] /\ chain'[q] = chain[q] /\ sent'[q] = sent[q]
  BY DEF LinkPrev, ReturnTrue, Goto, TypeOK
<1>3. /\ want' = want /\ val' = val /\ fresh' = fresh /\ pool' = pool /\ cache' = cache /\ head' = head /\ tail' = tail
      /\ cur' = cur /\ nxt' = nxt /\ cpc' = cpc /\ got' = got /\ order' = order
  BY <1>1 DEF cvars
<1>4. PICK k \in 1 .. l - 1 : prev[p] = L[k] /\ next[L[k]] = Nil /\ chain[p][1] = L[k + 1]
  BY <1>1 DEF List, Linked
<1>5. k \in 1 .. l /\ k + 1 \in 1 .. l /\ k # l /\ l \in 1 .. l
  BY <1>0
<1>6. next'[L[k]] = L[k + 1] /\ \A x \in Nodes : x # L[k] => next'[x] = next[x]
  BY <1>0, <1>1, <1>4, <1>5 DEF TypeOK
<1>7. \A q \in Producers : Building(q)' <=> Building(q)
  BY <1>1, <1>2 DEF Building
<1>8. Spare' = Spare /\ ~Building(p)
  BY <1>1, <1>3 DEF Spare, Building
<1>9. \A x : Loose(x)' <=> Loose(x)
  BY <1>2, <1>7, <1>8 DEF Loose
<1>10. ~Loose(L[k]) /\ \A i \in 1 .. l : i # k => L[i] # L[k]
  BY <1>5 DEF List, Apart, Shape
<1>11. \A i \in 1 .. l : i # k => next'[L[i]] = next[L[i]]
  BY <1>0, <1>6, <1>10
<1> HIDE DEF l
<1>12. Chains'
  <2>1. \A q \in Producers : pc'[q] \in {"check", "rollback", "swap", "link"} => chain'[q] # <<>>
    BY <1>2 DEF Chains
  <2>2. \A q \in Producers : Building(q)' => Building(q) /\ q # p /\ chain'[q] = chain[q] /\ pc'[q] = pc[q]
    BY <1>2, <1>7, <1>8
  <2>3. \A q \in Producers : Building(q)' => \A i \in 1 .. Len(chain'[q]) : chain'[q][i] \notin Spare'
    BY <2>2, <1>8 DEF Chains
  <2>4. \A q, r \in Producers : Building(q)' /\ Building(r)' =>
          \A i \in 1 .. Len(chain'[q]), j \in 1 .. Len(chain'[r]) : chain'[q][i] = chain'[r][j] => q = r /\ i = j
    BY <2>2 DEF Chains
  <2>5. ASSUME NEW q \in Producers, pc'[q] \in {"alloc", "check", "swap"}, NEW i \in 1 .. Len(chain'[q])
        PROVE  next'[chain'[q][i]] = IF i < Len(chain'[q]) THEN chain'[q][i + 1] ELSE Nil
    <3>1. Building(q)'
      BY <2>5 DEF Building
    <3>2. Building(q) /\ chain'[q] = chain[q] /\ pc[q] \in {"alloc", "check", "swap"} /\ i \in 1 .. Len(chain[q])
      BY <3>1, <2>2, <2>5
    <3>3. chain[q][i] \in Nodes /\ Loose(chain[q][i])
      BY <3>2, ElementOfSeq DEF Loose, TypeOK
    <3>4. next'[chain[q][i]] = next[chain[q][i]]
      BY <3>3, <1>6, <1>10
    <3> QED
      BY <3>2, <3>4 DEF Chains
  <2>6. (cache \cap (pool \cup fresh) = {})'
    BY <1>3 DEF Chains
  <2> QED
    BY <2>1, <2>3, <2>4, <2>5, <2>6 DEF Chains
<1>13. Consumer'
  <2>1. cpc = "take" => next'[cur] = next[cur]
    <3>1. cpc = "take" => next[cur] # Nil /\ cur \in Nodes
      BY DEF Consumer, TypeOK
    <3> QED
      BY <3>1, <1>4, <1>6
  <2> QED
    BY <2>1, <1>3, <1>9 DEF Consumer, Leaving
<1>14. Values'
  <2>1. ASSUME NEW q \in Producers, pc'[q] \in {"alloc", "check", "swap"}
        PROVE  pc[q] = pc'[q] /\ chain'[q] = chain[q] /\ sent'[q] = sent[q]
    BY <2>1, <1>2
  <2>2. \A q \in Producers : pc'[q] \in {"alloc", "check", "swap"} =>
          \A i \in 1 .. Len(chain[q]) : val[chain[q][i]] = Item(q, i)
    BY <2>1 DEF Values
  <2>3. \A q \in Producers : pc'[q] \in {"check", "swap"} => Len(chain[q]) = want[q]
    BY <2>1 DEF Values
  <2>4. \A q \in Producers : pc'[q] = "alloc" => Len(chain[q]) < want[q]
    BY <2>1 DEF Values
  <2>5. ASSUME NEW q \in Producers, pc'[q] \in {"alloc", "check", "swap"}, NEW i \in 1 .. Len(chain'[q])
        PROVE  val'[chain'[q][i]] = Item(q, i)'
    <3>1. chain'[q] = chain[q] /\ sent'[q] = sent[q] /\ val' = val
      BY <2>1, <2>5, <1>3
    <3>2. val[chain[q][i]] = Item(q, i)
      BY <3>1, <2>2, <2>5
    <3> QED
      BY <3>1, <3>2 DEF Item
  <2>6. \A q \in Producers : pc'[q] \in {"check", "swap"} => Len(chain'[q]) = want'[q]
    BY <2>1, <2>3, <1>3
  <2>7. \A q \in Producers : pc'[q] = "alloc" => Len(chain'[q]) < want'[q]
    BY <2>1, <2>4, <1>3
  <2> QED
    BY <2>5, <2>6, <2>7 DEF Values
<1>15. Shape(L)' /\ Apart(L)'
  BY <1>3, <1>9 DEF List, Shape, Apart, Start, Leaving
<1>16. Linked(L)'
  <2>1. next'[head'] = Nil
    BY <1>0, <1>3, <1>5, <1>11 DEF List, Linked
  <2>2. ASSUME NEW i \in 1 .. l - 1
        PROVE  next'[L[i]] = L[i + 1] \/ (next'[L[i]] = Nil /\ \E q \in Producers : pc'[q] = "link" /\ prev'[q] = L[i])
    <3>1. CASE i = k
      BY <3>1, <1>6
    <3>2. CASE i # k
      <4>1. i \in 1 .. l
        BY <1>0
      <4>2. next'[L[i]] = next[L[i]] /\ L[i] # prev[p]
        BY <4>1, <3>2, <1>4, <1>10, <1>11
      <4>3. next[L[i]] = L[i + 1] \/ (next[L[i]] = Nil /\ \E q \in Producers : pc[q] = "link" /\ prev[q] = L[i])
        BY DEF List, Linked, l
      <4>4. \A q \in Producers : prev[q] = L[i] /\ pc[q] = "link" => pc'[q] = "link" /\ prev'[q] = prev[q]
        BY <4>2, <1>2
      <4> QED
        BY <4>2, <4>3, <4>4
    <3> QED
      BY <3>1, <3>2
  <2>3. ASSUME NEW q \in Producers, pc'[q] = "link"
        PROVE  \E i \in 1 .. l - 1 : prev'[q] = L[i] /\ next'[L[i]] = Nil /\ chain'[q][1] = L[i + 1]
    <3>1. q # p /\ pc[q] = "link" /\ prev'[q] = prev[q] /\ chain'[q] = chain[q]
      BY <2>3, <1>2
    <3>2. PICK j \in 1 .. l - 1 : prev[q] = L[j] /\ next[L[j]] = Nil /\ chain[q][1] = L[j + 1]
      BY <3>1 DEF List, Linked, l
    <3>3. j # k
      BY <3>1, <3>2, <1>1, <1>4 DEF List, Linked
    <3>4. j \in 1 .. l
      BY <1>0
    <3> QED
      BY <3>1, <3>2, <3>3, <3>4, <1>11
  <2>4. \A q, r \in Producers : pc'[q] = "link" /\ pc'[r] = "link" /\ prev'[q] = prev'[r] => q = r
    BY <1>2 DEF List, Linked
  <2> QED
    BY <2>1, <2>2, <2>3, <2>4 DEF Linked, l
<1>17. order' = got' \o Contents(L)'
  BY <1>3 DEF Contents
<1>18. ~BoxOf(L)[k].linked
  <2>1. (next[L[k]] = L[k + 1]) = FALSE
    BY <1>0, <1>4, <1>5
  <2>2. BoxOf(L)[k] = [item |-> val[L[k + 1]], linked |-> FALSE]
    BY <2>1 DEF BoxOf, l
  <2> QED
    BY <2>2
<1>19. BoxOf(L)' = [BoxOf(L) EXCEPT ![k].linked = TRUE]
  <2>1. (next'[L[k]] = L[k + 1]) = TRUE
    BY <1>6
  <2>2. ASSUME NEW j \in 1 .. l - 1, j # k
        PROVE  [item |-> val'[L[j + 1]], linked |-> next'[L[j]] = L[j + 1]] = BoxOf(L)[j]
    <3>1. j \in 1 .. l
      BY <1>0
    <3>2. next'[L[j]] = next[L[j]]
      BY <3>1, <2>2, <1>11
    <3> QED
      BY <3>2, <1>3 DEF BoxOf, l
  <2>3. [item |-> val'[L[k + 1]], linked |-> next'[L[k]] = L[k + 1]] = [BoxOf(L)[k] EXCEPT !.linked = TRUE]
    <3>1. BoxOf(L)[k] = [item |-> val[L[k + 1]], linked |-> next[L[k]] = L[k + 1]]
      BY DEF BoxOf, l
    <3>2. \A t : [BoxOf(L)[k] EXCEPT !.linked = t] = [item |-> val[L[k + 1]], linked |-> t]
      BY <3>1
    <3>3. [BoxOf(L)[k] EXCEPT !.linked = TRUE] = [item |-> val[L[k + 1]], linked |-> TRUE]
      BY <3>2, Zenon
    <3> QED
      BY <3>3, <2>1, <1>3
  <2>4. BoxOf(L)' = [j \in 1 .. l - 1 |-> [item |-> val'[L[j + 1]], linked |-> next'[L[j]] = L[j + 1]]]
    BY DEF BoxOf, l
  <2>5. BoxOf(L) = [j \in 1 .. l - 1 |-> BoxOf(L)[j]]
    BY DEF BoxOf, l
  <2> DEFINE B == BoxOf(L)
             C == BoxOf(L)'
  <2>6. /\ C = [j \in 1 .. l - 1 |-> C[j]] /\ \A j \in 1 .. l - 1 : j # k => C[j] = B[j]
        /\ C[k] = [B[k] EXCEPT !.linked = TRUE] /\ B = [j \in 1 .. l - 1 |-> B[j]]
    BY <2>2, <2>3, <2>4, <2>5
  <2> HIDE DEF B, C
  <2>7. C = [B EXCEPT ![k] = [B[k] EXCEPT !.linked = TRUE]]
    BY <2>6
  <2> QED
    BY <2>7 DEF B, C
<1> QED
  BY <1>12, <1>13, <1>14, <1>15, <1>16, <1>17, <1>18, <1>19 DEF List, l

----------------------------------------------------------------------------
(* The calls that were admitted.                                            *)

\* The calls between their second look at enqueueStopped and their swap.
Inside == {q \in Producers : pc[q] = "swap"}

\* They can be counted.
LEMMA AdmittedType == IsFiniteSet(Inside) /\ Admitted \in Nat
  BY ProducersAssumption, FS_Subset, FS_CardinalityType DEF Admitted, Inside

\* The count stays when nobody enters or leaves.
LEMMA AdmittedSame ==
  ASSUME \A q \in Producers : pc'[q] = "swap" <=> pc[q] = "swap"
  PROVE  Admitted' = Admitted
<1>1. {q \in Producers : pc'[q] = "swap"} = {q \in Producers : pc[q] = "swap"}
  OBVIOUS
<1> QED
  BY <1>1 DEF Admitted

\* A call that finds the queue open is one more.
LEMMA AdmittedOneMore ==
  ASSUME NEW p \in Producers, pc[p] # "swap", pc'[p] = "swap", \A q \in Producers : q # p => pc'[q] = pc[q]
  PROVE  Admitted' = Admitted + 1
<1>1. Inside' = Inside \cup {p} /\ p \notin Inside
  BY DEF Inside
<1>2. Cardinality(Inside \cup {p}) = Cardinality(Inside) + 1
  BY <1>1, AdmittedType, FS_AddElement
<1> QED
  BY <1>1, <1>2 DEF Admitted, Inside

\* A call that swaps its chain in is one less.
LEMMA AdmittedOneLess ==
  ASSUME NEW p \in Producers, pc[p] = "swap", pc'[p] # "swap", \A q \in Producers : q # p => pc'[q] = pc[q]
  PROVE  Admitted > 0 /\ Admitted' = Admitted - 1
<1>1. Inside' = Inside \ {p} /\ p \in Inside
  BY DEF Inside
<1>2. Cardinality(Inside \ {p}) = Cardinality(Inside) - 1 /\ Cardinality(Inside \ {p}) \in Nat
  BY <1>1, AdmittedType, FS_RemoveElement, FS_CardinalityType
<1>3. Cardinality(Inside) \in Nat
  BY AdmittedType, FS_CardinalityType
<1>4. Cardinality(Inside) = Admitted /\ Cardinality(Inside') = Admitted'
  BY DEF Admitted, Inside
<1> QED
  BY <1>1, <1>2, <1>3, <1>4

----------------------------------------------------------------------------
(* The refinement.                                                          *)

\* What the mailbox holds.
Cells == [item : Items \cup {Zero}, linked : BOOLEAN]

\* The mailbox of a list is a sequence of elements, the values of the list.
LEMMA BoxType == \A L : TypeOK /\ List(L) =>
  /\ BoxOf(L) \in Seq(Cells) /\ Len(BoxOf(L)) = Len(L) - 1 /\ Len(L) \in Nat /\ Len(L) > 0
  /\ Contents(L) = [j \in 1 .. Len(BoxOf(L)) |-> BoxOf(L)[j].item]
<1> SUFFICES ASSUME TypeOK, NEW L, List(L)
             PROVE  /\ BoxOf(L) \in Seq(Cells) /\ Len(BoxOf(L)) = Len(L) - 1 /\ Len(L) \in Nat /\ Len(L) > 0
                    /\ Contents(L) = [j \in 1 .. Len(BoxOf(L)) |-> BoxOf(L)[j].item]
  OBVIOUS
<1>1. L \in Seq(Nodes) /\ Len(L) - 1 \in Nat /\ Len(L) \in Nat /\ Len(L) > 0
  BY LenProperties DEF List, Shape
<1>2. ASSUME NEW j \in 1 .. Len(L) - 1
      PROVE  [item |-> val[L[j + 1]], linked |-> next[L[j]] = L[j + 1]] \in Cells
  <2>1. val[L[j + 1]] \in Items \cup {Zero}
    BY <1>1, ElementOfSeq DEF TypeOK
  <2>2. (next[L[j]] = L[j + 1]) \in BOOLEAN
    OBVIOUS
  <2> QED
    BY <2>1, <2>2 DEF Cells
<1>3. BoxOf(L) \in [1 .. Len(L) - 1 -> Cells]
  BY <1>2 DEF BoxOf
<1>4. BoxOf(L) \in Seq(Cells) /\ Len(BoxOf(L)) = Len(L) - 1
  BY <1>1, <1>3, FunIsSeq
<1>5. \A j \in 1 .. Len(L) - 1 : BoxOf(L)[j].item = val[L[j + 1]]
  BY DEF BoxOf
<1> QED
  BY <1>1, <1>4, <1>5 DEF Contents

\* The same of the state after a step.
LEMMA BoxTypeNext == (\A L : TypeOK /\ List(L) =>
  /\ BoxOf(L) \in Seq(Cells) /\ Len(BoxOf(L)) = Len(L) - 1 /\ Len(L) \in Nat /\ Len(L) > 0
  /\ Contents(L) = [j \in 1 .. Len(BoxOf(L)) |-> BoxOf(L)[j].item])'
  BY BoxType, PTL

\* And that the mailbox is the list then too.
LEMMA MailboxIsNext == (\A L : TypeOK /\ List(L) => MailboxOf = BoxOf(L))'
  BY MailboxIs, PTL

\* A step that leaves the list alone is one the mailbox does not see, as far as its
\* elements go.
LEMMA QuietBox ==
  ASSUME TypeOK, TypeOK', NEW L, List(L), order = got \o Contents(L), QuietStep, Chains', Consumer', Values'
  PROVE  IInv' /\ MailboxOf' = MailboxOf /\ got' = got /\ order' = order
<1>1. List(L)' /\ Contents(L)' = Contents(L) /\ BoxOf(L)' = BoxOf(L)
  BY QuietKeeps
<1>2. MailboxOf = BoxOf(L) /\ MailboxOf' = BoxOf(L)'
  BY <1>1, MailboxIs, MailboxIsNext
<1>3. order' = order /\ got' = got
  BY DEF QuietStep
<1>4. L \in Seq(Nodes)
  BY DEF List, Shape
<1>5. order' = got' \o Contents(L)'
  BY <1>1, <1>3
<1>6. IInv'
  BY <1>1, <1>4, <1>5 DEF IInv
<1> QED
  BY <1>1, <1>2, <1>3, <1>6

\* A queue without elements is an empty mailbox.
LEMMA InitMaps == Init => IInv /\ Abstract!Init
<1> SUFFICES ASSUME Init PROVE IInv /\ Abstract!Init
  OBVIOUS
<1>1. TypeOK
  BY InitTypes
<1>2. /\ pc = [p \in Producers |-> "idle"] /\ chain = [p \in Producers |-> <<>>] /\ pool = {} /\ cache = {} /\ cpc = "idle"
      /\ order = <<>> /\ got = <<>> /\ stopped = FALSE /\ head = tail /\ fresh = Nodes \ {tail}
      /\ next = [x \in Nodes |-> Nil]
  BY DEF Init
<1>3. \A p \in Producers : pc[p] = "idle"
  BY <1>2
<1>4. Chains /\ Values
  BY <1>2, <1>3 DEF Chains, Values, Building
<1>5. Consumer
  BY <1>2 DEF Consumer, Leaving
<1> DEFINE L == <<tail>>
<1>6. L \in Seq(Nodes) /\ Len(L) = 1 /\ L[1] = tail /\ tail \in Nodes
  BY <1>1 DEF TypeOK
<1> HIDE DEF L
<1>7. Shape(L)
  BY <1>2, <1>6 DEF Shape, Start
<1>8. \A i \in 1 .. Len(L) : i = 1
  BY <1>6
<1>9. Apart(L)
  BY <1>2, <1>3, <1>6, <1>8 DEF Apart, Loose, Spare, Building, Leaving
<1>10. Linked(L)
  <2>1. 1 .. Len(L) - 1 = {}
    BY <1>6
  <2> QED
    BY <2>1, <1>1, <1>2, <1>3 DEF Linked, TypeOK
<1>11. List(L)
  BY <1>7, <1>9, <1>10 DEF List
<1>12. Len(L) - 1 = 0
  BY <1>6
<1>13. Contents(L) \in Seq(Items \cup {Zero}) /\ Contents(L) = <<>>
  <2>1. Contents(L) \in Seq(Items \cup {Zero}) /\ Len(Contents(L)) = 0
    BY <1>1, <1>11, <1>12, ContentsType
  <2> QED
    BY <2>1, EmptySeq
<1>14. BoxOf(L) = <<>>
  <2>1. BoxOf(L) \in Seq(Cells) /\ Len(BoxOf(L)) = 0
    BY <1>1, <1>11, <1>12, BoxType
  <2> QED
    BY <2>1, EmptySeq
<1>15. <<>> = <<>> \o <<>>
  OBVIOUS
<1>16. order = got \o Contents(L)
  BY <1>2, <1>13, <1>15
<1>17. IInv
  BY <1>1, <1>4, <1>5, <1>6, <1>11, <1>16 DEF IInv
<1>18. MailboxOf = <<>>
  BY <1>1, <1>11, <1>14, MailboxIs
<1>19. Admitted = 0
  <2>1. {p \in Producers : pc[p] = "swap"} = {}
    BY <1>3
  <2> QED
    BY <2>1, FS_EmptySet DEF Admitted
<1> QED
  BY <1>2, <1>17, <1>18, <1>19 DEF Abstract!Init

\* Every step is a step of the mailbox or one that it does not see.
LEMMA StepMaps ==
  ASSUME IInv, Next
  PROVE  IInv' /\ (Abstract!Next \/ UNCHANGED Abstract!vars)
<1>0. TypeOK /\ Chains /\ Consumer /\ Values
  BY DEF IInv
<1>1. PICK L \in Seq(Nodes) : List(L) /\ order = got \o Contents(L)
  BY DEF IInv
<1>2. MailboxOf = BoxOf(L)
  BY <1>0, <1>1, MailboxIs
<1>q. ASSUME TypeOK', QuietStep, Chains', Consumer', Values', stopped' = stopped,
             \A q \in Producers : pc'[q] = "swap" <=> pc[q] = "swap"
      PROVE  IInv' /\ UNCHANGED Abstract!vars
  <2>1. IInv' /\ MailboxOf' = MailboxOf /\ got' = got /\ order' = order
    BY <1>q, <1>0, <1>1, QuietBox
  <2>2. Admitted' = Admitted
    BY <1>q, AdmittedSame
  <2> QED
    BY <1>q, <2>1, <2>2 DEF Abstract!vars
<1>3. ASSUME NEW p \in Producers, NEW m \in 1 .. MaxBatch, TryEnqueue(p, m)
      PROVE  IInv' /\ UNCHANGED Abstract!vars
  <2>1. TypeOK'
    BY <1>3, <1>0, ProducerTypes DEF Chains
  <2>2. QuietStep /\ Chains' /\ Consumer' /\ Values'
    BY <1>3, <1>0, TryEnqueueQuiet
  <2>3. stopped' = stopped /\ \A q \in Producers : pc'[q] = "swap" <=> pc[q] = "swap"
    <3>1. CASE stopped
      BY <1>3, <3>1 DEF TryEnqueue
    <3>2. CASE ~stopped
      BY <1>3, <3>2, <1>0 DEF TryEnqueue, Goto, TypeOK
    <3> QED
      BY <3>1, <3>2
  <2> QED
    BY <2>1, <2>2, <2>3, <1>q
<1>4. ASSUME NEW p \in Producers, Alloc(p) PROVE IInv' /\ UNCHANGED Abstract!vars
  <2>1. TypeOK'
    BY <1>4, <1>0, ProducerTypes DEF ProducerStep, Chains
  <2>2. QuietStep /\ Chains' /\ Consumer' /\ Values'
    BY <1>4, <1>0, AllocQuiet
  <2>3. stopped' = stopped /\ \A q \in Producers : pc'[q] = "swap" <=> pc[q] = "swap"
    BY <1>4, <1>0 DEF Alloc, Goto, TypeOK
  <2> QED
    BY <2>1, <2>2, <2>3, <1>q
<1>5. ASSUME NEW p \in Producers, Rollback(p) PROVE IInv' /\ UNCHANGED Abstract!vars
  <2>1. TypeOK'
    BY <1>5, <1>0, ProducerTypes DEF ProducerStep, Chains
  <2>2. QuietStep /\ Chains' /\ Consumer' /\ Values'
    BY <1>5, <1>0, RollbackQuiet
  <2>3. stopped' = stopped /\ \A q \in Producers : pc'[q] = "swap" <=> pc[q] = "swap"
    <3>1. CASE Len(chain[p]) = 1
      BY <1>5, <3>1, <1>0 DEF Rollback, Goto, TypeOK
    <3>2. CASE Len(chain[p]) # 1
      BY <1>5, <3>2 DEF Rollback
    <3> QED
      BY <3>1, <3>2
  <2> QED
    BY <2>1, <2>2, <2>3, <1>q
<1>6. ASSUME NEW p \in Producers, Recheck(p) PROVE IInv' /\ (Abstract!Next \/ UNCHANGED Abstract!vars)
  <2>1. TypeOK'
    BY <1>6, <1>0, ProducerTypes DEF ProducerStep, Chains
  <2>2. QuietStep /\ Chains' /\ Consumer' /\ Values'
    BY <1>6, <1>0, RecheckQuiet
  <2>3. stopped' = stopped /\ pc[p] = "check" /\ \A q \in Producers : q # p => pc'[q] = pc[q]
    BY <1>6, <1>0 DEF Recheck, Goto, TypeOK
  <2>4. CASE stopped
    <3>1. pc'[p] = "rollback"
      BY <1>6, <2>4, <1>0 DEF Recheck, Goto, TypeOK
    <3> QED
      BY <3>1, <2>1, <2>2, <2>3, <1>q
  <2>5. CASE ~stopped
    <3>1. pc'[p] = "swap"
      BY <1>6, <2>5, <1>0 DEF Recheck, Goto, TypeOK
    <3>2. Admitted' = Admitted + 1
      BY <3>1, <2>3, AdmittedOneMore
    <3>3. IInv' /\ MailboxOf' = MailboxOf /\ got' = got /\ order' = order
      BY <2>1, <2>2, <1>0, <1>1, QuietBox
    <3> QED
      BY <3>2, <3>3, <2>3, <2>5 DEF Abstract!Next, Abstract!Admit
  <2> QED
    BY <2>4, <2>5
<1>7. ASSUME NEW p \in Producers, SwapHead(p) PROVE IInv' /\ Abstract!Swap
  <2>1. TypeOK'
    BY <1>7, <1>0, ProducerTypes DEF ProducerStep, Chains
  <2>2. PICK c : c = chain[p]
    OBVIOUS
  <2> DEFINE M == L \o c
  <2>3. /\ Chains' /\ Consumer' /\ Values' /\ List(M)' /\ order' = got' \o Contents(M)'
        /\ Grows(L, M)
    BY <1>0, <1>1, <1>7, <2>2, SwapSteps
  <2> HIDE DEF M
  <2>e. /\ BoxOf(L) = [j \in 1 .. Len(L) - 1 |-> BoxOf(M)'[j]]
        /\ Len(M) - 1 > Len(L) - 1
        /\ \A x \in Len(L) .. Len(M) - 1 : BoxOf(M)'[x].linked <=> x > Len(L)
        /\ order' = order \o [j \in 1 .. Len(M) - Len(L) |-> BoxOf(M)'[Len(L) - 1 + j].item]
    BY <2>3 DEF Grows
  <2>4. M \in Seq(Nodes)
    BY <2>3 DEF List, Shape
  <2>5. IInv'
    BY <2>1, <2>3, <2>4 DEF IInv
  <2>6. MailboxOf' = BoxOf(M)'
    BY <2>1, <2>3, MailboxIsNext
  <2>7. Admitted > 0 /\ Admitted' = Admitted - 1
    <3>1. pc[p] = "swap" /\ pc'[p] # "swap" /\ \A q \in Producers : q # p => pc'[q] = pc[q]
      BY <1>0, <1>7 DEF SwapHead, Goto, TypeOK
    <3> QED
      BY <3>1, AdmittedOneLess
  <2>8. got' = got /\ stopped' = stopped
    BY <1>7 DEF SwapHead, cvars
  <2>9. Len(BoxOf(L)) = Len(L) - 1 /\ Len(L) \in Nat /\ Len(L) > 0
    BY <1>0, <1>1, BoxType
  <2>10. BoxOf(M)' \in Seq(Cells') /\ Len(BoxOf(M)') = Len(M) - 1
    BY <2>1, <2>3, BoxTypeNext
  <2> DEFINE C == BoxOf(M)'
  <2>11. SubSeq(C, 1, Len(L) - 1) = [j \in 1 .. Len(L) - 1 |-> C[j]]
    BY <2>9, <2>10
  <2>12. Len(MailboxOf) + 1 = Len(L) /\ Len(MailboxOf') = Len(M) - 1 /\ Len(MailboxOf') > Len(MailboxOf)
    BY <1>2, <2>e, <2>6, <2>9, <2>10
  <2>13. SubSeq(MailboxOf', 1, Len(MailboxOf)) = MailboxOf
    BY <1>2, <2>e, <2>6, <2>9, <2>11
  <2>14. \A x \in Len(MailboxOf) + 1 .. Len(MailboxOf') : MailboxOf'[x].linked <=> x > Len(MailboxOf) + 1
    BY <2>e, <2>6, <2>12
  <2>15. order' = order \o [x \in 1 .. Len(MailboxOf') - Len(MailboxOf) |-> MailboxOf'[Len(MailboxOf) + x].item]
    <3>1. Len(MailboxOf') - Len(MailboxOf) = Len(M) - Len(L) /\ Len(MailboxOf) = Len(L) - 1
      <4>1. Len(M) \in Nat /\ Len(MailboxOf) = Len(L) - 1
        BY <1>2, <2>4, <2>9, LenProperties
      <4> QED
        BY <4>1, <2>9, <2>12
    <3> QED
      BY <3>1, <2>e, <2>6
  <2> QED
    BY <2>5, <2>7, <2>8, <2>12, <2>13, <2>14, <2>15 DEF Abstract!Swap
<1>8. ASSUME NEW p \in Producers, LinkPrev(p) PROVE IInv' /\ Abstract!Link
  <2>1. TypeOK'
    BY <1>8, <1>0, ProducerTypes DEF ProducerStep, Chains
  <2>2. /\ Chains' /\ Consumer' /\ Values' /\ List(L)' /\ order' = got' \o Contents(L)'
        /\ \E x \in 1 .. Len(L) - 1 : ~BoxOf(L)[x].linked /\ BoxOf(L)' = [BoxOf(L) EXCEPT ![x].linked = TRUE]
    BY <1>0, <1>1, <1>8, LinkSteps
  <2>3. IInv'
    BY <2>1, <2>2, <1>1 DEF IInv
  <2>4. MailboxOf' = BoxOf(L)'
    BY <2>1, <2>2, MailboxIsNext
  <2>5. Admitted' = Admitted
    <3>1. \A q \in Producers : pc'[q] = "swap" <=> pc[q] = "swap"
      BY <1>0, <1>8 DEF LinkPrev, ReturnTrue, Goto, TypeOK
    <3> QED
      BY <3>1, AdmittedSame
  <2>6. got' = got /\ stopped' = stopped
    BY <1>8 DEF LinkPrev, cvars
  <2>o. order' = order
    BY <1>8 DEF LinkPrev
  <2>7. DOMAIN MailboxOf = 1 .. Len(L) - 1
    BY <1>2 DEF BoxOf
  <2>8. \E x \in DOMAIN MailboxOf : ~MailboxOf[x].linked /\ MailboxOf' = [MailboxOf EXCEPT ![x].linked = TRUE]
    BY <1>2, <2>2, <2>4, <2>7
  <2> QED
    BY <2>3, <2>5, <2>6, <2>o, <2>8 DEF Abstract!Link
<1>9. CASE StopEnqueue
  <2>1. TypeOK'
    BY <1>9, <1>0, ConsumerTypes
  <2>2. QuietStep /\ Chains' /\ Consumer' /\ Values'
    BY <1>9, <1>0, StopQuiet
  <2>3. IInv' /\ MailboxOf' = MailboxOf /\ got' = got /\ order' = order
    BY <2>1, <2>2, <1>0, <1>1, QuietBox
  <2>4. pc' = pc /\ stopped' = TRUE
    BY <1>9 DEF StopEnqueue, pvars
  <2>5. Admitted' = Admitted
    BY <2>4, AdmittedSame
  <2> QED
    BY <2>3, <2>4, <2>5 DEF Abstract!Next, Abstract!Stop
<1>10. CASE (\E m \in 1 .. MaxBatch : DequeueBatch(m)) \/ LoadNext \/ StoreTail \/ Recycle \/ Shrink
  <2>1. TypeOK'
    BY <1>10, <1>0, ConsumerTypes DEF ConsumerStep
  <2>2. QuietStep /\ Chains' /\ Consumer' /\ Values'
    BY <1>10, <1>0, <1>1, ConsumerQuiet
  <2>3. pc' = pc /\ stopped' = stopped
    BY <1>10 DEF DequeueBatch, LoadNext, StoreTail, Recycle, Shrink, pvars
  <2> QED
    BY <2>1, <2>2, <2>3, <1>q
<1>11. CASE TakeVal
  <2>1. TypeOK'
    BY <1>11, <1>0, ConsumerTypes DEF ConsumerStep
  <2>2. /\ Chains' /\ Consumer' /\ Values' /\ List(Tail(L))' /\ order' = got' \o Contents(Tail(L))'
        /\ BoxOf(L) # <<>> /\ BoxOf(L)[1].linked /\ got' = Append(got, BoxOf(L)[1].item)
        /\ BoxOf(Tail(L))' = Tail(BoxOf(L))
    BY <1>0, <1>1, <1>11, TakeSteps
  <2>3. Tail(L) \in Seq(Nodes)
    BY <2>2 DEF List, Shape
  <2>4. IInv'
    BY <2>1, <2>2, <2>3 DEF IInv
  <2>5. MailboxOf' = BoxOf(Tail(L))'
    BY <2>1, <2>2, MailboxIsNext
  <2>6. pc' = pc /\ stopped' = stopped /\ order' = order
    BY <1>11 DEF TakeVal, pvars
  <2>7. Admitted' = Admitted
    BY <2>6, AdmittedSame
  <2> QED
    BY <1>2, <2>2, <2>4, <2>5, <2>6, <2>7 DEF Abstract!Next, Abstract!Take
<1> QED
  BY <1>3, <1>4, <1>5, <1>6, <1>7, <1>8, <1>9, <1>10, <1>11 DEF Next, ProducerStep, ConsumerStep, Abstract!Next

\* Nothing moves when nothing changes.
LEMMA StutterMaps ==
  ASSUME IInv, UNCHANGED vars
  PROVE  IInv' /\ UNCHANGED Abstract!vars
<1>0. /\ TypeOK /\ Chains /\ Consumer /\ Values
  BY DEF IInv
<1>1. PICK L \in Seq(Nodes) : List(L) /\ order = got \o Contents(L)
  BY DEF IInv
<1>2. UNCHANGED <<next, val, stopped, pool, cvars, pvars>>
  BY DEF vars, cvars, pvars
<1>3. TypeOK'
  BY <1>0, <1>2 DEF TypeOK, cvars, pvars
<1>4. \A x : Loose(x)' <=> Loose(x)
  BY <1>2 DEF Loose, Spare, Building, cvars, pvars
<1>5. QuietStep
  BY <1>2, <1>4 DEF QuietStep, Start, Leaving, cvars, pvars
<1>6. Chains' /\ Values'
  BY <1>0, <1>2 DEF Chains, Values, Building, Spare, Item, cvars, pvars
<1>7. Consumer'
  BY <1>0, <1>2, <1>4 DEF Consumer, Leaving, cvars
<1>8. IInv' /\ MailboxOf' = MailboxOf /\ got' = got /\ order' = order
  BY <1>0, <1>1, <1>3, <1>5, <1>6, <1>7, QuietBox
<1>9. pc' = pc /\ stopped' = stopped
  BY <1>2 DEF pvars
<1>10. Admitted' = Admitted
  BY <1>9, AdmittedSame
<1> QED
  BY <1>8, <1>9, <1>10 DEF Abstract!vars

\* The inductive invariant holds in every state of the queue.
THEOREM Invariance == Spec => []IInv
<1>1. Init => IInv
  BY InitMaps
<1>2. IInv /\ [Next]_vars => IInv'
  BY StepMaps, StutterMaps
<1> QED
  BY <1>1, <1>2, PTL DEF Spec

\* Every variable keeps its type: no nil pointer is followed and no field of a node
\* holds anything but an element or the zero value.
THEOREM Types == Spec => []TypeOK
<1>1. IInv => TypeOK
  BY DEF IInv
<1> QED
  BY <1>1, Invariance, PTL

\* Elements come out in the order of the swaps, each one once and with the value it
\* was enqueued with, however nodes are recycled in between.
THEOREM InOrder == Spec => []FIFO
<1>1. IInv => FIFO
  <2> SUFFICES ASSUME IInv PROVE FIFO
    OBVIOUS
  <2>1. PICK L \in Seq(Nodes) : List(L) /\ order = got \o Contents(L)
    BY DEF IInv
  <2>2. MailboxOf = BoxOf(L) /\ Contents(L) = [j \in 1 .. Len(BoxOf(L)) |-> BoxOf(L)[j].item]
    BY <2>1, MailboxIs, BoxType DEF IInv
  <2> QED
    BY <2>1, <2>2 DEF FIFO
<1> QED
  BY <1>1, Invariance, PTL

\* The linked queue implements the mailbox: swap, link and take are the only steps
\* that its users see, the consumer stops at a place that is not linked yet, and
\* after StopEnqueue only the calls admitted before still enqueue.
THEOREM Refinement == Spec => ImplementsMailbox
<1>1. Init => Abstract!Init
  BY InitMaps
<1>2. IInv /\ [Next]_vars => [Abstract!Next]_(Abstract!vars)
  BY StepMaps, StutterMaps
<1> QED
  BY <1>1, <1>2, Invariance, PTL DEF Spec, ImplementsMailbox, Abstract!Spec
============================================================================
