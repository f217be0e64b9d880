--------------------------- MODULE UnboundedMPSC ---------------------------
(***************************************************************************)
(* zqueue.UnboundedMPSC: the linked, lock-free, multi-producer queue with a *)
(* sentinel node, node recycling and StopEnqueue.                           *)
(*                                                                          *)
(* One action is one access to shared memory: an atomic, or the plain       *)
(* accesses to nodes between two atomics.  TryEnqueue(v) is a call with one *)
(* element, EnqueueBatch one with several (they perform the same accesses); *)
(* Dequeue is DequeueBatch with a buffer of one.                            *)
(***************************************************************************)
EXTENDS Integers, Sequences, FiniteSets

CONSTANTS Producers,
          Nodes,        \* the memory: mpscNode objects
          Nil,          \* the nil pointer
          RecycleCap,   \* recycleCap (256 in the code)
          MaxItems,     \* bound: elements one producer offers in all
          MaxBatch      \* bound: elements of one call, and room of one DequeueBatch

ASSUME NodesAssumption == IsFiniteSet(Nodes) /\ Nodes # {} /\ Nil \notin Nodes
ASSUME ProducersAssumption == IsFiniteSet(Producers)
ASSUME BoundAssumption == RecycleCap \in Nat /\ MaxItems \in Nat /\ MaxBatch \in Nat \ {0}

Zero == <<>>                     \* the zero value of T

VARIABLES
  head, tail,          \* pointers to nodes
  next, val,           \* the fields of every node
  stopped,             \* enqueueStopped
  fresh, pool, cache,  \* nodes never allocated; nodes in nodePool; recycleCache
  pc, want, chain, prev, sent, \* per producer: step, elements of the call, its nodes, head swapped out, elements offered
  cpc, lim, cur, nxt, cnt,     \* consumer: step, room, current, next, count
  order, got           \* history: items in the order of the swaps; items handed out

vars == <<head, tail, next, val, stopped, fresh, pool, cache, pc, want, chain, prev, sent,
          cpc, lim, cur, nxt, cnt, order, got>>
cvars == <<tail, cache, cpc, lim, cur, nxt, cnt, got>>
pvars == <<head, fresh, pc, want, chain, prev, sent, order>>

Init ==
  /\ LET s == CHOOSE x \in Nodes : TRUE
     IN head = s /\ tail = s /\ cur = s /\ fresh = Nodes \ {s}
  /\ next = [x \in Nodes |-> Nil]
  /\ val = [x \in Nodes |-> Zero]
  /\ stopped = FALSE
  /\ pool = {} /\ cache = {}
  /\ pc = [p \in Producers |-> "idle"]
  /\ want = [p \in Producers |-> 0]
  /\ chain = [p \in Producers |-> <<>>]
  /\ prev = [p \in Producers |-> Nil]
  /\ sent = [p \in Producers |-> 0]
  /\ cpc = "idle" /\ lim = 0 /\ nxt = Nil /\ cnt = 0
  /\ order = <<>> /\ got = <<>>

-----------------------------------------------------------------------------
(* Producers.                                                               *)

Goto(p, l) == pc' = [pc EXCEPT ![p] = l]
Item(p, j) == <<p, sent[p] + j>>
CallItems(p) == [j \in 1 .. want[p] |-> Item(p, j)]

\* A call of m elements begins, and looks at enqueueStopped a first time.
TryEnqueue(p, m) ==
  /\ pc[p] = "idle"
  /\ sent[p] + m <= MaxItems
  /\ IF stopped THEN /\ sent' = [sent EXCEPT ![p] = @ + m]
                     /\ UNCHANGED <<pc, want, chain>>
                ELSE /\ Goto(p, "alloc")
                     /\ want' = [want EXCEPT ![p] = m]
                     /\ chain' = [chain EXCEPT ![p] = <<>>]
                     /\ UNCHANGED sent
  /\ UNCHANGED <<head, next, val, stopped, fresh, pool, prev, cvars, order>>

\* A new node: which one does not matter.
NewNode == IF fresh = {} THEN {} ELSE {CHOOSE x \in fresh : TRUE}

\* nodePool.Get: any pooled node, or a new one; the value is stored and the node
\* linked behind the chain so far.
Alloc(p) ==
  /\ pc[p] = "alloc"
  /\ \E x \in pool \cup NewNode :
       /\ pool' = pool \ {x} /\ fresh' = fresh \ {x}
       /\ val' = [val EXCEPT ![x] = Item(p, Len(chain[p]) + 1)]
       /\ next' = [y \in Nodes |-> IF y = x THEN Nil
                                   ELSE IF chain[p] # <<>> /\ y = chain[p][Len(chain[p])] THEN x
                                   ELSE next[y]]
       /\ chain' = [chain EXCEPT ![p] = Append(@, x)]
  /\ Goto(p, IF Len(chain[p]) + 1 = want[p] THEN "check" ELSE "alloc")
  /\ UNCHANGED <<head, stopped, want, prev, sent, cvars, order>>

\* The second look at enqueueStopped.
Recheck(p) ==
  /\ pc[p] = "check"
  /\ Goto(p, IF stopped THEN "rollback" ELSE "swap")
  /\ UNCHANGED <<head, next, val, stopped, fresh, pool, want, chain, prev, sent, cvars, order>>

\* The nodes go back to the pool one by one, and the call returns false.
Rollback(p) ==
  /\ pc[p] = "rollback"
  /\ LET x == Head(chain[p])
     IN /\ val' = [val EXCEPT ![x] = Zero]
        /\ pool' = pool \cup {x}
  /\ chain' = [chain EXCEPT ![p] = Tail(@)]
  /\ IF Len(chain[p]) = 1
       THEN Goto(p, "idle") /\ sent' = [sent EXCEPT ![p] = @ + want[p]]
       ELSE UNCHANGED <<pc, sent>>
  /\ UNCHANGED <<head, next, stopped, fresh, want, prev, cvars, order>>

\* atomic.SwapPointer(&q.head, last).
SwapHead(p) ==
  /\ pc[p] = "swap"
  /\ prev' = [prev EXCEPT ![p] = head]
  /\ head' = chain[p][Len(chain[p])]
  /\ order' = order \o CallItems(p)
  /\ Goto(p, "link")
  /\ UNCHANGED <<next, val, stopped, fresh, pool, want, chain, sent, cvars>>

\* A call that enqueued its elements returns true.
ReturnTrue(p) ==
  /\ sent' = [sent EXCEPT ![p] = @ + want[p]]
  /\ chain' = [chain EXCEPT ![p] = <<>>]
  /\ prev' = [prev EXCEPT ![p] = Nil]
  /\ Goto(p, "idle")

\* Mutant: the last node of the chain is linked, the others are skipped.
LinkPrevLast(p) ==
  /\ pc[p] = "link"
  /\ next' = [next EXCEPT ![prev[p]] = chain[p][Len(chain[p])]]
  /\ ReturnTrue(p)
  /\ UNCHANGED <<head, val, stopped, fresh, pool, want, cvars, order>>

\* Mutant: the previous node is not linked.
LinkPrevNever(p) ==
  /\ pc[p] = "link"
  /\ ReturnTrue(p)
  /\ UNCHANGED <<head, next, val, stopped, fresh, pool, want, cvars, order>>

\* atomic.StorePointer(&prev.next, first); the call returns true.
LinkPrev(p) ==
  /\ pc[p] = "link"
  /\ next' = [next EXCEPT ![prev[p]] = chain[p][1]]
  /\ ReturnTrue(p)
  /\ UNCHANGED <<head, val, stopped, fresh, pool, want, cvars, order>>

StopEnqueue ==
  /\ ~stopped
  /\ stopped' = TRUE
  /\ UNCHANGED <<next, val, pool, cvars, pvars>>

-----------------------------------------------------------------------------
(* The consumer.                                                            *)

DequeueBatch(m) ==
  /\ cpc = "idle"
  /\ cpc' = "next" /\ lim' = m /\ cnt' = 0 /\ cur' = tail
  /\ UNCHANGED <<next, val, stopped, pool, pvars, tail, cache, nxt, got>>

LoadNext ==
  /\ cpc = "next"
  /\ nxt' = IF cnt < lim THEN next[cur] ELSE Nil
  /\ cpc' = IF nxt' = Nil THEN "idle" ELSE "take"
  /\ UNCHANGED <<next, val, stopped, pool, pvars, tail, cache, lim, cur, cnt, got>>

\* The value is copied out and cleared.
TakeVal ==
  /\ cpc = "take"
  /\ got' = Append(got, val[nxt])
  /\ val' = [val EXCEPT ![nxt] = Zero]
  /\ cnt' = cnt + 1
  /\ cpc' = "tail"
  /\ UNCHANGED <<next, stopped, pool, pvars, tail, cache, lim, cur, nxt>>

StoreTail ==
  /\ cpc = "tail"
  /\ tail' = nxt
  /\ cpc' = "recycle"
  /\ UNCHANGED <<next, val, stopped, pool, pvars, cache, lim, cur, nxt, cnt, got>>

\* The old sentinel is cleared and cached; a full cache is given to the pool.
Recycle ==
  /\ cpc = "recycle"
  /\ next' = [next EXCEPT ![cur] = Nil]
  /\ val' = [val EXCEPT ![cur] = Zero]
  /\ IF Cardinality(cache) < RecycleCap
       THEN cache' = cache \cup {cur} /\ UNCHANGED pool
       ELSE cache' = {cur} /\ pool' = pool \cup cache
  /\ cur' = nxt
  /\ cpc' = "next"
  /\ UNCHANGED <<stopped, pvars, tail, lim, nxt, cnt, got>>

\* Shrink gives the cache to the pool (Close is StopEnqueue followed by this).
Shrink ==
  /\ cpc = "idle" /\ cache # {}
  /\ pool' = pool \cup cache /\ cache' = {}
  /\ UNCHANGED <<next, val, stopped, pvars, tail, cpc, lim, cur, nxt, cnt, got>>

-----------------------------------------------------------------------------
ProducerStep(p) ==
  Alloc(p) \/ Recheck(p) \/ Rollback(p) \/ SwapHead(p) \/ LinkPrev(p)

ConsumerStep == LoadNext \/ TakeVal \/ StoreTail \/ Recycle

Next ==
  \/ \E p \in Producers : ProducerStep(p) \/ \E m \in 1 .. MaxBatch : TryEnqueue(p, m)
  \/ \E m \in 1 .. MaxBatch : DequeueBatch(m)
  \/ ConsumerStep \/ Shrink \/ StopEnqueue

Spec == Init /\ [][Next]_vars

\* Goroutines inside a call are scheduled, and the consumer keeps polling.
Fairness ==
  /\ \A p \in Producers : WF_vars(ProducerStep(p))
  /\ WF_vars(ConsumerStep)
  /\ WF_vars(\E m \in 1 .. MaxBatch : DequeueBatch(m))

FairSpec == Spec /\ Fairness

-----------------------------------------------------------------------------
(* Properties.                                                              *)

PSteps == {"idle", "alloc", "check", "rollback", "swap", "link"}
Items == Producers \X Nat

\* Every variable has its type.
TypeOK ==
  /\ head \in Nodes /\ tail \in Nodes /\ stopped \in BOOLEAN
  /\ next \in [Nodes -> Nodes \cup {Nil}] /\ val \in [Nodes -> Items \cup {Zero}]
  /\ fresh \in SUBSET Nodes /\ pool \in SUBSET Nodes /\ cache \in SUBSET Nodes
  /\ pc \in [Producers -> PSteps] /\ want \in [Producers -> Nat]
  /\ chain \in [Producers -> Seq(Nodes)] /\ prev \in [Producers -> Nodes \cup {Nil}]
  /\ sent \in [Producers -> Nat]
  /\ cpc \in {"idle", "next", "take", "tail", "recycle"}
  /\ lim \in Nat /\ cnt \in Nat /\ cur \in Nodes /\ nxt \in Nodes \cup {Nil}
  /\ order \in Seq(Items) /\ got \in Seq(Items \cup {Zero})

\* Every element swapped in, by whichever producer, is handed out in the end: also
\* one that another producer's half-linked node hides for a while.
AllDelivered ==
  \A x \in 0 .. MaxItems * Cardinality(Producers) - 1 : (Len(order) > x) ~> (Len(got) > x)

-----------------------------------------------------------------------------
(* The mailbox that the nodes stand for.                                    *)

\* The node that comes after x in the order of the swaps, linked or not yet.
Succ(x) ==
  IF x = Nil THEN Nil
  ELSE IF next[x] # Nil THEN next[x]
  ELSE IF \E p \in Producers : pc[p] = "link" /\ prev[p] = x
    THEN chain[CHOOSE p \in Producers : pc[p] = "link" /\ prev[p] = x][1]
    ELSE Nil

Walk ==
  LET w[j \in 0 .. Cardinality(Nodes)] ==
        IF j = 0 THEN (IF cpc = "tail" THEN nxt ELSE tail) ELSE Succ(w[j - 1])
  IN w

MailboxOf ==
  LET w == Walk
      size == Cardinality({j \in DOMAIN w : w[j] # Nil}) - 1
  IN [j \in 1 .. size |-> [item |-> val[w[j]], linked |-> next[w[j - 1]] = w[j]]]

\* What has been handed out and what is in the mailbox are, in this order, the
\* elements in the order of the swaps: none is lost, doubled, overtaken or mixed up
\* with what an earlier user of its node left there.
FIFO == order = got \o [j \in 1 .. Len(MailboxOf) |-> MailboxOf[j].item]

\* The calls that have found the queue open for the second time.
Admitted == Cardinality({p \in Producers : pc[p] = "swap"})

Abstract == INSTANCE Mailbox WITH box <- MailboxOf, entered <- order, taken <- got, admitted <- Admitted

\* The list, its half linked places, the recycling of nodes and StopEnqueue
\* implement the mailbox: elements come out once, in the order of the swaps and
\* with their values, and after a stop only admitted calls still enqueue.
ImplementsMailbox == Abstract!Spec
=============================================================================
