--------------------------- MODULE ChannelProofs ---------------------------
(***************************************************************************)
(* Proofs about Channel for every set of senders and closers and every      *)
(* bound: the read buffer is never given back under the read loop, every    *)
(* message has one fate, and the wire carries the mailbox's order.          *)
(***************************************************************************)
EXTENDS Channel, FiniteSetTheorems, SequenceTheorems, TLAPS

-----------------------------------------------------------------------------
(* The read buffer.                                                         *)

Actors == Callers \cup {Finalizer}
ReadSteps == {"new", "start", "read", "parse", "callback", "exit", "put", "done", "close", "gone"}

CloseSteps == {"idle", "once", "flag", "remove", "stop", "state", "chan", "conn", "sendDone", "depth",
               "defer", "readWg", "call", "mailbox", "look", "put", "end", "returned"}

\* The read loop is counted in readWg.
Looping == {"read", "parse", "callback", "exit", "put", "done"}

BufferTypes ==
  /\ rpc \in ReadSteps /\ buf \in BOOLEAN /\ pc \in [Actors -> CloseSteps]
  /\ readWg = IF rpc \in Looping THEN 1 ELSE 0
  /\ puts = IF buf THEN 0 ELSE 1

\* The steps of closeBody behind conn.Close, and those behind readWg.Wait.
Shutting == {"sendDone", "depth", "defer", "readWg", "call", "mailbox", "look", "put", "end"}
Behind == {"call", "mailbox", "look", "put", "end"}

\* Whoever waits for the read loop or leaves the buffer to it has closed the connection.
ClosedFirst ==
  /\ \A x \in Actors : pc[x] \in Shutting => ~connOpen
  /\ deferRel \/ rpc = "put" => ~connOpen

\* Behind readWg.Wait no bytes are parsed: the read loop is over, or it has not
\* begun and finds the connection closed.
WaitedFor == \A x \in Actors : pc[x] \in Behind => rpc \notin {"parse", "callback"}

\* The buffer of a loop that has bytes or can get some is there.
GivenBack == ~buf => ~connOpen /\ rpc \notin {"parse", "callback"}

BufferInv == BufferTypes /\ ClosedFirst /\ WaitedFor /\ GivenBack

\* A step of Send, of runSend or of the context touches none of it.
LEMMA BufferElsewhere ==
  ASSUME BufferInv, UNCHANGED <<rpc, readWg, pc, buf, puts, connOpen, deferRel>>
  PROVE  BufferInv'
  BY DEF BufferInv, BufferTypes, ClosedFirst, WaitedFor, GivenBack

\* A step of the read loop that leaves the buffer and the callers of Close alone.
LEMMA LoopMoves ==
  ASSUME BufferInv, rpc' \in ReadSteps, readWg' = IF rpc' \in Looping THEN 1 ELSE 0,
         UNCHANGED <<pc, buf, puts, connOpen, deferRel>>,
         rpc' \in {"parse", "callback"} => rpc \in {"parse", "callback"} \/ (connOpen /\ buf),
         rpc' = "put" => rpc = "put" \/ deferRel
  PROVE  BufferInv'
<1>1. BufferTypes' /\ ClosedFirst'
  BY DEF BufferInv, BufferTypes, ClosedFirst
<1>2. \A x \in Actors : pc[x] \in Behind => ~connOpen
  BY DEF BufferInv, ClosedFirst, Behind, Shutting
<1> QED
  BY <1>1, <1>2 DEF BufferInv, WaitedFor, GivenBack

\* The connection's goroutine is out of Close, which it called before the loops were
\* started or in OnRead, and goes on.
LEMMA CallerGoesOn ==
  ASSUME BufferInv, pc' = [pc EXCEPT ![Reader] = "idle"],
         \/ rpc = "new" /\ rpc' = "start"
         \/ rpc = "callback" /\ rpc' \in {"parse", "exit"},
         UNCHANGED <<readWg, buf, puts, connOpen, deferRel>>
  PROVE  BufferInv'
<1>1. pc' \in [Actors -> CloseSteps] /\ \A x \in Actors : pc'[x] = "idle" \/ pc'[x] = pc[x]
  BY DEF BufferInv, BufferTypes, CloseSteps
<1>2. BufferTypes'
  BY <1>1 DEF BufferInv, BufferTypes, ReadSteps, Looping
<1>3. ClosedFirst' /\ WaitedFor' /\ GivenBack'
  BY <1>1 DEF BufferInv, ClosedFirst, WaitedFor, GivenBack, Shutting, Behind
<1> QED
  BY <1>2, <1>3 DEF BufferInv

\* A step of the read loop.
LEMMA BufferReader ==
  ASSUME BufferInv, ReaderStep \/ ReadData \/ ReadError
  PROVE  BufferInv'
<1> USE DEF ReadStep, flags, bufv
<1>0. BufferTypes /\ readWg = (IF rpc \in Looping THEN 1 ELSE 0)
  BY DEF BufferInv, BufferTypes
<1>1. CASE StartSend
  BY <1>1, CallerGoesOn DEF StartSend
<1>2. CASE Start \/ Refused \/ ParseEnds \/ Dispatch
  BY <1>0, <1>2, LoopMoves DEF Start, Refused, ParseEnds, Dispatch, closev, ReadSteps, Looping
<1>3. CASE CallbackReturns
  BY <1>3, CallerGoesOn DEF CallbackReturns
<1>4. CASE ExitLooks \/ ExitDone \/ ExitReturns
  BY <1>0, <1>4, LoopMoves DEF ExitLooks, ExitDone, ExitReturns, closev, ReadSteps, Looping
<1>5. CASE ExitPuts
  <2>1. /\ rpc = "put" /\ rpc' = "done" /\ buf' = FALSE /\ UNCHANGED <<readWg, pc, connOpen>>
        /\ deferRel' = FALSE /\ ~connOpen
    BY <1>5 DEF ExitPuts, ReleaseReadBuffer, closev, BufferInv, ClosedFirst
  <2>2. puts' = 1
    BY <1>5, <2>1 DEF ExitPuts, ReleaseReadBuffer, BufferInv, BufferTypes
  <2>3. BufferTypes' /\ ClosedFirst'
    BY <1>0, <2>1, <2>2 DEF BufferInv, BufferTypes, ClosedFirst, ReadSteps, Looping
  <2> QED
    BY <2>1, <2>3 DEF BufferInv, WaitedFor, GivenBack
<1>6. CASE ReadData \/ ReadError
  BY <1>0, <1>6, LoopMoves DEF ReadData, ReadError, closev, ReadSteps, Looping
<1> QED
  BY <1>1, <1>2, <1>3, <1>4, <1>5, <1>6 DEF ReaderStep

\* An actor of Close moves to step l.
LEMMA CloserMoves ==
  ASSUME BufferInv, NEW x \in Actors, NEW l \in CloseSteps, pc' = [pc EXCEPT ![x] = l],
         UNCHANGED <<rpc, readWg, buf, puts, deferRel>>, connOpen' => connOpen,
         l \in Shutting => ~connOpen',
         l \in Behind => rpc \notin {"parse", "callback"}
  PROVE  BufferInv'
<1>1. pc' \in [Actors -> CloseSteps] /\ \A y \in Actors : pc'[y] = IF y = x THEN l ELSE pc[y]
  BY DEF BufferInv, BufferTypes
<1>2. BufferTypes'
  BY <1>1 DEF BufferInv, BufferTypes
<1>3. WaitedFor'
  BY <1>1 DEF BufferInv, WaitedFor
<1>4. ClosedFirst'
  BY <1>1 DEF BufferInv, ClosedFirst
<1> QED
  BY <1>2, <1>3, <1>4 DEF BufferInv, GivenBack

\* A step of Close.
LEMMA BufferCloser ==
  ASSUME BufferInv, NEW x \in Actors, (x \in Callers /\ Close(x)) \/ ClosingStep(x)
  PROVE  BufferInv'
<1> USE DEF flags, readv, bufv
<1>0. /\ pc[x] \in Shutting => ~connOpen
      /\ pc[x] \in Behind => rpc \notin {"parse", "callback"}
      /\ Behind \subseteq Shutting
  BY DEF BufferInv, ClosedFirst, WaitedFor, Shutting, Behind
<1>1. CASE Close(x) \/ CloseOnce(x) \/ CloseFlag(x) \/ CloseRemove(x) \/ CloseStop(x) \/ CloseState(x) \/ CloseChan(x)
  BY <1>1, CloserMoves
  DEF Close, CloseOnce, CloseFlag, CloseRemove, CloseStop, CloseState, CloseChan, CloseStep, CloseSteps,
      Shutting, Behind
<1>2. CASE CloseConn(x)
  BY <1>2, CloserMoves DEF CloseConn, CloseStep, CloseSteps, Behind
<1>3. CASE WaitSend(x) \/ LookDepth(x)
  BY <1>0, <1>3, CloserMoves DEF WaitSend, LookDepth, CloseStep, CloseSteps, Shutting, Behind
<1>4. CASE DeferRelease(x)
  <2>1. UNCHANGED <<rpc, readWg, buf, puts, connOpen>> /\ ~connOpen
    BY <1>0, <1>4 DEF DeferRelease, Shutting
  <2>2. /\ pc' \in [Actors -> CloseSteps]
        /\ \A y \in Actors : pc'[y] = pc[y] \/ pc'[y] \in {"returned", "readWg"}
    BY <1>4 DEF DeferRelease, BufferInv, BufferTypes, Actors, CloseSteps
  <2>3. BufferTypes' /\ WaitedFor' /\ ClosedFirst'
    BY <2>1, <2>2 DEF BufferInv, BufferTypes, WaitedFor, ClosedFirst, Behind, Shutting
  <2> QED
    BY <2>1, <2>3 DEF BufferInv, GivenBack
<1>5. CASE WaitRead(x)
  <2>1. rpc \notin {"parse", "callback"}
    BY <1>5 DEF WaitRead, BufferInv, BufferTypes, Looping
  <2> QED
    BY <1>0, <1>5, <2>1, CloserMoves DEF WaitRead, CloseStep, CloseSteps, Shutting
<1>6. CASE CloseCall(x) \/ CloseMailbox(x) \/ LookDefer(x) \/ CloseReturns(x)
  BY <1>0, <1>6, CloserMoves
  DEF CloseCall, CloseMailbox, LookDefer, CloseReturns, CloseStep, CloseSteps, Behind
<1>7. CASE ClosePuts(x)
  <2>1. /\ rpc \notin {"parse", "callback"} /\ ~connOpen
        /\ UNCHANGED <<rpc, readWg, connOpen, deferRel>> /\ buf' = FALSE
    BY <1>0, <1>7 DEF ClosePuts, CloseStep, ReleaseReadBuffer, Behind
  <2>2. puts' = 1
    BY <1>7 DEF ClosePuts, ReleaseReadBuffer, BufferInv, BufferTypes
  <2>3. pc' \in [Actors -> CloseSteps]
    BY <1>7 DEF ClosePuts, CloseStep, BufferInv, BufferTypes, CloseSteps
  <2> QED
    BY <2>1, <2>2, <2>3 DEF BufferInv, BufferTypes, ClosedFirst, WaitedFor, GivenBack
<1> QED
  BY <1>1, <1>2, <1>3, <1>4, <1>5, <1>6, <1>7 DEF ClosingStep

\* The buffer is there while the read loop has bytes in it or can still get some, and
\* is given back at most once, whoever closes and whenever, also before the loops are
\* started.
THEOREM BufferHolds == Spec => []BufferSafe
<1>1. Init => BufferInv
  <2> SUFFICES ASSUME Init PROVE BufferInv
    OBVIOUS
  <2>1. pc \in [Actors -> CloseSteps] /\ \A x \in Actors : pc[x] = "idle"
    BY DEF Init, Actors, CloseSteps
  <2>2. BufferTypes
    BY <2>1 DEF Init, BufferTypes, ReadSteps, Looping
  <2>3. WaitedFor /\ ClosedFirst
    BY <2>1 DEF Init, WaitedFor, ClosedFirst, Behind, Shutting
  <2> QED
    BY <2>2, <2>3 DEF Init, BufferInv, GivenBack
<1>2. ASSUME BufferInv, [Next]_vars PROVE BufferInv'
  <2>1. ASSUME NEW s \in Senders, Send(s) \/ SenderStep(s) PROVE BufferInv'
    BY <1>2, <2>1, BufferElsewhere DEF Send, SenderStep, SendLooks, SendRefused, SendSwaps, SendLinks,
       readv, closev, bufv, flags
  <2>2. CASE RunnerStep \/ RunnerWrites \/ RunPanics \/ CancelCtx
    BY <1>2, <2>2, BufferElsewhere DEF RunnerStep, RunnerWrites, RunPanics, RunLooks, RunLooksOpen, RunWriteFails,
       RunReleases, RunTakes, RunWrites, CancelCtx, readv, closev, bufv, flags
  <2>3. CASE UNCHANGED vars
    BY <1>2, <2>3, BufferElsewhere DEF vars, readv, closev, bufv, flags
  <2> QED
    BY <1>2, <2>1, <2>2, <2>3, BufferReader, BufferCloser DEF Next, Actors
<1>3. BufferInv => BufferSafe
  BY DEF BufferInv, BufferTypes, GivenBack, BufferSafe
<1> QED
  BY <1>1, <1>2, <1>3, PTL DEF Spec

-----------------------------------------------------------------------------
(* The fate of a message.                                                   *)

Entry == [item : Msgs, linked : BOOLEAN]
SendSteps == {"idle", "state", "try", "retry", "swap", "link", "refused"}

FateTypes ==
  /\ sent \in [Senders -> 0 .. MaxMsgs] /\ spc \in [Senders -> SendSteps]
  /\ box \in Seq(Entry) /\ batch \in Seq(Msgs)
  /\ released \in [Msgs -> Nat]
  /\ \A s \in Senders : spc[s] # "idle" => sent[s] >= 1

\* The Send of s still holds its message; a message that was begun and is not held.
Held(m) == m[2] = sent[m[1]] /\ spc[m[1]] \in {"state", "try", "retry", "swap", "refused"}
Given(m) == m[2] <= sent[m[1]] /\ ~Held(m)

InBatch == {batch[x] : x \in DOMAIN batch}

\* The mailbox and the batch of runSend hold different messages, each once, and
\* only such that a Send has let go of.
Places ==
  /\ \A x, y \in DOMAIN box : box[x].item = box[y].item => x = y
  /\ \A x, y \in DOMAIN batch : batch[x] = batch[y] => x = y
  /\ \A x \in DOMAIN box : Given(box[x].item) /\ box[x].item \notin InBatch
  /\ \A x \in DOMAIN batch : Given(batch[x])
  /\ run \notin {"open", "write", "release", "panicked"} => batch = <<>>
  /\ rpc = "new" => run = "new"

\* What is neither held nor in one of the two places was released once.
Fates == \A m \in Msgs : released[m] = IF Given(m) /\ m \notin InBox \cup InBatch THEN 1 ELSE 0

FateInv == FateTypes /\ Places /\ Fates

\* The fates say what the released counts are.
LEMMA FatesSay == FateInv => ReleasedExactly
<1> SUFFICES ASSUME FateInv, NEW s \in Senders, NEW k \in 1 .. sent[s]
             PROVE  released[<<s, k>>] =
                      IF \/ <<s, k>> \in InBox \cup InBatch
                         \/ k = sent[s] /\ spc[s] \in {"state", "try", "retry", "swap", "refused"}
                        THEN 0 ELSE 1
  BY DEF ReleasedExactly, InBatch, Range
<1>1. sent[s] \in 0 .. MaxMsgs /\ MaxMsgs \in Nat
  BY BoundAssumption DEF FateInv, FateTypes
<1>2. <<s, k>> \in Msgs /\ k <= sent[s]
  BY <1>1 DEF Msgs
<1> QED
  BY <1>1, <1>2 DEF FateInv, Fates, Given, Held

\* A step that moves no message and releases none.
LEMMA FateElsewhere ==
  ASSUME FateInv, UNCHANGED <<sent, spc, box, batch, released>>,
         run' = run \/ run' \in {"open", "write", "release", "panicked"} \/ batch = <<>>,
         rpc' = "new" => rpc = "new" /\ run' = run
  PROVE  FateInv'
<1>1. \A m : (Given(m)' <=> Given(m))
  BY DEF Given, Held
<1>2. InBox' = InBox /\ InBatch' = InBatch
  BY DEF InBox, InBatch
<1> QED
  BY <1>1, <1>2 DEF FateInv, FateTypes, Places, Fates

\* What the types say of the entries of the mailbox and of the batch.
LEMMA FateElements ==
  ASSUME FateTypes
  PROVE  /\ \A m \in Msgs : m[1] \in Senders /\ m[2] \in Nat /\ m = <<m[1], m[2]>>
         /\ DOMAIN box = 1 .. Len(box) /\ Len(box) \in Nat
         /\ \A x \in DOMAIN box : box[x] \in Entry /\ box[x].item \in Msgs
         /\ DOMAIN batch = 1 .. Len(batch) /\ Len(batch) \in Nat
         /\ \A x \in DOMAIN batch : batch[x] \in Msgs
         /\ \A m \in Msgs : sent[m[1]] \in Nat
<1>1. \A m \in Msgs : m[1] \in Senders /\ m[2] \in Nat /\ m = <<m[1], m[2]>>
  BY BoundAssumption DEF Msgs
<1>2. /\ DOMAIN box = 1 .. Len(box) /\ Len(box) \in Nat /\ \A x \in DOMAIN box : box[x] \in Entry
      /\ DOMAIN batch = 1 .. Len(batch) /\ Len(batch) \in Nat /\ \A x \in DOMAIN batch : batch[x] \in Msgs
  BY LenProperties DEF FateTypes
<1>3. \A m \in Msgs : sent[m[1]] \in Nat
  BY <1>1, BoundAssumption DEF FateTypes
<1>4. \A x \in DOMAIN box : box[x].item \in Msgs
  BY <1>2 DEF Entry
<1> QED
  BY <1>1, <1>2, <1>3, <1>4

\* A step of Send that neither moves nor lets go of a message.
LEMMA FateHeld ==
  ASSUME FateInv, FateTypes', UNCHANGED <<box, batch, released, run, rpc>>,
         \A m \in Msgs : Given(m)' <=> Given(m)
  PROVE  FateInv'
<1>1. InBox' = InBox /\ InBatch' = InBatch
  BY DEF InBox, InBatch
<1>2. /\ \A x \in DOMAIN box : box[x].item \in Msgs
      /\ \A x \in DOMAIN batch : batch[x] \in Msgs
  BY FateElements DEF FateInv
<1> QED
  BY <1>1, <1>2 DEF FateInv, Places, Fates

\* The steps of a Send.
LEMMA FateSender ==
  ASSUME FateInv, NEW s \in Senders, Send(s) \/ SenderStep(s)
  PROVE  FateInv'
<1> DEFINE me == <<s, sent[s]>>
<1>0. FateTypes /\ Places /\ Fates /\ sent[s] \in 0 .. MaxMsgs /\ MaxMsgs \in Nat /\ spc[s] \in SendSteps
  BY BoundAssumption DEF FateInv, FateTypes
<1>a. /\ \A m \in Msgs : m[1] \in Senders /\ m[2] \in Nat /\ m = <<m[1], m[2]>> /\ sent[m[1]] \in Nat
      /\ DOMAIN box = 1 .. Len(box) /\ Len(box) \in Nat
      /\ \A x \in DOMAIN box : box[x] \in Entry /\ box[x].item \in Msgs
      /\ DOMAIN batch = 1 .. Len(batch) /\ Len(batch) \in Nat
      /\ \A x \in DOMAIN batch : batch[x] \in Msgs
  BY <1>0, FateElements
<1>1. CASE Send(s)
  <2>1. /\ sent' = [sent EXCEPT ![s] = sent[s] + 1] /\ sent[s] < MaxMsgs
        /\ spc[s] = "idle" /\ spc' = [spc EXCEPT ![s] = spc'[s]] /\ spc'[s] \in {"refused", "state"}
        /\ UNCHANGED <<box, batch, released, run, rpc>>
    BY <1>0, <1>1 DEF Send, SendStep, FateTypes, mailbox, runv, readv, hist
  <2>2. sent' \in [Senders -> 0 .. MaxMsgs] /\ \A t \in Senders : spc'[t] # "idle" => sent'[t] >= 1
    BY <1>0, <2>1 DEF FateTypes
  <2>3. FateTypes'
    BY <1>0, <2>1, <2>2 DEF FateTypes, SendSteps
  <2>4. \A m \in Msgs : Given(m)' <=> Given(m)
    BY <1>0, <1>a, <2>1 DEF Given, Held, FateTypes
  <2> QED
    BY <2>1, <2>3, <2>4, FateHeld
<1>2. CASE SendLooks(s)
  <2>1. /\ spc' = [spc EXCEPT ![s] = spc'[s]]
        /\ spc[s] \in {"state", "try", "retry"} /\ spc'[s] \in {"try", "retry", "swap", "refused"}
        /\ UNCHANGED <<sent, box, batch, released, run, rpc>>
    BY <1>0, <1>2 DEF SendLooks, SendStep, FateTypes, mailbox, runv, readv, hist
  <2>2. FateTypes'
    BY <1>0, <2>1 DEF FateTypes, SendSteps
  <2>3. \A m \in Msgs : Given(m)' <=> Given(m)
    BY <1>0, <1>a, <2>1 DEF Given, Held, FateTypes
  <2> QED
    BY <2>1, <2>2, <2>3, FateHeld
<1>3. ASSUME spc[s] \in {"refused", "swap"}, spc' = [spc EXCEPT ![s] = spc'[s]], spc'[s] \in {"idle", "link"},
             sent' = sent
      PROVE  /\ me \in Msgs /\ ~Given(me) /\ me \notin InBox /\ me \notin InBatch
             /\ \A m \in Msgs : Given(m)' <=> Given(m) \/ m = me
  <2>1. sent[s] >= 1
    BY <1>0, <1>3 DEF FateTypes
  <2>2. me \in Msgs /\ Held(me)
    BY <1>0, <1>3, <2>1 DEF Msgs, Held
  <2>3. me \notin InBox /\ me \notin InBatch
    BY <1>0, <2>2 DEF Places, Given, InBox, InBatch
  <2>4. \A m \in Msgs : Given(m)' <=> Given(m) \/ m = me
    BY <1>0, <1>a, <1>3 DEF Given, Held, FateTypes
  <2> QED
    BY <2>2, <2>3, <2>4 DEF Given
<1>4. CASE SendRefused(s)
  <2>1. /\ spc[s] = "refused" /\ spc' = [spc EXCEPT ![s] = "idle"] /\ spc'[s] = "idle"
        /\ released' = [m \in Msgs |-> released[m] + IF m = me THEN 1 ELSE 0]
        /\ UNCHANGED <<sent, box, batch, run, rpc>>
    BY <1>0, <1>4 DEF SendRefused, SendStep, Release, Msg, FateTypes, mailbox, runv, readv
  <2>2. FateTypes'
    BY <1>0, <2>1 DEF FateTypes, SendSteps
  <2>3. /\ me \in Msgs /\ ~Given(me) /\ me \notin InBox /\ me \notin InBatch
        /\ \A m \in Msgs : Given(m)' <=> Given(m) \/ m = me
    BY <1>3, <2>1
  <2>4. InBox' = InBox /\ InBatch' = InBatch
    BY <2>1 DEF InBox, InBatch
  <2>5. Places'
    BY <1>0, <1>a, <2>1, <2>3, <2>4 DEF Places
  <2>6. Fates'
    <3> SUFFICES ASSUME NEW m \in Msgs
                 PROVE  released'[m] = IF Given(m)' /\ m \notin InBox' \cup InBatch' THEN 1 ELSE 0
      BY DEF Fates
    <3>1. /\ released[m] \in Nat /\ released'[m] = released[m] + IF m = me THEN 1 ELSE 0
          /\ released[m] = IF Given(m) /\ m \notin InBox \cup InBatch THEN 1 ELSE 0
      BY <1>0, <2>1 DEF Fates, FateTypes
    <3>2. CASE m = me
      BY <2>3, <2>4, <3>1, <3>2
    <3>3. CASE m # me
      BY <2>3, <2>4, <3>1, <3>3
    <3> QED
      BY <3>2, <3>3
  <2> QED
    BY <2>2, <2>5, <2>6 DEF FateInv
<1>5. CASE SendSwaps(s)
  <2> DEFINE e == [item |-> me, linked |-> FALSE]
  <2>1. /\ spc[s] = "swap" /\ spc' = [spc EXCEPT ![s] = "link"] /\ spc'[s] = "link"
        /\ box' = Append(box, e)
        /\ UNCHANGED <<sent, batch, run, rpc, released>>
    BY <1>0, <1>5 DEF SendSwaps, SendStep, Msg, FateTypes, mailbox, runv, readv, hist
  <2>2. /\ me \in Msgs /\ ~Given(me) /\ me \notin InBox /\ me \notin InBatch
        /\ \A m \in Msgs : Given(m)' <=> Given(m) \/ m = me
    BY <1>3, <2>1
  <2>3. e \in Entry /\ e.item = me
    BY <2>2 DEF Entry
  <2> HIDE DEF e
  <2>4. /\ box' \in Seq(Entry) /\ Len(box') = Len(box) + 1
        /\ \A x \in 1 .. Len(box) : box'[x] = box[x]
        /\ box'[Len(box) + 1] = e /\ DOMAIN box' = 1 .. Len(box) + 1
    BY <1>0, <2>1, <2>3, AppendProperties, LenProperties DEF FateTypes
  <2>5. FateTypes'
    BY <1>0, <2>1, <2>4 DEF FateTypes, SendSteps
  <2>6. InBox' = InBox \cup {me} /\ InBatch' = InBatch
    <3>1. ASSUME NEW x \in DOMAIN box' PROVE box'[x].item \in InBox \cup {me}
      <4>1. (x \in DOMAIN box /\ box'[x] = box[x]) \/ box'[x] = e
        BY <1>a, <2>4
      <4>2. CASE x \in DOMAIN box /\ box'[x] = box[x]
        BY <4>2 DEF InBox
      <4>3. CASE box'[x] = e
        BY <2>3, <4>3
      <4> QED
        BY <4>1, <4>2, <4>3
    <3>2. ASSUME NEW x \in DOMAIN box PROVE box[x].item \in InBox'
      <4>1. x \in DOMAIN box' /\ box'[x] = box[x]
        BY <1>a, <2>4
      <4> QED
        BY <4>1 DEF InBox
    <3>3. me \in InBox'
      <4>1. Len(box) + 1 \in DOMAIN box' /\ box'[Len(box) + 1].item = me
        BY <1>a, <2>3, <2>4
      <4> QED
        BY <4>1 DEF InBox
    <3>4. InBox' \subseteq InBox \cup {me}
      BY <3>1 DEF InBox
    <3>5. InBox \subseteq InBox'
      BY <3>2 DEF InBox
    <3>6. InBatch' = InBatch
      BY <2>1 DEF InBatch
    <3> QED
      BY <3>3, <3>4, <3>5, <3>6
  <2>7. Places'
    <3>1. ASSUME NEW x \in DOMAIN box', NEW y \in DOMAIN box', box'[x].item = box'[y].item PROVE x = y
      BY <1>0, <1>a, <2>2, <2>3, <2>4, <3>1 DEF Places, InBox
    <3>2. ASSUME NEW x \in DOMAIN box' PROVE Given(box[x].item)' /\ box'[x].item \notin InBatch'
      <4>1. box'[x].item \in Msgs /\ (box'[x].item = me \/ (x \in DOMAIN box /\ box'[x].item = box[x].item))
        BY <1>a, <2>2, <2>3, <2>4
      <4>2. box'[x].item \notin InBatch /\ (Given(box'[x].item) \/ box'[x].item = me)
        BY <1>0, <2>2, <4>1 DEF Places
      <4>3. \A m \in Msgs : (Given(m) \/ m = me) /\ m = box'[x].item => Given(box[x].item)'
        BY <2>2 DEF Given, Held
      <4> QED
        BY <2>6, <4>1, <4>2, <4>3
    <3>3. ASSUME NEW x \in DOMAIN batch PROVE Given(batch[x])'
      <4>1. batch[x] \in Msgs /\ Given(batch[x]) /\ batch'[x] = batch[x]
        BY <1>0, <1>a, <2>1 DEF Places
      <4>2. \A m \in Msgs : Given(m) /\ m = batch'[x] => Given(batch[x])'
        BY <2>2 DEF Given, Held
      <4> QED
        BY <4>1, <4>2
    <3> QED
      BY <1>0, <2>1, <3>1, <3>2, <3>3 DEF Places
  <2>8. Fates'
    BY <1>0, <2>1, <2>2, <2>6 DEF Fates
  <2> QED
    BY <2>5, <2>7, <2>8 DEF FateInv
<1>6. CASE SendLinks(s)
  <2>1. /\ spc[s] = "link" /\ spc' = [spc EXCEPT ![s] = "idle"]
        /\ box' = [x \in DOMAIN box |-> IF box[x].item = me THEN [box[x] EXCEPT !.linked = TRUE] ELSE box[x]]
        /\ UNCHANGED <<sent, batch, run, rpc, released>>
    BY <1>0, <1>6 DEF SendLinks, SendStep, Msg, FateTypes, mailbox, runv, readv, hist
  <2>2. DOMAIN box' = DOMAIN box /\ \A x \in DOMAIN box : box'[x] \in Entry /\ box'[x].item = box[x].item
    BY <1>a, <2>1 DEF Entry
  <2>3. box' \in Seq(Entry)
    BY <1>a, <2>1, <2>2
  <2>4. FateTypes'
    BY <1>0, <2>1, <2>3 DEF FateTypes, SendSteps
  <2>5. \A m \in Msgs : Given(m)' <=> Given(m)
    BY <1>0, <1>a, <2>1 DEF Given, Held, FateTypes
  <2>6. InBox' = InBox /\ InBatch' = InBatch
    BY <2>1, <2>2 DEF InBox, InBatch
  <2>7. Places'
    BY <1>0, <1>a, <2>1, <2>2, <2>5, <2>6 DEF Places
  <2>8. Fates'
    BY <1>0, <2>1, <2>5, <2>6 DEF Fates
  <2> QED
    BY <2>4, <2>7, <2>8 DEF FateInv
<1> QED
  BY <1>1, <1>2, <1>4, <1>5, <1>6 DEF SenderStep

\* DequeueBatch reaches at most what is there.
LEMMA ReachableRange ==
  ASSUME FateTypes PROVE Reachable \in Nat /\ Reachable <= Len(box)
<1> DEFINE R == {x \in DOMAIN box : \A y \in 1 .. x : box[y].linked}
<1>1. DOMAIN box = 1 .. Len(box) /\ Len(box) \in Nat
  BY FateElements
<1>2. IsFiniteSet(1 .. Len(box)) /\ Cardinality(1 .. Len(box)) = Len(box)
  <2>1. IsFiniteSet(1 .. Len(box)) /\ Cardinality(1 .. Len(box)) = IF 1 > Len(box) THEN 0 ELSE Len(box) - 1 + 1
    BY <1>1, FS_Interval
  <2> QED
    BY <1>1, <2>1
<1>3. R \in SUBSET (1 .. Len(box))
  BY <1>1
<1> HIDE DEF R
<1>4. IsFiniteSet(R) /\ Cardinality(R) <= Len(box)
  BY <1>2, <1>3, FS_Subset
<1>5. Cardinality(R) \in Nat
  BY <1>4, FS_CardinalityType
<1> QED
  BY <1>4, <1>5 DEF Reachable, R

\* What a DequeueBatch of n moves from the mailbox to the batch.
LEMMA TakeMoves ==
  ASSUME FateTypes, NEW n \in Nat, RunTakes(n)
  PROVE  /\ n <= Len(box)
         /\ batch' \in Seq(Msgs) /\ Len(batch') = n
         /\ \A x \in 1 .. n : batch'[x] = box[x].item
         /\ box' \in Seq(Entry) /\ Len(box') = Len(box) - n
         /\ \A x \in 1 .. Len(box) - n : box'[x] = box[n + x]
<1>1. /\ DOMAIN box = 1 .. Len(box) /\ Len(box) \in Nat
      /\ \A x \in DOMAIN box : box[x] \in Entry /\ box[x].item \in Msgs
  BY FateElements
<1>2. n <= Len(box) /\ Reachable \in Nat
  BY <1>1, ReachableRange DEF RunTakes
<1>3. batch' \in Seq(Msgs) /\ Len(batch') = n /\ \A x \in 1 .. n : batch'[x] = box[x].item
  <2>1. batch' = [x \in 1 .. n |-> box[x].item] /\ \A x \in 1 .. n : box[x].item \in Msgs
    <3>1. \A x \in 1 .. n : x \in DOMAIN box
      BY <1>1, <1>2
    <3> QED
      BY <1>1, <3>1 DEF RunTakes
  <2> QED
    BY <2>1
<1>4. box' = SubSeq(box, n + 1, Len(box))
  BY DEF RunTakes
<1>5. /\ box' \in Seq(Entry) /\ Len(box') = IF n + 1 <= Len(box) THEN Len(box) - (n + 1) + 1 ELSE 0
      /\ \A x \in 1 .. Len(box) - (n + 1) + 1 : box'[x] = box[n + 1 + x - 1]
  <2>1. \A x \in n + 1 .. Len(box) : box[x] \in Entry
    BY <1>1
  <2> QED
    BY <1>1, <1>4, <2>1, SubSeqProperties
<1>6. Len(box') = Len(box) - n
  <2>1. CASE n + 1 <= Len(box)
    BY <1>1, <1>5, <2>1
  <2>2. CASE ~(n + 1 <= Len(box))
    <3>a. Len(box) \in Nat /\ n \in Nat /\ n <= Len(box)
      BY <1>1, <1>2
    <3>1. Len(box) = n
      BY <3>a, <2>2
    <3>2. Len(box') = 0
      BY <1>5, <2>2
    <3> QED
      BY <3>1, <3>2
  <2> QED
    BY <2>1, <2>2
<1>7. ASSUME NEW x \in 1 .. Len(box) - n PROVE box'[x] = box[n + x]
  <2>1. x \in 1 .. Len(box) - (n + 1) + 1 /\ n + 1 + x - 1 = n + x
    BY <1>1
  <2> QED
    BY <1>5, <2>1
<1> QED
  BY <1>2, <1>3, <1>5, <1>6, <1>7

\* The steps of runSend.
LEMMA FateRunner ==
  ASSUME FateInv, RunnerStep \/ RunnerWrites
  PROVE  FateInv'
<1>0. /\ FateTypes /\ Places /\ Fates
      /\ DOMAIN box = 1 .. Len(box) /\ Len(box) \in Nat
      /\ \A x \in DOMAIN box : box[x].item \in Msgs
      /\ DOMAIN batch = 1 .. Len(batch) /\ Len(batch) \in Nat
      /\ \A x \in DOMAIN batch : batch[x] \in Msgs
  BY FateElements DEF FateInv
<1>1. CASE RunLooks \/ RunLooksOpen \/ RunWriteFails \/ RunnerWrites
  <2>1. UNCHANGED <<sent, spc, box, batch, released, rpc>>
    BY <1>1 DEF RunLooks, RunLooksOpen, RunWriteFails, RunnerWrites, RunWrites, mailbox, sendv, readv, hist
  <2>2. run # "new" /\ (run' = run \/ run' \in {"open", "write", "release"} \/ run = "look")
    BY <1>1 DEF RunLooks, RunLooksOpen, RunWriteFails, RunnerWrites, RunWrites
  <2>3. rpc # "new" /\ (run = "look" => batch = <<>>)
    BY <1>0, <2>2 DEF Places
  <2> QED
    BY <2>1, <2>2, <2>3, FateElsewhere
<1>2. CASE RunReleases
  <2>1. /\ run = "release" /\ run' = "look" /\ batch' = <<>> /\ UNCHANGED <<sent, spc, box, rpc>>
        /\ released' = [m \in Msgs |-> released[m] + IF m \in InBatch THEN 1 ELSE 0]
    BY <1>2 DEF RunReleases, Release, Range, InBatch, mailbox, sendv, readv
  <2>2. \A m \in Msgs : Given(m)' <=> Given(m)
    BY <2>1 DEF Given, Held
  <2>3. InBox' = InBox /\ InBatch' = {}
    BY <2>1 DEF InBox, InBatch
  <2>4. FateTypes'
    <3>1. batch' \in Seq(Msgs) /\ released' \in [Msgs -> Nat]
      BY <1>0, <2>1, EmptySeq DEF FateTypes
    <3> QED
      BY <1>0, <2>1, <3>1 DEF FateTypes
  <2>5. Places'
    BY <1>0, <2>1, <2>2, <2>3 DEF Places
  <2>6. ASSUME NEW m \in Msgs
        PROVE  released'[m] = IF Given(m)' /\ m \notin InBox' \cup InBatch' THEN 1 ELSE 0
    <3>1. /\ released'[m] = released[m] + IF m \in InBatch THEN 1 ELSE 0
          /\ released[m] = IF Given(m) /\ m \notin InBox \cup InBatch THEN 1 ELSE 0
      BY <1>0, <2>1 DEF Fates
    <3>2. CASE m \in InBatch
      <4>1. Given(m) /\ m \notin InBox
        BY <1>0, <3>2 DEF Places, InBatch, InBox
      <4> QED
        BY <2>2, <2>3, <3>1, <3>2, <4>1
    <3>3. CASE m \notin InBatch
      BY <2>2, <2>3, <3>1, <3>3
    <3> QED
      BY <3>2, <3>3
  <2>7. Fates'
    BY <2>6 DEF Fates
  <2> QED
    BY <2>4, <2>5, <2>7 DEF FateInv
<1>3. ASSUME NEW n \in 0 .. MaxBatch, RunTakes(n) PROVE FateInv'
  <2>0. n \in Nat
    BY BoundAssumption
  <2>1. /\ run = "take" /\ rpc # "new" /\ batch = <<>> /\ UNCHANGED <<sent, spc, rpc, released>>
        /\ run' = IF n > 0 THEN "open" ELSE IF shouldExit THEN "exited" ELSE "look"
    BY <1>0, <1>3 DEF RunTakes, Places, sendv, readv, hist
  <2>2. /\ n <= Len(box)
        /\ batch' \in Seq(Msgs) /\ Len(batch') = n
        /\ \A x \in 1 .. n : batch'[x] = box[x].item
        /\ box' \in Seq(Entry) /\ Len(box') = Len(box) - n
        /\ \A x \in 1 .. Len(box) - n : box'[x] = box[n + x]
    BY <1>0, <1>3, <2>0, TakeMoves
  <2>3. DOMAIN batch' = 1 .. n /\ DOMAIN box' = 1 .. Len(box) - n
    BY <2>2, LenProperties
  <2>4. FateTypes'
    BY <1>0, <2>1, <2>2 DEF FateTypes
  <2>5. InBatch = {} /\ InBox = InBox' \cup InBatch'
    <3>1. InBatch = {}
      BY <2>1 DEF InBatch
    <3>2. ASSUME NEW x \in DOMAIN box PROVE box[x].item \in InBox' \cup InBatch'
      <4>1. CASE x <= n
        BY <1>0, <2>0, <2>2, <2>3, <4>1 DEF InBatch
      <4>2. CASE x > n
        <5>1. x - n \in 1 .. Len(box) - n /\ n + (x - n) = x
          BY <1>0, <2>0, <4>2
        <5> QED
          BY <2>2, <2>3, <5>1 DEF InBox
      <4> QED
        BY <1>0, <2>0, <4>1, <4>2
    <3>3. ASSUME NEW x \in DOMAIN box' PROVE box'[x].item \in InBox
      <4>1. n + x \in DOMAIN box /\ box'[x] = box[n + x]
        BY <1>0, <2>0, <2>2, <2>3
      <4> QED
        BY <4>1 DEF InBox
    <3>4. ASSUME NEW x \in DOMAIN batch' PROVE batch'[x] \in InBox
      BY <1>0, <2>0, <2>2, <2>3 DEF InBox
    <3>5. InBox \subseteq InBox' \cup InBatch'
      BY <3>2 DEF InBox
    <3>6. InBox' \subseteq InBox /\ InBatch' \subseteq InBox
      BY <3>3, <3>4 DEF InBox, InBatch
    <3> QED
      BY <3>1, <3>5, <3>6
  <2>6. \A m : Given(m)' <=> Given(m)
    BY <2>1 DEF Given, Held
  <2>7. Places'
    <3>1. ASSUME NEW x \in DOMAIN box', NEW y \in DOMAIN box', box'[x].item = box'[y].item PROVE x = y
      <4>1. n + x \in DOMAIN box /\ n + y \in DOMAIN box /\ box[n + x].item = box[n + y].item
        BY <1>0, <2>0, <2>2, <2>3, <3>1
      <4>2. n + x = n + y
        BY <1>0, <4>1 DEF Places
      <4> QED
        BY <1>0, <2>0, <2>3, <4>2
    <3>2. ASSUME NEW x \in DOMAIN batch', NEW y \in DOMAIN batch', batch'[x] = batch'[y] PROVE x = y
      <4>1. x \in DOMAIN box /\ y \in DOMAIN box /\ box[x].item = box[y].item
        BY <1>0, <2>0, <2>2, <2>3, <3>2
      <4> QED
        BY <1>0, <4>1 DEF Places
    <3>3. ASSUME NEW x \in DOMAIN box' PROVE Given(box[x].item)' /\ box'[x].item \notin InBatch'
      <4>1. n + x \in DOMAIN box /\ box'[x].item = box[n + x].item
        BY <1>0, <2>0, <2>2, <2>3
      <4>2. Given(box[n + x].item)
        BY <1>0, <4>1 DEF Places
      <4>3. Given(box[x].item)'
        BY <2>1, <4>1, <4>2 DEF Given, Held
      <4>4. ASSUME NEW y \in DOMAIN batch' PROVE batch'[y] # box'[x].item
        <5>1. y \in DOMAIN box /\ batch'[y] = box[y].item /\ n + x # y
          BY <1>0, <2>0, <2>2, <2>3
        <5> QED
          BY <1>0, <4>1, <5>1 DEF Places
      <4> QED
        BY <4>3, <4>4 DEF InBatch
    <3>4. ASSUME NEW x \in DOMAIN batch' PROVE Given(batch[x])'
      <4>1. x \in DOMAIN box /\ batch'[x] = box[x].item
        BY <1>0, <2>0, <2>2, <2>3
      <4>2. Given(box[x].item)
        BY <1>0, <4>1 DEF Places
      <4> QED
        BY <2>1, <4>1, <4>2 DEF Given, Held
    <3>5. n = 0 => batch' = <<>>
      BY <2>2
    <3>6. (run \notin {"open", "write", "release", "panicked"} => batch = <<>>)'
      BY <2>0, <2>1, <3>5
    <3> QED
      BY <2>1, <3>1, <3>2, <3>3, <3>4, <3>6 DEF Places
  <2>8. Fates'
    BY <1>0, <2>1, <2>5, <2>6 DEF Fates
  <2> QED
    BY <2>4, <2>7, <2>8 DEF FateInv
<1> QED
  BY <1>1, <1>2, <1>3 DEF RunnerStep

\* The invariant of the fates holds in every reachable state.
THEOREM FatesHold == Spec => []FateInv
<1>1. Init => FateInv
  <2> SUFFICES ASSUME Init PROVE FateInv
    OBVIOUS
  <2>1. box \in Seq(Entry) /\ batch \in Seq(Msgs)
    BY EmptySeq DEF Init
  <2>2. sent \in [Senders -> 0 .. MaxMsgs] /\ released \in [Msgs -> Nat]
    BY BoundAssumption DEF Init
  <2>3. FateTypes
    BY <2>1, <2>2 DEF Init, FateTypes, SendSteps
  <2>4. Places
    BY DEF Init, Places
  <2>5. ASSUME NEW m \in Msgs PROVE ~Given(m)
    <3>1. m[1] \in Senders /\ m[2] \in 1 .. MaxMsgs
      BY DEF Msgs
    <3> QED
      BY <3>1, BoundAssumption DEF Init, Given
  <2>6. Fates
    BY <2>5 DEF Init, Fates
  <2> QED
    BY <2>3, <2>4, <2>6 DEF FateInv
<1>2. ASSUME FateInv, [Next]_vars PROVE FateInv'
  <2>1. ASSUME NEW x, Close(x) \/ ClosingStep(x) PROVE FateInv'
    BY <1>2, <2>1, FateElsewhere
    DEF Close, ClosingStep, CloseOnce, CloseFlag, CloseRemove, CloseStop, CloseState, CloseChan, CloseConn,
        WaitSend, LookDepth, DeferRelease, WaitRead, CloseCall, CloseMailbox, LookDefer, ClosePuts,
        CloseReturns, mailbox, sendv, runv, readv, hist
  <2>2. CASE StartSend
    <3>1. batch = <<>>
      BY <1>2, <2>2 DEF StartSend, FateInv, Places
    <3> QED
      BY <1>2, <2>2, <3>1, FateElsewhere DEF StartSend, mailbox, sendv, hist
  <2>3. CASE Start \/ Refused \/ ParseEnds \/ Dispatch \/ CallbackReturns \/ ReadData \/ ReadError
    BY <1>2, <2>3, FateElsewhere
    DEF Start, Refused, ParseEnds, Dispatch, CallbackReturns, ReadData, ReadError, ReadStep, mailbox, sendv, runv, hist
  <2>4. CASE ExitLooks \/ ExitPuts \/ ExitDone \/ ExitReturns
    BY <1>2, <2>4, FateElsewhere
    DEF ExitLooks, ExitPuts, ExitDone, ExitReturns, ReadStep, mailbox, sendv, runv, hist
  <2>5. CASE CancelCtx \/ UNCHANGED vars
    BY <1>2, <2>5, FateElsewhere DEF CancelCtx, vars, mailbox, sendv, runv, readv, hist
  <2>6. CASE RunPanics
    BY <1>2, <2>6, FateElsewhere DEF RunPanics, FateInv, Places, mailbox, sendv, readv, hist
  <2> QED
    BY <1>2, <2>1, <2>2, <2>3, <2>4, <2>5, <2>6, FateSender, FateRunner DEF Next, ReaderStep
<1> QED
  BY <1>1, <1>2, PTL DEF Spec

\* Every message has one fate: released once when Send refused it or runSend is
\* through with it, and not while a Send, the mailbox or runSend still use it, nor
\* when a panic took it from runSend.
THEOREM ReleasesHold == Spec => []ReleasedExactly
  BY FatesHold, FatesSay, PTL

-----------------------------------------------------------------------------
(* The order on the wire.                                                   *)

\* The batch of runSend, which it has not written, is the end of what it has taken.
Pending == run \in {"open", "write"}
Written == IF Pending THEN Len(taken) - Len(batch) ELSE Len(taken)

BatchIsEnd ==
  Pending => /\ Len(batch) <= Len(taken)
             /\ \A x \in 1 .. Len(batch) : batch[x] = taken[Len(taken) - Len(batch) + x]

\* f finds the messages of the wire, in order, among the first b that were taken.
Finds(f, b) ==
  /\ f \in [1 .. Len(wire) -> 1 .. b]
  /\ \A x \in 1 .. Len(wire) : wire[x] = taken[f[x]]
  /\ \A x, y \in 1 .. Len(wire) : x < y => f[x] < f[y]

WireInv == /\ taken \in Seq(Msgs) /\ wire \in Seq(Msgs)
           /\ BatchIsEnd
           /\ \E f : Finds(f, Written)

\* The invariant says that the wire carries the order of the mailbox.
LEMMA WireSays == WireInv => WireOrder
<1> SUFFICES ASSUME WireInv PROVE WireOrder
  OBVIOUS
<1>1. /\ Len(taken) \in Nat /\ DOMAIN taken = 1 .. Len(taken) /\ DOMAIN wire = 1 .. Len(wire)
  BY LenProperties DEF WireInv
<1>2. PICK f : Finds(f, Written)
  BY DEF WireInv
<1>3. \A x \in 1 .. Written : x \in 1 .. Len(taken)
  BY <1>1 DEF Written
<1>4. f \in [DOMAIN wire -> DOMAIN taken]
  BY <1>1, <1>2, <1>3 DEF Finds
<1> QED
  BY <1>1, <1>2, <1>4 DEF WireOrder, Finds

\* A step that writes nothing and takes nothing, and holds no batch afterwards that
\* it did not hold before.
LEMMA WireKept ==
  ASSUME WireInv, FateTypes, UNCHANGED <<wire, taken>>, (Pending /\ UNCHANGED batch) \/ ~Pending'
  PROVE  WireInv'
<1>1. Len(taken) \in Nat /\ Len(batch) \in Nat /\ Len(taken') = Len(taken) /\ Len(wire') = Len(wire)
  BY LenProperties DEF WireInv, FateTypes
<1>2. PICK f : Finds(f, Written)
  BY DEF WireInv
<1>3. BatchIsEnd'
  BY <1>1 DEF WireInv, BatchIsEnd
<1>4. \A x \in 1 .. Written : x \in 1 .. Written'
  <2>1. Written \in Int /\ Written' \in Int /\ Written <= Written'
    BY <1>1 DEF Written
  <2> QED
    BY <2>1
<1>5. Finds(f, Written)'
  BY <1>1, <1>2, <1>4 DEF Finds
<1> QED
  BY <1>3, <1>5 DEF WireInv

\* DequeueBatch moves what it takes to the end of taken.
LEMMA WireTakes ==
  ASSUME WireInv, FateTypes, NEW n \in Nat, RunTakes(n)
  PROVE  WireInv'
<1>1. /\ batch' \in Seq(Msgs) /\ Len(batch') = n /\ ~Pending /\ taken' = taken \o batch'
      /\ (Pending' <=> n > 0) /\ wire' = wire
  BY TakeMoves DEF RunTakes, Pending, hist
<1>2. taken \in Seq(Msgs) /\ Len(taken) \in Nat
  BY LenProperties DEF WireInv
<1>3. /\ taken' \in Seq(Msgs) /\ Len(taken') = Len(taken) + n
      /\ \A x \in 1 .. Len(taken) + n :
           taken'[x] = IF x <= Len(taken) THEN taken[x] ELSE batch'[x - Len(taken)]
  BY <1>1, <1>2, ConcatProperties
<1>4. Len(taken') - Len(batch') = Len(taken)
  BY <1>1, <1>2, <1>3
<1>5. BatchIsEnd'
  <2>1. ASSUME NEW x \in 1 .. n PROVE batch'[x] = taken'[Len(taken) + x]
    <3>1. Len(taken) + x \in 1 .. Len(taken) + n /\ ~(Len(taken) + x <= Len(taken))
          /\ Len(taken) + x - Len(taken) = x
      BY <1>2
    <3> QED
      BY <1>3, <3>1
  <2>2. Len(batch') <= Len(taken')
    BY <1>1, <1>2, <1>3
  <2> QED
    BY <1>1, <1>4, <2>1, <2>2 DEF BatchIsEnd
<1>6. Written = Len(taken) /\ Written' = Len(taken)
  <2>1. CASE n > 0
    BY <1>1, <1>4, <2>1 DEF Written
  <2>2. CASE n = 0
    BY <1>1, <1>2, <1>3, <2>2 DEF Written
  <2> QED
    BY <1>1, <2>1, <2>2
<1>7. PICK f : Finds(f, Written)
  BY DEF WireInv
<1>8. \A x \in 1 .. Len(taken) : taken'[x] = taken[x]
  BY <1>2, <1>3
<1>9. Finds(f, Written)'
  BY <1>1, <1>6, <1>7, <1>8 DEF Finds
<1> QED
  BY <1>1, <1>3, <1>5, <1>9 DEF WireInv

\* A write adds messages of the batch, in their order.
LEMMA WireWrites ==
  ASSUME WireInv, FateTypes, NEW c \in 0 .. Len(batch), NEW g \in [1 .. c -> DOMAIN batch],
         \A x, y \in 1 .. c : x < y => g[x] < g[y],
         NEW n \in 0 .. c, RunWrites([x \in 1 .. c |-> batch[g[x]]], n)
  PROVE  WireInv'
<1> DEFINE W == [x \in 1 .. c |-> batch[g[x]]]
           part == SubSeq(W, 1, n)
<1>1. /\ taken \in Seq(Msgs) /\ Len(taken) \in Nat /\ wire \in Seq(Msgs) /\ Len(wire) \in Nat
      /\ Len(batch) \in Nat /\ DOMAIN batch = 1 .. Len(batch) /\ \A x \in DOMAIN batch : batch[x] \in Msgs
      /\ c \in Nat /\ n \in Nat /\ n <= c
  BY FateElements, LenProperties DEF WireInv
<1>2. Pending /\ ~Pending' /\ taken' = taken /\ wire' = wire \o part
  BY DEF RunWrites, Pending, mailbox
<1>3. \A x \in 1 .. n : W[x] = batch[g[x]] /\ batch[g[x]] \in Msgs /\ g[x] \in 1 .. Len(batch)
  BY <1>1
<1>4. part \in Seq(Msgs) /\ Len(part) = n /\ \A x \in 1 .. n : part[x] = batch[g[x]]
  <2>1. n \in Int /\ \A x \in 1 .. n : W[x] \in Msgs
    BY <1>1, <1>3
  <2> HIDE DEF W
  <2>2. /\ part \in Seq(Msgs) /\ Len(part) = IF 1 <= n THEN n - 1 + 1 ELSE 0
        /\ \A x \in 1 .. n - 1 + 1 : part[x] = W[1 + x - 1]
    BY <2>1, SubSeqProperties
  <2> HIDE DEF part
  <2>3. Len(part) = n
    BY <1>1, <2>2
  <2>4. ASSUME NEW x \in 1 .. n PROVE part[x] = batch[g[x]]
    <3>1. x \in 1 .. n - 1 + 1 /\ 1 + x - 1 = x
      BY <1>1
    <3> QED
      BY <1>3, <2>2, <3>1
  <2> QED
    BY <2>2, <2>3, <2>4
<1> HIDE DEF W, part
<1>5. /\ wire' \in Seq(Msgs) /\ Len(wire') = Len(wire) + n
      /\ \A x \in 1 .. Len(wire) + n : wire'[x] = IF x <= Len(wire) THEN wire[x] ELSE part[x - Len(wire)]
  BY <1>1, <1>2, <1>4, ConcatProperties
<1>6. PICK f : Finds(f, Written)
  BY DEF WireInv
<1> DEFINE b == Len(taken) - Len(batch)
           f2 == [x \in 1 .. Len(wire) + n |-> IF x <= Len(wire) THEN f[x] ELSE b + g[x - Len(wire)]]
<1>7. /\ b \in Nat /\ b <= Len(taken) /\ Written = b /\ Written' = Len(taken)
      /\ \A x \in 1 .. Len(batch) : batch[x] = taken[b + x]
  <2>1. Len(batch) <= Len(taken) /\ \A x \in 1 .. Len(batch) : batch[x] = taken[b + x]
    BY <1>2 DEF WireInv, BatchIsEnd
  <2> QED
    BY <1>1, <1>2, <2>1 DEF Written
<1>8. /\ \A x \in 1 .. Len(wire) : f[x] \in 1 .. b /\ wire[x] = taken[f[x]]
      /\ \A x, y \in 1 .. Len(wire) : x < y => f[x] < f[y]
  BY <1>6, <1>7 DEF Finds
<1> HIDE DEF b
<1>9. ASSUME NEW x \in 1 .. Len(wire) + n
      PROVE  f2[x] \in 1 .. Len(taken) /\ wire'[x] = taken[f2[x]] /\ (x > Len(wire) => f2[x] > b)
  <2>1. CASE x <= Len(wire)
    BY <1>1, <1>5, <1>7, <1>8, <2>1
  <2>2. CASE x > Len(wire)
    <3>1. x - Len(wire) \in 1 .. n /\ ~(x <= Len(wire))
      BY <1>1, <2>2
    <3>2. g[x - Len(wire)] \in 1 .. Len(batch) /\ wire'[x] = batch[g[x - Len(wire)]]
      BY <1>3, <1>4, <1>5, <3>1
    <3>3. f2[x] = b + g[x - Len(wire)]
      BY <3>1
    <3>4. b + Len(batch) = Len(taken)
      BY <1>1 DEF b
    <3>5. wire'[x] = taken[b + g[x - Len(wire)]]
      BY <1>7, <3>2
    <3>6. b \in Nat /\ Len(taken) \in Nat /\ Len(batch) \in Nat
      BY <1>1, <1>7
    <3> HIDE DEF f2
    <3>7. PICK u \in 1 .. Len(batch) : u = g[x - Len(wire)]
      BY <3>2
    <3>8. b + u \in 1 .. Len(taken) /\ b + u > b
      BY <3>4, <3>6
    <3> QED
      BY <3>3, <3>5, <3>7, <3>8
  <2> QED
    BY <1>1, <2>1, <2>2
<1>10. ASSUME NEW x \in 1 .. Len(wire) + n, NEW y \in 1 .. Len(wire) + n, x < y PROVE f2[x] < f2[y]
  <2>1. CASE y <= Len(wire)
    BY <1>1, <1>8, <1>10, <2>1
  <2>2. CASE x <= Len(wire) /\ y > Len(wire)
    <3>1. f2[x] \in 1 .. b /\ f2[y] > b /\ f2[y] \in Nat
      BY <1>1, <1>8, <1>9, <2>2
    <3>2. b \in Nat /\ f2[x] \in Nat /\ f2[x] <= b
      BY <1>7, <3>1
    <3> HIDE DEF f2
    <3> QED
      BY <3>1, <3>2
  <2>3. CASE x > Len(wire)
    <3>1. /\ x - Len(wire) \in 1 .. n /\ y - Len(wire) \in 1 .. n /\ x - Len(wire) < y - Len(wire)
          /\ ~(x <= Len(wire)) /\ ~(y <= Len(wire))
      BY <1>1, <1>10, <2>3
    <3>2. /\ g[x - Len(wire)] < g[y - Len(wire)]
          /\ g[x - Len(wire)] \in Nat /\ g[y - Len(wire)] \in Nat
      BY <1>1, <1>3, <3>1
    <3>3. f2[x] = b + g[x - Len(wire)] /\ f2[y] = b + g[y - Len(wire)]
      BY <3>1
    <3> HIDE DEF f2
    <3>a. b \in Nat
      BY <1>7
    <3>4. PICK u \in Nat, v \in Nat : u = g[x - Len(wire)] /\ v = g[y - Len(wire)]
      BY <3>2
    <3>b. u < v
      BY <3>2, <3>4
    <3>5. b + u < b + v
      BY <3>a, <3>b
    <3> QED
      BY <3>3, <3>4, <3>5
  <2> QED
    BY <1>1, <2>1, <2>2, <2>3
<1>11. f2 \in [1 .. Len(wire) + n -> 1 .. Len(taken)]
  BY <1>9
<1> HIDE DEF f2
<1>a. PICK ff : ff = f2
  OBVIOUS
<1>12. Finds(ff, Written)'
  <2>1. 1 .. Len(wire') = 1 .. Len(wire) + n /\ 1 .. Written' = 1 .. Len(taken)
    BY <1>5, <1>7
  <2>2. ff \in [1 .. Len(wire') -> 1 .. Written']
    BY <1>11, <1>a, <2>1
  <2>3. \A x \in 1 .. Len(wire') : wire'[x] = taken'[ff[x]]
    BY <1>2, <1>9, <1>a, <2>1
  <2>4. \A x, y \in 1 .. Len(wire') : x < y => ff[x] < ff[y]
    BY <1>10, <1>a, <2>1
  <2> QED
    BY <2>2, <2>3, <2>4 DEF Finds
<1>13. BatchIsEnd'
  BY <1>2 DEF BatchIsEnd
<1> QED
  BY <1>1, <1>2, <1>5, <1>12, <1>13 DEF WireInv

\* The peer sees messages in the order in which they entered the mailbox, each at
\* most once, however often writes fail, encryption drops messages or Close comes.
THEOREM WireOrderHolds == Spec => []WireOrder
<1>1. Init => WireInv
  <2> SUFFICES ASSUME Init PROVE WireInv
    OBVIOUS
  <2>1. taken \in Seq(Msgs) /\ wire \in Seq(Msgs) /\ Len(taken) = 0 /\ Len(wire) = 0
    BY EmptySeq DEF Init
  <2>2. ~Pending
    BY DEF Init, Pending
  <2>3. Finds([x \in 1 .. 0 |-> x], Written)
    BY <2>1, <2>2 DEF Finds, Written
  <2> QED
    BY <2>1, <2>2, <2>3 DEF WireInv, BatchIsEnd
<1>2. ASSUME FateInv, WireInv, [Next]_vars PROVE WireInv'
  <2>0. FateTypes
    BY <1>2 DEF FateInv
  <2>1. CASE UNCHANGED <<wire, taken, run, batch>>
    BY <1>2, <2>0, <2>1, WireKept DEF Pending
  <2>2. ASSUME NEW x, Close(x) \/ ClosingStep(x) PROVE WireInv'
    BY <2>1, <2>2
    DEF Close, ClosingStep, CloseOnce, CloseFlag, CloseRemove, CloseStop, CloseState, CloseChan, CloseConn,
        WaitSend, LookDepth, DeferRelease, WaitRead, CloseCall, CloseMailbox, LookDefer, ClosePuts,
        CloseReturns, mailbox, runv, hist
  <2>3. ASSUME NEW s, Send(s) \/ SenderStep(s) PROVE WireInv'
    BY <2>1, <2>3
    DEF Send, SenderStep, SendLooks, SendRefused, SendSwaps, SendLinks, mailbox, runv, hist
  <2>4. CASE Start \/ Refused \/ ParseEnds \/ Dispatch \/ CallbackReturns \/ ReadData \/ ReadError
    BY <2>1, <2>4 DEF Start, Refused, ParseEnds, Dispatch, CallbackReturns, ReadData, ReadError, mailbox, runv, hist
  <2>5. CASE ExitLooks \/ ExitPuts \/ ExitDone \/ ExitReturns \/ CancelCtx \/ UNCHANGED vars
    BY <2>1, <2>5 DEF ExitLooks, ExitPuts, ExitDone, ExitReturns, CancelCtx, vars, mailbox, runv, hist
  <2>6. CASE StartSend \/ RunLooks \/ RunLooksOpen \/ RunWriteFails \/ RunReleases \/ RunPanics
    <3>1. UNCHANGED <<wire, taken>> /\ ((Pending /\ UNCHANGED batch) \/ ~Pending')
      BY <2>6 DEF StartSend, RunLooks, RunLooksOpen, RunWriteFails, RunReleases, RunPanics, Pending, mailbox, hist
    <3> QED
      BY <1>2, <2>0, <3>1, WireKept
  <2>7. ASSUME NEW n \in 0 .. MaxBatch, RunTakes(n) PROVE WireInv'
    <3>1. n \in Nat
      BY BoundAssumption
    <3> QED
      BY <1>2, <2>0, <2>7, <3>1, WireTakes
  <2>8. CASE RunnerWrites
    BY <1>2, <2>0, <2>8, WireWrites DEF RunnerWrites
  <2> QED
    BY <1>2, <2>2, <2>3, <2>4, <2>5, <2>6, <2>7, <2>8 DEF Next, ReaderStep, RunnerStep
<1> QED
  BY <1>1, <1>2, FatesHold, WireSays, PTL DEF Spec
=============================================================================
