------------------------------ MODULE Channel ------------------------------
(***************************************************************************)
(* znet.BaseChannel in async mode with a goroutine per direction: Send      *)
(* puts messages into the mailbox, runSend writes them, Start reads and     *)
(* calls OnRead, and Close may be called from anywhere, OnRead included,    *)
(* and at any time: AddChannel closes a channel above the limit, and the    *)
(* goroutine that accepted it starts the loops on it all the same.          *)
(*                                                                          *)
(* The mailbox is used through its two-step interface (module Mailbox,      *)
(* which zqueue.UnboundedMPSC implements).  Metrics, statistics, batch      *)
(* sizing and the bytes of a message are left out.  A panic that zlog.Recover *)
(* recovers goes on as the deferred functions do; with a default logger set *)
(* Recover recovers nothing (it calls recover one frame too deep) and the   *)
(* process ends, which is no step of the model.                             *)
(***************************************************************************)
EXTENDS Integers, Sequences, FiniteSets, Functions

CONSTANTS Senders,      \* goroutines that call Send
          Closers,      \* goroutines other than the read loop that call Close
          Reader,       \* the goroutine of RunChannel, which becomes the read loop
          Finalizer,    \* the goroutine of waitReadLoopAndFinalizeClose
          MaxMsgs,      \* bound: messages one sender sends
          MaxBatch,     \* bound: messages of one DequeueBatch
          MaxReads,     \* bound: reads that return data
          MaxPackets,   \* bound: packets one read completes
          CtxCancel     \* the server's context may be cancelled

ASSUME ActorsAssumption ==
  /\ Reader \notin Closers /\ Finalizer \notin Closers /\ Reader # Finalizer
ASSUME BoundAssumption ==
  MaxMsgs \in Nat /\ MaxBatch \in Nat \ {0} /\ MaxReads \in Nat /\ MaxPackets \in Nat
ASSUME FlagAssumption == CtxCancel \in BOOLEAN

Callers == Closers \cup {Reader}
Msgs == Senders \X (1 .. MaxMsgs)

VARIABLES
  isClose, state, closeChan, ctxDone,   \* flags and signals
  connOpen, wireUp,                     \* conn is not closed; the peer still takes bytes
  registered,                           \* the channel is in the server's map
  stopped, box, taken,                  \* the mailbox
  buf, puts,                            \* readBuffer # nil; PutRingBuffer calls
  depth, deferRel, readWg,              \* readCallbackDepth, deferReadBufferRelease, readWg
  once,                                 \* closeOnce
  pc,                                   \* Close: step of every caller, and of the finalizer
  spc, sent,                            \* Send: step and messages begun, per sender
  run, shouldExit, batch,               \* runSend
  rpc, reads, packets,                  \* Start: step, reads with data, complete packets in the ring
  released, wire, closeCalls            \* history: Release calls, messages written, closeCall runs

mailbox == <<stopped, box, taken>>
flags   == <<isClose, state, closeChan, connOpen, registered>>
sendv   == <<spc, sent>>
runv    == <<run, shouldExit, batch>>
readv   == <<rpc, reads, packets, depth, readWg>>
bufv    == <<buf, puts, deferRel>>
closev  == <<once, pc, closeCalls>>
hist    == <<released, wire>>
vars    == <<flags, mailbox, ctxDone, wireUp, sendv, runv, readv, bufv, closev, hist>>

Init ==
  /\ isClose = FALSE /\ state = TRUE /\ closeChan = FALSE /\ ctxDone = FALSE
  /\ connOpen = TRUE /\ wireUp = TRUE /\ registered = TRUE
  /\ stopped = FALSE /\ box = <<>> /\ taken = <<>>
  /\ buf = TRUE /\ puts = 0
  /\ depth = 0 /\ deferRel = FALSE /\ readWg = 0
  /\ once = "free"
  /\ pc = [x \in Callers \cup {Finalizer} |-> "idle"]
  /\ spc = [s \in Senders |-> "idle"] /\ sent = [s \in Senders |-> 0]
  /\ run = "new" /\ shouldExit = FALSE /\ batch = <<>>
  /\ rpc = "new" /\ reads = 0 /\ packets = 0
  /\ released = [m \in Msgs |-> 0] /\ wire = <<>> /\ closeCalls = 0

Release(M) == released' = [m \in Msgs |-> released[m] + IF m \in M THEN 1 ELSE 0]

-----------------------------------------------------------------------------
(* Send.                                                                    *)

SendStep(s, from, to) == spc[s] = from /\ spc' = [spc EXCEPT ![s] = to]
Msg(s) == <<s, sent[s]>>

\* Send is called, and looks at isClose.
Send(s) ==
  /\ sent[s] < MaxMsgs
  /\ SendStep(s, "idle", IF isClose THEN "refused" ELSE "state")
  /\ sent' = [sent EXCEPT ![s] = @ + 1]
  /\ UNCHANGED <<flags, mailbox, ctxDone, wireUp, runv, readv, bufv, closev, hist>>

SendLooks(s) ==
  /\ \/ SendStep(s, "state", IF state THEN "try" ELSE "refused")
     \/ SendStep(s, "try", IF stopped THEN "refused" ELSE "retry")    \* TryEnqueue, first look
     \/ SendStep(s, "retry", IF stopped THEN "refused" ELSE "swap")   \* and its second
  /\ UNCHANGED <<flags, mailbox, ctxDone, wireUp, sent, runv, readv, bufv, closev, hist>>

\* Mutant: an early return does not release the message.
SendRefusedForgets(s) ==
  /\ SendStep(s, "refused", "idle")
  /\ UNCHANGED <<flags, mailbox, ctxDone, wireUp, sent, runv, readv, bufv, closev, hist>>

SendRefused(s) ==
  /\ SendStep(s, "refused", "idle")
  /\ Release({Msg(s)})
  /\ UNCHANGED <<flags, mailbox, ctxDone, wireUp, sent, runv, readv, bufv, closev, wire>>

SendSwaps(s) ==
  /\ SendStep(s, "swap", "link")
  /\ box' = Append(box, [item |-> Msg(s), linked |-> FALSE])
  /\ UNCHANGED <<flags, stopped, taken, ctxDone, wireUp, sent, runv, readv, bufv, closev, hist>>

\* queuedMsgs, which is counted next, matters to a shared worker only.
SendLinks(s) ==
  /\ SendStep(s, "link", "idle")
  /\ box' = [x \in DOMAIN box |-> IF box[x].item = Msg(s) THEN [box[x] EXCEPT !.linked = TRUE] ELSE box[x]]
  /\ UNCHANGED <<flags, stopped, taken, ctxDone, wireUp, sent, runv, readv, bufv, closev, hist>>

-----------------------------------------------------------------------------
(* runSend.                                                                 *)

\* Elements DequeueBatch can reach: the ones before the first unlinked one.
Reachable == Cardinality({x \in DOMAIN box : \A y \in 1 .. x : box[y].linked})

\* RunChannel: StartSend adds to sendDone and starts the goroutine, also when
\* AddChannel has just closed the channel because it is one too many.
StartSend ==
  /\ rpc = "new" /\ pc[Reader] \in {"idle", "returned"}
  /\ rpc' = "start" /\ run' = "look"
  /\ pc' = [pc EXCEPT ![Reader] = "idle"]
  /\ UNCHANGED <<flags, mailbox, ctxDone, wireUp, sendv, shouldExit, batch, reads, packets, depth, readWg,
                 bufv, once, closeCalls, hist>>

\* HandleAccept refused the connection: its goroutine has closed it and returns.
Refused ==
  /\ pc[Reader] = "returned"
  /\ rpc = "new" /\ rpc' = "gone"
  /\ UNCHANGED <<flags, mailbox, ctxDone, wireUp, sendv, runv, reads, packets, depth, readWg, bufv, closev, hist>>

\* The non-blocking look at the exit signals.
RunLooks ==
  /\ run = "look"
  /\ shouldExit' = (shouldExit \/ ctxDone \/ closeChan)
  /\ run' = "take"
  /\ UNCHANGED <<flags, mailbox, ctxDone, wireUp, sendv, batch, readv, bufv, closev, hist>>

\* DequeueBatch: up to the recommended size.  Nothing there and an exit signal
\* seen before ends the loop; otherwise it backs off and goes round.
RunTakes(n) ==
  /\ run = "take" /\ n <= Reachable
  /\ n = 0 => Reachable = 0
  /\ run' = IF n > 0 THEN "open" ELSE IF shouldExit THEN "exited" ELSE "look"
  /\ batch' = [x \in 1 .. n |-> box[x].item]
  /\ taken' = taken \o batch'
  /\ box' = SubSeq(box, n + 1, Len(box))
  /\ UNCHANGED <<flags, stopped, ctxDone, wireUp, sendv, shouldExit, readv, bufv, closev, hist>>

\* SendBatchMsg and writeBuffers look at state before they write.
RunLooksOpen ==
  /\ run = "open"
  /\ run' = IF state THEN "write" ELSE "release"
  /\ UNCHANGED <<flags, mailbox, ctxDone, wireUp, sendv, shouldExit, batch, readv, bufv, closev, hist>>

\* Mutant: a batch whose write failed is written again.
RunWritesAgain(W, n) ==
  /\ run = "write" /\ connOpen /\ wireUp /\ n <= Len(W)
  /\ wire' = wire \o SubSeq(W, 1, n)
  /\ run' = IF n < Len(W) THEN "write" ELSE "release"
  /\ UNCHANGED <<flags, mailbox, ctxDone, wireUp, sendv, shouldExit, batch, readv, bufv, closev, released>>

\* One writev of the messages whose encryption succeeded, W.  A write that fails
\* after n messages leaves a connection on which nothing can be written any more.
RunWrites(W, n) ==
  /\ run = "write" /\ connOpen /\ wireUp /\ n <= Len(W)
  /\ wire' = wire \o SubSeq(W, 1, n)
  /\ wireUp' \in {n = Len(W), FALSE}
  /\ run' = "release"
  /\ UNCHANGED <<flags, mailbox, ctxDone, sendv, shouldExit, batch, readv, bufv, closev, released>>

\* On a closed or broken connection the write returns an error at once.
RunWriteFails ==
  /\ run = "write" /\ (~connOpen \/ ~wireUp)
  /\ run' = "release"
  /\ UNCHANGED <<flags, mailbox, ctxDone, wireUp, sendv, shouldExit, batch, readv, bufv, closev, hist>>

\* Encrypt or a message panics.  The deferred Recover and sendDone.Done of runSend
\* run: the goroutine is gone, the channel stays open, and nobody releases the batch.
RunPanics ==
  /\ run = "write"
  /\ run' = "panicked"
  /\ UNCHANGED <<flags, mailbox, ctxDone, wireUp, sendv, shouldExit, batch, readv, bufv, closev, hist>>

\* Mutant: messages of a batch that was not written are released by nobody.
RunReleasesWritten ==
  /\ run = "release"
  /\ Release(Range(batch) \cap Range(wire))
  /\ batch' = <<>> /\ run' = "look"
  /\ UNCHANGED <<flags, mailbox, ctxDone, wireUp, sendv, shouldExit, readv, bufv, closev, wire>>

\* Every message of the batch is released, written or not.
RunReleases ==
  /\ run = "release"
  /\ Release(Range(batch))
  /\ batch' = <<>> /\ run' = "look"
  /\ UNCHANGED <<flags, mailbox, ctxDone, wireUp, sendv, shouldExit, readv, bufv, closev, wire>>

-----------------------------------------------------------------------------
(* Start: the read loop.                                                    *)

ReadStep(from, to) == rpc = from /\ rpc' = to

Start ==
  /\ ReadStep("start", "read")
  /\ readWg' = readWg + 1
  /\ UNCHANGED <<flags, mailbox, ctxDone, wireUp, sendv, runv, reads, packets, depth, bufv, closev, hist>>

\* conn.Read into the ring buffer returns data, ...
ReadData ==
  /\ buf /\ connOpen /\ reads < MaxReads
  /\ ReadStep("read", "parse")
  /\ reads' = reads + 1
  /\ packets' \in 0 .. MaxPackets
  /\ UNCHANGED <<flags, mailbox, ctxDone, wireUp, sendv, runv, depth, readWg, bufv, closev, hist>>

\* ... or an error: EOF, heartbeat timeout, or the connection is closed.  A read
\* that begins without a buffer panics, with the same deferred functions to come.
ReadError ==
  /\ ReadStep("read", "exit")
  /\ UNCHANGED <<flags, mailbox, ctxDone, wireUp, sendv, runv, reads, packets, depth, readWg, bufv, closev, hist>>

\* ParseFromRingBuffer needs more data, or finds a malformed or oversized packet.
ParseEnds ==
  /\ (packets = 0 /\ ReadStep("parse", "read")) \/ ReadStep("parse", "exit")
  /\ UNCHANGED <<flags, mailbox, ctxDone, wireUp, sendv, runv, reads, packets, depth, readWg, bufv, closev, hist>>

\* A packet: handleParsedMessage counts itself in and calls OnRead.
Dispatch ==
  /\ packets > 0 /\ packets' = packets - 1
  /\ ReadStep("parse", "callback")
  /\ depth' = depth + 1
  /\ UNCHANGED <<flags, mailbox, ctxDone, wireUp, sendv, runv, reads, readWg, bufv, closev, hist>>

\* OnRead returns (the loop parses on), or decryption failed (the loop ends).
CallbackReturns ==
  /\ pc[Reader] \in {"idle", "returned"}
  /\ pc' = [pc EXCEPT ![Reader] = "idle"]
  /\ ReadStep("callback", "parse") \/ (pc[Reader] = "idle" /\ ReadStep("callback", "exit"))
  /\ depth' = depth - 1
  /\ UNCHANGED <<flags, mailbox, ctxDone, wireUp, sendv, runv, reads, packets, readWg, bufv, once, closeCalls, hist>>

\* The deferred function of Start looks whether it has to return the buffer.
ExitLooks ==
  /\ ReadStep("exit", IF deferRel THEN "put" ELSE "done")
  /\ UNCHANGED <<flags, mailbox, ctxDone, wireUp, sendv, runv, reads, packets, depth, readWg, bufv, closev, hist>>

ReleaseReadBuffer == buf' = FALSE /\ puts' = puts + IF buf THEN 1 ELSE 0

ExitPuts ==
  /\ ReadStep("put", "done")
  /\ deferRel' = FALSE
  /\ ReleaseReadBuffer
  /\ UNCHANGED <<flags, mailbox, ctxDone, wireUp, sendv, runv, reads, packets, depth, readWg, closev, hist>>

\* readWg.Done, then the outer deferred function calls Close.
ExitDone ==
  /\ ReadStep("done", "close")
  /\ readWg' = readWg - 1
  /\ UNCHANGED <<flags, mailbox, ctxDone, wireUp, sendv, runv, reads, packets, depth, bufv, closev, hist>>

ExitReturns ==
  /\ pc[Reader] = "returned"
  /\ ReadStep("close", "gone")
  /\ UNCHANGED <<flags, mailbox, ctxDone, wireUp, sendv, runv, reads, packets, depth, readWg, bufv, closev, hist>>

-----------------------------------------------------------------------------
(* Close.                                                                   *)

CloseStep(x, from, to) == pc[x] = from /\ pc' = [pc EXCEPT ![x] = to]

\* Who may call Close now: any closer once, also before the loops are started; the
\* connection's goroutine in AddChannel or when HandleAccept refused it, in OnRead,
\* and at the end of the read loop.
MayClose(x) == x = Reader => rpc \in {"new", "callback", "close"}

Close(x) ==
  /\ MayClose(x)
  /\ CloseStep(x, "idle", IF isClose THEN "returned" ELSE "once")
  /\ UNCHANGED <<flags, mailbox, ctxDone, wireUp, sendv, runv, readv, bufv, once, closeCalls, hist>>

\* closeOnce.Do runs closeBody once; other callers wait until it has returned.
CloseOnce(x) ==
  /\ \/ once = "free" /\ once' = "busy" /\ CloseStep(x, "once", "flag")
     \/ once = "done" /\ UNCHANGED once /\ CloseStep(x, "once", "returned")
  /\ UNCHANGED <<flags, mailbox, ctxDone, wireUp, sendv, runv, readv, bufv, closeCalls, hist>>

CloseFlag(x) ==
  /\ CloseStep(x, "flag", "remove")
  /\ isClose' = TRUE
  /\ UNCHANGED <<state, closeChan, connOpen, registered, mailbox, ctxDone, wireUp, sendv, runv, readv, bufv,
                 once, closeCalls, hist>>

CloseRemove(x) ==
  /\ CloseStep(x, "remove", "stop")
  /\ registered' = FALSE
  /\ UNCHANGED <<isClose, state, closeChan, connOpen, mailbox, ctxDone, wireUp, sendv, runv, readv, bufv,
                 once, closeCalls, hist>>

CloseStop(x) ==
  /\ CloseStep(x, "stop", "state")
  /\ stopped' = TRUE
  /\ UNCHANGED <<flags, box, taken, ctxDone, wireUp, sendv, runv, readv, bufv, once, closeCalls, hist>>

CloseState(x) ==
  /\ CloseStep(x, "state", "chan")
  /\ state' = FALSE
  /\ UNCHANGED <<isClose, closeChan, connOpen, registered, mailbox, ctxDone, wireUp, sendv, runv, readv, bufv,
                 once, closeCalls, hist>>

CloseChan(x) ==
  /\ CloseStep(x, "chan", "conn")
  /\ closeChan' = TRUE
  /\ UNCHANGED <<isClose, state, connOpen, registered, mailbox, ctxDone, wireUp, sendv, runv, readv, bufv,
                 once, closeCalls, hist>>

CloseConn(x) ==
  /\ CloseStep(x, "conn", "sendDone")
  /\ connOpen' = FALSE
  /\ UNCHANGED <<isClose, state, closeChan, registered, mailbox, ctxDone, wireUp, sendv, runv, readv, bufv,
                 once, closeCalls, hist>>

\* sendDone.Wait().
WaitSend(x) ==
  /\ run \in {"new", "exited", "panicked"}
  /\ CloseStep(x, "sendDone", "depth")
  /\ UNCHANGED <<flags, mailbox, ctxDone, wireUp, sendv, runv, readv, bufv, once, closeCalls, hist>>

\* Mutant: the read loop is waited for even below OnRead.
LookDepthNever(x) ==
  /\ CloseStep(x, "depth", "readWg")
  /\ UNCHANGED <<flags, mailbox, ctxDone, wireUp, sendv, runv, readv, bufv, once, closeCalls, hist>>

\* Is some OnRead on the stack of the read loop?
LookDepth(x) ==
  /\ CloseStep(x, "depth", IF depth > 0 THEN "defer" ELSE "readWg")
  /\ UNCHANGED <<flags, mailbox, ctxDone, wireUp, sendv, runv, readv, bufv, once, closeCalls, hist>>

\* Mutant: the buffer is not left to the read loop.
DeferReleaseNot(x) ==
  /\ pc[x] = "defer"
  /\ pc' = [pc EXCEPT ![x] = "returned", ![Finalizer] = "call"]
  /\ once' = "done"
  /\ UNCHANGED <<flags, mailbox, ctxDone, wireUp, sendv, runv, readv, bufv, closeCalls, hist>>

\* The buffer is left to the read loop, a goroutine will do the rest, and
\* closeBody returns.
DeferRelease(x) ==
  /\ pc[x] = "defer"
  /\ deferRel' = TRUE
  /\ pc' = [pc EXCEPT ![x] = "returned", ![Finalizer] = "readWg"]
  /\ once' = "done"
  /\ UNCHANGED <<flags, mailbox, ctxDone, wireUp, sendv, runv, readv, buf, puts, closeCalls, hist>>

\* readWg.Wait(), of closeBody or of the finalizing goroutine.
WaitRead(x) ==
  /\ readWg = 0
  /\ CloseStep(x, "readWg", "call")
  /\ UNCHANGED <<flags, mailbox, ctxDone, wireUp, sendv, runv, readv, bufv, once, closeCalls, hist>>

\* finalizeCloseTail, which closeFinalizeOnce and closeOnce let run once: the
\* close callback, ...
CloseCall(x) ==
  /\ CloseStep(x, "call", "mailbox")
  /\ closeCalls' = closeCalls + 1
  /\ UNCHANGED <<flags, mailbox, ctxDone, wireUp, sendv, runv, readv, bufv, once, hist>>

\* ... mailBoxQueue.Close (which drains nothing), ...
CloseMailbox(x) ==
  /\ CloseStep(x, "mailbox", "look")
  /\ stopped' = TRUE
  /\ UNCHANGED <<flags, box, taken, ctxDone, wireUp, sendv, runv, readv, bufv, once, closeCalls, hist>>

LookDefer(x) ==
  /\ CloseStep(x, "look", IF deferRel THEN "end" ELSE "put")
  /\ UNCHANGED <<flags, mailbox, ctxDone, wireUp, sendv, runv, readv, bufv, once, closeCalls, hist>>

\* ... and the read buffer.
ClosePuts(x) ==
  /\ CloseStep(x, "put", "end")
  /\ ReleaseReadBuffer
  /\ UNCHANGED <<flags, mailbox, ctxDone, wireUp, sendv, runv, readv, deferRel, once, closeCalls, hist>>

CloseReturns(x) ==
  /\ CloseStep(x, "end", "returned")
  /\ once' = "done"
  /\ UNCHANGED <<flags, mailbox, ctxDone, wireUp, sendv, runv, readv, bufv, closeCalls, hist>>

-----------------------------------------------------------------------------
\* The server's context is cancelled (ser.Close follows, in another goroutine).
CancelCtx ==
  /\ CtxCancel /\ ~ctxDone
  /\ ctxDone' = TRUE
  /\ UNCHANGED <<flags, mailbox, wireUp, sendv, runv, readv, bufv, closev, hist>>

\* The steps of a Send, of closeBody and of the loops that always can go on.
SenderStep(s) == SendLooks(s) \/ SendRefused(s) \/ SendSwaps(s) \/ SendLinks(s)

ClosingStep(x) ==
  \/ CloseOnce(x) \/ CloseFlag(x) \/ CloseRemove(x) \/ CloseStop(x) \/ CloseState(x) \/ CloseChan(x)
  \/ CloseConn(x) \/ WaitSend(x) \/ LookDepth(x) \/ DeferRelease(x) \/ WaitRead(x)
  \/ CloseCall(x) \/ CloseMailbox(x) \/ LookDefer(x) \/ ClosePuts(x) \/ CloseReturns(x)

RunnerStep == RunLooks \/ RunLooksOpen \/ RunWriteFails \/ RunReleases \/ \E n \in 0 .. MaxBatch : RunTakes(n)

\* Encryption keeps the order of the messages it does not drop.
RunnerWrites == \E c \in 0 .. Len(batch) : \E f \in [1 .. c -> DOMAIN batch] :
  /\ \A x, y \in 1 .. c : x < y => f[x] < f[y]
  /\ \E n \in 0 .. c : RunWrites([x \in 1 .. c |-> batch[f[x]]], n)

ReaderStep ==
  \/ StartSend \/ Refused \/ Start \/ ParseEnds \/ Dispatch \/ CallbackReturns
  \/ ExitLooks \/ ExitPuts \/ ExitDone \/ ExitReturns

Next ==
  \/ \E s \in Senders : Send(s) \/ SenderStep(s)
  \/ \E x \in Callers : Close(x)
  \/ \E x \in Callers \cup {Finalizer} : ClosingStep(x)
  \/ RunnerStep \/ RunnerWrites \/ RunPanics
  \/ ReaderStep \/ ReadData \/ ReadError
  \/ CancelCtx

Spec == Init /\ [][Next]_vars

\* Goroutines are scheduled; a read on a closed connection returns; OnRead and
\* closeCall return; the read loop calls Close when it ends.  A write on an open
\* connection may block for ever, and data need never arrive.
Fairness ==
  /\ \A s \in Senders : WF_vars(SenderStep(s))
  /\ \A x \in Callers \cup {Finalizer} : WF_vars(ClosingStep(x))
  /\ WF_vars(RunnerStep) /\ WF_vars(ReaderStep)
  /\ WF_vars(ReadError /\ ~connOpen)
  /\ WF_vars(Close(Reader) /\ rpc = "close")

FairSpec == Spec /\ Fairness

-----------------------------------------------------------------------------
(* Properties.                                                              *)

InBox == {box[x].item : x \in DOMAIN box}

\* Every message has one fate.  It is released at most once, and never while the
\* mailbox, runSend or the Send that offers it still use it; and once Send refused
\* it or runSend is through with it, it has been released.  Not released is only
\* what is still in the mailbox, and the batch that a panic took from runSend.
ReleasedExactly ==
  \A s \in Senders : \A k \in 1 .. sent[s] :
    LET m == <<s, k>>
        inUse == \/ m \in InBox \cup Range(batch)
                 \/ k = sent[s] /\ spc[s] \in {"state", "try", "retry", "swap", "refused"}
    IN  released[m] = IF inUse THEN 0 ELSE 1

\* The peer sees messages in the order in which they entered the mailbox, each at
\* most once, however often writes fail, and never one that was refused.
WireOrder ==
  \E f \in [DOMAIN wire -> DOMAIN taken] :
    /\ \A x \in DOMAIN wire : wire[x] = taken[f[x]]
    /\ \A x, y \in DOMAIN wire : x < y => f[x] < f[y]

\* The ring buffer is given back to the pool at most once, and never under a read
\* loop that has bytes in it or can still get some: only a loop whose connection is
\* closed may find it gone.
BufferSafe ==
  /\ puts <= 1
  /\ rpc \in {"parse", "callback"} => buf
  /\ rpc = "read" /\ connOpen => buf

\* "等待读侧退出后再回收 readBuffer" (channel.go:671): the buffer is there as long as
\* the read loop runs.  This does NOT hold, and no run asserts it: a loop that is
\* started on a channel AddChannel has closed, or that joins readWg behind the wait
\* of a Close, reads into a buffer that is gone, and panics.
ReaderHasBuffer == rpc \in {"read", "parse", "callback"} => buf

\* Whoever calls Close gets out of it, OnRead included, and the close callback has
\* run in the end, even while the peer does not read.
CloseCompletes ==
  /\ \A x \in Callers : (pc[x] = "once") ~> (pc[x] = "returned")
  /\ isClose ~> (closeCalls = 1)

\* As long as the channel stays open and the peer reads, what is in the mailbox is
\* written or dropped, and released, unless a panic has ended runSend: the channel
\* then stays open and accepts messages that nobody takes out.
AcceptedHandled ==
  WF_vars(RunnerWrites) =>
  \A m \in Msgs : (m \in InBox) ~> (released[m] = 1 \/ closeChan \/ ctxDone \/ run = "panicked")

\* "每条消息恰好一次" (channel.go:815): every accepted message is released, so when
\* runSend has gone and every Send has returned, the mailbox is empty.  This does
\* NOT hold, and no run asserts it: a Send that found the queue open for the second
\* time may swap its node in after runSend drained the mailbox and left.
AllReleased ==
  (run = "exited" /\ \A s \in Senders : spc[s] = "idle") => box = <<>>
=============================================================================
