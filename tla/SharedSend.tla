---------------------------- MODULE SharedSend ----------------------------
(***************************************************************************)
(* znet.BaseChannel under the reactor: no goroutine of its own.  Send marks *)
(* the channel pending and hands it to a shared write worker                *)
(* (shared_send_workers.go), the reactor thread reads between               *)
(* BeginReactorRead and EndReactorRead, and Close lets the worker drain the *)
(* mailbox, waiting for its acknowledgement unless the reactor closes.      *)
(*                                                                          *)
(* One channel and the worker of its shard.  The mailbox is used through    *)
(* its two-step interface (module Mailbox); the shard's queue only counts   *)
(* how often it holds the channel.                                          *)
(***************************************************************************)
EXTENDS Integers, Sequences, FiniteSets, Functions

CONSTANTS Senders,     \* goroutines that call Send
          Closers,     \* goroutines that call Close
          Reactor, Worker,
          MaxMsgs,     \* bound: messages one sender sends
          MaxBatch,    \* bound: messages of one DequeueBatch
          MaxReads,    \* bound: reads of the reactor
          Quota,       \* ReactorFlushBatchesPerTurn
          Limit        \* ReactorMaxQueuedMsgs

ASSUME ActorsAssumption ==
  /\ Reactor # Worker /\ {Reactor, Worker} \cap (Closers \cup Senders) = {}
  /\ Closers \cap Senders = {}
ASSUME BoundAssumption ==
  /\ MaxMsgs \in Nat /\ MaxBatch \in Nat \ {0} /\ MaxReads \in Nat
  /\ Quota \in Nat \ {0} /\ Limit \in Nat \ {0}

Callers == Senders \cup Closers \cup {Reactor, Worker}
Msgs == Senders \X (1 .. MaxMsgs)

VARIABLES
  isClose, stopped, box, queued,  \* the channel's flag and mailbox
  pending, hooks, wakeup,         \* sharedSendPending; entries of the shard's queue; its wakeup channel
  ack, closeDone, async,          \* sharedSendCloseAck, sharedSendCloseDone, closeReactorAsync
  rdepth, deferRel, buf, puts,    \* reactorReadDepth, deferReadBufferRelease, readBuffer # nil, Put calls
  once, pc,                       \* closeOnce; Close: step of every caller
  spc, sent,                      \* Send
  wpc, turn, batch, panicked,     \* worker: step, batches of this turn, messages in hand, in recover()
  rpc, after, reads,              \* reactor: step, step after EndReactorRead
  released, lost                  \* history: Release calls, messages a panic dropped

chan  == <<isClose, stopped, box, queued>>
wake  == <<pending, hooks, wakeup>>
acks  == <<ack, closeDone, async>>
bufv  == <<rdepth, deferRel, buf, puts>>
closev == <<once, pc>>
sendv == <<spc, sent>>
workv == <<wpc, turn, batch, panicked>>
readv == <<rpc, after, reads>>
hist  == <<released, lost>>
vars  == <<chan, wake, acks, bufv, closev, sendv, workv, readv, hist>>

Init ==
  /\ isClose = FALSE /\ stopped = FALSE /\ box = <<>> /\ queued = 0
  /\ pending = FALSE /\ hooks = 0 /\ wakeup = FALSE
  /\ ack = FALSE /\ closeDone = FALSE /\ async = FALSE
  /\ rdepth = 0 /\ deferRel = FALSE /\ buf = TRUE /\ puts = 0
  /\ once = "free" /\ pc = [x \in Callers |-> "idle"]
  /\ spc = [s \in Senders |-> "idle"] /\ sent = [s \in Senders |-> 0]
  /\ wpc = "wait" /\ turn = 0 /\ batch = <<>> /\ panicked = FALSE
  /\ rpc = "idle" /\ after = "idle" /\ reads = 0
  /\ released = [m \in Msgs |-> 0] /\ lost = {}

Release(M) == released' = [m \in Msgs |-> released[m] + IF m \in M THEN 1 ELSE 0]

\* sharedSendWorkers.enqueue: into the shard's queue, and wake its worker up.
Hook == hooks' = hooks + 1 /\ wakeup' = TRUE

Reachable == Cardinality({x \in DOMAIN box : \A y \in 1 .. x : box[y].linked})

-----------------------------------------------------------------------------
(* Send.                                                                    *)

SendStep(s, from, to) == spc[s] = from /\ spc' = [spc EXCEPT ![s] = to]
Msg(s) == <<s, sent[s]>>

Send(s) ==
  /\ sent[s] < MaxMsgs
  /\ SendStep(s, "idle", IF isClose THEN "refused" ELSE "look")
  /\ sent' = [sent EXCEPT ![s] = @ + 1]
  /\ UNCHANGED <<chan, wake, acks, bufv, closev, workv, readv, hist>>

\* The looks at state and (twice) at enqueueStopped.  None of these is ever reset,
\* so only the last one matters.
SendLooks(s) ==
  /\ SendStep(s, "look", IF stopped THEN "refused" ELSE "swap")
  /\ UNCHANGED <<chan, wake, acks, bufv, closev, sent, workv, readv, hist>>

\* Mutant: a refused message is not released.
SendRefusedNot(s) ==
  /\ SendStep(s, "refused", "idle")
  /\ UNCHANGED <<chan, wake, acks, bufv, closev, sent, workv, readv, hist>>

SendRefused(s) ==
  /\ SendStep(s, "refused", "idle")
  /\ Release({Msg(s)})
  /\ UNCHANGED <<chan, wake, acks, bufv, closev, sent, workv, readv, lost>>

SendSwaps(s) ==
  /\ SendStep(s, "swap", "link")
  /\ box' = Append(box, [item |-> Msg(s), linked |-> FALSE])
  /\ UNCHANGED <<isClose, stopped, queued, wake, acks, bufv, closev, sent, workv, readv, hist>>

\* The message becomes reachable and is counted.  Above the limit the overflow hook
\* may decide to close the channel.
SendLinks(s) ==
  /\ box' = [x \in DOMAIN box |-> IF box[x].item = Msg(s) THEN [box[x] EXCEPT !.linked = TRUE] ELSE box[x]]
  /\ queued' = queued + 1
  /\ SendStep(s, "link", "mark") \/ (queued' > Limit /\ SendStep(s, "link", "overflow"))
  /\ UNCHANGED <<isClose, stopped, wake, acks, bufv, closev, sent, workv, readv, hist>>

SendClosed(s) ==
  /\ pc[s] = "returned" /\ pc' = [pc EXCEPT ![s] = "idle"]
  /\ SendStep(s, "overflow", "mark")
  /\ UNCHANGED <<chan, wake, acks, bufv, once, sent, workv, readv, hist>>

\* The channel goes from idle to pending: it is handed to the worker.
SendMarks(s) ==
  /\ SendStep(s, "mark", "idle")
  /\ pending' = TRUE
  /\ IF pending THEN UNCHANGED <<hooks, wakeup>> ELSE Hook
  /\ UNCHANGED <<chan, acks, bufv, closev, sent, workv, readv, hist>>

-----------------------------------------------------------------------------
(* The worker: loop and flushChannel.                                       *)

WorkStep(from, to) == wpc = from /\ wpc' = to

Wake ==
  /\ wakeup /\ wakeup' = FALSE
  /\ WorkStep("wait", "next")
  /\ UNCHANGED <<chan, pending, hooks, acks, bufv, closev, sendv, turn, batch, panicked, readv, hist>>

\* The shard's queue: the channel again, or nothing more.
NextChannel ==
  /\ IF hooks > 0 THEN hooks' = hooks - 1 /\ WorkStep("next", "look")
                  ELSE UNCHANGED hooks /\ WorkStep("next", "wait")
  /\ UNCHANGED <<chan, pending, wakeup, acks, bufv, closev, sendv, turn, batch, panicked, readv, hist>>

\* ctx.Done() (BaseClose, or the server's context).  drainShardQueue goes through the
\* queue as the loop does after a wakeup, Wake and NextChannel (a queue that is not
\* empty has one coming); when nothing is left in it the worker is gone.
Leave ==
  /\ hooks = 0 /\ WorkStep("wait", "gone")
  /\ UNCHANGED <<chan, wake, acks, bufv, closev, sendv, turn, batch, panicked, readv, hist>>

\* flushChannel looks at isClose before every batch.
FlushLooks ==
  /\ WorkStep("look", IF isClose THEN "drain" ELSE "take")
  /\ turn' = IF isClose THEN 0 ELSE turn
  /\ UNCHANGED <<chan, wake, acks, bufv, closev, sendv, batch, panicked, readv, hist>>

\* DequeueBatch(batch) takes n messages.
TakeBatch(n) ==
  /\ n <= Reachable /\ (n = 0 => Reachable = 0)
  /\ batch' = [x \in 1 .. n |-> box[x].item]
  /\ box' = SubSeq(box, n + 1, Len(box))

FlushTakes(n) ==
  /\ WorkStep("take", IF n > 0 THEN "process" ELSE "clear")
  /\ TakeBatch(n)
  /\ UNCHANGED <<isClose, stopped, queued, wake, acks, bufv, closev, sendv, turn, panicked, readv, hist>>

\* SharedSendProcessBatch writes (or not: the channel may be closed or broken)
\* and releases the batch.  After Quota batches the channel goes to the back of
\* the shard's queue.
FlushProcesses ==
  /\ IF turn + 1 >= Quota THEN WorkStep("process", "next") /\ Hook /\ turn' = 0
                          ELSE WorkStep("process", "look") /\ UNCHANGED <<hooks, wakeup>> /\ turn' = turn + 1
  /\ Release(Range(batch))
  /\ queued' = queued - Len(batch)
  /\ batch' = <<>>
  /\ UNCHANGED <<isClose, stopped, box, pending, acks, bufv, closev, sendv, panicked, readv, lost>>

FlushClears ==
  /\ WorkStep("clear", "again")
  /\ pending' = FALSE
  /\ UNCHANGED <<chan, hooks, wakeup, acks, bufv, closev, sendv, turn, batch, panicked, readv, hist>>

\* Mutant: the mailbox is not looked at again after pending is cleared.
FlushTakesAgainNot(n) ==
  /\ WorkStep("again", "next") /\ n = 0
  /\ UNCHANGED <<chan, wake, acks, bufv, closev, sendv, turn, batch, panicked, readv, hist>>

\* A message that came between the empty mailbox and the cleared mark is taken.
FlushTakesAgain(n) ==
  /\ WorkStep("again", IF n > 0 THEN "mark" ELSE "next")
  /\ TakeBatch(n)
  /\ turn' = IF n > 0 THEN turn ELSE 0
  /\ UNCHANGED <<isClose, stopped, queued, wake, acks, bufv, closev, sendv, panicked, readv, hist>>

FlushMarks ==
  /\ WorkStep("mark", "process")
  /\ pending' = TRUE
  /\ UNCHANGED <<chan, hooks, wakeup, acks, bufv, closev, sendv, turn, batch, panicked, readv, hist>>

\* sharedSendDrainAndCloseMailbox: everything reachable is released unwritten, ...
Drain(n) ==
  /\ WorkStep("drain", IF n > 0 THEN "drain" ELSE "stop")
  /\ n <= Reachable /\ (n = 0 => Reachable = 0)
  /\ Release({box[x].item : x \in 1 .. n})
  /\ box' = SubSeq(box, n + 1, Len(box))
  /\ queued' = queued - n
  /\ UNCHANGED <<isClose, stopped, wake, acks, bufv, closev, sendv, turn, batch, panicked, readv, lost>>

DrainStops ==
  /\ WorkStep("stop", "ack")
  /\ stopped' = TRUE
  /\ UNCHANGED <<isClose, box, queued, wake, acks, bufv, closev, sendv, turn, batch, panicked, readv, hist>>

\* ... and Close is told (the channel holds one signal).
DrainAcks ==
  /\ WorkStep("ack", IF panicked THEN "done" ELSE "unmark")
  /\ ack' = TRUE
  /\ UNCHANGED <<chan, wake, closeDone, async, bufv, closev, sendv, turn, batch, panicked, readv, hist>>

DrainUnmarks ==
  /\ WorkStep("unmark", "next")
  /\ pending' = FALSE
  /\ UNCHANGED <<chan, hooks, wakeup, acks, bufv, closev, sendv, turn, batch, panicked, readv, hist>>

\* Encryption, or a message, panics: the batch is gone, and recover looks at isClose.
FlushPanics ==
  /\ WorkStep("process", IF isClose THEN "next" ELSE "drain")
  /\ lost' = lost \cup Range(batch)
  /\ batch' = <<>> /\ turn' = 0 /\ panicked' = ~isClose
  /\ UNCHANGED <<chan, wake, acks, bufv, closev, sendv, readv, released>>

RecoverDone ==
  /\ WorkStep("done", "close")
  /\ closeDone' = TRUE
  /\ UNCHANGED <<chan, wake, ack, async, bufv, closev, sendv, turn, batch, panicked, readv, hist>>

RecoverReturns ==
  /\ pc[Worker] = "returned"
  /\ WorkStep("close", "next")
  /\ panicked' = FALSE
  /\ UNCHANGED <<chan, wake, acks, bufv, closev, sendv, turn, batch, readv, hist>>

-----------------------------------------------------------------------------
(* The reactor thread.                                                      *)

ReactorStep(from, to) == rpc = from /\ rpc' = to

BeginReactorRead ==
  /\ reads < MaxReads
  /\ ReactorStep("idle", "check")
  /\ reads' = reads + 1 /\ rdepth' = rdepth + 1
  /\ UNCHANGED <<chan, wake, acks, deferRel, buf, puts, closev, sendv, workv, after, hist>>

\* A bad connection is closed before the read ends (handleConnRead) or after it
\* (batchReadAndParse).
GiveUp(from) == ReactorStep(from, "close") \/ ReactorStep(from, "endBad")

\* WriteToReadBuffer and ParseAndDispatch look at isClose and use the buffer if
\* it is not set; otherwise the connection is to be closed.
ReactorChecks ==
  /\ IF isClose THEN GiveUp("check") ELSE ReactorStep("check", "use")
  /\ UNCHANGED <<chan, wake, acks, bufv, closev, sendv, workv, after, reads, hist>>

\* A packet is dispatched to OnRead; or all was parsed; or the connection is bad.
ReactorUses ==
  /\ ReactorStep("use", "callback") \/ ReactorStep("use", "end") \/ GiveUp("use")
  /\ UNCHANGED <<chan, wake, acks, bufv, closev, sendv, workv, after, reads, hist>>

CallbackReturns ==
  /\ pc[Reactor] \in {"idle", "returned"}
  /\ pc' = [pc EXCEPT ![Reactor] = "idle"]
  /\ ReactorStep("callback", "use")
  /\ UNCHANGED <<chan, wake, acks, bufv, once, sendv, workv, after, reads, hist>>

ReactorClosed ==
  /\ pc[Reactor] = "returned"
  /\ IF rdepth > 0 THEN ReactorStep("close", "endLast") ELSE ReactorStep("close", "gone")
  /\ UNCHANGED <<chan, wake, acks, bufv, closev, sendv, workv, after, reads, hist>>

\* EndReactorRead: out of the read, ...
EndReactorRead(from, then) ==
  /\ rdepth' = rdepth - 1 /\ after' = then
  /\ ReactorStep(from, "flag")
  /\ UNCHANGED <<chan, wake, acks, deferRel, buf, puts, closev, sendv, workv, reads, hist>>

\* ... was the buffer left to it? ...
EndLooks ==
  /\ ReactorStep("flag", IF deferRel THEN "store" ELSE after)
  /\ UNCHANGED <<chan, wake, acks, bufv, closev, sendv, workv, after, reads, hist>>

\* ... then releaseReadBuffer: unless it is nil, put it back and forget it.
EndStores ==
  /\ ReactorStep("store", IF buf THEN "put" ELSE after)
  /\ deferRel' = FALSE
  /\ UNCHANGED <<chan, wake, acks, rdepth, buf, puts, closev, sendv, workv, after, reads, hist>>

EndPuts ==
  /\ ReactorStep("put", after)
  /\ buf' = FALSE /\ puts' = puts + 1
  /\ UNCHANGED <<chan, wake, acks, rdepth, deferRel, closev, sendv, workv, after, reads, hist>>

-----------------------------------------------------------------------------
(* Close and CloseFromReactor.                                              *)

CloseStep(x, from, to) == pc[x] = from /\ pc' = [pc EXCEPT ![x] = to]

\* doClose: nothing to do on a closed channel.
Close(x) ==
  /\ \/ x \in Closers
     \/ x = Reactor /\ rpc = "callback"
     \/ x = Worker /\ wpc = "close"
  /\ CloseStep(x, "idle", IF isClose THEN "returned" ELSE "depth")
  /\ UNCHANGED <<chan, wake, acks, bufv, once, sendv, workv, readv, hist>>

CloseFromReactor(x) ==
  /\ \/ x \in Senders /\ spc[x] = "overflow"
     \/ x = Reactor /\ rpc = "close"
  /\ CloseStep(x, "idle", IF isClose THEN "returned" ELSE "async")
  /\ UNCHANGED <<chan, wake, acks, bufv, once, sendv, workv, readv, hist>>

\* Mutant: CloseFromReactor does not ask for the asynchronous drain.
SetAsyncNot(x) ==
  /\ CloseStep(x, "async", "early")
  /\ UNCHANGED <<chan, wake, acks, bufv, once, sendv, workv, readv, hist>>

SetAsync(x) ==
  /\ CloseStep(x, "async", "early")
  /\ async' = TRUE
  /\ UNCHANGED <<chan, wake, ack, closeDone, bufv, once, sendv, workv, readv, hist>>

\* CloseFromReactor below a read leaves the buffer to EndReactorRead, then doClose.
EarlyDefer(x) ==
  /\ CloseStep(x, "early", IF rdepth > 0 THEN "earlyDefer" ELSE "do")
  /\ UNCHANGED <<chan, wake, acks, bufv, once, sendv, workv, readv, hist>>

EarlyDeferStores(x) ==
  /\ CloseStep(x, "earlyDefer", "do")
  /\ deferRel' = TRUE
  /\ UNCHANGED <<chan, wake, acks, rdepth, buf, puts, once, sendv, workv, readv, hist>>

\* In doClose its look at the depth changes nothing: async is set already.
DoClose(x) ==
  /\ CloseStep(x, "do", IF isClose THEN "returned" ELSE "once")
  /\ UNCHANGED <<chan, wake, acks, bufv, once, sendv, workv, readv, hist>>

\* Any Close during a read is made asynchronous.
CloseDepth(x) ==
  /\ CloseStep(x, "depth", IF rdepth > 0 THEN "depthAsync" ELSE "once")
  /\ UNCHANGED <<chan, wake, acks, bufv, once, sendv, workv, readv, hist>>

DepthAsync(x) ==
  /\ CloseStep(x, "depthAsync", "once")
  /\ async' = TRUE
  /\ UNCHANGED <<chan, wake, ack, closeDone, bufv, once, sendv, workv, readv, hist>>

CloseOnce(x) ==
  /\ \/ once = "free" /\ once' = "busy" /\ CloseStep(x, "once", "flag")
     \/ once = "done" /\ UNCHANGED once /\ CloseStep(x, "once", "returned")
  /\ UNCHANGED <<chan, wake, acks, bufv, sendv, workv, readv, hist>>

CloseFlag(x) ==
  /\ CloseStep(x, "flag", "stop")
  /\ isClose' = TRUE
  /\ UNCHANGED <<stopped, box, queued, wake, acks, bufv, once, sendv, workv, readv, hist>>

\* RemoveChannel, StopEnqueue; state, closeChan and the connection follow.
CloseStop(x) ==
  /\ CloseStep(x, "stop", "rdepth")
  /\ stopped' = TRUE
  /\ UNCHANGED <<isClose, box, queued, wake, acks, bufv, once, sendv, workv, readv, hist>>

\* Mutant: a read in progress is not looked for.
LookReadDepthNot(x) ==
  /\ CloseStep(x, "rdepth", "call")
  /\ UNCHANGED <<chan, wake, acks, bufv, once, sendv, workv, readv, hist>>

LookReadDepth(x) ==
  /\ CloseStep(x, "rdepth", IF rdepth > 0 THEN "defer" ELSE "call")
  /\ UNCHANGED <<chan, wake, acks, bufv, once, sendv, workv, readv, hist>>

DeferStores(x) ==
  /\ CloseStep(x, "defer", "call")
  /\ deferRel' = TRUE
  /\ UNCHANGED <<chan, wake, acks, rdepth, buf, puts, once, sendv, workv, readv, hist>>

\* finalizeCloseTail: closeCall (not modelled), then finalizeSharedSendClose: did
\* the worker drain already, and if not, is its acknowledgement to be waited for?
FinalLooks(x) ==
  /\ CloseStep(x, "call", IF closeDone THEN "tail" ELSE IF async THEN "hookOnly" ELSE "stale")
  /\ UNCHANGED <<chan, wake, acks, bufv, once, sendv, workv, readv, hist>>

\* An acknowledgement from before is discarded, ...
DrainStale(x) ==
  /\ CloseStep(x, "stale", "hook") \/ CloseStep(x, "stale2", "hook2")
  /\ ack' = FALSE
  /\ UNCHANGED <<chan, wake, closeDone, async, bufv, once, sendv, workv, readv, hist>>

\* ... the channel is handed to the worker unless it is pending anyway, ...
CloseHooks(x) ==
  /\ CloseStep(x, "hookOnly", "tail") \/ CloseStep(x, "hook", "ack") \/ CloseStep(x, "hook2", "ack2")
  /\ pending' = TRUE
  /\ IF pending THEN UNCHANGED <<hooks, wakeup>> ELSE Hook
  /\ UNCHANGED <<chan, acks, bufv, once, sendv, workv, readv, hist>>

\* ... and its acknowledgement is waited for, twice SharedSendCloseTimeout.
AckComes(x) ==
  /\ ack /\ ack' = FALSE
  /\ CloseStep(x, "ack", "tail") \/ CloseStep(x, "ack2", "tail")
  /\ UNCHANGED <<chan, wake, closeDone, async, bufv, once, sendv, workv, readv, hist>>

AckTimeout(x) ==
  /\ CloseStep(x, "ack", "stale2") \/ CloseStep(x, "ack2", "tail")
  /\ UNCHANGED <<chan, wake, acks, bufv, once, sendv, workv, readv, hist>>

\* The end of finalizeCloseTail: the buffer, unless it is left to the reactor.
TailLooks(x) ==
  /\ CloseStep(x, "tail", IF deferRel \/ ~buf THEN "end" ELSE "put")
  /\ UNCHANGED <<chan, wake, acks, bufv, once, sendv, workv, readv, hist>>

TailPuts(x) ==
  /\ CloseStep(x, "put", "end")
  /\ buf' = FALSE /\ puts' = puts + 1
  /\ UNCHANGED <<chan, wake, acks, rdepth, deferRel, once, sendv, workv, readv, hist>>

CloseReturns(x) ==
  /\ CloseStep(x, "end", "returned")
  /\ once' = "done"
  /\ UNCHANGED <<chan, wake, acks, bufv, sendv, workv, readv, hist>>

-----------------------------------------------------------------------------
SenderStep(s) ==
  \/ Send(s) \/ SendLooks(s) \/ SendRefused(s) \/ SendSwaps(s) \/ SendLinks(s)
  \/ SendClosed(s) \/ SendMarks(s)

WorkerStep ==
  \/ Wake \/ Leave \/ NextChannel \/ FlushLooks \/ FlushProcesses \/ FlushClears \/ FlushMarks
  \/ \E n \in 0 .. MaxBatch : FlushTakes(n) \/ Drain(n)
  \/ \E n \in 0 .. 1 : FlushTakesAgain(n)
  \/ DrainStops \/ DrainAcks \/ DrainUnmarks \/ FlushPanics \/ RecoverDone \/ RecoverReturns

ReactorReads ==
  \/ BeginReactorRead \/ ReactorChecks \/ ReactorUses \/ CallbackReturns \/ ReactorClosed
  \/ EndReactorRead("end", "idle") \/ EndReactorRead("endBad", "close") \/ EndReactorRead("endLast", "gone")
  \/ EndLooks \/ EndStores \/ EndPuts

\* The steps of a Close under way.
CloseGoesOn(x) ==
  \/ SetAsync(x) \/ EarlyDefer(x) \/ EarlyDeferStores(x) \/ DoClose(x)
  \/ CloseDepth(x) \/ DepthAsync(x) \/ CloseOnce(x) \/ CloseFlag(x) \/ CloseStop(x)
  \/ LookReadDepth(x) \/ DeferStores(x) \/ FinalLooks(x) \/ DrainStale(x) \/ CloseHooks(x)
  \/ AckComes(x) \/ AckTimeout(x) \/ TailLooks(x) \/ TailPuts(x) \/ CloseReturns(x)

ClosingStep(x) == Close(x) \/ CloseFromReactor(x) \/ (pc[x] \notin {"idle", "returned"} /\ CloseGoesOn(x))

Next ==
  \/ \E s \in Senders : SenderStep(s)
  \/ WorkerStep
  \/ ReactorReads
  \/ \E x \in Callers : ClosingStep(x)

Spec == Init /\ [][Next]_vars

-----------------------------------------------------------------------------
(* Properties.                                                              *)

InBox == {box[x].item : x \in DOMAIN box}

\* A message has one fate: refused and released by Send, released once by the
\* worker, dropped by a panic, or still in the mailbox.
OneFate ==
  \A s \in Senders : \A k \in 1 .. sent[s] :
    LET m == <<s, k>>
        In(S) == IF m \in S THEN 1 ELSE 0
        inSend == k = sent[s] /\ spc[s] \in {"look", "swap", "refused"}
    IN released[m] + In(lost) + In(InBox) + In(Range(batch)) + (IF inSend THEN 1 ELSE 0) = 1

\* No wakeup is lost while the channel is open and the worker has not been stopped:
\* when every Send has returned and messages wait, the worker is at work or will wake
\* up and find the channel.  A stopped worker still goes through its queue
\* (drainShardQueue): until it is gone nothing that was handed to it is left behind.
NoLostWakeup ==
  (~isClose /\ wpc # "gone" /\ box # <<>> /\ \A s \in Senders : spc[s] = "idle")
    => wpc \notin {"wait", "next"} \/ (hooks > 0 /\ (wakeup \/ wpc = "next"))

\* Nobody puts the ring buffer back into the pool while the reactor reads into it
\* or parses it: whoever closes during the read leaves it to EndReactorRead.
NoPutDuringRead == [][puts' # puts => rpc \notin {"use", "callback"}]_vars

\* "等待读侧退出后再回收 readBuffer" (channel.go:671): the read side has its buffer
\* until it is through.  This does NOT hold with two reads: CloseFromReactor, called
\* by the overflow hook of a Send, leaves the buffer to EndReactorRead before it sets
\* isClose, so the read ends, releases it, and the next one still finds an open channel.
BufferThere == rpc \in {"use", "callback"} => buf

\* Steps of a closer from its decision to wait for the worker to the end of the wait.
Waiting == {"stale", "hook", "ack", "stale2", "hook2", "ack2"}

\* What the reactor thread's closes, plain ones in OnRead included, have to do with
\* the wait for the worker.  It never waits for the acknowledgement itself; while it
\* stands in closeOnce no other closer decides to wait; and CloseFromReactor comes
\* to closeOnce only when nobody waits.
NoWaitUnderReactor ==
  [][/\ pc'[Reactor] \notin Waiting
     /\ pc[Reactor] = "once" => \A x \in Callers : pc'[x] \in Waiting => pc[x] \in Waiting
     /\ pc[Reactor] = "do" /\ pc'[Reactor] = "once" => \A x \in Callers : pc'[x] \notin Waiting]_vars

\* "仅异步 hook worker drain，不阻塞 epoll/kqueue" (channel.go:587): a Close in OnRead
\* does not hold the reactor up.  This does NOT hold, and no run asserts it: another
\* goroutine's Close that looked at reactorReadDepth before the read began and has come
\* to its wait holds closeOnce, and Close in OnRead, past its look at isClose, stands
\* behind it (sync.Once) until the worker acknowledges or both timeouts are over.
ReactorNotHeld == pc[Reactor] = "once" => \A x \in Callers : pc[x] \notin Waiting

\* "仅执行一次" (channel.go:98): the close tail puts the ring buffer back once.  This
\* does NOT hold, and no run asserts it: EndReactorRead clears deferReadBufferRelease
\* before it releases, so the close tail of another goroutine releases as well.
PutOnce == puts <= 1
=============================================================================
