------------------------- MODULE SharedSendProofs -------------------------
(***************************************************************************)
(* Proofs about SharedSend for every set of senders and closers and every   *)
(* bound: nobody gives the read buffer back under a read, a close on the    *)
(* reactor's thread sets off no wait for the worker, every message has one  *)
(* fate, and no wakeup is lost while the channel is open.                   *)
(***************************************************************************)
EXTENDS SharedSend, FiniteSetTheorems, SequenceTheorems, TLAPS

-----------------------------------------------------------------------------
(* Close and the reactor's reads.                                           *)

ReadSteps == {"idle", "check", "use", "callback", "close", "end", "endBad", "endLast",
              "flag", "store", "put", "gone"}
Using == {"use", "callback"}
Reading == Using \cup {"check", "end", "endBad", "endLast"}

\* Behind the look at reactorReadDepth; behind isClose = TRUE.
PastLook == Waiting \cup {"call", "hookOnly", "tail"}
PastFlag == PastLook \cup {"stop", "rdepth", "defer", "put", "end", "returned"}
Entering == {"async", "early", "earlyDefer", "do"}
CloseSteps == PastFlag \cup Entering \cup {"idle", "depth", "depthAsync", "once", "flag"}
\* The reactor has asked for the asynchronous drain.
Asked == {"early", "earlyDefer", "do", "once", "flag", "stop", "rdepth", "defer", "call", "hookOnly"}

CloseTypes ==
  /\ pc \in [Callers -> CloseSteps] /\ rpc \in ReadSteps /\ after \in {"idle", "close", "gone"}
  /\ isClose \in BOOLEAN /\ async \in BOOLEAN /\ deferRel \in BOOLEAN

\* The reactor is counted in reactorReadDepth from BeginReactorRead to EndReactorRead.
Depth ==
  /\ rdepth \in {0, 1}
  /\ rpc \in Reading => rdepth = 1
  /\ rpc \in ReadSteps \ (Reading \cup {"close"}) => rdepth = 0

\* Whoever has come that far knows that the channel is marked closed.
Closed == (once = "done" => isClose) /\ \A x \in Callers : pc[x] \in PastFlag => isClose

\* A closer that is behind its look has left a buffer in use to the reactor.
LeftToReactor ==
  \A x \in Callers : /\ pc[x] \in PastLook /\ rpc \in Using => deferRel
                     /\ pc[x] = "put" => rpc \notin Using

\* Where the reactor closes from, and what it has asked for.
ReactorCloses ==
  /\ pc[Reactor] \in {"depth", "depthAsync"} => rpc = "callback"
  /\ pc[Reactor] \in Entering => rpc = "close"
  /\ pc[Reactor] \in Asked => async
  /\ pc[Reactor] \notin Waiting

CloseInv == CloseTypes /\ Depth /\ Closed /\ LeftToReactor /\ ReactorCloses

\* A step of Send or of the worker touches none of it.
LEMMA CloseElsewhere ==
  ASSUME CloseInv, UNCHANGED <<pc, rpc, after, isClose, async, deferRel, rdepth, once>>
  PROVE  CloseInv'
  BY DEF CloseInv, CloseTypes, Depth, Closed, LeftToReactor, ReactorCloses

\* SendClosed: the sender that closed goes on.
LEMMA CloseForgets ==
  ASSUME CloseInv, NEW s \in Senders, SendClosed(s)
  PROVE  CloseInv'
<1>1. /\ UNCHANGED <<rpc, after, isClose, async, deferRel, rdepth, once>>
      /\ pc' = [pc EXCEPT ![s] = "idle"] /\ s \in Callers /\ s # Reactor /\ Reactor \in Callers
  BY ActorsAssumption DEF SendClosed, Callers, chan, acks, bufv, readv
<1>2. pc' \in [Callers -> CloseSteps] /\ \A x \in Callers : pc'[x] = IF x = s THEN "idle" ELSE pc[x]
  BY <1>1 DEF CloseInv, CloseTypes, CloseSteps
<1> QED
  BY <1>1, <1>2 DEF CloseInv, CloseTypes, Depth, Closed, LeftToReactor, ReactorCloses,
                    PastFlag, PastLook, Waiting, Entering, Asked

\* A step of the reactor's reads.
LEMMA CloseReads ==
  ASSUME CloseInv, ReactorReads
  PROVE  CloseInv'
<1> USE DEF CloseInv, CloseTypes, Depth, Closed, LeftToReactor, ReactorCloses, ReactorStep,
            ReadSteps, Using, Reading
<1>0. Reactor \in Callers
  BY DEF Callers
<1>1. CASE BeginReactorRead
  BY <1>1 DEF BeginReactorRead, chan, acks, closev, PastLook, PastFlag, Waiting, Entering
<1>2. CASE ReactorChecks
  <2>1. CASE isClose
    BY <1>2, <2>1 DEF ReactorChecks, GiveUp, chan, acks, bufv, closev, Entering
  <2>2. CASE ~isClose
    BY <1>2, <2>2 DEF ReactorChecks, chan, acks, bufv, closev, PastFlag, PastLook, Entering
  <2> QED
    BY <2>1, <2>2
<1>3. CASE ReactorUses
  BY <1>3 DEF ReactorUses, GiveUp, chan, acks, bufv, closev, Entering
<1>4. CASE CallbackReturns
  <2>1. /\ rpc = "callback" /\ rpc' = "use" /\ pc' = [pc EXCEPT ![Reactor] = "idle"]
        /\ UNCHANGED <<after, isClose, async, deferRel, rdepth, once>>
    BY <1>4 DEF CallbackReturns, chan, acks, bufv
  <2>2. pc' \in [Callers -> CloseSteps] /\ \A x \in Callers : pc'[x] = IF x = Reactor THEN "idle" ELSE pc[x]
    BY <2>1 DEF CloseSteps
  <2> QED
    BY <1>0, <2>1, <2>2 DEF PastFlag, PastLook, Waiting, Entering, Asked
<1>5. CASE ReactorClosed
  BY <1>5 DEF ReactorClosed, chan, acks, bufv, closev, Entering
<1>6. ASSUME NEW f \in {"end", "endBad", "endLast"}, NEW t \in {"idle", "close", "gone"},
             f = "endLast" => t = "gone", EndReactorRead(f, t)
      PROVE  CloseInv'
  BY <1>6 DEF EndReactorRead, chan, acks, closev, Entering
<1>7. CASE EndReactorRead("end", "idle") \/ EndReactorRead("endBad", "close") \/ EndReactorRead("endLast", "gone")
  BY <1>6, <1>7
<1>8. CASE EndLooks
  BY <1>8 DEF EndLooks, chan, acks, bufv, closev, Entering
<1>9. CASE EndStores
  BY <1>9 DEF EndStores, chan, acks, closev, Entering
<1>10. CASE EndPuts
  BY <1>10 DEF EndPuts, chan, acks, closev, Entering
<1> QED
  BY <1>1, <1>2, <1>3, <1>4, <1>5, <1>7, <1>8, <1>9, <1>10 DEF ReactorReads

\* A closer x goes on to step l.  What l needs is what the guard of the step says.
LEMMA CloserMoves ==
  ASSUME CloseInv, NEW x \in Callers, NEW l \in CloseSteps, pc' = [pc EXCEPT ![x] = l],
         UNCHANGED <<rpc, after, rdepth>>,
         isClose => isClose', async => async', deferRel => deferRel',
         isClose' \in BOOLEAN, async' \in BOOLEAN, deferRel' \in BOOLEAN,
         once' = "done" => isClose', l \in PastFlag => isClose',
         l \in PastLook /\ rpc \in Using => deferRel', l = "put" => rpc \notin Using,
         x = Reactor => /\ l \in {"depth", "depthAsync"} => rpc = "callback"
                        /\ l \in Entering => rpc = "close"
                        /\ l \in Asked => async'
                        /\ l \notin Waiting
  PROVE  CloseInv'
<1> USE DEF CloseInv, CloseTypes
<1>0. /\ pc' \in [Callers -> CloseSteps] /\ Reactor \in Callers
      /\ \A y \in Callers : pc'[y] = IF y = x THEN l ELSE pc[y]
  BY DEF Callers
<1>1. CloseTypes' /\ Depth'
  BY <1>0 DEF Depth
<1>2. Closed'
  BY <1>0 DEF Closed
<1>3. LeftToReactor'
  BY <1>0 DEF LeftToReactor
<1>4. ReactorCloses'
  BY <1>0 DEF ReactorCloses
<1> QED
  BY <1>1, <1>2, <1>3, <1>4

\* A step of Close.
LEMMA CloseCloser ==
  ASSUME CloseInv, NEW x \in Callers, ClosingStep(x)
  PROVE  CloseInv'
<1> USE DEF CloseStep
<1>0. /\ CloseTypes /\ Depth /\ Closed /\ LeftToReactor /\ ReactorCloses
      /\ pc[x] \in CloseSteps /\ Reactor \in Callers /\ Reactor \notin Closers \cup Senders /\ Reactor # Worker
  BY ActorsAssumption DEF CloseInv, CloseTypes, Callers
<1>a. /\ isClose \in BOOLEAN /\ async \in BOOLEAN /\ deferRel \in BOOLEAN
      /\ once = "done" => isClose
      /\ pc[x] \in PastFlag => isClose
      /\ x = Reactor /\ pc[x] \in Asked => async
      /\ x = Reactor => pc[x] \notin Waiting
  BY <1>0 DEF CloseTypes, Closed, ReactorCloses
<1>b. /\ {"idle", "depth", "depthAsync", "async", "early", "earlyDefer", "do", "flag"} \subseteq CloseSteps \ PastFlag
      /\ "depth" \notin Asked \cup Entering /\ "depthAsync" \notin Asked \cup Entering /\ "async" \notin Asked
      /\ {"async", "early", "earlyDefer", "do"} = Entering /\ {"early", "earlyDefer", "do", "once", "flag"} \subseteq Asked
      /\ "flag" \notin Entering
  BY DEF CloseSteps, PastFlag, PastLook, Waiting, Entering, Asked
\* A step that changes nothing else, from f to l, in the part behind isClose.
<1>1. ASSUME NEW f \in PastFlag, NEW l \in PastFlag, CloseStep(x, f, l), l \notin Waiting \/ f \in Waiting,
             l \in PastLook => f \in PastLook, l # "put", x = Reactor /\ l \in Asked => f \in Asked,
             UNCHANGED <<isClose, async, deferRel, rpc, after, rdepth>>, once' = once \/ once' = "done"
      PROVE  CloseInv'
  <2>1. pc[x] = f /\ pc' = [pc EXCEPT ![x] = l] /\ isClose /\ l \in CloseSteps /\ l # "once"
    BY <1>1, <1>a DEF CloseSteps, PastFlag, PastLook, Waiting
  <2>3. l \in PastLook /\ rpc \in Using => deferRel
    BY <1>0, <1>1, <2>1 DEF LeftToReactor
  <2>4. x = Reactor => /\ l \notin {"depth", "depthAsync"} /\ l \notin Entering /\ (l \in Asked => async)
                       /\ l \notin Waiting
    BY <1>a, <1>1, <2>1 DEF PastFlag, PastLook, Waiting, Entering
  <2> QED
    BY <1>a, <1>1, <2>1, <2>3, <2>4, CloserMoves
\* A step of the way to isClose, from f to l.
<1>2. ASSUME NEW f \in CloseSteps \ PastFlag, NEW l \in CloseSteps \ PastFlag, CloseStep(x, f, l), l # "once",
             UNCHANGED <<isClose, rpc, after, rdepth>>, once' = once \/ once' = "busy",
             async => async', async' \in BOOLEAN, deferRel => deferRel', deferRel' \in BOOLEAN,
             x = Reactor => /\ l \in {"depth", "depthAsync"} => rpc = "callback"
                            /\ l \in Entering => rpc = "close"
                            /\ l \in Asked => async'
      PROVE  CloseInv'
  <2>1. /\ pc[x] = f /\ pc' = [pc EXCEPT ![x] = l] /\ l \notin PastFlag /\ l \notin PastLook /\ l \notin Waiting
        /\ l # "put" /\ l \in CloseSteps
    BY <1>2 DEF PastFlag, PastLook
  <2> QED
    BY <1>a, <1>2, <2>1, CloserMoves
<1>3. CASE Close(x)
  <2>1. /\ UNCHANGED <<isClose, async, deferRel, rpc, after, rdepth, once>> /\ pc[x] = "idle"
        /\ x = Reactor => rpc = "callback"
    BY <1>0, <1>3 DEF Close, chan, acks, bufv, readv
  <2>2. CASE isClose
    <3>1. pc' = [pc EXCEPT ![x] = "returned"]
      BY <1>3, <2>2 DEF Close
    <3> QED
      BY <1>a, <2>1, <2>2, <3>1, CloserMoves DEF CloseSteps, PastFlag, PastLook, Waiting, Entering, Asked
  <2>3. CASE ~isClose
    <3>1. CloseStep(x, "idle", "depth")
      BY <1>3, <2>3 DEF Close
    <3> QED
      BY <1>a, <1>b, <1>2, <2>1, <3>1
  <2> QED
    BY <2>2, <2>3
<1>4. CASE CloseFromReactor(x)
  <2> DEFINE l == IF isClose THEN "returned" ELSE "async"
  <2>1. /\ UNCHANGED <<isClose, async, deferRel, rpc, after, rdepth, once>> /\ pc[x] = "idle"
        /\ x = Reactor => rpc = "close"
        /\ pc' = [pc EXCEPT ![x] = l]
    BY <1>0, <1>4 DEF CloseFromReactor, chan, acks, bufv, readv
  <2>3. /\ l \in CloseSteps /\ (l \in PastFlag => isClose) /\ l \notin PastLook /\ l \notin Waiting /\ l # "put"
        /\ l # "once" /\ l \notin {"depth", "depthAsync"} /\ l \notin Asked
    BY DEF CloseSteps, PastFlag, PastLook, Waiting, Entering, Asked
  <2> HIDE DEF l
  <2> QED
    BY <1>a, <2>1, <2>3, CloserMoves
<1>5. CASE SetAsync(x)
  <2>1. /\ CloseStep(x, "async", "early") /\ async' = TRUE
        /\ UNCHANGED <<isClose, deferRel, rpc, after, rdepth, once>>
    BY <1>5 DEF SetAsync, chan, bufv, readv
  <2>2. x = Reactor => rpc = "close"
    BY <1>0, <1>b, <2>1 DEF ReactorCloses
  <2> QED
    BY <1>a, <1>b, <1>2, <2>1, <2>2
<1>6. CASE EarlyDefer(x)
  <2>1. /\ CloseStep(x, "early", "earlyDefer") \/ CloseStep(x, "early", "do")
        /\ UNCHANGED <<isClose, async, deferRel, rpc, after, rdepth, once>>
    BY <1>6 DEF EarlyDefer, chan, acks, bufv, readv
  <2>2. x = Reactor => rpc = "close" /\ async
    BY <1>0, <1>a, <1>b, <2>1 DEF ReactorCloses
  <2> QED
    BY <1>a, <1>b, <1>2, <2>1, <2>2
<1>7. CASE EarlyDeferStores(x)
  <2>1. /\ CloseStep(x, "earlyDefer", "do") /\ deferRel' = TRUE
        /\ UNCHANGED <<isClose, async, rpc, after, rdepth, once>>
    BY <1>7 DEF EarlyDeferStores, chan, acks, readv
  <2>2. x = Reactor => rpc = "close" /\ async
    BY <1>0, <1>a, <1>b, <2>1 DEF ReactorCloses
  <2> QED
    BY <1>a, <1>b, <1>2, <2>1, <2>2
<1>8. CASE DoClose(x)
  <2> DEFINE l == IF isClose THEN "returned" ELSE "once"
  <2>1. /\ UNCHANGED <<isClose, async, deferRel, rpc, after, rdepth, once>> /\ pc[x] = "do"
        /\ pc' = [pc EXCEPT ![x] = l]
    BY <1>0, <1>8 DEF DoClose, chan, acks, bufv, readv
  <2>2. /\ l \in CloseSteps /\ (l \in PastFlag => isClose) /\ l \notin PastLook /\ l \notin Waiting /\ l # "put"
        /\ l \notin {"depth", "depthAsync"} /\ l \notin Entering
    BY DEF CloseSteps, PastFlag, PastLook, Waiting, Entering, Asked
  <2>3. x = Reactor => async
    BY <1>a, <2>1 DEF Asked
  <2> HIDE DEF l
  <2> QED
    BY <1>a, <2>1, <2>2, <2>3, CloserMoves
\* To closeOnce, from Close.
<1>9. ASSUME CloseStep(x, "depth", "once") \/ CloseStep(x, "depthAsync", "once"),
             UNCHANGED <<isClose, deferRel, rpc, after, rdepth, once>>,
             async => async', async' \in BOOLEAN, x = Reactor => async'
      PROVE  CloseInv'
  <2>1. pc[x] \in {"depth", "depthAsync"} /\ pc' = [pc EXCEPT ![x] = "once"]
    BY <1>9
  <2>2. "once" \in CloseSteps /\ "once" \notin PastFlag /\ "once" \notin PastLook /\ "once" \notin Waiting
        /\ "once" \notin Entering
    BY DEF CloseSteps, PastFlag, PastLook, Waiting, Entering
  <2> QED
    BY <1>a, <1>9, <2>1, <2>2, CloserMoves
<1>10. CASE CloseDepth(x)
  <2>1. /\ UNCHANGED <<isClose, async, deferRel, rpc, after, rdepth, once>> /\ pc[x] = "depth"
        /\ x = Reactor => rpc = "callback" /\ rdepth > 0
    BY <1>0, <1>10 DEF CloseDepth, chan, acks, bufv, readv, ReactorCloses, Depth, Reading, Using
  <2>2. CASE rdepth > 0
    <3>1. CloseStep(x, "depth", "depthAsync")
      BY <1>10, <2>2 DEF CloseDepth
    <3> QED
      BY <1>a, <1>b, <1>2, <2>1, <3>1
  <2>3. CASE ~(rdepth > 0)
    BY <1>a, <1>9, <1>10, <2>1, <2>3 DEF CloseDepth
  <2> QED
    BY <2>2, <2>3
<1>11. CASE DepthAsync(x)
  BY <1>a, <1>9, <1>11 DEF DepthAsync, chan, bufv, readv
<1>12. CASE CloseOnce(x)
  <2>1. UNCHANGED <<isClose, async, deferRel, rpc, after, rdepth>> /\ pc[x] = "once"
    BY <1>12 DEF CloseOnce, chan, acks, bufv, readv
  <2>2. CASE once' = "busy" /\ CloseStep(x, "once", "flag")
    <3>1. "once" \in CloseSteps \ PastFlag
      BY DEF CloseSteps, PastFlag, PastLook, Waiting
    <3> QED
      BY <1>a, <1>b, <1>2, <2>1, <2>2, <3>1
  <2>3. CASE once = "done" /\ UNCHANGED once /\ CloseStep(x, "once", "returned")
    <3> QED
      BY <1>a, <2>1, <2>3, CloserMoves DEF CloseSteps, PastFlag, PastLook, Waiting, Entering, Asked
  <2> QED
    BY <1>12, <2>2, <2>3 DEF CloseOnce
<1>13. CASE CloseFlag(x)
  <2>1. /\ UNCHANGED <<async, deferRel, rpc, after, rdepth, once>> /\ isClose' = TRUE
        /\ pc[x] = "flag" /\ pc' = [pc EXCEPT ![x] = "stop"]
    BY <1>13 DEF CloseFlag, acks, bufv, readv
  <2>3. x = Reactor => async
    BY <1>a, <2>1 DEF Asked
  <2> QED
    BY <1>a, <2>1, <2>3, CloserMoves DEF CloseSteps, PastFlag, PastLook, Waiting, Entering, Asked
<1>14. CASE CloseStop(x)
  BY <1>1, <1>14 DEF CloseStop, acks, bufv, readv, PastFlag, PastLook, Waiting, Asked
<1>15. CASE LookReadDepth(x)
  <2>1. UNCHANGED <<isClose, async, deferRel, rpc, after, rdepth, once>> /\ pc[x] = "rdepth"
    BY <1>15 DEF LookReadDepth, chan, acks, bufv, readv
  <2>2. CASE rdepth > 0
    BY <1>1, <1>15, <2>1, <2>2 DEF LookReadDepth, PastFlag, PastLook, Waiting, Asked
  <2>3. CASE ~(rdepth > 0)
    <3>1. pc' = [pc EXCEPT ![x] = "call"] /\ rpc \notin Using
      BY <1>0, <1>15, <2>3 DEF LookReadDepth, Depth, Reading
    <3>2. isClose /\ (x = Reactor => async)
      BY <1>a, <2>1 DEF PastFlag, Asked
    <3> QED
      BY <1>a, <2>1, <3>1, <3>2, CloserMoves DEF CloseSteps, PastFlag, PastLook, Waiting, Entering
  <2> QED
    BY <2>2, <2>3
<1>16. CASE DeferStores(x)
  <2>1. /\ UNCHANGED <<isClose, async, rpc, after, rdepth, once>> /\ deferRel' = TRUE
        /\ pc[x] = "defer" /\ pc' = [pc EXCEPT ![x] = "call"]
    BY <1>16 DEF DeferStores, chan, acks, readv
  <2>2. isClose /\ (x = Reactor => async)
    BY <1>a, <2>1 DEF PastFlag, Asked
  <2> QED
    BY <1>a, <2>1, <2>2, CloserMoves DEF CloseSteps, PastFlag, PastLook, Waiting, Entering
<1>17. CASE FinalLooks(x)
  <2>1. UNCHANGED <<isClose, async, deferRel, rpc, after, rdepth, once>> /\ pc[x] = "call"
    BY <1>17 DEF FinalLooks, chan, acks, bufv, readv
  <2>2. CASE closeDone \/ async
    <3>1. CloseStep(x, "call", "tail") \/ CloseStep(x, "call", "hookOnly")
      BY <1>17, <2>2 DEF FinalLooks
    <3> QED
      BY <1>1, <2>1, <3>1 DEF PastFlag, PastLook, Waiting, Asked
  <2>3. CASE ~closeDone /\ ~async
    <3>1. pc' = [pc EXCEPT ![x] = "stale"] /\ x # Reactor /\ isClose
      BY <1>a, <1>17, <2>1, <2>3 DEF FinalLooks, Asked, PastFlag, PastLook
    <3>3. rpc \in Using => deferRel
      BY <1>0, <2>1 DEF LeftToReactor, PastLook
    <3> QED
      BY <1>a, <2>1, <3>1, <3>3, CloserMoves DEF CloseSteps, PastFlag, PastLook, Waiting
  <2> QED
    BY <2>2, <2>3
<1>18. CASE DrainStale(x)
  BY <1>1, <1>18 DEF DrainStale, chan, bufv, readv, PastFlag, PastLook, Waiting, Asked
<1>19. CASE CloseHooks(x)
  BY <1>1, <1>19 DEF CloseHooks, chan, acks, bufv, readv, PastFlag, PastLook, Waiting, Asked
<1>20. CASE AckComes(x)
  BY <1>1, <1>20 DEF AckComes, chan, bufv, readv, PastFlag, PastLook, Waiting, Asked
<1>21. CASE AckTimeout(x)
  BY <1>1, <1>21 DEF AckTimeout, chan, acks, bufv, readv, PastFlag, PastLook, Waiting, Asked
<1>22. CASE TailLooks(x)
  <2>1. UNCHANGED <<isClose, async, deferRel, rpc, after, rdepth, once>> /\ pc[x] = "tail"
    BY <1>22 DEF TailLooks, chan, acks, bufv, readv
  <2>2. CASE deferRel \/ ~buf
    BY <1>1, <1>22, <2>1, <2>2 DEF TailLooks, PastFlag, PastLook, Waiting, Asked
  <2>3. CASE ~(deferRel \/ ~buf)
    <3>1. pc' = [pc EXCEPT ![x] = "put"] /\ isClose /\ rpc \notin Using
      BY <1>0, <1>a, <1>22, <2>1, <2>3 DEF TailLooks, LeftToReactor, PastFlag, PastLook
    <3> QED
      BY <1>a, <2>1, <3>1, CloserMoves DEF CloseSteps, PastFlag, PastLook, Waiting, Entering, Asked
  <2> QED
    BY <2>2, <2>3
<1>23. CASE TailPuts(x)
  BY <1>1, <1>23 DEF TailPuts, chan, acks, readv, PastFlag, PastLook, Waiting, Asked
<1>24. CASE CloseReturns(x)
  BY <1>1, <1>24 DEF CloseReturns, chan, acks, bufv, readv, PastFlag, PastLook, Waiting, Asked
<1> QED
  BY <1>3, <1>4, <1>5, <1>6, <1>7, <1>8, <1>10, <1>11, <1>12, <1>13, <1>14, <1>15, <1>16, <1>17, <1>18, <1>19,
     <1>20, <1>21, <1>22, <1>23, <1>24 DEF ClosingStep, CloseGoesOn

\* The worker, and a Send that is not coming back from a close.
LEMMA CloseOthers ==
  ASSUME CloseInv, WorkerStep \/ (\E s \in Senders : SenderStep(s)) \/ UNCHANGED vars
  PROVE  CloseInv'
<1>1. CASE WorkerStep
  BY <1>1, CloseElsewhere DEF WorkerStep, Wake, Leave, NextChannel, FlushLooks, FlushProcesses, FlushClears, FlushMarks,
       FlushTakes, Drain, FlushTakesAgain, DrainStops, DrainAcks, DrainUnmarks, FlushPanics, RecoverDone,
       RecoverReturns, chan, acks, bufv, closev, readv
<1>2. ASSUME NEW s \in Senders, SenderStep(s) PROVE CloseInv'
  <2>1. CASE SendClosed(s)
    BY <2>1, CloseForgets
  <2>2. CASE ~SendClosed(s)
    BY <1>2, <2>2, CloseElsewhere DEF SenderStep, Send, SendLooks, SendRefused, SendSwaps, SendLinks, SendMarks,
         chan, acks, bufv, closev, readv
  <2> QED
    BY <2>1, <2>2
<1>3. CASE UNCHANGED vars
  BY <1>3, CloseElsewhere DEF vars, chan, acks, bufv, closev, readv
<1> QED
  BY <1>1, <1>2, <1>3

LEMMA CloseInit == Init => CloseInv
<1> SUFFICES ASSUME Init PROVE CloseInv
  OBVIOUS
<1>1. pc \in [Callers -> CloseSteps] /\ \A x \in Callers : pc[x] = "idle"
  BY DEF Init, CloseSteps
<1>2. Reactor \in Callers
  BY DEF Callers
<1> QED
  BY <1>1, <1>2 DEF Init, CloseInv, CloseTypes, Depth, Closed, LeftToReactor, ReactorCloses, ReadSteps,
                    Reading, Using, PastFlag, PastLook, Waiting, Entering, Asked

LEMMA CloseStepHolds == CloseInv /\ [Next]_vars => CloseInv'
  BY CloseReads, CloseCloser, CloseOthers DEF Next

\* The invariant of Close and the reactor's reads holds.
THEOREM CloseHolds == Spec => []CloseInv
  BY CloseInit, CloseStepHolds, PTL DEF Spec

\* Outside Close a step of a closer is at most forgotten (CallbackReturns, SendClosed).
LEMMA OnlyForgets ==
  ASSUME WorkerStep \/ ReactorReads \/ (\E s \in Senders : SenderStep(s)) \/ UNCHANGED vars
  PROVE  UNCHANGED pc \/ \E y \in Callers : pc' = [pc EXCEPT ![y] = "idle"]
<1>0. Reactor \in Callers
  BY DEF Callers
<1>1. CASE WorkerStep
  BY <1>1 DEF WorkerStep, Wake, Leave, NextChannel, FlushLooks, FlushProcesses, FlushClears, FlushMarks,
       FlushTakes, Drain, FlushTakesAgain, DrainStops, DrainAcks, DrainUnmarks, FlushPanics, RecoverDone,
       RecoverReturns, closev
<1>2. CASE ReactorReads
  BY <1>0, <1>2 DEF ReactorReads, BeginReactorRead, ReactorChecks, ReactorUses, CallbackReturns,
       ReactorClosed, EndReactorRead, EndLooks, EndStores, EndPuts, closev
<1>3. ASSUME NEW s \in Senders, SenderStep(s)
      PROVE  UNCHANGED pc \/ \E y \in Callers : pc' = [pc EXCEPT ![y] = "idle"]
  BY <1>3 DEF SenderStep, Send, SendLooks, SendRefused, SendSwaps, SendLinks, SendClosed, SendMarks,
       closev, Callers
<1>4. CASE UNCHANGED vars
  BY <1>4 DEF vars, closev
<1> QED
  BY <1>1, <1>2, <1>3, <1>4

\* A closer that decides to wait for the worker has found that nobody asked for the
\* asynchronous drain.
LEMMA WaitsUnasked ==
  ASSUME CloseInv, [Next]_vars, NEW x \in Callers, pc'[x] \in Waiting, pc[x] \notin Waiting
  PROVE  ~async
<1> USE DEF CloseStep
<1>0. pc \in [Callers -> CloseSteps] /\ Reactor \in Callers
  BY DEF CloseInv, CloseTypes, Callers
<1>1. ASSUME NEW y \in Callers, ClosingStep(y), ~FinalLooks(y), pc[y] \notin Waiting
      PROVE  pc' = pc \/ \E l \in CloseSteps \ Waiting : pc' = [pc EXCEPT ![y] = l]
  BY <1>1 DEF ClosingStep, CloseGoesOn, Close, CloseFromReactor, SetAsync, EarlyDefer, EarlyDeferStores, DoClose,
       CloseDepth, DepthAsync, CloseOnce, CloseFlag, CloseStop, LookReadDepth, DeferStores, DrainStale,
       CloseHooks, AckComes, AckTimeout, TailLooks, TailPuts, CloseReturns, CloseSteps, PastFlag, PastLook,
       Waiting, Entering
<1>2. ASSUME NEW y \in Callers, ClosingStep(y), y # x PROVE FALSE
  <2>1. \E l : pc' = [pc EXCEPT ![y] = l]
    BY <1>2 DEF ClosingStep, CloseGoesOn, Close, CloseFromReactor, SetAsync, EarlyDefer, EarlyDeferStores, DoClose,
         CloseDepth, DepthAsync, CloseOnce, CloseFlag, CloseStop, LookReadDepth, DeferStores, FinalLooks,
         DrainStale, CloseHooks, AckComes, AckTimeout, TailLooks, TailPuts, CloseReturns
  <2> QED
    BY <1>0, <1>2, <2>1
<1>3. CASE ClosingStep(x)
  <2>1. CASE FinalLooks(x)
    BY <1>0, <1>3, <2>1 DEF FinalLooks, Waiting
  <2>2. CASE ~FinalLooks(x)
    BY <1>0, <1>1, <1>3, <2>2
  <2> QED
    BY <2>1, <2>2
<1>4. CASE WorkerStep \/ ReactorReads \/ (\E s \in Senders : SenderStep(s)) \/ UNCHANGED vars
  <2>1. UNCHANGED pc \/ \E y \in Callers : pc' = [pc EXCEPT ![y] = "idle"]
    BY <1>4, OnlyForgets
  <2> QED
    BY <1>0, <2>1 DEF Waiting
<1> QED
  BY <1>2, <1>3, <1>4 DEF Next

\* CloseFromReactor comes to closeOnce on a channel that is not marked closed.
LEMMA ReactorEnters ==
  ASSUME CloseInv, [Next]_vars, pc[Reactor] = "do", pc'[Reactor] = "once"
  PROVE  ~isClose
<1> USE DEF CloseStep
<1>0. pc \in [Callers -> CloseSteps] /\ Reactor \in Callers
  BY DEF CloseInv, CloseTypes, Callers
<1>1. ASSUME NEW y \in Callers, ClosingStep(y), y # Reactor PROVE FALSE
  <2>1. \E l : pc' = [pc EXCEPT ![y] = l]
    BY <1>1 DEF ClosingStep, CloseGoesOn, Close, CloseFromReactor, SetAsync, EarlyDefer, EarlyDeferStores, DoClose,
         CloseDepth, DepthAsync, CloseOnce, CloseFlag, CloseStop, LookReadDepth, DeferStores, FinalLooks,
         DrainStale, CloseHooks, AckComes, AckTimeout, TailLooks, TailPuts, CloseReturns
  <2> QED
    BY <1>0, <1>1, <2>1
<1>2. CASE ClosingStep(Reactor)
  BY <1>0, <1>2 DEF ClosingStep, CloseGoesOn, Close, CloseFromReactor, SetAsync, EarlyDefer, EarlyDeferStores, DoClose,
       CloseDepth, DepthAsync, CloseOnce, CloseFlag, CloseStop, LookReadDepth, DeferStores, FinalLooks,
       DrainStale, CloseHooks, AckComes, AckTimeout, TailLooks, TailPuts, CloseReturns
<1>3. CASE WorkerStep \/ ReactorReads \/ (\E s \in Senders : SenderStep(s)) \/ UNCHANGED vars
  <2>1. UNCHANGED pc \/ \E y \in Callers : pc' = [pc EXCEPT ![y] = "idle"]
    BY <1>3, OnlyForgets
  <2> QED
    BY <1>0, <2>1
<1> QED
  BY <1>1, <1>2, <1>3 DEF Next

\* NoWaitUnderReactor: the reactor's thread never waits for the acknowledgement, no
\* closer begins to wait while the reactor stands in closeOnce, and CloseFromReactor
\* comes there only when nobody waits.
THEOREM ReactorStartsNoWait == Spec => NoWaitUnderReactor
<1> DEFINE A ==
      /\ pc'[Reactor] \notin Waiting
      /\ pc[Reactor] = "once" => \A x \in Callers : pc'[x] \in Waiting => pc[x] \in Waiting
      /\ pc[Reactor] = "do" /\ pc'[Reactor] = "once" => \A x \in Callers : pc'[x] \notin Waiting
<1>1. ASSUME CloseInv, CloseInv', [Next]_vars PROVE A
  <2>1. pc'[Reactor] \notin Waiting
    BY <1>1 DEF CloseInv, ReactorCloses
  <2>2. ASSUME pc[Reactor] = "once", NEW x \in Callers, pc'[x] \in Waiting PROVE pc[x] \in Waiting
    <3>1. async
      BY <1>1, <2>2 DEF CloseInv, ReactorCloses, Asked
    <3> QED
      BY <1>1, <2>2, <3>1, WaitsUnasked
  <2>3. ASSUME pc[Reactor] = "do", pc'[Reactor] = "once", NEW x \in Callers PROVE pc'[x] \notin Waiting
    <3>1. async
      BY <1>1, <2>3 DEF CloseInv, ReactorCloses, Asked
    <3>2. pc'[x] \in Waiting => pc[x] \in Waiting
      BY <1>1, <3>1, WaitsUnasked
    <3>3. pc[x] \in Waiting => isClose
      BY <1>1 DEF CloseInv, Closed, PastFlag, PastLook
    <3>4. ~isClose
      BY <1>1, <2>3, ReactorEnters
    <3> QED
      BY <3>2, <3>3, <3>4
  <2> QED
    BY <2>1, <2>2, <2>3
<1>2. CloseInv /\ CloseInv' /\ [Next]_vars => [A]_vars
  BY <1>1
<1>3. Spec => [][A]_vars
  BY <1>2, CloseHolds, PTL DEF Spec
<1> QED
  BY <1>3 DEF NoWaitUnderReactor

\* NoPutDuringRead: releaseReadBuffer never runs while the reactor reads into the
\* buffer or parses it.
THEOREM BufferStays == Spec => NoPutDuringRead
<1>1. ASSUME CloseInv, [Next]_vars PROVE [puts' # puts => rpc \notin {"use", "callback"}]_vars
  <2>1. CASE UNCHANGED vars
    BY <2>1
  <2>2. CASE WorkerStep
    BY <2>2 DEF WorkerStep, Wake, Leave, NextChannel, FlushLooks, FlushProcesses, FlushClears, FlushMarks,
         FlushTakes, Drain, FlushTakesAgain, DrainStops, DrainAcks, DrainUnmarks, FlushPanics, RecoverDone,
         RecoverReturns, bufv
  <2>3. ASSUME NEW s \in Senders, SenderStep(s) PROVE UNCHANGED puts
    BY <2>3 DEF SenderStep, Send, SendLooks, SendRefused, SendSwaps, SendLinks, SendMarks, SendClosed, bufv
  <2>4. CASE ReactorReads
    BY <2>4 DEF ReactorReads, BeginReactorRead, ReactorChecks, ReactorUses, CallbackReturns, ReactorClosed,
         EndReactorRead, EndLooks, EndStores, EndPuts, ReactorStep, bufv
  <2>5. ASSUME NEW x \in Callers, ClosingStep(x) PROVE puts' # puts => rpc \notin {"use", "callback"}
    <3>1. CASE TailPuts(x)
      BY <1>1, <3>1 DEF TailPuts, CloseStep, CloseInv, LeftToReactor, Using
    <3>2. CASE ~TailPuts(x)
      BY <2>5, <3>2 DEF ClosingStep, CloseGoesOn, Close, CloseFromReactor, SetAsync, EarlyDefer, EarlyDeferStores, DoClose,
           CloseDepth, DepthAsync, CloseOnce, CloseFlag, CloseStop, LookReadDepth, DeferStores, FinalLooks,
           DrainStale, CloseHooks, AckComes, AckTimeout, TailLooks, CloseReturns, bufv
    <3> QED
      BY <3>1, <3>2
  <2> QED
    BY <1>1, <2>1, <2>2, <2>3, <2>4, <2>5 DEF Next
<1> QED
  BY <1>1, CloseHolds, PTL DEF Spec, NoPutDuringRead

-----------------------------------------------------------------------------
(* The fate of a message.                                                   *)

Entry == [item : Msgs, linked : BOOLEAN]
SendSteps == {"idle", "look", "swap", "link", "mark", "overflow", "refused"}

FateTypes ==
  /\ sent \in [Senders -> 0 .. MaxMsgs] /\ spc \in [Senders -> SendSteps]
  /\ box \in Seq(Entry) /\ batch \in Seq(Msgs)
  /\ released \in [Msgs -> Nat] /\ lost \subseteq Msgs
  /\ \A s \in Senders : spc[s] # "idle" => sent[s] >= 1

\* The Send of s still holds its message; a message that was begun and is not held.
Held(m) == m[2] = sent[m[1]] /\ spc[m[1]] \in {"look", "swap", "refused"}
Given(m) == m[2] <= sent[m[1]] /\ ~Held(m)

InBatch == {batch[x] : x \in DOMAIN batch}

\* The mailbox, the worker's batch and what a panic dropped are different messages,
\* each once, and only such that a Send has let go of.
Places ==
  /\ \A x, y \in DOMAIN box : box[x].item = box[y].item => x = y
  /\ \A x, y \in DOMAIN batch : batch[x] = batch[y] => x = y
  /\ \A x \in DOMAIN box : Given(box[x].item) /\ box[x].item \notin InBatch \cup lost
  /\ \A x \in DOMAIN batch : Given(batch[x]) /\ batch[x] \notin lost
  /\ \A m \in lost : Given(m)
  /\ wpc \notin {"process", "mark"} => batch = <<>>

\* What is neither held nor in one of the three places was released once.
Fates == \A m \in Msgs : released[m] = IF Given(m) /\ m \notin InBox \cup InBatch \cup lost THEN 1 ELSE 0

FateInv == FateTypes /\ Places /\ Fates

\* A message that is not linked yet is the one its sender is about to link.
Links ==
  \A x \in DOMAIN box : ~box[x].linked =>
    \E s \in Senders : box[x].item = <<s, sent[s]>> /\ spc[s] = "link"

\* The fates say what OneFate counts.
LEMMA FatesSay == FateInv => OneFate
<1> SUFFICES ASSUME FateInv, NEW s \in Senders, NEW k \in 1 .. sent[s]
             PROVE  released[<<s, k>>] + (IF <<s, k>> \in lost THEN 1 ELSE 0) + (IF <<s, k>> \in InBox THEN 1 ELSE 0)
                      + (IF <<s, k>> \in InBatch THEN 1 ELSE 0)
                      + (IF k = sent[s] /\ spc[s] \in {"look", "swap", "refused"} THEN 1 ELSE 0) = 1
  BY DEF OneFate, InBatch, Range
<1> DEFINE m == <<s, k>>
<1>1. sent[s] \in 0 .. MaxMsgs /\ MaxMsgs \in Nat
  BY BoundAssumption DEF FateInv, FateTypes
<1>2. m \in Msgs /\ k <= sent[s] /\ m[1] = s /\ m[2] = k
  BY <1>1 DEF Msgs
<1>3. /\ m \in InBox => Given(m) /\ m \notin InBatch \cup lost
      /\ m \in InBatch => Given(m) /\ m \notin lost
      /\ m \in lost => Given(m)
  BY DEF FateInv, Places, InBox, InBatch
<1>4. released[m] = IF Given(m) /\ m \notin InBox \cup InBatch \cup lost THEN 1 ELSE 0
  BY <1>2 DEF FateInv, Fates
<1>5. Given(m) <=> ~(k = sent[s] /\ spc[s] \in {"look", "swap", "refused"})
  BY <1>1, <1>2 DEF Given, Held
<1> HIDE DEF m
<1> QED
  BY <1>3, <1>4, <1>5 DEF m

\* A step that moves no message and releases none.
LEMMA FateElsewhere ==
  ASSUME FateInv, UNCHANGED <<sent, spc, box, batch, released, lost>>,
         wpc' = wpc \/ wpc' \in {"process", "mark"} \/ batch = <<>>
  PROVE  FateInv'
<1>1. \A m : (Given(m)' <=> Given(m))
  BY DEF Given, Held
<1>2. InBox' = InBox /\ InBatch' = InBatch
  BY DEF InBox, InBatch
<1> QED
  BY <1>1, <1>2 DEF FateInv, FateTypes, Places, Fates

\* What the types say of the entries of the mailbox and of the batch.
LEMMA FateElements ==
  ASSUME FateTypes
  PROVE  /\ \A m \in Msgs : m[1] \in Senders /\ m[2] \in Nat /\ m = <<m[1], m[2]>>
         /\ DOMAIN box = 1 .. Len(box) /\ Len(box) \in Nat
         /\ \A x \in DOMAIN box : box[x] \in Entry /\ box[x].item \in Msgs
         /\ DOMAIN batch = 1 .. Len(batch) /\ Len(batch) \in Nat
         /\ \A x \in DOMAIN batch : batch[x] \in Msgs
         /\ \A m \in Msgs : sent[m[1]] \in Nat
<1>1. \A m \in Msgs : m[1] \in Senders /\ m[2] \in Nat /\ m = <<m[1], m[2]>>
  BY BoundAssumption DEF Msgs
<1>2. /\ DOMAIN box = 1 .. Len(box) /\ Len(box) \in Nat /\ \A x \in DOMAIN box : box[x] \in Entry
      /\ DOMAIN batch = 1 .. Len(batch) /\ Len(batch) \in Nat /\ \A x \in DOMAIN batch : batch[x] \in Msgs
  BY LenProperties DEF FateTypes
<1>3. \A m \in Msgs : sent[m[1]] \in Nat
  BY <1>1, BoundAssumption DEF FateTypes
<1>4. \A x \in DOMAIN box : box[x].item \in Msgs
  BY <1>2 DEF Entry
<1> QED
  BY <1>1, <1>2, <1>3, <1>4

\* A step of Send that neither moves nor lets go of a message.
LEMMA FateHeld ==
  ASSUME FateInv, FateTypes', UNCHANGED <<box, batch, released, lost, wpc>>,
         \A m \in Msgs : Given(m)' <=> Given(m)
  PROVE  FateInv'
<1>1. InBox' = InBox /\ InBatch' = InBatch
  BY DEF InBox, InBatch
<1>2. /\ \A x \in DOMAIN box : box[x].item \in Msgs
      /\ \A x \in DOMAIN batch : batch[x] \in Msgs
      /\ \A m \in lost : m \in Msgs
  BY FateElements DEF FateInv, FateTypes
<1> QED
  BY <1>1, <1>2 DEF FateInv, Places, Fates

\* The steps of a Send.
LEMMA FateSender ==
  ASSUME FateInv, NEW s \in Senders, SenderStep(s)
  PROVE  FateInv'
<1> DEFINE me == <<s, sent[s]>>
<1>0. FateTypes /\ Places /\ Fates /\ sent[s] \in 0 .. MaxMsgs /\ MaxMsgs \in Nat /\ spc[s] \in SendSteps
  BY BoundAssumption DEF FateInv, FateTypes
<1>a. /\ \A m \in Msgs : m[1] \in Senders /\ m[2] \in Nat /\ m = <<m[1], m[2]>> /\ sent[m[1]] \in Nat
      /\ DOMAIN box = 1 .. Len(box) /\ Len(box) \in Nat
      /\ \A x \in DOMAIN box : box[x] \in Entry /\ box[x].item \in Msgs
      /\ DOMAIN batch = 1 .. Len(batch) /\ Len(batch) \in Nat
      /\ \A x \in DOMAIN batch : batch[x] \in Msgs
      /\ \A m \in lost : m \in Msgs
  BY <1>0, FateElements DEF FateTypes
<1>1. CASE Send(s)
  <2>1. /\ sent' = [sent EXCEPT ![s] = sent[s] + 1] /\ sent[s] < MaxMsgs
        /\ spc[s] = "idle" /\ spc' = [spc EXCEPT ![s] = spc'[s]] /\ spc'[s] \in {"refused", "look"}
        /\ UNCHANGED <<box, batch, released, lost, wpc>>
    BY <1>0, <1>1 DEF Send, SendStep, FateTypes, chan, workv, hist
  <2>2. sent' \in [Senders -> 0 .. MaxMsgs] /\ \A t \in Senders : spc'[t] # "idle" => sent'[t] >= 1
    BY <1>0, <2>1 DEF FateTypes
  <2>3. FateTypes'
    BY <1>0, <2>1, <2>2 DEF FateTypes, SendSteps
  <2>4. \A m \in Msgs : Given(m)' <=> Given(m)
    BY <1>0, <1>a, <2>1 DEF Given, Held, FateTypes
  <2> QED
    BY <2>1, <2>3, <2>4, FateHeld
<1>2. CASE SendLooks(s) \/ SendClosed(s) \/ SendMarks(s)
  <2>1. /\ spc' = [spc EXCEPT ![s] = spc'[s]]
        /\ \/ spc[s] = "look" /\ spc'[s] \in {"swap", "refused"}
           \/ spc[s] = "overflow" /\ spc'[s] = "mark"
           \/ spc[s] = "mark" /\ spc'[s] = "idle"
        /\ UNCHANGED <<sent, box, batch, released, lost, wpc>>
    BY <1>0, <1>2 DEF SendLooks, SendClosed, SendMarks, SendStep, FateTypes, chan, workv, hist
  <2>2. FateTypes'
    BY <1>0, <2>1 DEF FateTypes, SendSteps
  <2>3. \A m \in Msgs : Given(m)' <=> Given(m)
    BY <1>0, <1>a, <2>1 DEF Given, Held, FateTypes
  <2> QED
    BY <2>1, <2>2, <2>3, FateHeld
<1>3. ASSUME spc[s] \in {"refused", "swap"}, spc' = [spc EXCEPT ![s] = spc'[s]], spc'[s] \in {"idle", "link"},
             sent' = sent
      PROVE  /\ me \in Msgs /\ ~Given(me) /\ me \notin InBox /\ me \notin InBatch /\ me \notin lost
             /\ \A m \in Msgs : Given(m)' <=> Given(m) \/ m = me
  <2>1. sent[s] >= 1
    BY <1>0, <1>3 DEF FateTypes
  <2>2. me \in Msgs /\ Held(me)
    BY <1>0, <1>3, <2>1 DEF Msgs, Held
  <2>3. me \notin InBox /\ me \notin InBatch /\ me \notin lost
    BY <1>0, <2>2 DEF Places, Given, InBox, InBatch
  <2>4. \A m \in Msgs : Given(m)' <=> Given(m) \/ m = me
    BY <1>0, <1>a, <1>3 DEF Given, Held, FateTypes
  <2> QED
    BY <2>2, <2>3, <2>4 DEF Given
<1>4. CASE SendRefused(s)
  <2>1. /\ spc[s] = "refused" /\ spc' = [spc EXCEPT ![s] = "idle"] /\ spc'[s] = "idle"
        /\ released' = [m \in Msgs |-> released[m] + IF m = me THEN 1 ELSE 0]
        /\ UNCHANGED <<sent, box, batch, lost, wpc>>
    BY <1>0, <1>4 DEF SendRefused, SendStep, Release, Msg, FateTypes, chan, workv
  <2>2. FateTypes'
    BY <1>0, <2>1 DEF FateTypes, SendSteps
  <2>3. /\ me \in Msgs /\ ~Given(me) /\ me \notin InBox /\ me \notin InBatch /\ me \notin lost
        /\ \A m \in Msgs : Given(m)' <=> Given(m) \/ m = me
    BY <1>3, <2>1
  <2>4. InBox' = InBox /\ InBatch' = InBatch
    BY <2>1 DEF InBox, InBatch
  <2>5. Places'
    BY <1>0, <1>a, <2>1, <2>3, <2>4 DEF Places
  <2>6. Fates'
    <3> SUFFICES ASSUME NEW m \in Msgs
                 PROVE  released'[m] = IF Given(m)' /\ m \notin InBox' \cup InBatch' \cup lost' THEN 1 ELSE 0
      BY DEF Fates
    <3>1. /\ released[m] \in Nat /\ released'[m] = released[m] + IF m = me THEN 1 ELSE 0
          /\ released[m] = IF Given(m) /\ m \notin InBox \cup InBatch \cup lost THEN 1 ELSE 0
      BY <1>0, <2>1 DEF Fates, FateTypes
    <3>2. CASE m = me
      BY <2>1, <2>3, <2>4, <3>1, <3>2
    <3>3. CASE m # me
      BY <2>1, <2>3, <2>4, <3>1, <3>3
    <3> QED
      BY <3>2, <3>3
  <2> QED
    BY <2>2, <2>5, <2>6 DEF FateInv
<1>5. CASE SendSwaps(s)
  <2> DEFINE e == [item |-> me, linked |-> FALSE]
  <2>1. /\ spc[s] = "swap" /\ spc' = [spc EXCEPT ![s] = "link"] /\ spc'[s] = "link"
        /\ box' = Append(box, e)
        /\ UNCHANGED <<sent, batch, lost, wpc, released>>
    BY <1>0, <1>5 DEF SendSwaps, SendStep, Msg, FateTypes, workv, hist
  <2>2. /\ me \in Msgs /\ ~Given(me) /\ me \notin InBox /\ me \notin InBatch /\ me \notin lost
        /\ \A m \in Msgs : Given(m)' <=> Given(m) \/ m = me
    BY <1>3, <2>1
  <2>3. e \in Entry /\ e.item = me
    BY <2>2 DEF Entry
  <2> HIDE DEF e
  <2>4. /\ box' \in Seq(Entry) /\ Len(box') = Len(box) + 1
        /\ \A x \in 1 .. Len(box) : box'[x] = box[x]
        /\ box'[Len(box) + 1] = e /\ DOMAIN box' = 1 .. Len(box) + 1
    BY <1>0, <2>1, <2>3, AppendProperties, LenProperties DEF FateTypes
  <2>5. FateTypes'
    BY <1>0, <2>1, <2>4 DEF FateTypes, SendSteps
  <2>6. InBox' = InBox \cup {me} /\ InBatch' = InBatch
    <3>1. ASSUME NEW x \in DOMAIN box' PROVE box'[x].item \in InBox \cup {me}
      <4>1. (x \in DOMAIN box /\ box'[x] = box[x]) \/ box'[x] = e
        BY <1>a, <2>4
      <4>2. CASE x \in DOMAIN box /\ box'[x] = box[x]
        BY <4>2 DEF InBox
      <4>3. CASE box'[x] = e
        BY <2>3, <4>3
      <4> QED
        BY <4>1, <4>2, <4>3
    <3>2. ASSUME NEW x \in DOMAIN box PROVE box[x].item \in InBox'
      <4>1. x \in DOMAIN box' /\ box'[x] = box[x]
        BY <1>a, <2>4
      <4> QED
        BY <4>1 DEF InBox
    <3>3. me \in InBox'
      <4>1. Len(box) + 1 \in DOMAIN box' /\ box'[Len(box) + 1].item = me
        BY <1>a, <2>3, <2>4
      <4> QED
        BY <4>1 DEF InBox
    <3>4. InBox' \subseteq InBox \cup {me}
      BY <3>1 DEF InBox
    <3>5. InBox \subseteq InBox'
      BY <3>2 DEF InBox
    <3>6. InBatch' = InBatch
      BY <2>1 DEF InBatch
    <3> QED
      BY <3>3, <3>4, <3>5, <3>6
  <2>7. Places'
    <3>1. ASSUME NEW x \in DOMAIN box', NEW y \in DOMAIN box', box'[x].item = box'[y].item PROVE x = y
      BY <1>0, <1>a, <2>2, <2>3, <2>4, <3>1 DEF Places, InBox
    <3>2. ASSUME NEW x \in DOMAIN box' PROVE Given(box[x].item)' /\ box'[x].item \notin InBatch' \cup lost'
      <4>1. box'[x].item \in Msgs /\ (box'[x].item = me \/ (x \in DOMAIN box /\ box'[x].item = box[x].item))
        BY <1>a, <2>2, <2>3, <2>4
      <4>2. box'[x].item \notin InBatch \cup lost /\ (Given(box'[x].item) \/ box'[x].item = me)
        BY <1>0, <2>2, <4>1 DEF Places
      <4>3. \A m \in Msgs : (Given(m) \/ m = me) /\ m = box'[x].item => Given(box[x].item)'
        BY <2>2 DEF Given, Held
      <4> QED
        BY <2>1, <2>6, <4>1, <4>2, <4>3
    <3>3. ASSUME NEW x \in DOMAIN batch PROVE Given(batch[x])' /\ batch[x] \notin lost'
      <4>1. batch[x] \in Msgs /\ Given(batch[x]) /\ batch'[x] = batch[x] /\ batch[x] \notin lost
        BY <1>0, <1>a, <2>1 DEF Places
      <4>2. \A m \in Msgs : Given(m) /\ m = batch'[x] => Given(batch[x])'
        BY <2>2 DEF Given, Held
      <4> QED
        BY <2>1, <4>1, <4>2
    <3>4. ASSUME NEW m \in lost' PROVE Given(m)'
      BY <1>0, <2>1, <2>2 DEF Places, FateTypes
    <3> QED
      BY <1>0, <2>1, <3>1, <3>2, <3>3, <3>4 DEF Places
  <2>8. Fates'
    BY <1>0, <2>1, <2>2, <2>6 DEF Fates
  <2> QED
    BY <2>5, <2>7, <2>8 DEF FateInv
<1>6. CASE SendLinks(s)
  <2>1. /\ spc[s] = "link" /\ spc' = [spc EXCEPT ![s] = spc'[s]] /\ spc'[s] \in {"mark", "overflow"}
        /\ box' = [x \in DOMAIN box |-> IF box[x].item = me THEN [box[x] EXCEPT !.linked = TRUE] ELSE box[x]]
        /\ UNCHANGED <<sent, batch, lost, wpc, released>>
    BY <1>0, <1>6 DEF SendLinks, SendStep, Msg, FateTypes, workv, hist
  <2>2. DOMAIN box' = DOMAIN box /\ \A x \in DOMAIN box : box'[x] \in Entry /\ box'[x].item = box[x].item
    BY <1>a, <2>1 DEF Entry
  <2>3. box' \in Seq(Entry)
    BY <1>a, <2>1, <2>2
  <2>4. FateTypes'
    BY <1>0, <2>1, <2>3 DEF FateTypes, SendSteps
  <2>5. \A m \in Msgs : Given(m)' <=> Given(m)
    BY <1>0, <1>a, <2>1 DEF Given, Held, FateTypes
  <2>6. InBox' = InBox /\ InBatch' = InBatch
    BY <2>1, <2>2 DEF InBox, InBatch
  <2>7. Places'
    BY <1>0, <1>a, <2>1, <2>2, <2>5, <2>6 DEF Places
  <2>8. Fates'
    BY <1>0, <2>1, <2>5, <2>6 DEF Fates
  <2> QED
    BY <2>4, <2>7, <2>8 DEF FateInv
<1> QED
  BY <1>1, <1>2, <1>4, <1>5, <1>6 DEF SenderStep

\* DequeueBatch reaches at most what is there.
LEMMA ReachableRange ==
  ASSUME FateTypes PROVE Reachable \in Nat /\ Reachable <= Len(box)
<1> DEFINE R == {x \in DOMAIN box : \A y \in 1 .. x : box[y].linked}
<1>1. DOMAIN box = 1 .. Len(box) /\ Len(box) \in Nat
  BY FateElements
<1>2. IsFiniteSet(1 .. Len(box)) /\ Cardinality(1 .. Len(box)) = Len(box)
  <2>1. IsFiniteSet(1 .. Len(box)) /\ Cardinality(1 .. Len(box)) = IF 1 > Len(box) THEN 0 ELSE Len(box) - 1 + 1
    BY <1>1, FS_Interval
  <2> QED
    BY <1>1, <2>1
<1>3. R \in SUBSET (1 .. Len(box))
  BY <1>1
<1> HIDE DEF R
<1>4. IsFiniteSet(R) /\ Cardinality(R) <= Len(box)
  BY <1>2, <1>3, FS_Subset
<1>5. Cardinality(R) \in Nat
  BY <1>4, FS_CardinalityType
<1> QED
  BY <1>4, <1>5 DEF Reachable, R

\* The first n messages of the mailbox.
First(n) == {box[x].item : x \in 1 .. n}

\* What is left when the mailbox loses its first n messages.
LEMMA LosesFirst ==
  ASSUME FateTypes, Places, NEW n \in Nat, n <= Reachable, box' = SubSeq(box, n + 1, Len(box))
  PROVE  /\ \A x \in 1 .. n : x \in DOMAIN box
         /\ box' \in Seq(Entry)
         /\ \A x \in DOMAIN box' : n + x \in DOMAIN box /\ box'[x] = box[n + x]
         /\ \A x, y \in DOMAIN box' : box'[x].item = box'[y].item => x = y
         /\ InBox = InBox' \cup First(n) /\ InBox' \cap First(n) = {}
<1>1. /\ DOMAIN box = 1 .. Len(box) /\ Len(box) \in Nat
      /\ \A x \in DOMAIN box : box[x] \in Entry
  BY FateElements
<1>2. n <= Len(box) /\ n \in Nat
  BY <1>1, ReachableRange
<1>3. \A x \in 1 .. n : x \in DOMAIN box
  BY <1>1, <1>2
<1>4. /\ box' \in Seq(Entry) /\ Len(box') = IF n + 1 <= Len(box) THEN Len(box) - (n + 1) + 1 ELSE 0
      /\ \A x \in 1 .. Len(box) - (n + 1) + 1 : box'[x] = box[n + 1 + x - 1]
  <2>1. \A x \in n + 1 .. Len(box) : box[x] \in Entry
    BY <1>1
  <2> QED
    BY <1>1, <2>1, SubSeqProperties
<1>5. Len(box') = Len(box) - n
  <2>1. CASE n + 1 <= Len(box)
    BY <1>1, <1>4, <2>1
  <2>2. CASE ~(n + 1 <= Len(box))
    <3>0. Len(box) \in Nat /\ n \in Nat /\ n <= Len(box)
      BY <1>1, <1>2
    <3>1. Len(box) = n
      BY <2>2, <3>0
    <3>2. Len(box') = 0
      BY <1>4, <2>2
    <3> QED
      BY <3>1, <3>2
  <2> QED
    BY <2>1, <2>2
<1>6. DOMAIN box' = 1 .. Len(box) - n
  BY <1>4, <1>5, LenProperties
<1>7. ASSUME NEW x \in DOMAIN box' PROVE n + x \in DOMAIN box /\ box'[x] = box[n + x] /\ x \in Nat /\ x > 0
  <2>1. x \in 1 .. Len(box) - n
    BY <1>6
  <2>2. x \in 1 .. Len(box) - (n + 1) + 1 /\ n + 1 + x - 1 = n + x /\ n + x \in 1 .. Len(box)
    BY <1>1, <1>2, <2>1
  <2> QED
    BY <1>1, <1>4, <2>1, <2>2
<1>8. ASSUME NEW x \in DOMAIN box', NEW y \in DOMAIN box', box'[x].item = box'[y].item PROVE x = y
  <2>1. n + x = n + y
    BY <1>7, <1>8 DEF Places
  <2> QED
    BY <1>7, <2>1
<1>9. ASSUME NEW x \in DOMAIN box PROVE box[x].item \in InBox' \cup First(n)
  <2>1. CASE x <= n
    BY <1>1, <2>1 DEF First
  <2>2. CASE x > n
    <3>1. x - n \in 1 .. Len(box) - n /\ n + (x - n) = x
      BY <1>1, <1>2, <2>2
    <3> QED
      BY <1>6, <1>7, <3>1 DEF InBox
  <2> QED
    BY <1>1, <2>1, <2>2
<1>10. InBox' \subseteq InBox
  BY <1>7 DEF InBox
<1>11. First(n) \subseteq InBox
  BY <1>3 DEF InBox, First
<1>12. ASSUME NEW x \in DOMAIN box', NEW y \in 1 .. n PROVE box'[x].item # box[y].item
  <2>1. n + x # y
    BY <1>7
  <2> QED
    BY <1>3, <1>7, <2>1 DEF Places
<1>13. InBox' \cap First(n) = {}
  BY <1>12 DEF InBox, First
<1>14. InBox \subseteq InBox' \cup First(n)
  BY <1>9 DEF InBox
<1> QED
  BY <1>3, <1>4, <1>7, <1>8, <1>10, <1>11, <1>13, <1>14

\* What is left in the mailbox still has its place.
LEMMA LeftInBox ==
  ASSUME FateTypes, Places, NEW n \in Nat, n <= Reachable, box' = SubSeq(box, n + 1, Len(box)),
         UNCHANGED <<sent, spc, lost>>, InBatch' \subseteq First(n) \cup InBatch
  PROVE  \A x \in DOMAIN box' : Given(box[x].item)' /\ box'[x].item \notin InBatch' \cup lost'
<1> SUFFICES ASSUME NEW x \in DOMAIN box'
             PROVE  Given(box[x].item)' /\ box'[x].item \notin InBatch' \cup lost'
  OBVIOUS
<1>1. n + x \in DOMAIN box /\ box'[x].item = box[n + x].item /\ InBox' \cap First(n) = {}
  BY LosesFirst
<1>2. Given(box[n + x].item) /\ box[n + x].item \notin InBatch \cup lost
  BY <1>1 DEF Places
<1>3. Given(box[x].item)'
  BY <1>1, <1>2 DEF Given, Held
<1>4. box'[x].item \in InBox'
  BY DEF InBox
<1> QED
  BY <1>1, <1>2, <1>3, <1>4

\* DequeueBatch moves messages from the mailbox to the batch.
LEMMA FateTakes ==
  ASSUME FateInv, NEW n \in Nat, TakeBatch(n), wpc \notin {"process", "mark"},
         n > 0 => wpc' \in {"process", "mark"}, UNCHANGED <<sent, spc, released, lost>>
  PROVE  FateInv'
<1>0. FateTypes /\ Places /\ Fates /\ batch = <<>> /\ \A x \in DOMAIN box : box[x].item \in Msgs
  BY FateElements DEF FateInv, Places
<1>1. n <= Reachable /\ batch' = [x \in 1 .. n |-> box[x].item] /\ box' = SubSeq(box, n + 1, Len(box))
  BY DEF TakeBatch
<1>2. /\ \A x \in 1 .. n : x \in DOMAIN box
      /\ box' \in Seq(Entry)
      /\ \A x, y \in DOMAIN box' : box'[x].item = box'[y].item => x = y
      /\ InBox = InBox' \cup First(n) /\ InBox' \cap First(n) = {}
  BY <1>0, <1>1, LosesFirst
<1>3. batch' \in Seq(Msgs) /\ DOMAIN batch' = 1 .. n
  <2>1. \A x \in 1 .. n : box[x].item \in Msgs
    BY <1>0, <1>2
  <2> QED
    BY <1>1, <2>1
<1>4. InBatch' = First(n) /\ InBatch = {}
  BY <1>0, <1>1 DEF InBatch, First
<1>5. FateTypes'
  BY <1>0, <1>2, <1>3 DEF FateTypes
<1>6. \A m : Given(m)' <=> Given(m)
  BY DEF Given, Held
<1>7. Places'
  <2>1. ASSUME NEW x \in DOMAIN batch', NEW y \in DOMAIN batch', batch'[x] = batch'[y] PROVE x = y
    BY <1>0, <1>1, <1>2, <1>3, <2>1 DEF Places
  <2>2. ASSUME NEW x \in DOMAIN batch' PROVE Given(batch[x])' /\ batch'[x] \notin lost'
    <3>1. x \in DOMAIN box /\ batch'[x] = box[x].item
      BY <1>1, <1>2, <1>3
    <3>2. Given(box[x].item) /\ box[x].item \notin lost
      BY <1>0, <3>1 DEF Places
    <3> QED
      BY <3>1, <3>2 DEF Given, Held
  <2>3. n = 0 => batch' = <<>>
    BY <1>1
  <2>4. \A x \in DOMAIN box' : Given(box[x].item)' /\ box'[x].item \notin InBatch' \cup lost'
    BY <1>0, <1>1, <1>4, LeftInBox
  <2>5. \A m \in lost' : Given(m)'
    BY <1>0, <1>6 DEF Places
  <2> QED
    BY <1>2, <2>1, <2>2, <2>3, <2>4, <2>5 DEF Places
<1>8. Fates'
  BY <1>0, <1>2, <1>4, <1>6 DEF Fates
<1> QED
  BY <1>5, <1>7, <1>8 DEF FateInv

\* sharedSendDrainAndCloseMailbox releases the messages it takes.
LEMMA FateDrain ==
  ASSUME FateInv, NEW n \in Nat, Drain(n)
  PROVE  FateInv'
<1>0. FateTypes /\ Places /\ Fates
  BY DEF FateInv
<1>1. /\ n <= Reachable /\ box' = SubSeq(box, n + 1, Len(box)) /\ UNCHANGED <<sent, spc, batch, lost>>
      /\ released' = [m \in Msgs |-> released[m] + IF m \in First(n) THEN 1 ELSE 0]
      /\ wpc = "drain" /\ wpc' \in {"drain", "stop"}
  BY DEF Drain, WorkStep, Release, First, sendv
<1>2. /\ box' \in Seq(Entry) /\ \A x \in 1 .. n : x \in DOMAIN box
      /\ \A x, y \in DOMAIN box' : box'[x].item = box'[y].item => x = y
      /\ InBox = InBox' \cup First(n) /\ InBox' \cap First(n) = {}
  BY <1>0, <1>1, LosesFirst
<1>3. FateTypes'
  <2>1. released' \in [Msgs -> Nat]
    BY <1>0, <1>1 DEF FateTypes
  <2> QED
    BY <1>0, <1>1, <1>2, <2>1 DEF FateTypes
<1>4. InBatch' = InBatch /\ \A m : Given(m)' <=> Given(m)
  BY <1>1 DEF InBatch, Given, Held
<1>5. \A x \in DOMAIN box' : Given(box[x].item)' /\ box'[x].item \notin InBatch' \cup lost'
  BY <1>0, <1>1, <1>4, LeftInBox
<1>6. batch = <<>>
  BY <1>0, <1>1 DEF Places
<1>7. Places'
  BY <1>0, <1>1, <1>2, <1>4, <1>5, <1>6 DEF Places
<1>8. ASSUME NEW m \in Msgs
      PROVE  released'[m] = IF Given(m)' /\ m \notin InBox' \cup InBatch' \cup lost' THEN 1 ELSE 0
  <2>1. /\ released'[m] = released[m] + IF m \in First(n) THEN 1 ELSE 0
        /\ released[m] = IF Given(m) /\ m \notin InBox \cup InBatch \cup lost THEN 1 ELSE 0
    BY <1>0, <1>1 DEF Fates
  <2>2. CASE m \in First(n)
    <3>1. PICK x \in DOMAIN box : m = box[x].item
      BY <1>2, <2>2 DEF First
    <3>2. Given(m) /\ m \notin InBatch \cup lost /\ m \in InBox /\ m \notin InBox'
      BY <1>0, <1>2, <2>2, <3>1 DEF Places
    <3> QED
      BY <1>1, <1>4, <2>1, <2>2, <3>2
  <2>3. CASE m \notin First(n)
    BY <1>1, <1>2, <1>4, <2>1, <2>3
  <2> QED
    BY <2>2, <2>3
<1>9. Fates'
  BY <1>8 DEF Fates
<1> QED
  BY <1>3, <1>7, <1>9 DEF FateInv

\* The batch is released, or a panic drops it.
LEMMA FateBatch ==
  ASSUME FateInv, FlushProcesses \/ FlushPanics
  PROVE  FateInv'
<1>0. FateTypes /\ Places /\ Fates /\ \A x \in DOMAIN batch : batch[x] \in Msgs
  BY FateElements DEF FateInv
<1>1. batch' = <<>> /\ UNCHANGED <<sent, spc, box>>
  BY DEF FlushProcesses, FlushPanics, sendv, chan
<1>2. InBox' = InBox /\ InBatch' = {} /\ \A m : Given(m)' <=> Given(m)
  BY <1>1 DEF InBox, InBatch, Given, Held
<1>3. /\ \A m \in InBatch : m \in Msgs /\ Given(m) /\ m \notin InBox /\ m \notin lost
      /\ \A x \in DOMAIN box : Given(box[x].item) /\ box[x].item \notin lost /\ box[x].item \in InBox
      /\ \A m \in lost : Given(m)
  BY <1>0 DEF Places, InBatch, InBox
<1>4. batch' \in Seq(Msgs)
  BY <1>1, EmptySeq
<1>5. CASE FlushProcesses
  <2>1. lost' = lost /\ released' = [m \in Msgs |-> released[m] + IF m \in InBatch THEN 1 ELSE 0]
    BY <1>5 DEF FlushProcesses, Release, Range, InBatch
  <2>2. FateTypes'
    <3>1. released' \in [Msgs -> Nat]
      BY <1>0, <2>1 DEF FateTypes
    <3> QED
      BY <1>0, <1>1, <1>4, <2>1, <3>1 DEF FateTypes
  <2>3. Places'
    BY <1>0, <1>1, <1>2, <1>3, <2>1 DEF Places
  <2>4. ASSUME NEW m \in Msgs
        PROVE  released'[m] = IF Given(m)' /\ m \notin InBox' \cup InBatch' \cup lost' THEN 1 ELSE 0
    <3>1. /\ released'[m] = released[m] + IF m \in InBatch THEN 1 ELSE 0
          /\ released[m] = IF Given(m) /\ m \notin InBox \cup InBatch \cup lost THEN 1 ELSE 0
      BY <1>0, <2>1 DEF Fates
    <3>2. CASE m \in InBatch
      BY <1>2, <1>3, <2>1, <3>1, <3>2
    <3>3. CASE m \notin InBatch
      BY <1>2, <2>1, <3>1, <3>3
    <3> QED
      BY <3>2, <3>3
  <2> QED
    BY <2>2, <2>3, <2>4 DEF FateInv, Fates
<1>6. CASE FlushPanics
  <2>1. lost' = lost \cup InBatch /\ released' = released
    BY <1>6 DEF FlushPanics, Range, InBatch
  <2>2. FateTypes'
    BY <1>0, <1>1, <1>3, <1>4, <2>1 DEF FateTypes
  <2>3. Places'
    <3>1. \A x \in DOMAIN box : Given(box[x].item)' /\ box[x].item \notin lost'
      BY <1>1, <1>3, <2>1 DEF Given, Held
    <3>2. \A m \in lost' : Given(m)'
      BY <1>2, <1>3, <2>1
    <3> QED
      BY <1>0, <1>1, <1>2, <3>1, <3>2 DEF Places
  <2>4. InBox' \cup InBatch' \cup lost' = InBox \cup InBatch \cup lost
    BY <1>2, <2>1
  <2>5. Fates'
    BY <1>0, <1>2, <2>1, <2>4 DEF Fates
  <2> QED
    BY <2>2, <2>3, <2>5 DEF FateInv
<1> QED
  BY <1>5, <1>6

\* A step of the worker.
LEMMA FateWorker ==
  ASSUME FateInv, WorkerStep
  PROVE  FateInv'
<1>0. wpc \notin {"process", "mark"} => batch = <<>>
  BY DEF FateInv, Places
<1>1. ASSUME NEW n \in 0 .. MaxBatch, FlushTakes(n) PROVE FateInv'
  <2>1. n \in Nat /\ wpc = "take" /\ (n > 0 => wpc' = "process") /\ UNCHANGED <<sent, spc, released, lost>>
    BY <1>1, BoundAssumption DEF FlushTakes, WorkStep, sendv, hist
  <2> QED
    BY <1>1, <2>1, FateTakes DEF FlushTakes
<1>2. ASSUME NEW n \in 0 .. 1, FlushTakesAgain(n) PROVE FateInv'
  <2>1. n \in Nat /\ wpc = "again" /\ (n > 0 => wpc' = "mark") /\ UNCHANGED <<sent, spc, released, lost>>
    BY <1>2 DEF FlushTakesAgain, WorkStep, sendv, hist
  <2> QED
    BY <1>2, <2>1, FateTakes DEF FlushTakesAgain
<1>3. ASSUME NEW n \in 0 .. MaxBatch, Drain(n) PROVE FateInv'
  <2>1. n \in Nat
    BY BoundAssumption
  <2> QED
    BY <1>3, <2>1, FateDrain
<1>4. CASE FlushProcesses \/ FlushPanics
  BY <1>4, FateBatch
<1>5. CASE FlushMarks
  BY <1>5, FateElsewhere DEF FlushMarks, WorkStep, chan, sendv, hist
<1>6. CASE Wake \/ Leave \/ NextChannel \/ FlushLooks \/ FlushClears
  BY <1>0, <1>6, FateElsewhere DEF Wake, Leave, NextChannel, FlushLooks, FlushClears, WorkStep, chan, sendv, hist
<1>7. CASE DrainStops \/ DrainAcks \/ DrainUnmarks \/ RecoverDone \/ RecoverReturns
  BY <1>0, <1>7, FateElsewhere DEF DrainStops, DrainAcks, DrainUnmarks, RecoverDone, RecoverReturns, WorkStep, chan,
       sendv, hist
<1> QED
  BY <1>1, <1>2, <1>3, <1>4, <1>5, <1>6, <1>7 DEF WorkerStep

\* A step of the reactor or of Close moves no message.
LEMMA ClosingMovesNothing ==
  ASSUME ReactorReads \/ (\E x \in Callers : ClosingStep(x)) \/ UNCHANGED vars
  PROVE  UNCHANGED <<sent, spc, box, batch, released, lost, wpc, panicked>>
<1>1. CASE ReactorReads
  BY <1>1 DEF ReactorReads, BeginReactorRead, ReactorChecks, ReactorUses, CallbackReturns, ReactorClosed,
       EndReactorRead, EndLooks, EndStores, EndPuts, chan, sendv, workv, hist
<1>2. ASSUME NEW x \in Callers, ClosingStep(x)
      PROVE  UNCHANGED <<sent, spc, box, batch, released, lost, wpc, panicked>>
  BY <1>2 DEF ClosingStep, CloseGoesOn, Close, CloseFromReactor, SetAsync, EarlyDefer, EarlyDeferStores, DoClose,
       CloseDepth, DepthAsync, CloseOnce, CloseFlag, CloseStop, LookReadDepth, DeferStores, FinalLooks,
       DrainStale, CloseHooks, AckComes, AckTimeout, TailLooks, TailPuts, CloseReturns, chan, sendv, workv, hist
<1>3. CASE UNCHANGED vars
  BY <1>3 DEF vars, chan, sendv, workv, hist
<1> QED
  BY <1>1, <1>2, <1>3

LEMMA FateStepHolds == FateInv /\ [Next]_vars => FateInv'
<1> SUFFICES ASSUME FateInv, [Next]_vars PROVE FateInv'
  OBVIOUS
<1>1. CASE ReactorReads \/ (\E x \in Callers : ClosingStep(x)) \/ UNCHANGED vars
  BY <1>1, ClosingMovesNothing, FateElsewhere
<1>2. CASE WorkerStep
  BY <1>2, FateWorker
<1>3. CASE \E s \in Senders : SenderStep(s)
  BY <1>3, FateSender
<1> QED
  BY <1>1, <1>2, <1>3 DEF Next

LEMMA FateInit == Init => FateInv
<1> SUFFICES ASSUME Init PROVE FateInv
  OBVIOUS
<1>1. box \in Seq(Entry) /\ batch \in Seq(Msgs)
  BY EmptySeq DEF Init
<1>2. sent \in [Senders -> 0 .. MaxMsgs] /\ released \in [Msgs -> Nat]
  BY BoundAssumption DEF Init
<1>3. FateTypes
  BY <1>1, <1>2 DEF Init, FateTypes, SendSteps
<1>4. Places
  BY DEF Init, Places
<1>5. ASSUME NEW m \in Msgs PROVE ~Given(m)
  <2>1. m[1] \in Senders /\ m[2] \in 1 .. MaxMsgs
    BY DEF Msgs
  <2> QED
    BY <2>1, BoundAssumption DEF Init, Given
<1>6. Fates
  BY <1>5 DEF Init, Fates
<1> QED
  BY <1>3, <1>4, <1>6 DEF FateInv

\* OneFate: a message is released exactly once, by the Send that was refused or by
\* the worker, or dropped by a panic, or still in the mailbox or the batch.
THEOREM EveryMessageHasOneFate == Spec => []OneFate
  BY FateInit, FateStepHolds, FatesSay, PTL DEF Spec

-----------------------------------------------------------------------------
(* The wakeup.                                                              *)

WakeTypes == hooks \in Nat /\ pending \in BOOLEAN /\ wakeup \in BOOLEAN

\* A drain in an open channel is the recovery's.
Drains ==
  /\ wpc \in {"drain", "stop", "ack"} => panicked \/ isClose
  /\ wpc = "unmark" => isClose

\* The mark: a pending channel is in the shard's queue or in the worker's hands, and
\* a queue with an entry has woken its worker up.
Marked ==
  /\ ~isClose /\ pending /\ wpc \in {"wait", "next", "again"} => hooks > 0
  /\ hooks > 0 /\ wpc = "wait" => wakeup

\* A mailbox that is not empty is marked, or somebody is about to mark it.
Noticed ==
  ~isClose /\ box # <<>> /\ ~pending
    => wpc \in {"again", "mark"} \/ \E s \in Senders : spc[s] \in {"link", "mark", "overflow"}

WakeInv == WakeTypes /\ Drains /\ Marked /\ Noticed

\* Links is about the mailbox and Send only.
LEMMA LinksElsewhere ==
  ASSUME Links, UNCHANGED <<box, sent, spc>>
  PROVE  Links'
  BY DEF Links

LEMMA LinksSender ==
  ASSUME FateInv, Links, NEW s \in Senders, SenderStep(s)
  PROVE  Links'
<1>0. /\ FateTypes /\ DOMAIN box = 1 .. Len(box) /\ Len(box) \in Nat
      /\ \A x \in DOMAIN box : box[x] \in Entry
  BY FateElements DEF FateInv
\* The sender of an entry that is not linked is at its link.
<1>1. ASSUME NEW e, NEW t \in Senders, e.item = <<t, sent[t]>>, spc[t] = "link", t # s
      PROVE  \E u \in Senders : e.item = <<u, sent'[u]>> /\ spc'[u] = "link"
  <2>1. spc'[t] = spc[t] /\ sent'[t] = sent[t]
    BY <1>0, <1>1 DEF SenderStep, Send, SendLooks, SendRefused, SendSwaps, SendLinks, SendClosed, SendMarks, SendStep,
         FateTypes
  <2> QED
    BY <1>1, <2>1
<1>2. CASE spc[s] # "link" /\ box' = box
  <2>1. ASSUME NEW x \in DOMAIN box, ~box[x].linked
        PROVE  \E u \in Senders : box[x].item = <<u, sent'[u]>> /\ spc'[u] = "link"
    <3>1. PICK t \in Senders : box[x].item = <<t, sent[t]>> /\ spc[t] = "link"
      BY <2>1 DEF Links
    <3> QED
      BY <1>1, <1>2, <3>1
  <2> QED
    BY <1>2, <2>1 DEF Links
<1>3. CASE SendSwaps(s)
  <2> DEFINE e == [item |-> <<s, sent[s]>>, linked |-> FALSE]
  <2>1. spc[s] = "swap" /\ spc'[s] = "link" /\ sent' = sent /\ box' = Append(box, e) /\ sent[s] \in 1 .. MaxMsgs
    BY <1>0, <1>3, BoundAssumption DEF SendSwaps, SendStep, Msg, FateTypes
  <2>2. e \in Entry /\ e.item = <<s, sent[s]>>
    BY <2>1 DEF Entry, Msgs
  <2> HIDE DEF e
  <2>3. /\ \A x \in 1 .. Len(box) : box'[x] = box[x]
        /\ box'[Len(box) + 1] = e /\ DOMAIN box' = 1 .. Len(box) + 1
    BY <1>0, <2>1, <2>2, AppendProperties, LenProperties DEF FateTypes
  <2>4. ASSUME NEW x \in DOMAIN box', ~box'[x].linked
        PROVE  \E u \in Senders : box'[x].item = <<u, sent'[u]>> /\ spc'[u] = "link"
    <3>1. CASE x \in DOMAIN box
      <4>1. PICK t \in Senders : box[x].item = <<t, sent[t]>> /\ spc[t] = "link"
        BY <1>0, <2>3, <2>4, <3>1 DEF Links
      <4> QED
        BY <1>0, <1>1, <2>1, <2>3, <3>1, <4>1
    <3>2. CASE x \notin DOMAIN box
      <4>1. box'[x] = e
        BY <1>0, <2>3, <3>2
      <4> QED
        BY <2>1, <2>2, <4>1
    <3> QED
      BY <3>1, <3>2
  <2> QED
    BY <2>4 DEF Links
<1>4. CASE SendLinks(s)
  <2>1. box' = [x \in DOMAIN box |-> IF box[x].item = <<s, sent[s]>> THEN [box[x] EXCEPT !.linked = TRUE] ELSE box[x]]
    BY <1>4 DEF SendLinks, Msg
  <2>2. ASSUME NEW x \in DOMAIN box', ~box'[x].linked
        PROVE  \E u \in Senders : box'[x].item = <<u, sent'[u]>> /\ spc'[u] = "link"
    <3>1. x \in DOMAIN box /\ box[x] \in Entry
      BY <1>0, <2>1
    <3>2. box[x].item # <<s, sent[s]>> /\ box'[x] = box[x]
      BY <2>1, <2>2, <3>1 DEF Entry
    <3>3. PICK t \in Senders : box[x].item = <<t, sent[t]>> /\ spc[t] = "link"
      BY <2>2, <3>1, <3>2 DEF Links
    <3> QED
      BY <1>1, <3>2, <3>3
  <2> QED
    BY <2>2 DEF Links
<1>5. CASE ~SendSwaps(s) /\ ~SendLinks(s)
  BY <1>2, <1>5 DEF SenderStep, Send, SendLooks, SendRefused, SendClosed, SendMarks, SendStep, chan
<1> QED
  BY <1>3, <1>4, <1>5

\* What is left of the mailbox is linked as before.
LEMMA LinksLoses ==
  ASSUME FateInv, Links, NEW n \in Nat, n <= Reachable, box' = SubSeq(box, n + 1, Len(box)), UNCHANGED <<sent, spc>>
  PROVE  Links' /\ (box' # <<>> => box # <<>>)
<1>1. box' \in Seq(Entry) /\ \A x \in DOMAIN box' : n + x \in DOMAIN box /\ box'[x] = box[n + x]
  BY LosesFirst DEF FateInv
<1>2. Links'
  BY <1>1 DEF Links
<1>3. ASSUME box' # <<>> PROVE box # <<>>
  <2>1. 1 \in DOMAIN box'
    BY <1>1, <1>3, EmptySeq, LenProperties
  <2>2. n + 1 \in DOMAIN box
    BY <1>1, <2>1
  <2> QED
    BY <2>2
<1> QED
  BY <1>2, <1>3

\* If nothing is reachable in a mailbox that is not empty, a Send is at its link.
LEMMA UnreachableIsLinking ==
  ASSUME FateInv, Links, Reachable = 0, box # <<>>
  PROVE  \E s \in Senders : spc[s] = "link"
<1> DEFINE R == {x \in DOMAIN box : \A y \in 1 .. x : box[y].linked}
<1>1. DOMAIN box = 1 .. Len(box) /\ Len(box) \in Nat /\ box \in Seq(Entry)
  BY FateElements DEF FateInv, FateTypes
<1>2. IsFiniteSet(R)
  <2>1. IsFiniteSet(1 .. Len(box))
    BY <1>1, FS_Interval
  <2> QED
    BY <1>1, <2>1, FS_Subset
<1>3. R = {}
  BY <1>2, FS_EmptySet DEF Reachable
<1>4. 1 \in DOMAIN box
  BY <1>1, EmptySeq, LenProperties
<1>5. ~box[1].linked
  BY <1>3, <1>4
<1> QED
  BY <1>4, <1>5 DEF Links

LEMMA LinksStepHolds == FateInv /\ Links /\ [Next]_vars => Links'
<1> SUFFICES ASSUME FateInv, Links, [Next]_vars PROVE Links'
  OBVIOUS
<1>1. CASE ReactorReads \/ (\E x \in Callers : ClosingStep(x)) \/ UNCHANGED vars
  BY <1>1, ClosingMovesNothing, LinksElsewhere
<1>2. CASE \E s \in Senders : SenderStep(s)
  BY <1>2, LinksSender
<1>3. ASSUME NEW n \in 0 .. MaxBatch, FlushTakes(n) \/ Drain(n) PROVE Links'
  <2>1. n \in Nat /\ n <= Reachable /\ box' = SubSeq(box, n + 1, Len(box)) /\ UNCHANGED <<sent, spc>>
    BY <1>3, BoundAssumption DEF FlushTakes, TakeBatch, Drain, sendv
  <2> QED
    BY <2>1, LinksLoses
<1>4. ASSUME NEW n \in 0 .. 1, FlushTakesAgain(n) PROVE Links'
  BY <1>4, LinksLoses DEF FlushTakesAgain, TakeBatch, sendv
<1>5. CASE \/ Wake \/ Leave \/ NextChannel \/ FlushLooks \/ FlushProcesses \/ FlushClears \/ FlushMarks
           \/ DrainStops \/ DrainAcks \/ DrainUnmarks \/ FlushPanics \/ RecoverDone \/ RecoverReturns
  BY <1>5, LinksElsewhere DEF Wake, Leave, NextChannel, FlushLooks, FlushProcesses, FlushClears, FlushMarks, DrainStops,
       DrainAcks, DrainUnmarks, FlushPanics, RecoverDone, RecoverReturns, chan, sendv
<1> QED
  BY <1>1, <1>2, <1>3, <1>4, <1>5 DEF Next, WorkerStep

\* Steps of the reactor and of Close: at most CloseHooks hands the channel over.
LEMMA WakeCloses ==
  ASSUME WakeInv, CloseInv, ReactorReads \/ (\E x \in Callers : ClosingStep(x)) \/ UNCHANGED vars
  PROVE  WakeInv'
<1>0. UNCHANGED <<spc, box, wpc, panicked>>
  BY ClosingMovesNothing
<1>1. isClose => isClose'
  <2>1. CASE ReactorReads
    BY <2>1 DEF ReactorReads, BeginReactorRead, ReactorChecks, ReactorUses, CallbackReturns, ReactorClosed,
         EndReactorRead, EndLooks, EndStores, EndPuts, chan
  <2>2. ASSUME NEW x \in Callers, ClosingStep(x) PROVE isClose => isClose'
    BY <2>2 DEF ClosingStep, CloseGoesOn, Close, CloseFromReactor, SetAsync, EarlyDefer, EarlyDeferStores, DoClose,
         CloseDepth, DepthAsync, CloseOnce, CloseFlag, CloseStop, LookReadDepth, DeferStores, FinalLooks,
         DrainStale, CloseHooks, AckComes, AckTimeout, TailLooks, TailPuts, CloseReturns, chan
  <2>3. CASE UNCHANGED vars
    BY <2>3 DEF vars, chan
  <2> QED
    BY <2>1, <2>2, <2>3
<1>2. \/ UNCHANGED <<pending, hooks, wakeup>>
      \/ pending' = TRUE /\ IF pending THEN UNCHANGED <<hooks, wakeup>> ELSE Hook
  <2>1. CASE ReactorReads
    BY <2>1 DEF ReactorReads, BeginReactorRead, ReactorChecks, ReactorUses, CallbackReturns, ReactorClosed,
         EndReactorRead, EndLooks, EndStores, EndPuts, wake
  <2>2. ASSUME NEW x \in Callers, ClosingStep(x), ~CloseHooks(x) PROVE UNCHANGED <<pending, hooks, wakeup>>
    BY <2>2 DEF ClosingStep, CloseGoesOn, Close, CloseFromReactor, SetAsync, EarlyDefer, EarlyDeferStores, DoClose,
         CloseDepth, DepthAsync, CloseOnce, CloseFlag, CloseStop, LookReadDepth, DeferStores, FinalLooks,
         DrainStale, AckComes, AckTimeout, TailLooks, TailPuts, CloseReturns, wake
  <2>3. ASSUME NEW x \in Callers, CloseHooks(x)
        PROVE  pending' = TRUE /\ IF pending THEN UNCHANGED <<hooks, wakeup>> ELSE Hook
    BY <2>3 DEF CloseHooks
  <2>4. CASE UNCHANGED vars
    BY <2>4 DEF vars, wake
  <2> QED
    BY <2>1, <2>2, <2>3, <2>4
<1>3. CASE UNCHANGED <<pending, hooks, wakeup>>
  BY <1>0, <1>1, <1>3 DEF WakeInv, WakeTypes, Drains, Marked, Noticed
<1>4. CASE pending' = TRUE /\ pending /\ UNCHANGED <<hooks, wakeup>>
  BY <1>0, <1>1, <1>4 DEF WakeInv, WakeTypes, Drains, Marked, Noticed
<1>5. CASE pending' = TRUE /\ Hook
  BY <1>0, <1>1, <1>5 DEF WakeInv, WakeTypes, Drains, Marked, Noticed, Hook
<1> QED
  BY <1>2, <1>3, <1>4, <1>5

\* The steps of Send.
LEMMA WakeSender ==
  ASSUME WakeInv, FateInv, NEW s \in Senders, SenderStep(s)
  PROVE  WakeInv'
<1> USE DEF WakeInv, WakeTypes, Drains, Marked, Noticed
<1>0. UNCHANGED <<wpc, panicked, isClose>> /\ spc \in [Senders -> SendSteps]
  BY DEF SenderStep, Send, SendLooks, SendRefused, SendSwaps, SendLinks, SendClosed, SendMarks, workv, chan,
       FateInv, FateTypes
<1>1. CASE SendMarks(s)
  <2>1. pending' = TRUE /\ box' = box /\ (IF pending THEN UNCHANGED <<hooks, wakeup>> ELSE Hook)
    BY <1>1 DEF SendMarks, chan
  <2>2. CASE pending
    BY <1>0, <2>1, <2>2
  <2>3. CASE ~pending
    BY <1>0, <2>1, <2>3 DEF Hook
  <2> QED
    BY <2>2, <2>3
<1>2. ASSUME UNCHANGED <<pending, hooks, wakeup>>, spc' = [spc EXCEPT ![s] = spc'[s]],
             spc'[s] \in {"link", "mark", "overflow"}
      PROVE  WakeInv'
  BY <1>0, <1>2
<1>3. CASE SendSwaps(s) \/ SendLinks(s) \/ SendClosed(s)
  <2>1. UNCHANGED <<pending, hooks, wakeup>>
    BY <1>3 DEF SendSwaps, SendLinks, SendClosed, wake
  <2>2. spc' = [spc EXCEPT ![s] = spc'[s]] /\ spc'[s] \in {"link", "mark", "overflow"}
    BY <1>0, <1>3 DEF SendSwaps, SendLinks, SendClosed, SendStep
  <2> QED
    BY <1>2, <2>1, <2>2
<1>4. CASE Send(s) \/ SendLooks(s) \/ SendRefused(s)
  <2>1. /\ UNCHANGED <<pending, hooks, wakeup, box>> /\ spc[s] \in {"idle", "look", "refused"}
        /\ spc' = [spc EXCEPT ![s] = spc'[s]]
    BY <1>0, <1>4 DEF Send, SendLooks, SendRefused, SendStep, wake, chan
  <2>2. \A t \in Senders : spc[t] \in {"link", "mark", "overflow"} => spc'[t] = spc[t]
    BY <1>0, <2>1
  <2> QED
    BY <1>0, <2>1, <2>2
<1> QED
  BY <1>1, <1>3, <1>4 DEF SenderStep

\* The steps of the worker.
LEMMA WakeWorker ==
  ASSUME WakeInv, FateInv, Links, CloseInv, WorkerStep
  PROVE  WakeInv'
<1> USE DEF WakeInv, WakeTypes, Drains, Marked, Noticed, WorkStep
<1>0. UNCHANGED <<spc, isClose>>
  BY DEF WorkerStep, Wake, Leave, NextChannel, FlushLooks, FlushProcesses, FlushClears, FlushMarks,
         FlushTakes, Drain, FlushTakesAgain, DrainStops, DrainAcks, DrainUnmarks, FlushPanics, RecoverDone,
         RecoverReturns, chan, sendv
<1>1. CASE Wake
  <2>1. wpc = "wait" /\ wpc' = "next" /\ wakeup' \in BOOLEAN /\ UNCHANGED <<pending, hooks, panicked, box>>
    BY <1>1 DEF Wake, chan
  <2> QED
    BY <1>0, <2>1
<1>14. CASE Leave
  <2>1. wpc = "wait" /\ wpc' = "gone" /\ UNCHANGED <<pending, hooks, wakeup, panicked, box>>
    BY <1>14 DEF Leave, chan, wake
  <2> QED
    BY <1>0, <2>1
<1>2. CASE NextChannel
  BY <1>0, <1>2 DEF NextChannel, chan
<1>3. CASE FlushLooks
  BY <1>0, <1>3 DEF FlushLooks, chan, wake
<1>4. ASSUME NEW n \in 0 .. MaxBatch, FlushTakes(n) \/ Drain(n) PROVE WakeInv'
  <2>1. n \in Nat /\ n <= Reachable /\ box' = SubSeq(box, n + 1, Len(box)) /\ UNCHANGED <<sent, spc>>
    BY <1>4, BoundAssumption DEF FlushTakes, TakeBatch, Drain, sendv
  <2>2. box' # <<>> => box # <<>>
    BY <2>1, LinksLoses
  <2>3. /\ UNCHANGED <<pending, hooks, wakeup, panicked>>
        /\ \/ wpc = "take" /\ wpc' \in {"process", "clear"}
           \/ wpc = "drain" /\ wpc' \in {"drain", "stop"}
    BY <1>4 DEF FlushTakes, Drain, wake
  <2> QED
    BY <1>0, <2>2, <2>3
<1>5. CASE FlushProcesses
  <2>1. wpc = "process" /\ UNCHANGED <<pending, box, panicked>>
    BY <1>5 DEF FlushProcesses
  <2>2. CASE turn + 1 >= Quota
    BY <1>0, <1>5, <2>1, <2>2 DEF FlushProcesses, Hook
  <2>3. CASE ~(turn + 1 >= Quota)
    BY <1>0, <1>5, <2>1, <2>3 DEF FlushProcesses
  <2> QED
    BY <2>2, <2>3
<1>6. CASE FlushClears
  BY <1>0, <1>6 DEF FlushClears, chan
<1>7. ASSUME NEW n \in 0 .. 1, FlushTakesAgain(n) PROVE WakeInv'
  <2>1. /\ n \in Nat /\ n <= Reachable /\ box' = SubSeq(box, n + 1, Len(box)) /\ UNCHANGED <<sent, spc>>
        /\ UNCHANGED <<pending, hooks, wakeup, panicked>> /\ wpc = "again" /\ (n = 0 => Reachable = 0)
        /\ wpc' = IF n > 0 THEN "mark" ELSE "next"
    BY <1>7 DEF FlushTakesAgain, TakeBatch, sendv, wake
  <2>2. box' # <<>> => box # <<>>
    BY <2>1, LinksLoses
  <2>3. CASE n > 0
    BY <1>0, <2>1, <2>3
  <2>4. CASE n = 0
    <3>1. box' # <<>> => \E s \in Senders : spc[s] = "link"
      BY <2>1, <2>2, <2>4, UnreachableIsLinking
    <3> QED
      BY <1>0, <2>1, <2>4, <3>1
  <2> QED
    BY <2>1, <2>3, <2>4
<1>8. CASE FlushMarks
  BY <1>0, <1>8 DEF FlushMarks, chan
<1>9. CASE DrainStops \/ DrainAcks
  BY <1>0, <1>9 DEF DrainStops, DrainAcks, chan, wake
<1>10. CASE DrainUnmarks
  <2>1. isClose /\ wpc' = "next" /\ pending' \in BOOLEAN /\ UNCHANGED <<hooks, wakeup, panicked, box>>
    BY <1>10 DEF DrainUnmarks, chan
  <2> QED
    BY <1>0, <2>1
<1>11. CASE FlushPanics
  <2>1. wpc = "process" /\ UNCHANGED <<pending, hooks, wakeup, box>>
    BY <1>11 DEF FlushPanics, chan, wake
  <2>2. CASE isClose
    BY <1>0, <1>11, <2>1, <2>2 DEF FlushPanics
  <2>3. CASE ~isClose
    <3>1. wpc' = "drain" /\ panicked'
      BY <1>11, <2>3 DEF FlushPanics
    <3> QED
      BY <1>0, <2>1, <3>1
  <2> QED
    BY <2>2, <2>3
<1>12. CASE RecoverDone
  BY <1>0, <1>12 DEF RecoverDone, chan, wake
<1>13. CASE RecoverReturns
  <2>1. isClose
    BY <1>13 DEF RecoverReturns, CloseInv, Closed, PastFlag, Callers
  <2> QED
    BY <1>0, <1>13, <2>1 DEF RecoverReturns, chan, wake
<1> QED
  BY <1>1, <1>2, <1>3, <1>4, <1>5, <1>6, <1>7, <1>8, <1>9, <1>10, <1>11, <1>12, <1>13, <1>14 DEF WorkerStep

\* NoLostWakeup: when every Send has returned and messages wait in an open channel,
\* the worker is at work on it or will find it in its queue.
THEOREM WakeupsArrive == Spec => []NoLostWakeup
<1>1. Init => Links /\ WakeInv
  <2> SUFFICES ASSUME Init PROVE Links /\ WakeInv
    OBVIOUS
  <2>1. Links /\ Drains
    BY DEF Init, Links, Drains
  <2>2. hooks = 0 /\ ~pending /\ box = <<>> /\ pending \in BOOLEAN /\ wakeup \in BOOLEAN
    BY DEF Init
  <2>3. WakeTypes /\ Marked /\ Noticed
    BY <2>2 DEF WakeTypes, Marked, Noticed
  <2> QED
    BY <2>1, <2>3 DEF WakeInv
<1>2. WakeInv /\ Links /\ FateInv /\ CloseInv /\ [Next]_vars => WakeInv'
  BY WakeCloses, WakeSender, WakeWorker DEF Next
<1>3. WakeInv => NoLostWakeup
  BY DEF WakeInv, WakeTypes, Marked, Noticed, NoLostWakeup
<1> QED
  BY <1>1, <1>2, <1>3, CloseInit, CloseStepHolds, FateInit, FateStepHolds, LinksStepHolds, PTL DEF Spec
=============================================================================
