------------------------------ MODULE TLSConn ------------------------------
(***************************************************************************)
(* One zgmtls Conn used by several goroutines: Read, Write, Close and       *)
(* CloseWrite, the handshake that the first Read or Write runs, and         *)
(* renegotiation, over the three mutexes (handshakeMutex, in, out) and the  *)
(* two atomics (handshakeStatus, activeCall) of conn.go.                    *)
(*                                                                          *)
(* The peer sends any sequence of records, one handshake message per        *)
(* record; the handshake is a script of sends and reads (TLSHandshake has   *)
(* what is in them).  A record of application data is empty or has 2 bytes. *)
(***************************************************************************)
EXTENDS Naturals, Sequences, FiniteSets

CONSTANTS
    Readers, Writers, Closers, CloseWriters,   \* goroutines, by the method they call
    Configs,      \* [isClient, renegotiation]; a GM client, which never sets haveVers,
                  \* refuses handshake records like one with RenegotiateNever
    MaxReads,     \* calls of one reader; every other goroutine makes one call
    MaxRecords,   \* what the peer sends beside handshake messages (helloRequest counts)
    MaxWarn,      \* maxWarnAlertCount
    MaxEmpty      \* maxConsecutiveEmptyRecords

Procs == Readers \union Writers \union Closers \union CloseWriters

None == "none"

ASSUME ConnAssumption ==
    /\ MaxReads \in Nat /\ MaxRecords \in Nat /\ MaxWarn \in Nat /\ MaxEmpty \in Nat
    /\ IsFiniteSet(Procs) /\ None \notin Procs
    /\ Readers \cap (Writers \union Closers \union CloseWriters) = {}
    /\ Writers \cap (Closers \union CloseWriters) = {} /\ Closers \cap CloseWriters = {}
    /\ \A c \in Configs : c.isClient \in BOOLEAN

VARIABLES
    cfg,
    pc, calls,
    x,                \* the activeCall a CAS loop has loaded
    stage,            \* position in the handshake script
    renegotiating,    \* the handshake was started by handleRenegotiation
    empties,          \* emptyRecordCount
    handshakeMutex, inMutex, outMutex,
    handshakeStatus, handshakeErr, handshakes,
    inErr, outErr, input, hand, warnCount,
    erased,           \* history: a Write has stored nil over an error in out.err
    buffering, sendBuf,
    closeNotifySent, activeCall, netClosed,
    wire,             \* what reached the TCP connection
    records,          \* counts them
    unread            \* bytes of application data accepted from it and not yet returned by Read

local == <<pc, calls, x, stage, renegotiating, empties>>
mutexes == <<handshakeMutex, inMutex, outMutex>>
session == <<handshakeStatus, handshakeErr, handshakes>>
inHalf == <<inErr, input, hand, warnCount, records, unread>>
outHalf == <<outErr, erased, buffering, sendBuf, wire>>
closing == <<closeNotifySent, activeCall, netClosed>>

vars == <<cfg, local, mutexes, session, inHalf, outHalf, closing>>

handshakeComplete == handshakeStatus = 1

At(p, l) == pc[p] = l

Goto(p, l) == pc' = [pc EXCEPT ![p] = l]

Free(m) == m = None

----------------------------------------------------------------------------
(* Output.                                                                  *)

\* Conn.write: into sendBuf while buffering, else to the connection.
WriteRecord(t) ==
    /\ sendBuf' = IF buffering THEN Append(sendBuf, t) ELSE sendBuf
    /\ wire' = IF buffering \/ netClosed THEN wire ELSE Append(wire, t)
    /\ UNCHANGED buffering

writeFails == netClosed /\ ~buffering

\* sendAlert of a fatal alert, or of no_renegotiation: out.err is set whatever
\* becomes of the record.
sendAlertLocked(t) == WriteRecord(t) /\ outErr' = TRUE /\ UNCHANGED erased

sendAlert == Free(outMutex) /\ sendAlertLocked("fatal")

----------------------------------------------------------------------------
(* Calls.                                                                   *)

limit(p) == IF p \in Readers THEN MaxReads ELSE 1

Begin(p) ==
    /\ At(p, "idle")
    /\ calls[p] < limit(p)
    /\ calls' = [calls EXCEPT ![p] = @ + 1]
    /\ Goto(p, CASE p \in Readers -> "handshake"
                 [] p \in Writers \union Closers -> "load"
                 [] p \in CloseWriters -> "complete")
    /\ UNCHANGED <<cfg, x, stage, renegotiating, empties, mutexes, session, inHalf, outHalf, closing>>

\* A Write leaves activeCall when it returns.
LeaveActive(p) == activeCall' = IF p \in Writers THEN activeCall - 2 ELSE activeCall

LoadActiveCall(p) ==
    /\ At(p, "load")
    /\ IF activeCall % 2 = 1 THEN Goto(p, "idle") /\ UNCHANGED x
       ELSE Goto(p, "cas") /\ x' = [x EXCEPT ![p] = activeCall]
    /\ UNCHANGED <<cfg, calls, stage, renegotiating, empties, mutexes, session, inHalf, outHalf, closing>>

\* Mutant: load and add, not compare and swap.
CASActiveCallBlind(p) ==
    /\ At(p, "cas")
    /\ IF p \in Writers
       THEN activeCall' = activeCall + 2 /\ Goto(p, "handshake")
       ELSE activeCall' = (activeCall + 1) - (activeCall % 2) /\ Goto(p, IF x[p] # 0 THEN "netClose" ELSE "complete")
    /\ x' = [x EXCEPT ![p] = 0]
    /\ UNCHANGED <<cfg, calls, stage, renegotiating, empties, mutexes, session, inHalf, outHalf,
                   closeNotifySent, netClosed>>

\* Write counts itself in; Close sets the low bit and sends close_notify only if
\* no Write was active.
CASActiveCall(p) ==
    /\ At(p, "cas")
    /\ x' = [x EXCEPT ![p] = 0]
    /\ CASE activeCall # x[p] -> Goto(p, "load") /\ UNCHANGED activeCall
         [] activeCall = x[p] /\ p \in Writers -> Goto(p, "handshake") /\ activeCall' = activeCall + 2
         [] activeCall = x[p] /\ p \in Closers ->
              Goto(p, IF x[p] # 0 THEN "netClose" ELSE "complete") /\ activeCall' = activeCall + 1
    /\ UNCHANGED <<cfg, calls, stage, renegotiating, empties, mutexes, session, inHalf, outHalf,
                   closeNotifySent, netClosed>>

CheckComplete(p) ==
    /\ At(p, "complete")
    /\ Goto(p, CASE handshakeComplete -> "notify"
                 [] ~handshakeComplete /\ p \in Closers -> "netClose"
                 [] ~handshakeComplete /\ p \in CloseWriters -> "idle")
    /\ UNCHANGED <<cfg, calls, x, stage, renegotiating, empties, mutexes, session, inHalf, outHalf, closing>>

closeNotify(p) ==
    /\ At(p, "notify")
    /\ Free(outMutex)
    /\ IF closeNotifySent THEN UNCHANGED <<wire, sendBuf, buffering>> ELSE WriteRecord("closeNotify")
    /\ closeNotifySent' = TRUE
    /\ Goto(p, IF p \in Closers THEN "netClose" ELSE "idle")
    /\ UNCHANGED <<cfg, calls, x, stage, renegotiating, empties, mutexes, session, inHalf, outErr, erased,
                   activeCall, netClosed>>

NetClose(p) ==
    /\ At(p, "netClose")
    /\ netClosed' = TRUE
    /\ Goto(p, "idle")
    /\ UNCHANGED <<cfg, calls, x, stage, renegotiating, empties, mutexes, session, inHalf, outHalf,
                   closeNotifySent, activeCall>>

----------------------------------------------------------------------------
(* Handshake.                                                               *)

\* What a handshake does on the connection, in order.
script ==
    IF cfg.isClient
    THEN <<"send", "recvThenBuffer", "recv", "send", "flush", "flushed", "recv">>
    ELSE <<"recvThenBuffer", "send", "flush", "flushed", "recvThenBuffer", "send", "flush", "flushed">>

op(p) == IF stage[p] > Len(script) THEN "finish" ELSE script[stage[p]]

\* Handshake has nothing to do, or starts.
LockHandshake(p) ==
    /\ At(p, "handshake")
    /\ Free(handshakeMutex)
    /\ CASE handshakeErr -> Goto(p, "idle") /\ LeaveActive(p) /\ UNCHANGED handshakeMutex
         [] ~handshakeErr /\ handshakeComplete ->
              Goto(p, IF p \in Readers THEN "lockIn" ELSE "lockOut") /\ UNCHANGED <<handshakeMutex, activeCall>>
         [] OTHER -> Goto(p, "handshakeIn") /\ handshakeMutex' = p /\ UNCHANGED activeCall
    /\ UNCHANGED <<cfg, calls, x, stage, renegotiating, empties, inMutex, outMutex, session, inHalf, outHalf,
                   closeNotifySent, netClosed>>

LockInForHandshake(p) ==
    /\ At(p, "handshakeIn")
    /\ Free(inMutex)
    /\ inMutex' = p
    /\ stage' = [stage EXCEPT ![p] = 1]
    /\ renegotiating' = [renegotiating EXCEPT ![p] = FALSE]
    /\ Goto(p, "run")
    /\ UNCHANGED <<cfg, calls, x, empties, handshakeMutex, outMutex, session, inHalf, outHalf, closing>>

Step(p) == stage' = [stage EXCEPT ![p] = @ + 1]

\* The first flight of this end and its last.
flightName(p) == IF \E i \in 1..stage[p] - 1 : script[i] = "send" THEN "last" ELSE "first"

SendFlight(p) ==
    /\ At(p, "run") /\ op(p) = "send"
    /\ Free(outMutex)
    /\ WriteRecord(flightName(p))
    /\ IF writeFails THEN Goto(p, "fail") /\ UNCHANGED stage ELSE Step(p) /\ UNCHANGED pc
    /\ UNCHANGED <<cfg, calls, x, renegotiating, empties, mutexes, session, inHalf, outErr, erased, closing>>

\* Conn.flush takes no lock: a record may join sendBuf between its two steps.
Flush(p) ==
    /\ At(p, "run") /\ op(p) = "flush"
    /\ wire' = IF netClosed THEN wire ELSE wire \o sendBuf
    /\ Step(p)
    /\ UNCHANGED <<cfg, pc, calls, x, renegotiating, empties, mutexes, session, inHalf,
                   outErr, erased, sendBuf, buffering, closing>>

Flushed(p) ==
    /\ At(p, "run") /\ op(p) = "flushed"
    /\ sendBuf' = <<>>
    /\ buffering' = FALSE
    /\ IF netClosed THEN Goto(p, "fail") /\ UNCHANGED stage ELSE Step(p) /\ UNCHANGED pc
    /\ UNCHANGED <<cfg, calls, x, renegotiating, empties, mutexes, session, inHalf,
                   outErr, erased, wire, closing>>

\* Where a call goes when its handshake has succeeded.
afterHandshake(p) ==
    CASE p \in Writers -> "lockOut"
      [] p \in Readers /\ renegotiating[p] -> "read"
      [] p \in Readers /\ ~renegotiating[p] -> "lockIn"

FinishHandshake(p) ==
    /\ At(p, "run") /\ op(p) = "finish"
    /\ handshakeStatus' = 1
    /\ handshakes' = handshakes + 1
    /\ handshakeMutex' = None
    /\ inMutex' = IF renegotiating[p] THEN inMutex ELSE None
    /\ Goto(p, afterHandshake(p))
    /\ stage' = [stage EXCEPT ![p] = 0]
    /\ renegotiating' = [renegotiating EXCEPT ![p] = FALSE]
    /\ UNCHANGED <<cfg, calls, x, empties, outMutex, handshakeErr, inHalf, outHalf, closing>>

\* Mutant: a failed handshake keeps handshakeMutex.
FailHandshakeLocked(p) ==
    /\ At(p, "fail")
    /\ handshakeErr' = TRUE
    /\ UNCHANGED handshakeMutex
    /\ inMutex' = None
    /\ IF renegotiating[p] \/ sendBuf = <<>> THEN UNCHANGED <<wire, sendBuf, buffering>>
       ELSE wire' = (IF netClosed THEN wire ELSE wire \o sendBuf) /\ sendBuf' = <<>> /\ buffering' = FALSE
    /\ LeaveActive(p)
    /\ Goto(p, "idle")
    /\ stage' = [stage EXCEPT ![p] = 0]
    /\ renegotiating' = [renegotiating EXCEPT ![p] = FALSE]
    /\ UNCHANGED <<cfg, calls, x, empties, outMutex, handshakeStatus, handshakes,
                   inHalf, outErr, erased, closeNotifySent, netClosed>>

\* The error is kept; Handshake, not handleRenegotiation, flushes what is left.
FailHandshake(p) ==
    /\ At(p, "fail")
    /\ handshakeErr' = TRUE
    /\ handshakeMutex' = None
    /\ inMutex' = None
    /\ IF renegotiating[p] \/ sendBuf = <<>> THEN UNCHANGED <<wire, sendBuf, buffering>>
       ELSE wire' = (IF netClosed THEN wire ELSE wire \o sendBuf) /\ sendBuf' = <<>> /\ buffering' = FALSE
    /\ LeaveActive(p)
    /\ Goto(p, "idle")
    /\ stage' = [stage EXCEPT ![p] = 0]
    /\ renegotiating' = [renegotiating EXCEPT ![p] = FALSE]
    /\ UNCHANGED <<cfg, calls, x, empties, outMutex, handshakeStatus, handshakes,
                   inHalf, outErr, erased, closeNotifySent, netClosed>>

----------------------------------------------------------------------------
(* readRecord: what the peer may send, and what it means to the caller.     *)

\* "oversized" announces a message longer than maxHandshake.
Handshakes == {"handshake", "helloRequest", "oversized"}

\* "end" is close_notify or a fatal alert, "bad" a record that is refused.
PeerRecords == Handshakes \union {"empty", "data", "warning", "end", "bad"}

\* What MaxRecords does not bound: each of these ends a call or a step of a handshake.
Uncounted == {"eof", "handshake", "oversized"}

\* The next thing conn.Read gives: a record while the peer sends, an expired
\* deadline, the end of the stream.
Arrivals ==
    IF netClosed THEN {"eof"}
    ELSE Uncounted \union IF records < MaxRecords THEN PeerRecords \union {"timeout"} ELSE {}

Count(r) == records' = IF r \in Uncounted THEN records ELSE records + 1

isData(r) == r \in {"empty", "data"}
size(r) == IF r = "data" THEN 2 ELSE 0

\* Whether r, read while want is expected, ends the input with an alert, and
\* without one.
tooManyWarnings(r) == r = "warning" /\ warnCount + 1 > MaxWarn

answered(r, want) ==
    \/ r = "bad" \/ tooManyWarnings(r)
    \/ want = "handshake" /\ isData(r)
    \/ want = "data" /\ r \in Handshakes /\ ~(cfg.isClient /\ cfg.renegotiation # "never")

silent(r) == r \in {"eof", "end"}

ignored(r) == r = "warning" /\ ~tooManyWarnings(r)

warnings(r) ==
    CASE r = "warning" -> warnCount + 1
      [] r \in Handshakes \union {"data"} -> 0
      [] OTHER -> warnCount

\* A read inside the handshake: the expected message; one that the handshake refuses
\* with an alert (readHandshake sets in.err too if it does not know or cannot parse
\* it); or the end of the input.
RecvFlight(p) ==
    /\ At(p, "run") /\ op(p) \in {"recv", "recvThenBuffer"}
    /\ ~inErr
    /\ \E r \in Arrivals :
         /\ Count(r)
         /\ warnCount' = warnings(r)
         /\ \/ /\ r = "handshake"
               /\ Step(p)
               /\ buffering' = (buffering \/ op(p) = "recvThenBuffer")
               /\ UNCHANGED <<pc, inErr, outErr, erased, sendBuf, wire>>
            \/ /\ r \in Handshakes /\ sendAlert
               /\ inErr' \in {r = "oversized", r # "helloRequest"}
               /\ Goto(p, "fail") /\ UNCHANGED stage
            \/ answered(r, "handshake") /\ sendAlert /\ inErr' = TRUE /\ Goto(p, "fail") /\ UNCHANGED stage
            \/ silent(r) /\ inErr' = TRUE /\ Goto(p, "fail") /\ UNCHANGED <<stage, outHalf>>
            \/ r = "timeout" /\ Goto(p, "fail") /\ UNCHANGED <<stage, inErr, outHalf>>
            \/ ignored(r) /\ UNCHANGED <<pc, stage, inErr, outHalf>>
    /\ UNCHANGED <<cfg, calls, x, renegotiating, empties, mutexes, session, input, hand, unread, closing>>

----------------------------------------------------------------------------
(* Read.                                                                    *)

LockIn(p) ==
    /\ At(p, "lockIn")
    /\ Free(inMutex)
    /\ inMutex' = p
    /\ empties' = [empties EXCEPT ![p] = 0]
    /\ Goto(p, "read")
    /\ UNCHANGED <<cfg, calls, x, stage, renegotiating, handshakeMutex, outMutex, session, inHalf, outHalf, closing>>

ReturnRead(p) == Goto(p, "idle") /\ inMutex' = None

\* readRecord(applicationData) outside a completed handshake.
ReadWhileIncomplete(p) ==
    /\ pc[p] \in {"read", "ahead"}
    /\ input = <<>> /\ ~inErr /\ ~handshakeComplete
    /\ sendAlert
    /\ inErr' = TRUE
    /\ ReturnRead(p)
    /\ UNCHANGED <<cfg, calls, x, stage, renegotiating, empties, handshakeMutex, outMutex, session,
                   input, hand, warnCount, records, unread, closing>>

\* Read's loop and, at "ahead", the record after one that was used up.
ReadRecord(p) ==
    /\ pc[p] \in {"read", "ahead"}
    /\ input = <<>> /\ ~inErr /\ handshakeComplete
    /\ \E r \in Arrivals :
         /\ Count(r)
         /\ warnCount' = warnings(r)
         /\ inErr' = (answered(r, "data") \/ silent(r))
         /\ input' = IF isData(r) THEN <<size(r)>> ELSE input
         /\ unread' = IF isData(r) THEN unread + size(r) ELSE unread
         /\ hand' = IF r \in Handshakes /\ ~answered(r, "data") THEN r ELSE hand
         /\ IF answered(r, "data") THEN sendAlert ELSE UNCHANGED outHalf
         /\ CASE ignored(r) -> UNCHANGED <<pc, inMutex>>
              [] ~ignored(r) /\ (At(p, "ahead") \/ inErr' \/ r = "timeout") -> ReturnRead(p)
              [] OTHER -> Goto(p, IF hand' # None THEN "renegotiate" ELSE "read") /\ UNCHANGED inMutex
    /\ UNCHANGED <<cfg, calls, x, stage, renegotiating, empties, handshakeMutex, outMutex, session, closing>>

ReadError(p) ==
    /\ At(p, "read")
    /\ inErr
    /\ ReturnRead(p)
    /\ UNCHANGED <<cfg, calls, x, stage, renegotiating, empties, handshakeMutex, outMutex, session, inHalf, outHalf, closing>>

\* Mutant: the block is freed although bytes are left in it.
TakeInputDrops(p) ==
    /\ At(p, "read")
    /\ input # <<>> /\ input # <<0>> /\ ~inErr
    /\ \E n \in 1..input[1] :
         /\ unread' = unread - n
         /\ input' = <<>>
         /\ ReturnRead(p) \/ (n = input[1] /\ Goto(p, "ahead") /\ UNCHANGED inMutex)
    /\ UNCHANGED <<cfg, calls, x, stage, renegotiating, empties, handshakeMutex, outMutex, session,
                   inErr, hand, warnCount, records, outHalf, closing>>

\* input.Read into a buffer of n bytes: the rest stays; after the last byte an
\* alert that is already there is read too.
TakeInput(p) ==
    /\ At(p, "read")
    /\ input # <<>> /\ input # <<0>> /\ ~inErr
    /\ \E n \in 1..input[1] :
         /\ unread' = unread - n
         /\ input' = IF n = input[1] THEN <<>> ELSE <<input[1] - n>>
         /\ ReturnRead(p) \/ (n = input[1] /\ Goto(p, "ahead") /\ UNCHANGED inMutex)
    /\ UNCHANGED <<cfg, calls, x, stage, renegotiating, empties, handshakeMutex, outMutex, session,
                   inErr, hand, warnCount, records, outHalf, closing>>

SkipEmpty(p) ==
    /\ At(p, "read")
    /\ input = <<0>> /\ ~inErr
    /\ input' = <<>>
    /\ empties' = [empties EXCEPT ![p] = @ + 1]
    /\ IF empties[p] + 1 > MaxEmpty THEN ReturnRead(p) ELSE UNCHANGED <<pc, inMutex>>
    /\ UNCHANGED <<cfg, calls, x, stage, renegotiating, handshakeMutex, outMutex, session,
                   inErr, hand, warnCount, records, unread, outHalf, closing>>

mayRenegotiate == cfg.renegotiation = "freely" \/ (cfg.renegotiation = "once" /\ handshakes <= 1)

\* handleRenegotiation on the handshake message in hand; readHandshake sets in.err if
\* it does not know or cannot parse it.
Renegotiate(p) ==
    /\ At(p, "renegotiate")
    /\ hand' = None
    /\ CASE hand = "oversized" -> Goto(p, "unlockedAlert") /\ UNCHANGED <<inErr, inMutex, outHalf>>
         [] hand = "helloRequest" /\ mayRenegotiate ->
              Goto(p, "renegotiateLock") /\ UNCHANGED <<inErr, inMutex, outHalf>>
         [] OTHER -> sendAlert /\ inErr' \in {inErr, inErr \/ hand = "handshake"} /\ ReturnRead(p)
    /\ UNCHANGED <<cfg, calls, x, stage, renegotiating, empties, handshakeMutex, outMutex, session,
                   input, warnCount, records, unread, closing>>

\* readHandshake calls sendAlertLocked without the lock: a Write may be in its
\* critical section.  The record is told apart from the other alerts.
UnlockedAlert(p) ==
    /\ At(p, "unlockedAlert")
    /\ sendAlertLocked("unlocked")
    /\ inErr' = TRUE
    /\ ReturnRead(p)
    /\ UNCHANGED <<cfg, calls, x, stage, renegotiating, empties, handshakeMutex, outMutex, session,
                   input, hand, warnCount, records, unread, closing>>

LockRenegotiation(p) ==
    /\ At(p, "renegotiateLock")
    /\ Free(handshakeMutex)
    /\ handshakeMutex' = p
    /\ handshakeStatus' = 0
    /\ stage' = [stage EXCEPT ![p] = 1]
    /\ renegotiating' = [renegotiating EXCEPT ![p] = TRUE]
    /\ Goto(p, "run")
    /\ UNCHANGED <<cfg, calls, x, empties, inMutex, outMutex, handshakeErr, handshakes, inHalf, outHalf, closing>>

----------------------------------------------------------------------------
(* Write.                                                                   *)

ReturnWrite(p) == Goto(p, "idle") /\ activeCall' = activeCall - 2

\* Mutant: the handshake is not looked at again under the lock.
LockOutUnchecked(p) ==
    /\ At(p, "lockOut")
    /\ Free(outMutex)
    /\ IF outErr \/ closeNotifySent
       THEN ReturnWrite(p) /\ UNCHANGED outMutex
       ELSE Goto(p, "write") /\ outMutex' = p /\ UNCHANGED activeCall
    /\ UNCHANGED <<cfg, calls, x, stage, renegotiating, empties, handshakeMutex, inMutex, session, inHalf, outHalf,
                   closeNotifySent, netClosed>>

LockOut(p) ==
    /\ At(p, "lockOut")
    /\ Free(outMutex)
    /\ IF outErr \/ ~handshakeComplete \/ closeNotifySent
       THEN ReturnWrite(p) /\ UNCHANGED outMutex
       ELSE Goto(p, "write") /\ outMutex' = p /\ UNCHANGED activeCall
    /\ UNCHANGED <<cfg, calls, x, stage, renegotiating, empties, handshakeMutex, inMutex, session, inHalf, outHalf,
                   closeNotifySent, netClosed>>

\* setErrorLocked stores what the write returned, nil too: an error that the unlocked
\* alert has put into out.err meanwhile is gone.
WriteData(p) ==
    /\ At(p, "write")
    /\ WriteRecord("data")
    /\ outErr' = writeFails
    /\ erased' = (erased \/ (outErr /\ ~writeFails))
    /\ outMutex' = None
    /\ ReturnWrite(p)
    /\ UNCHANGED <<cfg, calls, x, stage, renegotiating, empties, handshakeMutex, inMutex, session, inHalf,
                   closeNotifySent, netClosed>>

----------------------------------------------------------------------------

Init ==
    /\ cfg \in Configs
    /\ pc = [p \in Procs |-> "idle"] /\ calls = [p \in Procs |-> 0]
    /\ x = [p \in Procs |-> 0] /\ stage = [p \in Procs |-> 0]
    /\ renegotiating = [p \in Procs |-> FALSE] /\ empties = [p \in Procs |-> 0]
    /\ handshakeMutex = None /\ inMutex = None /\ outMutex = None
    /\ handshakeStatus = 0 /\ handshakeErr = FALSE /\ handshakes = 0
    /\ inErr = FALSE /\ outErr = FALSE /\ erased = FALSE /\ input = <<>> /\ hand = None /\ warnCount = 0
    /\ buffering = FALSE /\ sendBuf = <<>> /\ wire = <<>>
    /\ closeNotifySent = FALSE /\ activeCall = 0 /\ netClosed = FALSE
    /\ records = 0 /\ unread = 0

CallStep(p) ==
    \/ LoadActiveCall(p) \/ CASActiveCall(p) \/ CheckComplete(p) \/ NetClose(p)
    \/ LockHandshake(p) \/ LockInForHandshake(p) \/ Flushed(p) \/ FinishHandshake(p)
    \/ LockIn(p) \/ ReadError(p) \/ TakeInput(p) \/ SkipEmpty(p)
    \/ LockRenegotiation(p) \/ LockOut(p)

\* The steps that read from the connection, or may write to it: they take as long as
\* the peer does.  A Write hangs with out locked.
PeerStep(p) ==
    \/ RecvFlight(p) \/ ReadRecord(p)
    \/ closeNotify(p) \/ SendFlight(p) \/ Flush(p) \/ FailHandshake(p)
    \/ ReadWhileIncomplete(p) \/ Renegotiate(p) \/ UnlockedAlert(p) \/ WriteData(p)

AllReturned == (\A p \in Procs : At(p, "idle") /\ calls[p] = limit(p)) /\ UNCHANGED vars

Next == (\E p \in Procs : Begin(p) \/ CallStep(p) \/ PeerStep(p)) \/ AllReturned

\* A goroutine inside a call keeps running, and what waits for the peer returns when
\* the connection is closed; nobody has to call anything, and the peer need neither
\* send nor take a byte.
Fairness ==
    \A p \in Procs : WF_vars(CallStep(p) \/ (netClosed /\ PeerStep(p)))

Spec == Init /\ [][Next]_vars /\ Fairness
----------------------------------------------------------------------------
(* Properties.                                                              *)

before(i, t) == Cardinality({j \in 1..i - 1 : wire[j] = t})

onWire(t) == before(Len(wire) + 1, t)

\* What the peer sees of the application data is inside a session: a record of
\* Write comes after a completed handshake, never between the first flight of a
\* renegotiation and its last, never after close_notify and never after a fatal
\* alert that was sent under out.Lock (Write's checks under that lock, against
\* handleRenegotiation, Close, CloseWrite and the alerts of Read on other
\* goroutines).
DataOnlyInSession ==
    \A i \in 1..Len(wire) : wire[i] = "data" =>
        /\ before(i, "first") = before(i, "last") /\ before(i, "last") > 0
        /\ before(i, "closeNotify") = 0
        /\ before(i, "fatal") = 0

\* Every byte of application data that was accepted is returned by Read once, or
\* still in input.  An error in in.err hides what input holds; over unread input it is
\* recorded only where the connection is over for writing as well: the renegotiation
\* failed, or an alert has been recorded in out.err (and a Write that was writing at
\* that moment may have stored nil over it).  Read's look-ahead past a warning may
\* put a handshake message in hand; the next Read then handles it with data in input.
NothingLostBeforeError ==
    /\ unread = (IF input = <<>> THEN 0 ELSE input[1])
    /\ inErr /\ input # <<>> => ~handshakeComplete \/ outErr \/ erased

\* "first permanent error" (conn.go:156): what is in out.err stays.  This does NOT hold,
\* and no run asserts it: Write calls setErrorLocked with nil when it has succeeded,
\* and erases the error of the alert that readHandshake sent without out.Lock.
OutErrPermanent == [][outErr => outErr']_vars

\* A Close that found no Write in flight has the connection to itself: until it
\* has sent close_notify and closed, no Write puts data on it (the activeCall
\* interlock of Write and Close).
QuietAfterClose ==
    [][(\E p \in Closers : pc[p] \in {"complete", "notify"}) => onWire("data")' = onWire("data")]_vars

\* Once the connection is closed every call returns: no goroutine stays in a lock
\* cycle of handshakeMutex, in and out (Handshake takes handshakeMutex before in,
\* handleRenegotiation in before handshakeMutex).
CallsReturn == netClosed ~> \A p \in Procs : At(p, "idle")
=============================================================================
