--------------------------- MODULE TLSConnProofs ---------------------------
(***************************************************************************)
(* Proofs about TLSConn for any goroutines, any peer and any number of      *)
(* calls, records and renegotiations: DataOnlyInSession, QuietAfterClose    *)
(* and NothingLostBeforeError.                                              *)
(***************************************************************************)
EXTENDS TLSConn, Integers, FiniteSetTheorems, SequenceTheorems, TLAPS

----------------------------------------------------------------------------
(* Types, locks and phases of a connection.                                 *)

Labels == {"idle", "load", "cas", "complete", "notify", "netClose", "handshake", "handshakeIn", "run", "fail",
           "lockIn", "read", "ahead", "renegotiate", "unlockedAlert", "renegotiateLock", "lockOut", "write"}

Tags == {"first", "last", "data", "closeNotify", "fatal", "unlocked"}

\* Every variable the properties depend on has its type.
Types ==
    /\ cfg \in Configs
    /\ pc \in [Procs -> Labels] /\ x \in [Procs -> Int]
    /\ stage \in [Procs -> Nat] /\ renegotiating \in [Procs -> BOOLEAN]
    /\ handshakeMutex \in Procs \union {None} /\ inMutex \in Procs \union {None} /\ outMutex \in Procs \union {None}
    /\ handshakeStatus \in {0, 1} /\ handshakeErr \in BOOLEAN /\ handshakes \in Nat
    /\ inErr \in BOOLEAN /\ outErr \in BOOLEAN /\ closeNotifySent \in BOOLEAN
    /\ netClosed \in BOOLEAN /\ activeCall \in Int
    /\ buffering \in BOOLEAN /\ sendBuf \in Seq(Tags) /\ wire \in Seq(Tags)

\* Which method may be where.
Role(p, l) ==
    /\ l \in {"lockIn", "read", "ahead", "renegotiate", "unlockedAlert", "renegotiateLock"} => p \in Readers
    /\ l \in {"handshake", "handshakeIn", "run", "fail"} => p \in Readers \union Writers
    /\ l \in {"lockOut", "write"} => p \in Writers
    /\ l \in {"load", "cas"} => p \in Writers \union Closers
    /\ l \in {"complete", "notify"} => p \in Closers \union CloseWriters
    /\ l = "netClose" => p \in Closers

\* Who is at l has the mutexes he took on the way.
Lock(p, l) ==
    /\ l \in {"handshakeIn", "run", "fail"} => handshakeMutex = p
    /\ l \in {"run", "fail", "read", "ahead", "renegotiate", "unlockedAlert", "renegotiateLock"} => inMutex = p
    /\ l = "write" => outMutex = p

\* What who is at l knows of the session: only a client with a session negotiates
\* another one.
Phase(p, l) ==
    /\ l \in {"handshakeIn", "run", "fail"} => handshakeStatus = 0 /\ ~handshakeErr
    /\ l \in {"run", "renegotiate", "renegotiateLock"} => ~inErr
    /\ l = "run" => (renegotiating[p] <=> handshakes > 0) /\ (renegotiating[p] => cfg.isClient /\ p \in Readers)
    /\ l \in {"lockIn", "lockOut", "read", "ahead", "notify", "write"} => handshakes > 0
    /\ l \in {"renegotiate", "unlockedAlert", "renegotiateLock"} => cfg.isClient /\ handshakeStatus = 1

Places == \A p \in Procs : Role(p, pc[p]) /\ Lock(p, pc[p]) /\ Phase(p, pc[p])

Handshaking(p) == pc[p] \in {"run", "fail"}

\* A connection has no session yet, has one, is negotiating one, or has failed.
Session ==
    /\ handshakeStatus = 1 => ~handshakeErr /\ handshakes > 0
    /\ (\A p \in Procs : ~Handshaking(p)) /\ ~handshakeErr =>
        /\ handshakeStatus = 0 => handshakes = 0
        /\ handshakes = 0 => ~inErr
    /\ hand # None => cfg.isClient

Control == Types /\ Places /\ Session

----------------------------------------------------------------------------
(* What is on the wire and in sendBuf.                                      *)

count(s, t) == Cardinality({j \in 1..Len(s) : s[j] = t})

\* The flights on the wire are f and l more than the completed handshakes.
Sent(f, l) == count(wire, "first") = handshakes + f /\ count(wire, "last") = handshakes + l

\* sendBuf holds f and l flights.
Held(f, l) == buffering /\ count(sendBuf, "first") = f /\ count(sendBuf, "last") = l

Clear == ~buffering /\ sendBuf = <<>>

\* Flush has written sendBuf, or it failed and Flushed will notice.
Flushing(f, l) == buffering /\ (netClosed \/ Sent(f, l))

\* What the script has done before step n of a client's and of a server's handshake.
ClientAt(n) ==
    /\ n = 1 => Sent(0, 0) /\ Clear
    /\ n = 2 => Sent(1, 0) /\ Clear
    /\ n \in {3, 4} => Sent(1, 0) /\ Held(0, 0)
    /\ n = 5 => Sent(1, 0) /\ Held(0, 1)
    /\ n = 6 => Flushing(1, 1)
    /\ n \in {7, 8} => Sent(1, 1) /\ Clear
    /\ n \in 1..8

ServerAt(n) ==
    /\ n = 1 => Sent(0, 0) /\ Clear
    /\ n = 2 => Sent(0, 0) /\ Held(0, 0)
    /\ n = 3 => Sent(0, 0) /\ Held(1, 0)
    /\ n = 4 => Flushing(1, 0)
    /\ n = 5 => Sent(1, 0) /\ Clear
    /\ n = 6 => Sent(1, 0) /\ Held(0, 0)
    /\ n = 7 => Sent(1, 0) /\ Held(0, 1)
    /\ n = 8 => Flushing(1, 1)
    /\ n = 9 => Sent(1, 1) /\ Clear
    /\ n \in 1..9

Scripted(p) == IF cfg.isClient THEN ClientAt(stage[p]) ELSE ServerAt(stage[p])

\* A handshake has sent what its script says; in a session, and before the first
\* handshake, nothing is half sent.
Flights ==
    /\ \A p \in Procs : pc[p] = "run" => Scripted(p)
    /\ (\A p \in Procs : ~Handshaking(p)) /\ ~handshakeErr => Sent(0, 0) /\ Clear

\* Alerts leave their mark, and application data is never buffered.
Marks ==
    /\ count(wire, "closeNotify") + count(sendBuf, "closeNotify") > 0 => closeNotifySent
    /\ count(wire, "fatal") + count(sendBuf, "fatal") > 0 => outErr
    /\ count(sendBuf, "data") = 0

\* A Write that holds out.Lock is in a session, at most about to be renegotiated.
InSession ==
    \A w \in Procs : pc[w] = "write" =>
        /\ ~closeNotifySent /\ count(wire, "fatal") = 0
        /\ \/ handshakeStatus = 1
           \/ \E p \in Procs : pc[p] = "run" /\ renegotiating[p] /\ stage[p] = 1

Output == Flights /\ Marks /\ InSession /\ DataOnlyInSession

----------------------------------------------------------------------------
(* The interlock of Write and Close, and the input.                         *)

InFlight == {p \in Writers : pc[p] \in {"handshake", "handshakeIn", "run", "fail", "lockOut", "write"}}

\* activeCall counts the Writes in flight by two and Close's bit by one; a Close that
\* will send close_notify found none, and none has come.
Interlock ==
    /\ activeCall \in {2 * Cardinality(InFlight), 2 * Cardinality(InFlight) + 1}
    /\ \A p \in Procs : pc[p] = "cas" => x[p] % 2 = 0
    /\ (\E p \in Closers : pc[p] \in {"complete", "notify"}) => activeCall = 1 /\ InFlight = {}

InputKept ==
    /\ input \in {<<>>, <<0>>, <<1>>, <<2>>}
    /\ NothingLostBeforeError

IInv == Control /\ Output /\ Interlock /\ InputKept

----------------------------------------------------------------------------
(* Counting records.                                                        *)

\* A count is a number, and zero when there is nothing to count.
LEMMA CountType ==
    ASSUME NEW s \in Seq(Tags), NEW t
    PROVE  /\ IsFiniteSet({j \in 1..Len(s) : s[j] = t}) /\ count(s, t) \in Nat
           /\ count(s, t) = 0 <=> \A j \in 1..Len(s) : s[j] # t
<1>1. Len(s) \in Nat /\ IsFiniteSet(1..Len(s))
  BY LenProperties, FS_Interval
<1>2. IsFiniteSet({j \in 1..Len(s) : s[j] = t})
  BY <1>1, FS_Subset
<1>3. count(s, t) = 0 <=> {j \in 1..Len(s) : s[j] = t} = {}
  BY <1>2, FS_EmptySet DEF count
<1> QED
  BY <1>2, <1>3, FS_CardinalityType DEF count

\* Nothing is counted in an empty sequence.
LEMMA CountEmpty ==
    ASSUME NEW t
    PROVE  count(<<>>, t) = 0
<1>1. {j \in 1..Len(<<>>) : <<>>[j] = t} = {}
  OBVIOUS
<1> QED
  BY <1>1, FS_EmptySet DEF count

\* Appending two sequences adds what they count.
LEMMA CountConcat ==
    ASSUME NEW s \in Seq(Tags), NEW u \in Seq(Tags), NEW t
    PROVE  s \o u \in Seq(Tags) /\ count(s \o u, t) = count(s, t) + count(u, t)
<1> DEFINE S == {j \in 1..Len(s) : s[j] = t}
           U == {j \in 1..Len(u) : u[j] = t}
           V == {j \in Len(s) + 1..Len(s) + Len(u) : u[j - Len(s)] = t}
           f == [j \in U |-> j + Len(s)]
<1>1. /\ s \o u \in Seq(Tags) /\ Len(s \o u) = Len(s) + Len(u) /\ Len(s) \in Nat /\ Len(u) \in Nat
      /\ \A j \in 1..Len(s) + Len(u) : (s \o u)[j] = IF j <= Len(s) THEN s[j] ELSE u[j - Len(s)]
  BY ConcatProperties, LenProperties
<1>2. {j \in 1..Len(s \o u) : (s \o u)[j] = t} = S \cup V
  <2>1. \A j \in S \cup V : j \in 1..Len(s) + Len(u) /\ (s \o u)[j] = t
    BY <1>1
  <2>2. \A j \in 1..Len(s) + Len(u) : (s \o u)[j] = t => j \in S \cup V
    BY <1>1
  <2> QED
    BY <2>1, <2>2, <1>1
<1>3. S \cap V = {}
  BY <1>1
<1>4. f \in Bijection(U, V)
  <2>1. \A j \in U : f[j] \in V
    BY <1>1
  <2>2. \A i, j \in U : f[i] = f[j] => i = j
    BY <1>1
  <2>3. ASSUME NEW k \in V PROVE k - Len(s) \in U /\ f[k - Len(s)] = k
    <3>1. k - Len(s) \in 1..Len(u) /\ u[k - Len(s)] = t /\ (k - Len(s)) + Len(s) = k
      BY <1>1
    <3>2. k - Len(s) \in U
      BY <3>1
    <3> QED
      BY <3>1, <3>2
  <2> QED
    BY <2>1, <2>2, <2>3 DEF Bijection, Injection, Surjection, IsInjective
<1>5. IsFiniteSet(S) /\ IsFiniteSet(U)
  BY CountType
<1>6. IsFiniteSet(V) /\ Cardinality(V) = Cardinality(U)
  BY <1>4, <1>5, FS_Bijection DEF ExistsBijection
<1>7. Cardinality(S \cup V) = Cardinality(S) + Cardinality(V) - Cardinality(S \cap V)
  BY <1>5, <1>6, FS_Union
<1>8. Cardinality(S \cap V) = 0 /\ Cardinality(S) \in Nat /\ Cardinality(V) \in Nat
  BY <1>3, <1>5, <1>6, FS_EmptySet, FS_CardinalityType
<1>9. count(s \o u, t) = Cardinality(S \cup V) /\ count(s, t) = Cardinality(S) /\ count(u, t) = Cardinality(U)
  BY <1>2 DEF count
<1> HIDE DEF S, U, V, f
<1> QED
  BY <1>1, <1>6, <1>7, <1>8, <1>9

\* One more record.
LEMMA CountAppend ==
    ASSUME NEW s \in Seq(Tags), NEW e \in Tags, NEW t
    PROVE  Append(s, e) \in Seq(Tags) /\ count(Append(s, e), t) = IF e = t THEN count(s, t) + 1 ELSE count(s, t)
<1> DEFINE S == {j \in 1..Len(s) : s[j] = t}
           T == {j \in 1..Len(Append(s, e)) : Append(s, e)[j] = t}
<1>1. /\ Append(s, e) \in Seq(Tags) /\ Len(Append(s, e)) = Len(s) + 1 /\ Len(s) \in Nat
      /\ \A j \in 1..Len(s) : Append(s, e)[j] = s[j]
      /\ Append(s, e)[Len(s) + 1] = e
  BY AppendProperties, LenProperties
<1>2. IsFiniteSet(S) /\ Len(s) + 1 \notin S
  <2>1. IsFiniteSet(S)
    BY CountType
  <2> QED
    BY <2>1, <1>1
<1>3. CASE e = t
  <2>1. T = S \cup {Len(s) + 1}
    BY <1>1, <1>3
  <2>2. Cardinality(S \cup {Len(s) + 1}) = Cardinality(S) + 1
    BY <1>2, FS_AddElement
  <2> QED
    BY <2>1, <2>2, <1>1, <1>3 DEF count
<1>4. CASE e # t
  <2>1. T = S
    BY <1>1, <1>4
  <2> QED
    BY <2>1, <1>1, <1>4 DEF count
<1> QED
  BY <1>3, <1>4

\* onWire counts the wire.
LEMMA OnWire ==
    ASSUME wire \in Seq(Tags), NEW t
    PROVE  onWire(t) = count(wire, t)
<1>1. Len(wire) \in Nat /\ (Len(wire) + 1) - 1 = Len(wire)
  BY LenProperties
<1> QED
  BY <1>1 DEF onWire, before, count

----------------------------------------------------------------------------
(* Types and roles.                                                         *)

\* WriteRecord puts a record into sendBuf or on the wire, or drops it.
LEMMA WriteRecordTypes ==
    ASSUME Types, NEW t \in Tags, WriteRecord(t)
    PROVE  sendBuf' \in Seq(Tags) /\ wire' \in Seq(Tags) /\ buffering' = buffering
  BY CountAppend DEF Types, WriteRecord

\* The names of the flights.
LEMMA FlightNames == \A p \in Procs : flightName(p) \in {"first", "last"}
  BY DEF flightName

\* A new connection.
LEMMA ControlInit == Init => Control
<1> SUFFICES ASSUME Init PROVE Control
  OBVIOUS
<1>1. Types
  <2>1. sendBuf \in Seq(Tags) /\ wire \in Seq(Tags)
    BY EmptySeq DEF Init
  <2>2. pc \in [Procs -> Labels] /\ x \in [Procs -> Int] /\ stage \in [Procs -> Nat] /\ renegotiating \in [Procs -> BOOLEAN]
    BY DEF Init, Labels
  <2>3. /\ cfg \in Configs /\ handshakeStatus \in {0, 1} /\ handshakes \in Nat /\ activeCall \in Int
        /\ handshakeMutex \in {None} /\ inMutex \in {None} /\ outMutex \in {None}
    BY DEF Init
  <2>4. /\ handshakeErr = FALSE /\ inErr = FALSE /\ outErr = FALSE /\ closeNotifySent = FALSE
        /\ netClosed = FALSE /\ buffering = FALSE
    BY DEF Init
  <2> QED
    BY <2>1, <2>2, <2>3, <2>4 DEF Types
<1>2. Places /\ Session
  BY DEF Init, Places, Role, Lock, Phase, Session, Handshaking
<1> QED
  BY <1>1, <1>2 DEF Control

\* A step that moves p outside a handshake and keeps mutexes and session.
LEMMA PlainMove ==
    ASSUME Control, NEW p \in Procs, NEW l \in Labels, pc' = [pc EXCEPT ![p] = l],
           UNCHANGED <<cfg, renegotiating, mutexes, session, inErr, hand>>,
           ~Handshaking(p), l \notin {"run", "fail"}, Role(p, l), Lock(p, l), Phase(p, l), Types'
    PROVE  Control'
<1> USE DEF Control
<1>1. pc'[p] = l /\ \A q \in Procs \ {p} : pc'[q] = pc[q]
  BY DEF Types
<1>2. Places'
  <2> SUFFICES ASSUME NEW q \in Procs PROVE Role(q, pc'[q]) /\ Lock(q, pc[q])' /\ Phase(q, pc[q])'
    BY DEF Places, Role
  <2>1. Role(q, pc'[q]) /\ Lock(q, pc'[q]) /\ Phase(q, pc'[q])
    BY <1>1 DEF Places
  <2> QED
    BY <2>1 DEF Lock, Phase, mutexes, session
<1>3. Session'
  BY <1>1 DEF Session, Handshaking, session
<1> QED
  BY <1>2, <1>3

\* The steps that only move a call, load and swap activeCall, or close.
LEMMA ControlOfCalls ==
    ASSUME Control, NEW p \in Procs,
           Begin(p) \/ LoadActiveCall(p) \/ CASActiveCall(p) \/ CheckComplete(p) \/ NetClose(p) \/ closeNotify(p)
    PROVE  Control'
<1> USE DEF Control
<1>0. /\ UNCHANGED <<cfg, stage, renegotiating, mutexes, session, inErr, hand, outErr>>
      /\ pc[p] \in {"idle", "load", "cas", "complete", "netClose", "notify"}
  BY DEF Begin, LoadActiveCall, CASActiveCall, CheckComplete, NetClose, closeNotify, inHalf, outHalf, At
<1>1. Role(p, pc[p]) /\ Phase(p, pc[p]) /\ pc[p] \in Labels
  BY DEF Places, Types
<1>2. \E l \in Labels : pc' = [pc EXCEPT ![p] = l] /\ l \notin {"run", "fail"} /\ Role(p, l) /\ Lock(p, l) /\ Phase(p, l)
  <2>1. CASE Begin(p)
    BY <2>1, ConnAssumption DEF Begin, Goto, Procs, Labels, Role, Lock, Phase
  <2>2. CASE LoadActiveCall(p)
    BY <2>2, <1>1 DEF LoadActiveCall, Goto, At, Labels, Role, Lock, Phase
  <2>3. CASE CASActiveCall(p)
    BY <2>3, <1>1, ConnAssumption DEF CASActiveCall, Goto, At, Labels, Role, Lock, Phase
  <2>4. CASE CheckComplete(p)
    BY <2>4, <1>1, ConnAssumption DEF CheckComplete, Goto, At, Labels, Role, Lock, Phase, handshakeComplete, Session
  <2>5. CASE NetClose(p)
    BY <2>5 DEF NetClose, Goto, Labels, Role, Lock, Phase
  <2>6. CASE closeNotify(p)
    BY <2>6, <1>1 DEF closeNotify, Goto, At, Labels, Role, Lock, Phase
  <2> QED
    BY <2>1, <2>2, <2>3, <2>4, <2>5, <2>6
<1>3. PICK l \in Labels : pc' = [pc EXCEPT ![p] = l] /\ l \notin {"run", "fail"} /\ Role(p, l) /\ Lock(p, l) /\ Phase(p, l)
  BY <1>2
<1>4. x' \in [Procs -> Int] /\ activeCall' \in Int
  <2>1. CASE CASActiveCall(p)
    <3>1. p \in Writers \union Closers
      BY <2>1, <1>1 DEF CASActiveCall, At, Role
    <3>2. activeCall' \in {activeCall, activeCall + 1, activeCall + 2} /\ x' = [x EXCEPT ![p] = 0]
      BY <2>1, <3>1 DEF CASActiveCall
    <3> QED
      BY <3>2 DEF Types
  <2>2. CASE ~CASActiveCall(p)
    BY <2>2 DEF Types, Begin, LoadActiveCall, CheckComplete, NetClose, closeNotify, closing
  <2> QED
    BY <2>1, <2>2
<1>5. closeNotifySent' \in BOOLEAN /\ netClosed' \in BOOLEAN
  BY DEF Types, Begin, LoadActiveCall, CASActiveCall, CheckComplete, NetClose, closeNotify, closing
<1>6. buffering' = buffering /\ sendBuf' \in Seq(Tags) /\ wire' \in Seq(Tags)
  <2>1. CASE closeNotify(p) /\ ~closeNotifySent
    BY <2>1, WriteRecordTypes DEF closeNotify, Tags
  <2>2. CASE ~(closeNotify(p) /\ ~closeNotifySent)
    BY <2>2 DEF Types, Begin, LoadActiveCall, CASActiveCall, CheckComplete, NetClose, closeNotify, outHalf
  <2> QED
    BY <2>1, <2>2
<1>7. Types'
  BY <1>0, <1>3, <1>4, <1>5, <1>6 DEF Types, mutexes, session
<1> QED
  BY <1>0, <1>3, <1>7, PlainMove DEF Handshaking

\* A step of a running handshake, which goes on or fails.
LEMMA RunMove ==
    ASSUME Control, NEW p \in Procs, pc[p] = "run", pc' = pc \/ pc' = [pc EXCEPT ![p] = "fail"],
           UNCHANGED <<cfg, renegotiating, mutexes, session, hand>>, inErr' => pc'[p] = "fail", Types'
    PROVE  Control'
<1> USE DEF Control
<1>1. pc'[p] \in {"run", "fail"} /\ \A q \in Procs \ {p} : pc'[q] = pc[q]
  BY DEF Types
<1>2. handshakeMutex = p /\ inMutex = p /\ Phase(p, "run") /\ Role(p, "run")
  BY DEF Places, Lock
<1>3. ASSUME NEW q \in Procs PROVE Role(q, pc[q])' /\ Lock(q, pc[q])' /\ Phase(q, pc[q])'
  <2>1. CASE q = p
    BY <2>1, <1>1, <1>2 DEF Role, Lock, Phase, mutexes, session
  <2>2. CASE q # p
    <3>1. Role(q, pc[q]) /\ Lock(q, pc[q]) /\ Phase(q, pc[q]) /\ pc'[q] = pc[q]
      BY <2>2, <1>1 DEF Places
    <3>2. pc[q] \notin {"run", "renegotiate", "renegotiateLock"}
      BY <2>2, <3>1, <1>2 DEF Lock
    <3> QED
      BY <3>1, <3>2 DEF Role, Lock, Phase, mutexes, session
  <2> QED
    BY <2>1, <2>2
<1>4. Session'
  BY <1>1 DEF Session, Handshaking, session
<1> QED
  BY <1>3, <1>4 DEF Places

Reading == {"read", "ahead", "renegotiate", "unlockedAlert", "renegotiateLock"}

\* A step of a Read that holds in.Lock; it releases it when it returns.
LEMMA ReadMove ==
    ASSUME Control, NEW p \in Procs, pc[p] \in Reading, NEW l \in Reading \union {"idle"},
           pc' = [pc EXCEPT ![p] = l], inMutex' = IF l = "idle" THEN None ELSE inMutex,
           UNCHANGED <<cfg, renegotiating, handshakeMutex, outMutex, session>>,
           hand' # None => cfg.isClient, Phase(p, l)', Types'
    PROVE  Control'
<1> USE DEF Control, Reading
<1>1. pc'[p] = l /\ \A q \in Procs \ {p} : pc'[q] = pc[q]
  BY DEF Types
<1>2. inMutex = p /\ p \in Readers /\ handshakes > 0
  BY DEF Places, Lock, Role, Phase, Session
<1>3. ASSUME NEW q \in Procs PROVE Role(q, pc[q])' /\ Lock(q, pc[q])' /\ Phase(q, pc[q])'
  <2>1. CASE q = p
    BY <2>1, <1>1, <1>2 DEF Role, Lock
  <2>2. CASE q # p
    <3>1. Role(q, pc[q]) /\ Lock(q, pc[q]) /\ Phase(q, pc[q]) /\ pc'[q] = pc[q]
      BY <2>2, <1>1 DEF Places
    <3>2. pc[q] \notin {"run", "fail", "read", "ahead", "renegotiate", "unlockedAlert", "renegotiateLock"}
      BY <2>2, <3>1, <1>2 DEF Lock
    <3> QED
      BY <3>1, <3>2 DEF Role, Lock, Phase, session
  <2> QED
    BY <2>1, <2>2
<1>4. Session'
  BY <1>1, <1>2 DEF Session, Handshaking, session
<1> QED
  BY <1>3, <1>4 DEF Places

\* sendAlert keeps the types and marks the outgoing half.
LEMMA SendAlertTypes ==
    ASSUME Types, NEW t \in {"fatal", "unlocked"}, sendAlertLocked(t)
    PROVE  sendBuf' \in Seq(Tags) /\ wire' \in Seq(Tags) /\ buffering' \in BOOLEAN /\ outErr' = TRUE
<1>1. t \in Tags
  BY DEF Tags
<1>2. sendBuf' \in Seq(Tags) /\ wire' \in Seq(Tags) /\ buffering' = buffering
  BY <1>1, WriteRecordTypes DEF sendAlertLocked
<1> QED
  BY <1>2 DEF sendAlertLocked, Types

\* Sends and flushes of a running handshake.
LEMMA ControlOfFlights ==
    ASSUME Control, NEW p \in Procs, SendFlight(p) \/ Flush(p) \/ Flushed(p)
    PROVE  Control'
<1> USE DEF Control
<1>0. /\ UNCHANGED <<cfg, x, renegotiating, mutexes, session, inErr, hand, outErr, closing>> /\ pc[p] = "run"
      /\ ~inErr
  BY DEF SendFlight, Flush, Flushed, inHalf, At, Places, Phase
<1>1. pc' = pc \/ pc' = [pc EXCEPT ![p] = "fail"]
  BY DEF SendFlight, Flush, Flushed, Goto
<1>2. stage' \in [Procs -> Nat]
  BY DEF SendFlight, Flush, Flushed, Step, Types
<1>3. sendBuf' \in Seq(Tags) /\ wire' \in Seq(Tags) /\ buffering' \in BOOLEAN
  <2>1. CASE SendFlight(p)
    <3>1. flightName(p) \in Tags
      BY FlightNames DEF Tags
    <3>2. sendBuf' \in Seq(Tags) /\ wire' \in Seq(Tags) /\ buffering' = buffering
      BY <2>1, <3>1, WriteRecordTypes DEF SendFlight
    <3> QED
      BY <3>2 DEF Types
  <2>2. CASE Flush(p)
    BY <2>2, CountConcat DEF Flush, Types
  <2>3. CASE Flushed(p)
    BY <2>3, EmptySeq DEF Flushed, Types
  <2> QED
    BY <2>1, <2>2, <2>3
<1>4. pc' \in [Procs -> Labels]
  BY <1>1 DEF Types, Labels
<1>5. Types'
  BY <1>0, <1>2, <1>3, <1>4 DEF Types, mutexes, session, closing
<1> QED
  BY <1>0, <1>1, <1>5, RunMove

\* A read of a running handshake.
LEMMA ControlOfRecv ==
    ASSUME Control, NEW p \in Procs, RecvFlight(p)
    PROVE  Control'
<1> USE DEF Control
<1>0. /\ UNCHANGED <<cfg, x, renegotiating, mutexes, session, hand, closing>> /\ pc[p] = "run"
  BY DEF RecvFlight, At
<1>1. inErr' \in BOOLEAN
  BY DEF RecvFlight, Types
<1>2. /\ pc' = pc \/ pc' = [pc EXCEPT ![p] = "fail"]
      /\ inErr' => pc' = [pc EXCEPT ![p] = "fail"]
  BY DEF RecvFlight, Goto, answered, silent, ignored, isData, Handshakes, tooManyWarnings
<1>3. stage' \in [Procs -> Nat]
  <2>1. stage' = stage \/ stage' = [stage EXCEPT ![p] = @ + 1]
    BY DEF RecvFlight, Step
  <2>2. stage \in [Procs -> Nat]
    BY DEF Types
  <2> QED
    BY <2>1, <2>2
<1>4. sendBuf' \in Seq(Tags) /\ wire' \in Seq(Tags) /\ buffering' \in BOOLEAN /\ outErr' \in BOOLEAN
  <2>1. CASE sendAlert
    BY <2>1, SendAlertTypes DEF sendAlert
  <2>2. CASE ~sendAlert
    BY <2>2 DEF RecvFlight, Types, outHalf
  <2> QED
    BY <2>1, <2>2
<1>5. pc' \in [Procs -> Labels] /\ (inErr' => pc'[p] = "fail")
  BY <1>2 DEF Types, Labels
<1>6. Types'
  BY <1>0, <1>1, <1>3, <1>4, <1>5 DEF Types, mutexes, session, closing
<1> QED
  BY <1>0, <1>2, <1>5, <1>6, RunMove

\* Read's steps under in.Lock.
LEMMA ControlOfRead ==
    ASSUME Control, NEW p \in Procs,
           \/ ReadWhileIncomplete(p) \/ ReadRecord(p) \/ ReadError(p) \/ TakeInput(p) \/ SkipEmpty(p)
           \/ Renegotiate(p) \/ UnlockedAlert(p)
    PROVE  Control'
<1> USE DEF Control
<1>0. /\ UNCHANGED <<cfg, x, stage, renegotiating, handshakeMutex, outMutex, session, closing>>
      /\ pc[p] \in {"read", "ahead", "renegotiate", "unlockedAlert"}
  BY DEF ReadWhileIncomplete, ReadRecord, ReadError, TakeInput, SkipEmpty, Renegotiate, UnlockedAlert, At
<1>1. Phase(p, pc[p]) /\ handshakes > 0
  BY <1>0 DEF Places, Phase, Session
<1>2. inErr' \in BOOLEAN
  BY DEF ReadWhileIncomplete, ReadRecord, ReadError, TakeInput, SkipEmpty, Renegotiate, UnlockedAlert, inHalf, Types
<1>3. sendBuf' \in Seq(Tags) /\ wire' \in Seq(Tags) /\ buffering' \in BOOLEAN /\ outErr' \in BOOLEAN
  <2>1. CASE sendAlert \/ sendAlertLocked("unlocked")
    BY <2>1, SendAlertTypes DEF sendAlert
  <2>2. CASE ~(sendAlert \/ sendAlertLocked("unlocked"))
    BY <2>2 DEF ReadWhileIncomplete, ReadRecord, ReadError, TakeInput, SkipEmpty, Renegotiate, UnlockedAlert,
       Types, outHalf
  <2> QED
    BY <2>1, <2>2
<1>9. hand' # None => cfg.isClient
  <2>1. CASE ReadRecord(p)
    <3>1. PICK r \in Arrivals : hand' = IF r \in Handshakes /\ ~answered(r, "data") THEN r ELSE hand
      BY <2>1 DEF ReadRecord
    <3> QED
      BY <3>1 DEF answered, Session
  <2>2. CASE ~ReadRecord(p)
    BY <2>2 DEF ReadWhileIncomplete, ReadError, TakeInput, SkipEmpty, Renegotiate, UnlockedAlert, inHalf, Session
  <2> QED
    BY <2>1, <2>2
<1>4. \E l \in Reading \union {"idle"} :
        /\ pc' = [pc EXCEPT ![p] = l]
        /\ inMutex' = IF l = "idle" THEN None ELSE inMutex
        /\ l \in {"renegotiate", "renegotiateLock"} => ~inErr'
        /\ l \in {"renegotiate", "unlockedAlert", "renegotiateLock"} => cfg.isClient /\ handshakeStatus = 1
  <2>1. CASE ReadWhileIncomplete(p) \/ ReadError(p) \/ UnlockedAlert(p)
    BY <2>1 DEF ReadWhileIncomplete, ReadError, UnlockedAlert, ReturnRead, Goto
  <2>2. CASE ReadRecord(p)
    <3>1. PICK r \in Arrivals :
             /\ inErr' = (answered(r, "data") \/ silent(r))
             /\ hand' = IF r \in Handshakes /\ ~answered(r, "data") THEN r ELSE hand
             /\ CASE ignored(r) -> UNCHANGED <<pc, inMutex>>
                  [] ~ignored(r) /\ (At(p, "ahead") \/ inErr' \/ r = "timeout") -> ReturnRead(p)
                  [] OTHER -> Goto(p, IF hand' # None THEN "renegotiate" ELSE "read") /\ UNCHANGED inMutex
      BY <2>2 DEF ReadRecord
    <3>2. handshakeStatus = 1
      BY <2>2 DEF ReadRecord, handshakeComplete
    <3>3. CASE ignored(r)
      <4>1. pc' = [pc EXCEPT ![p] = pc[p]] /\ pc[p] \in {"read", "ahead"} /\ inMutex' = inMutex
        BY <3>1, <3>3, <2>2 DEF ReadRecord, Types
      <4> QED
        BY <4>1 DEF Reading
    <3>4. CASE ~ignored(r) /\ (At(p, "ahead") \/ inErr' \/ r = "timeout")
      BY <3>1, <3>4 DEF ReturnRead, Goto
    <3>5. CASE ~ignored(r) /\ ~(At(p, "ahead") \/ inErr' \/ r = "timeout")
      <4>1. pc' = [pc EXCEPT ![p] = IF hand' # None THEN "renegotiate" ELSE "read"] /\ inMutex' = inMutex
        BY <3>1, <3>5 DEF Goto
      <4>2. CASE hand' = None
        BY <4>1, <4>2 DEF Reading
      <4>3. CASE hand' # None
        <5>1. pc' = [pc EXCEPT ![p] = "renegotiate"] /\ ~inErr' /\ cfg.isClient
          BY <4>1, <4>3, <3>5, <1>9
        <5> QED
          BY <5>1, <4>1, <3>2 DEF Reading
      <4> QED
        BY <4>2, <4>3
    <3> QED
      BY <3>3, <3>4, <3>5
  <2>3. CASE TakeInput(p)
    BY <2>3 DEF TakeInput, ReturnRead, Goto, Reading
  <2>4. CASE SkipEmpty(p)
    <3>1. pc[p] = "read" /\ pc = [pc EXCEPT ![p] = "read"]
      BY <2>4 DEF SkipEmpty, At, Types
    <3> QED
      BY <2>4, <3>1 DEF SkipEmpty, ReturnRead, Goto, Reading
  <2>5. CASE Renegotiate(p)
    BY <2>5, <1>1 DEF Renegotiate, ReturnRead, Goto, Reading, At, Phase
  <2> QED
    BY <2>1, <2>2, <2>3, <2>4, <2>5
<1>5. PICK l \in Reading \union {"idle"} :
        /\ pc' = [pc EXCEPT ![p] = l]
        /\ inMutex' = IF l = "idle" THEN None ELSE inMutex
        /\ l \in {"renegotiate", "renegotiateLock"} => ~inErr'
        /\ l \in {"renegotiate", "unlockedAlert", "renegotiateLock"} => cfg.isClient /\ handshakeStatus = 1
  BY <1>4
<1>6. pc' \in [Procs -> Labels] /\ inMutex' \in Procs \union {None}
  BY <1>5 DEF Types, Labels, Reading
<1>7. Types'
  BY <1>0, <1>2, <1>3, <1>6 DEF Types, session, closing
<1>8. Phase(p, l)'
  BY <1>0, <1>1, <1>5 DEF Phase, Reading, session
<1> QED
  BY <1>0, <1>5, <1>7, <1>8, <1>9, ReadMove DEF Reading

\* Handshake's entry.
LEMMA ControlOfLockHandshake ==
    ASSUME Control, NEW p \in Procs, LockHandshake(p)
    PROVE  Control'
<1> USE DEF Control
<1>0. /\ UNCHANGED <<cfg, x, stage, renegotiating, inMutex, outMutex, session, inErr, hand, outErr, buffering, sendBuf, wire>>
      /\ UNCHANGED <<closeNotifySent, netClosed>> /\ pc[p] = "handshake" /\ handshakeMutex = None
  BY DEF LockHandshake, inHalf, outHalf, At, Free
<1>1. activeCall' \in Int
  BY DEF LockHandshake, LeaveActive, Types
<1>2. p \in Readers \union Writers
  BY <1>0 DEF Places, Role
<1>3. CASE handshakeErr \/ handshakeComplete
  <2>1. /\ handshakeMutex' = handshakeMutex
        /\ \/ pc' = [pc EXCEPT ![p] = "idle"]
           \/ handshakeStatus = 1 /\ p \in Readers /\ pc' = [pc EXCEPT ![p] = "lockIn"]
           \/ handshakeStatus = 1 /\ p \in Writers /\ pc' = [pc EXCEPT ![p] = "lockOut"]
    BY <1>2, <1>3, ConnAssumption DEF LockHandshake, Goto, handshakeComplete
  <2>2. PICK l \in {"idle", "lockIn", "lockOut"} : pc' = [pc EXCEPT ![p] = l] /\ Role(p, l) /\ Phase(p, l) /\ Lock(p, l)
    BY <2>1 DEF Role, Phase, Lock, Session
  <2>3. Types'
    BY <1>0, <1>1, <2>1, <2>2 DEF Types, Labels, session
  <2> QED
    BY <1>0, <2>1, <2>2, <2>3, PlainMove DEF Handshaking, Labels, mutexes
<1>4. CASE ~handshakeErr /\ ~handshakeComplete
  <2>1. handshakeMutex' = p /\ pc' = [pc EXCEPT ![p] = "handshakeIn"] /\ handshakeStatus = 0
    BY <1>4 DEF LockHandshake, Goto, handshakeComplete, Types
  <2>2. Types'
    BY <1>0, <1>1, <2>1 DEF Types, Labels, session
  <2>3. pc'[p] = "handshakeIn" /\ \A q \in Procs \ {p} : pc'[q] = pc[q]
    BY <2>1 DEF Types
  <2>4. ASSUME NEW q \in Procs PROVE Role(q, pc[q])' /\ Lock(q, pc[q])' /\ Phase(q, pc[q])'
    <3>1. CASE q = p
      BY <3>1, <2>1, <2>3, <1>0, <1>2, <1>4 DEF Role, Lock, Phase, session
    <3>2. CASE q # p
      <4>1. Role(q, pc[q]) /\ Lock(q, pc[q]) /\ Phase(q, pc[q]) /\ pc'[q] = pc[q]
        BY <3>2, <2>3 DEF Places
      <4>2. pc[q] \notin {"handshakeIn", "run", "fail"}
        BY <4>1, <1>0, ConnAssumption DEF Lock
      <4> QED
        BY <4>1, <4>2, <1>0 DEF Role, Lock, Phase, session
    <3> QED
      BY <3>1, <3>2
  <2>5. Session'
    BY <1>0, <2>3 DEF Session, Handshaking, session
  <2> QED
    BY <2>2, <2>4, <2>5 DEF Places
<1> QED
  BY <1>3, <1>4

\* The beginning of a handshake, the first one or a renegotiation.
LEMMA ControlOfStart ==
    ASSUME Control, NEW p \in Procs, LockInForHandshake(p) \/ LockRenegotiation(p)
    PROVE  Control' /\ pc[p] # "run" /\ pc'[p] = "run" /\ stage'[p] = 1
<1> USE DEF Control
<1>0. /\ UNCHANGED <<cfg, x, outMutex, handshakeErr, handshakes, inErr, hand, outErr, buffering, sendBuf, wire, closing>>
      /\ pc' = [pc EXCEPT ![p] = "run"] /\ pc[p] \in {"handshakeIn", "renegotiateLock"}
      /\ stage' = [stage EXCEPT ![p] = 1]
      /\ Role(p, pc[p]) /\ Lock(p, pc[p]) /\ Phase(p, pc[p])
  BY DEF LockInForHandshake, LockRenegotiation, session, inHalf, outHalf, At, Goto, Places
<1>1. /\ inMutex' = p /\ handshakeMutex' = p /\ handshakeStatus' = 0 /\ ~handshakeErr /\ ~inErr
      /\ renegotiating' = [renegotiating EXCEPT ![p] = handshakes > 0]
      /\ handshakes > 0 => cfg.isClient /\ p \in Readers
  <2>1. CASE LockInForHandshake(p)
    <3>1. pc[p] = "handshakeIn" /\ inMutex = None /\ handshakeMutex = p /\ handshakeStatus = 0 /\ ~handshakeErr
      BY <2>1, <1>0 DEF LockInForHandshake, At, Free, Lock, Phase
    <3>2. \A q \in Procs : ~Handshaking(q)
      BY <3>1, ConnAssumption DEF Places, Lock, Handshaking
    <3>3. handshakes = 0 /\ ~inErr
      BY <3>1, <3>2 DEF Session
    <3>4. (handshakes > 0) = FALSE
      BY <3>3
    <3> QED
      BY <2>1, <3>1, <3>3, <3>4 DEF LockInForHandshake, session
  <2>2. CASE LockRenegotiation(p)
    <3>1. pc[p] = "renegotiateLock" /\ inMutex = p /\ handshakeStatus = 1 /\ ~inErr /\ cfg.isClient /\ p \in Readers
      BY <2>2, <1>0 DEF LockRenegotiation, At, Lock, Phase, Role
    <3>2. handshakes > 0 /\ ~handshakeErr
      BY <3>1 DEF Session
    <3>3. (handshakes > 0) = TRUE
      BY <3>2
    <3> QED
      BY <2>2, <3>1, <3>2, <3>3 DEF LockRenegotiation
  <2> QED
    BY <2>1, <2>2
<1>2. pc'[p] = "run" /\ \A q \in Procs \ {p} : pc'[q] = pc[q] /\ renegotiating'[q] = renegotiating[q]
  BY <1>0, <1>1 DEF Types
<1>3. renegotiating'[p] = (handshakes > 0) /\ renegotiating' \in [Procs -> BOOLEAN] /\ stage'[p] = 1
  BY <1>0, <1>1 DEF Types
<1>4. Types'
  BY <1>0, <1>1, <1>3 DEF Types, Labels, closing
<1>5. ASSUME NEW q \in Procs PROVE Role(q, pc[q])' /\ Lock(q, pc[q])' /\ Phase(q, pc[q])'
  <2>1. CASE q = p
    BY <2>1, <1>0, <1>1, <1>2, <1>3 DEF Role, Lock, Phase
  <2>2. CASE q # p
    <3>1. Role(q, pc[q]) /\ Lock(q, pc[q]) /\ Phase(q, pc[q]) /\ pc'[q] = pc[q] /\ renegotiating'[q] = renegotiating[q]
      BY <2>2, <1>2 DEF Places
    <3>2. /\ inMutex \in {None, p} /\ handshakeMutex \in {None, p}
      BY <1>0 DEF LockInForHandshake, LockRenegotiation, At, Free, Lock
    <3>3. pc[q] \notin {"handshakeIn", "run", "fail", "read", "ahead", "renegotiate", "unlockedAlert", "renegotiateLock"}
      BY <2>2, <3>1, <3>2, ConnAssumption DEF Lock
    <3> QED
      BY <3>1, <3>3, <1>0 DEF Role, Lock, Phase
  <2> QED
    BY <2>1, <2>2
<1>6. Session'
  BY <1>0, <1>1, <1>2 DEF Session, Handshaking
<1> QED
  BY <1>0, <1>2, <1>3, <1>4, <1>5, <1>6 DEF Places

\* The end of a handshake: success makes a session, failure is final.
LEMMA ControlOfEnd ==
    ASSUME Control, NEW p \in Procs, FinishHandshake(p) \/ FailHandshake(p)
    PROVE  Control' /\ \A q \in Procs : ~Handshaking(q)'
<1> USE DEF Control
<1>0. /\ UNCHANGED <<cfg, x, outMutex, inErr, hand, outErr, closeNotifySent, netClosed>>
      /\ handshakeMutex' = None /\ Handshaking(p)
      /\ stage' = [stage EXCEPT ![p] = 0] /\ renegotiating' = [renegotiating EXCEPT ![p] = FALSE]
      /\ Role(p, pc[p]) /\ Lock(p, pc[p]) /\ Phase(p, pc[p])
  BY DEF FinishHandshake, FailHandshake, inHalf, outHalf, At, Places, closing, Handshaking
<1>1. \A q \in Procs \ {p} : pc[q] \notin {"handshakeIn", "run", "fail", "read", "ahead", "renegotiate", "unlockedAlert", "renegotiateLock"}
  BY <1>0 DEF Places, Lock, Handshaking
<1>2. activeCall' \in Int
  BY DEF FinishHandshake, FailHandshake, LeaveActive, closing, Types
<1>3. sendBuf' \in Seq(Tags) /\ wire' \in Seq(Tags) /\ buffering' \in BOOLEAN
  <2>1. CASE FinishHandshake(p)
    BY <2>1 DEF FinishHandshake, outHalf, Types
  <2>2. CASE FailHandshake(p)
    BY <2>2, CountConcat, EmptySeq DEF FailHandshake, Types
  <2> QED
    BY <2>1, <2>2
<1>4. \/ /\ handshakeStatus' = 1 /\ handshakes' = handshakes + 1 /\ handshakeErr' = FALSE /\ ~inErr
         /\ \/ pc' = [pc EXCEPT ![p] = "lockOut"] /\ p \in Writers /\ inMutex' = None
            \/ pc' = [pc EXCEPT ![p] = "read"] /\ p \in Readers /\ inMutex' = p
            \/ pc' = [pc EXCEPT ![p] = "lockIn"] /\ p \in Readers /\ inMutex' = None
      \/ /\ handshakeStatus' = 0 /\ handshakes' = handshakes /\ handshakeErr' = TRUE
         /\ pc' = [pc EXCEPT ![p] = "idle"] /\ inMutex' = None
  <2>1. CASE FinishHandshake(p)
    <3>1. /\ p \in Readers \union Writers /\ inMutex = p /\ ~inErr /\ handshakeErr = FALSE
          /\ p \in Writers => renegotiating[p] = FALSE
      BY <2>1, <1>0, ConnAssumption DEF FinishHandshake, At, Role, Lock, Phase, Types
    <3> QED
      BY <2>1, <3>1, ConnAssumption DEF FinishHandshake, Goto, afterHandshake
  <2>2. CASE FailHandshake(p)
    BY <2>2, <1>0 DEF FailHandshake, At, Goto, Phase
  <2> QED
    BY <2>1, <2>2
<1>5. /\ \A q \in Procs \ {p} : pc'[q] = pc[q] /\ renegotiating'[q] = renegotiating[q]
      /\ pc'[p] \in {"lockOut", "lockIn", "read", "idle"}
  BY <1>0, <1>4 DEF Types
<1>6. Types'
  <2>1. pc' \in [Procs -> Labels] /\ stage' \in [Procs -> Nat] /\ renegotiating' \in [Procs -> BOOLEAN]
    BY <1>0, <1>4 DEF Types, Labels
  <2>2. handshakeStatus' \in {0, 1} /\ handshakeErr' \in BOOLEAN
    BY <1>4
  <2>3. handshakes' \in Nat
    BY <1>4 DEF Types
  <2>4. inMutex' \in Procs \union {None}
    BY <1>4
  <2> QED
    BY <1>0, <1>2, <1>3, <2>1, <2>2, <2>3, <2>4 DEF Types
<1>7. ASSUME NEW q \in Procs PROVE Role(q, pc[q])' /\ Lock(q, pc[q])' /\ Phase(q, pc[q])'
  <2>1. CASE q = p
    <3>1. handshakes \in Nat /\ (pc'[p] # "idle" => handshakes' > 0)
      BY <1>4 DEF Types
    <3> QED
      BY <2>1, <3>1, <1>4, <1>5 DEF Role, Lock, Phase, Types
  <2>2. CASE q # p
    <3>1. Role(q, pc[q]) /\ Lock(q, pc[q]) /\ Phase(q, pc[q]) /\ pc'[q] = pc[q]
      BY <2>2, <1>5 DEF Places
    <3>2. handshakes > 0 => handshakes' > 0
      BY <1>4 DEF Types
    <3>3. pc[q] \notin {"handshakeIn", "run", "fail", "read", "ahead", "renegotiate", "unlockedAlert", "renegotiateLock"}
      BY <2>2, <1>1
    <3>4. Lock(q, pc[q])'
      BY <3>1, <3>3, <1>0 DEF Lock
    <3>5. Phase(q, pc[q])'
      BY <3>1, <3>2, <3>3 DEF Phase
    <3> QED
      BY <3>1, <3>4, <3>5 DEF Role
  <2> QED
    BY <2>1, <2>2
<1>8. \A q \in Procs : ~Handshaking(q)'
  BY <1>1, <1>5 DEF Handshaking
<1>9. Session'
  <2>1. handshakes \in Nat
    BY DEF Types
  <2> QED
    BY <2>1, <1>0, <1>4 DEF Session
<1> QED
  BY <1>6, <1>7, <1>8, <1>9 DEF Places

\* Read takes in.Lock; Write takes out.Lock, writes and releases it.
LEMMA ControlOfLocks ==
    ASSUME Control, NEW p \in Procs, LockIn(p) \/ LockOut(p) \/ WriteData(p)
    PROVE  Control'
<1> USE DEF Control
<1>0. /\ UNCHANGED <<cfg, x, stage, renegotiating, handshakeMutex, session, inErr, hand, closeNotifySent, netClosed>>
      /\ Role(p, pc[p]) /\ Lock(p, pc[p]) /\ Phase(p, pc[p]) /\ pc[p] \in {"lockIn", "lockOut", "write"}
  BY DEF LockIn, LockOut, WriteData, inHalf, closing, At, Places
<1>1. activeCall' \in Int
  BY DEF LockIn, LockOut, WriteData, ReturnWrite, closing, Types
<1>2. sendBuf' \in Seq(Tags) /\ wire' \in Seq(Tags) /\ buffering' = buffering /\ outErr' \in BOOLEAN
  <2>1. CASE WriteData(p)
    BY <2>1, WriteRecordTypes DEF WriteData, writeFails, Types, Tags
  <2>2. CASE LockIn(p) \/ LockOut(p)
    BY <2>2 DEF LockIn, LockOut, outHalf, Types
  <2> QED
    BY <2>1, <2>2
<1>3. \/ inMutex = None /\ inMutex' = p /\ outMutex' = outMutex /\ pc' = [pc EXCEPT ![p] = "read"] /\ pc[p] = "lockIn"
      \/ outMutex = None /\ outMutex' = p /\ inMutex' = inMutex /\ pc' = [pc EXCEPT ![p] = "write"] /\ pc[p] = "lockOut"
      \/ /\ outMutex' = outMutex \/ (outMutex = p /\ outMutex' = None)
         /\ inMutex' = inMutex /\ pc' = [pc EXCEPT ![p] = "idle"]
  BY <1>0 DEF LockIn, LockOut, WriteData, Goto, ReturnWrite, Free, At, Lock
<1>4. /\ \A q \in Procs \ {p} : pc'[q] = pc[q]
      /\ pc'[p] \in {"read", "write", "idle"} /\ pc' \in [Procs -> Labels]
      /\ inMutex' \in Procs \union {None} /\ outMutex' \in Procs \union {None}
  BY <1>3 DEF Types, Labels
<1>5. Types'
  BY <1>0, <1>1, <1>2, <1>4 DEF Types, session
<1>6. ASSUME NEW q \in Procs PROVE Role(q, pc[q])' /\ Lock(q, pc[q])' /\ Phase(q, pc[q])'
  <2>1. CASE q = p
    BY <2>1, <1>0, <1>3, <1>4 DEF Role, Lock, Phase, session, Types
  <2>2. CASE q # p
    <3>1. Role(q, pc[q]) /\ Lock(q, pc[q]) /\ Phase(q, pc[q]) /\ pc'[q] = pc[q]
      BY <2>2, <1>4 DEF Places
    <3>2. inMutex = q => inMutex' = q
      BY <1>3, ConnAssumption
    <3>3. outMutex = q => outMutex' = q
      BY <2>2, <1>3, ConnAssumption
    <3> QED
      BY <3>1, <3>2, <3>3, <1>0 DEF Role, Lock, Phase, session
  <2> QED
    BY <2>1, <2>2
<1>7. Session'
  BY <1>0, <1>4 DEF Session, Handshaking, session
<1> QED
  BY <1>5, <1>6, <1>7 DEF Places

\* Types, places and phases are kept by every step.
LEMMA ControlStep == Control /\ [Next]_vars => Control'
<1> SUFFICES ASSUME Control, [Next]_vars PROVE Control'
  OBVIOUS
<1>1. CASE UNCHANGED vars
  BY <1>1 DEF vars, local, mutexes, session, inHalf, outHalf, closing, Control, Types, Places, Role, Lock, Phase,
     Session, Handshaking
<1> QED
  BY <1>1, ControlOfCalls, ControlOfFlights, ControlOfRecv, ControlOfRead, ControlOfLockHandshake, ControlOfStart,
     ControlOfEnd, ControlOfLocks DEF Next, CallStep, PeerStep, AllReturned

----------------------------------------------------------------------------
(* The outgoing half.                                                       *)

\* The steps of a client's script.
LEMMA ClientScript ==
    ASSUME NEW p \in Procs, cfg.isClient, stage[p] \in 1..8
    PROVE  /\ op(p) = "send" => (stage[p] = 1 /\ flightName(p) = "first") \/ (stage[p] = 4 /\ flightName(p) = "last")
           /\ op(p) = "recvThenBuffer" => stage[p] = 2
           /\ op(p) = "recv" => stage[p] \in {3, 7}
           /\ op(p) = "flush" => stage[p] = 5
           /\ op(p) = "flushed" => stage[p] = 6
           /\ op(p) = "finish" => stage[p] = 8
<1>1. /\ Len(script) = 7
      /\ script[1] = "send" /\ script[2] = "recvThenBuffer" /\ script[3] = "recv" /\ script[4] = "send"
      /\ script[5] = "flush" /\ script[6] = "flushed" /\ script[7] = "recv"
  BY DEF script
<1>2. stage[p] = 1 => flightName(p) = "first"
  BY DEF flightName
<1>3. stage[p] = 4 => flightName(p) = "last"
  BY <1>1 DEF flightName
<1>4. stage[p] \in {1, 2, 3, 4, 5, 6, 7, 8}
  OBVIOUS
<1> QED
  BY <1>1, <1>2, <1>3, <1>4 DEF op

\* The steps of a server's script.
LEMMA ServerScript ==
    ASSUME NEW p \in Procs, ~cfg.isClient, stage[p] \in 1..9
    PROVE  /\ op(p) = "send" => (stage[p] = 2 /\ flightName(p) = "first") \/ (stage[p] = 6 /\ flightName(p) = "last")
           /\ op(p) = "recvThenBuffer" => stage[p] \in {1, 5}
           /\ op(p) # "recv"
           /\ op(p) = "flush" => stage[p] \in {3, 7}
           /\ op(p) = "flushed" => stage[p] \in {4, 8}
           /\ op(p) = "finish" => stage[p] = 9
<1>1. /\ Len(script) = 8
      /\ script[1] = "recvThenBuffer" /\ script[2] = "send" /\ script[3] = "flush" /\ script[4] = "flushed"
      /\ script[5] = "recvThenBuffer" /\ script[6] = "send" /\ script[7] = "flush" /\ script[8] = "flushed"
  BY DEF script
<1>2. stage[p] = 2 => flightName(p) = "first"
  BY <1>1 DEF flightName
<1>3. stage[p] = 6 => flightName(p) = "last"
  BY <1>1 DEF flightName
<1>4. stage[p] \in {1, 2, 3, 4, 5, 6, 7, 8, 9}
  OBVIOUS
<1> QED
  BY <1>1, <1>2, <1>3, <1>4 DEF op

\* Records that are no data leave the data on the wire where it was.
LEMMA DataKept ==
    ASSUME DataOnlyInSession, wire \in Seq(Tags), wire' \in Seq(Tags), Len(wire) <= Len(wire'),
           \A i \in 1..Len(wire) : wire'[i] = wire[i],
           \A i \in Len(wire) + 1..Len(wire') : wire'[i] # "data"
    PROVE  DataOnlyInSession'
<1>1. Len(wire) \in Nat /\ Len(wire') \in Nat
  BY LenProperties
<1>2. ASSUME NEW i \in 1..Len(wire), NEW t PROVE before(i, t)' = before(i, t)
  <2>1. {j \in 1..i - 1 : wire'[j] = t} = {j \in 1..i - 1 : wire[j] = t}
    BY <1>1
  <2> QED
    BY <2>1 DEF before
<1>3. \A i \in 1..Len(wire') : wire'[i] = "data" => i \in 1..Len(wire) /\ wire[i] = "data"
  BY <1>1
<1> QED
  BY <1>2, <1>3 DEF DataOnlyInSession

\* The same when nothing is written.
LEMMA WireKept ==
    ASSUME DataOnlyInSession, wire \in Seq(Tags), wire' = wire
    PROVE  DataOnlyInSession'
<1>1. Len(wire) \in Nat /\ Len(wire') = Len(wire) /\ wire' \in Seq(Tags)
  BY LenProperties
<1>2. \A i \in Len(wire) + 1..Len(wire') : wire'[i] # "data"
  BY <1>1
<1> QED
  BY <1>1, <1>2, DataKept

\* A record of data that finds a session stays in it.
LEMMA DataAdded ==
    ASSUME DataOnlyInSession, wire \in Seq(Tags), wire' = Append(wire, "data"),
           count(wire, "first") = count(wire, "last"), count(wire, "last") > 0,
           count(wire, "closeNotify") = 0, count(wire, "fatal") = 0
    PROVE  DataOnlyInSession'
<1>1. /\ Len(wire) \in Nat /\ Len(wire') = Len(wire) + 1
      /\ \A i \in 1..Len(wire) : wire'[i] = wire[i]
  BY AppendProperties, LenProperties DEF Tags
<1>2. ASSUME NEW i \in 1..Len(wire), NEW t PROVE before(i, t)' = before(i, t)
  <2>1. {j \in 1..i - 1 : wire'[j] = t} = {j \in 1..i - 1 : wire[j] = t}
    BY <1>1
  <2> QED
    BY <2>1 DEF before
<1>3. ASSUME NEW i, i = Len(wire'), NEW t PROVE before(i, t)' = count(wire, t)
  <2>1. {j \in 1..i - 1 : wire'[j] = t} = {j \in 1..Len(wire) : wire[j] = t}
    BY <1>1, <1>3
  <2> QED
    BY <2>1 DEF before, count
<1>4. \A i \in 1..Len(wire') : i \in 1..Len(wire) \/ i = Len(wire')
  BY <1>1
<1>5. ASSUME NEW i \in 1..Len(wire'), wire'[i] = "data"
      PROVE  /\ before(i, "first")' = before(i, "last")' /\ before(i, "last")' > 0
             /\ before(i, "closeNotify")' = 0 /\ before(i, "fatal")' = 0
  <2>1. CASE i \in 1..Len(wire)
    <3>1. wire[i] = "data"
      BY <1>1, <1>5, <2>1
    <3> QED
      BY <2>1, <3>1, <1>2 DEF DataOnlyInSession
  <2>2. CASE i = Len(wire')
    BY <2>2, <1>3
  <2> QED
    BY <2>1, <2>2, <1>4
<1> QED
  BY <1>5 DEF DataOnlyInSession

\* What the flights say is a matter of these counts alone.
LEMMA CountsTyped ==
    ASSUME Types
    PROVE  \A t : count(wire, t) \in Nat /\ count(sendBuf, t) \in Nat
  BY CountType DEF Types

\* The outgoing half is as it was, and nobody enters or leaves a handshake or a write.
LEMMA OutputFrame ==
    ASSUME Control, Output,
           UNCHANGED <<cfg, wire, sendBuf, buffering, handshakeStatus, handshakeErr, handshakes, closeNotifySent>>,
           netClosed => netClosed', outErr => outErr',
           \A q \in Procs : /\ pc[q] \in {"run", "fail"} \/ pc'[q] \in {"run", "fail", "write"} => pc'[q] = pc[q]
                            /\ pc[q] = "run" => stage'[q] = stage[q] /\ renegotiating'[q] = renegotiating[q]
    PROVE  Output'
<1> USE DEF Control, Output
<1>1. Flights'
  <2>1. ASSUME NEW q \in Procs, pc'[q] = "run" PROVE Scripted(q)'
    <3>1. Scripted(q) /\ stage'[q] = stage[q]
      BY <2>1 DEF Flights
    <3> QED
      BY <3>1 DEF Scripted, ClientAt, ServerAt, Sent, Held, Clear, Flushing
  <2>2. (\A q \in Procs : ~Handshaking(q)') /\ ~handshakeErr' => Sent(0, 0)' /\ Clear'
    BY DEF Flights, Handshaking, Sent, Clear
  <2> QED
    BY <2>1, <2>2 DEF Flights
<1>2. Marks'
  BY DEF Marks, count
<1>3. InSession'
  BY DEF InSession, count
<1>4. DataOnlyInSession'
  BY WireKept DEF Types
<1> QED
  BY <1>1, <1>2, <1>3, <1>4

\* What a record changes in the counts; unless it is data, the data stays as it was.
LEMMA RecordCounts ==
    ASSUME Types, NEW t \in Tags, WriteRecord(t)
    PROVE  /\ buffering' = buffering /\ (~buffering => sendBuf' = sendBuf)
           /\ \A u \in Tags \ {t} : count(wire, u)' = count(wire, u) /\ count(sendBuf, u)' = count(sendBuf, u)
           /\ count(wire, t)' = IF buffering \/ netClosed THEN count(wire, t) ELSE count(wire, t) + 1
           /\ count(sendBuf, t)' = IF buffering THEN count(sendBuf, t) + 1 ELSE count(sendBuf, t)
           /\ t # "data" /\ DataOnlyInSession => DataOnlyInSession'
<1> USE DEF Types
<1>2. buffering' = buffering /\ (~buffering => sendBuf' = sendBuf)
  BY DEF WriteRecord
<1>3. wire' = IF buffering \/ netClosed THEN wire ELSE Append(wire, t)
  BY DEF WriteRecord
<1>4. sendBuf' = IF buffering THEN Append(sendBuf, t) ELSE sendBuf
  BY DEF WriteRecord
<1>5. ASSUME NEW u \in Tags \ {t} PROVE count(wire', u) = count(wire, u)
  <2>1. count(Append(wire, t), u) = count(wire, u)
    BY CountAppend
  <2> QED
    BY <2>1, <1>3
<1>6. ASSUME NEW u \in Tags \ {t} PROVE count(sendBuf', u) = count(sendBuf, u)
  <2>1. count(Append(sendBuf, t), u) = count(sendBuf, u)
    BY CountAppend
  <2> QED
    BY <2>1, <1>4
<1>7. /\ count(wire', t) = IF buffering \/ netClosed THEN count(wire, t) ELSE count(wire, t) + 1
      /\ count(sendBuf', t) = IF buffering THEN count(sendBuf, t) + 1 ELSE count(sendBuf, t)
  <2>1. count(Append(wire, t), t) = count(wire, t) + 1 /\ count(Append(sendBuf, t), t) = count(sendBuf, t) + 1
    BY CountAppend
  <2> QED
    BY <2>1, <1>3, <1>4
<1>8. ASSUME t # "data", DataOnlyInSession PROVE DataOnlyInSession'
  <2>1. CASE wire' = wire
    BY <1>8, <2>1, WireKept
  <2>2. CASE wire' = Append(wire, t)
    <3>1. /\ wire' \in Seq(Tags) /\ Len(wire') = Len(wire) + 1 /\ Len(wire) \in Nat
          /\ \A i \in 1..Len(wire) : wire'[i] = wire[i]
          /\ wire'[Len(wire) + 1] = t
      BY <2>2, AppendProperties, LenProperties
    <3>2. \A i \in Len(wire) + 1..Len(wire') : wire'[i] # "data"
      BY <3>1, <1>8
    <3> QED
      BY <1>8, <3>1, <3>2, DataKept
  <2> QED
    BY <2>1, <2>2, <1>3
<1> QED
  BY <1>2, <1>5, <1>6, <1>7, <1>8

\* An alert, or close_notify, under out.Lock or (marked as "unlocked") without it.
LEMMA OutputAlert ==
    ASSUME Control, Output, Types', NEW t \in {"closeNotify", "fatal", "unlocked"}, WriteRecord(t),
           UNCHANGED <<cfg, stage, renegotiating, handshakeStatus, handshakeErr, handshakes, netClosed>>,
           t # "unlocked" => outMutex = None,
           closeNotifySent \/ t = "closeNotify" => closeNotifySent',
           t # "closeNotify" => closeNotifySent' = closeNotifySent,
           outErr \/ t = "fatal" => outErr',
           \A q \in Procs : /\ pc[q] \in {"run", "fail"} => pc'[q] \in {pc[q], "fail"}
                            /\ pc'[q] \in {"run", "write"} => pc'[q] = pc[q]
                            /\ pc'[q] = "fail" => pc[q] \in {"run", "fail"}
                            /\ pc[q] = "run" /\ pc'[q] = "fail" => t = "fatal"
    PROVE  Output'
<1> USE DEF Control, Output
<1>0. /\ buffering' = buffering /\ (~buffering => sendBuf' = sendBuf)
      /\ \A u \in Tags \ {t} : count(wire, u)' = count(wire, u) /\ count(sendBuf, u)' = count(sendBuf, u)
      /\ DataOnlyInSession'
  BY RecordCounts DEF Tags
<1>1. /\ count(wire, "first")' = count(wire, "first") /\ count(wire, "last")' = count(wire, "last")
      /\ count(sendBuf, "first")' = count(sendBuf, "first") /\ count(sendBuf, "last")' = count(sendBuf, "last")
      /\ count(sendBuf, "data")' = count(sendBuf, "data")
      /\ t # "fatal" => count(wire, "fatal")' = count(wire, "fatal") /\ count(sendBuf, "fatal")' = count(sendBuf, "fatal")
      /\ t # "closeNotify" => /\ count(wire, "closeNotify")' = count(wire, "closeNotify")
                              /\ count(sendBuf, "closeNotify")' = count(sendBuf, "closeNotify")
  BY <1>0 DEF Tags
<1>2. Flights'
  <2>1. ASSUME NEW q \in Procs, pc'[q] = "run" PROVE Scripted(q)'
    <3>1. Scripted(q) /\ stage'[q] = stage[q]
      BY <2>1 DEF Flights
    <3> QED
      BY <3>1, <1>0, <1>1 DEF Scripted, ClientAt, ServerAt, Sent, Held, Clear, Flushing
  <2>2. (\A q \in Procs : ~Handshaking(q)') /\ ~handshakeErr' => Sent(0, 0)' /\ Clear'
    BY <1>0, <1>1 DEF Flights, Handshaking, Sent, Clear
  <2> QED
    BY <2>1, <2>2 DEF Flights
<1>3. Marks'
  BY <1>1 DEF Marks
<1>4. InSession'
  <2> SUFFICES ASSUME NEW w \in Procs, pc'[w] = "write"
               PROVE  /\ ~closeNotifySent' /\ count(wire, "fatal")' = 0
                      /\ \/ handshakeStatus' = 1
                         \/ \E p \in Procs : pc'[p] = "run" /\ renegotiating'[p] /\ stage'[p] = 1
    BY DEF InSession
  <2>1. pc[w] = "write" /\ outMutex = w
    BY DEF Places, Lock
  <2>2. t = "unlocked"
    BY <2>1, ConnAssumption
  <2> QED
    BY <2>1, <2>2, <1>1 DEF InSession
<1> QED
  BY <1>0, <1>2, <1>3, <1>4

\* sendBuf goes to the wire behind what is there.
LEMMA FlushCounts ==
    ASSUME Types, count(sendBuf, "data") = 0, wire' = wire \o sendBuf
    PROVE  /\ \A u : count(wire, u)' = count(wire, u) + count(sendBuf, u)
           /\ DataOnlyInSession => DataOnlyInSession'
<1> USE DEF Types
<1>1. ASSUME NEW u PROVE count(wire', u) = count(wire, u) + count(sendBuf, u)
  BY CountConcat
<1>2. ASSUME DataOnlyInSession PROVE DataOnlyInSession'
  <2>1. /\ wire' \in Seq(Tags) /\ Len(wire') = Len(wire) + Len(sendBuf) /\ Len(wire) \in Nat /\ Len(sendBuf) \in Nat
        /\ \A i \in 1..Len(wire) + Len(sendBuf) :
             wire'[i] = IF i <= Len(wire) THEN wire[i] ELSE sendBuf[i - Len(wire)]
    BY ConcatProperties, LenProperties, CountConcat
  <2>2. \A j \in 1..Len(sendBuf) : sendBuf[j] # "data"
    BY CountType
  <2>3. ASSUME NEW i \in Len(wire) + 1..Len(wire') PROVE wire'[i] # "data"
    <3>1. i - Len(wire) \in 1..Len(sendBuf) /\ i \in 1..Len(wire) + Len(sendBuf) /\ ~(i <= Len(wire))
      BY <2>1
    <3> QED
      BY <3>1, <2>1, <2>2
  <2>4. Len(wire) <= Len(wire') /\ \A i \in 1..Len(wire) : wire'[i] = wire[i]
    BY <2>1
  <2> QED
    BY <1>2, <2>1, <2>3, <2>4, DataKept
<1> QED
  BY <1>1, <1>2

\* Only one goroutine is inside a handshake.
LEMMA RunnerAlone ==
    ASSUME Control, NEW p \in Procs, Handshaking(p)
    PROVE  /\ inMutex = p /\ handshakeMutex = p /\ handshakeStatus = 0 /\ ~handshakeErr
           /\ \A q \in Procs \ {p} : ~Handshaking(q)
<1>1. inMutex = p /\ handshakeMutex = p /\ handshakeStatus = 0 /\ ~handshakeErr
  BY DEF Control, Places, Lock, Phase, Handshaking
<1>2. \A q \in Procs : Handshaking(q) => inMutex = q
  BY DEF Control, Places, Lock, Handshaking
<1> QED
  BY <1>1, <1>2

\* No Write is in its critical section once a handshake has read anything, or while
\* the handshake itself holds out.Lock.
LEMMA NoWriter ==
    ASSUME Control, Output, NEW p \in Procs, Handshaking(p),
           pc[p] = "fail" \/ stage[p] # 1 \/ ~cfg.isClient \/ outMutex = None
    PROVE  \A w \in Procs : pc[w] # "write"
<1> SUFFICES ASSUME NEW w \in Procs, pc[w] = "write" PROVE FALSE
  OBVIOUS
<1>1. outMutex = w /\ handshakeStatus = 0
  BY RunnerAlone DEF Control, Places, Lock
<1>2. PICK q \in Procs : pc[q] = "run" /\ renegotiating[q] /\ stage[q] = 1
  BY <1>1 DEF Output, InSession
<1>3. q = p
  BY <1>2, RunnerAlone DEF Handshaking
<1>4. cfg.isClient
  BY <1>2 DEF Control, Places, Phase
<1> QED
  BY <1>1, <1>2, <1>3, <1>4, ConnAssumption

\* A step of a handshake with nobody writing keeps the half if it keeps to the script.
LEMMA OutputRun ==
    ASSUME Control, Output, NEW p \in Procs, pc[p] = "run", \A w \in Procs : pc[w] # "write",
           pc' = pc \/ pc' = [pc EXCEPT ![p] = "fail"],
           pc'[p] = "run" => Scripted(p)', Marks', DataOnlyInSession'
    PROVE  Output'
<1>1. pc'[p] \in {"run", "fail"} /\ \A q \in Procs \ {p} : pc'[q] = pc[q]
  BY DEF Control, Types
<1>2. \A q \in Procs \ {p} : pc'[q] # "run"
  BY <1>1, RunnerAlone DEF Handshaking
<1>3. Flights'
  BY <1>1, <1>2 DEF Flights, Handshaking
<1>4. InSession'
  BY <1>1 DEF InSession
<1> QED
  BY <1>3, <1>4 DEF Output

\* A flight goes to the wire, or into sendBuf while the script says so.
LEMMA OutputOfSend ==
    ASSUME Control, Output, NEW p \in Procs, SendFlight(p)
    PROVE  Output'
<1> USE DEF Control, Output
<1>f. PICK f : f = flightName(p)
  OBVIOUS
<1>0. /\ pc[p] = "run" /\ op(p) = "send" /\ outMutex = None /\ WriteRecord(f)
      /\ UNCHANGED <<cfg, handshakes, closeNotifySent, outErr, netClosed>>
      /\ Scripted(p) /\ stage[p] \in Nat
  BY <1>f DEF SendFlight, At, Free, session, closing, Flights, Types
<1>1. \A w \in Procs : pc[w] # "write"
  BY <1>0, NoWriter DEF Handshaking
<1>2. pc' = pc \/ pc' = [pc EXCEPT ![p] = "fail"]
  BY DEF SendFlight, Goto
<1>3. f \in {"first", "last"} /\ f \in Tags /\ f # "data"
  BY <1>f, FlightNames DEF Tags
<1>4. /\ buffering' = buffering /\ (~buffering => sendBuf' = sendBuf)
      /\ \A u \in Tags \ {f} : count(wire, u)' = count(wire, u) /\ count(sendBuf, u)' = count(sendBuf, u)
      /\ count(wire, f)' = IF buffering \/ netClosed THEN count(wire, f) ELSE count(wire, f) + 1
      /\ count(sendBuf, f)' = IF buffering THEN count(sendBuf, f) + 1 ELSE count(sendBuf, f)
      /\ DataOnlyInSession'
  BY <1>0, <1>3, RecordCounts
<1>5. Marks'
  <2>1. /\ count(wire, "closeNotify")' = count(wire, "closeNotify") /\ count(wire, "fatal")' = count(wire, "fatal")
        /\ count(sendBuf, "closeNotify")' = count(sendBuf, "closeNotify")
        /\ count(sendBuf, "fatal")' = count(sendBuf, "fatal") /\ count(sendBuf, "data")' = count(sendBuf, "data")
    BY <1>3, <1>4 DEF Tags
  <2> QED
    BY <2>1, <1>0 DEF Marks
<1>6. ASSUME pc'[p] = "run" PROVE Scripted(p)'
  <2>1. stage'[p] = stage[p] + 1 /\ (buffering \/ ~netClosed)
    BY <1>6, <1>0 DEF SendFlight, Step, Goto, writeFails, Types
  <2>2. /\ count(wire, "first") \in Nat /\ count(wire, "last") \in Nat /\ handshakes \in Nat
        /\ count(sendBuf, "first") \in Nat /\ count(sendBuf, "last") \in Nat
    BY CountsTyped DEF Types
  <2>3. CASE f = "first"
    <3>1. /\ count(wire, "last")' = count(wire, "last") /\ count(sendBuf, "last")' = count(sendBuf, "last")
          /\ count(wire, "first")' = IF buffering THEN count(wire, "first") ELSE count(wire, "first") + 1
          /\ count(sendBuf, "first")' = IF buffering THEN count(sendBuf, "first") + 1 ELSE count(sendBuf, "first")
      BY <2>1, <2>3, <1>4 DEF Tags
    <3>2. CASE cfg.isClient
      <4>1. stage[p] = 1 /\ Sent(0, 0) /\ Clear /\ stage'[p] = 2
        BY <3>2, <1>0, <2>1, <2>3, <1>f, ClientScript DEF Scripted, ClientAt
      <4>2. Sent(1, 0)' /\ Clear'
        BY <4>1, <3>1, <2>2, <1>0, <1>4 DEF Sent, Clear
      <4> QED
        BY <4>1, <4>2, <3>2, <1>0 DEF Scripted, ClientAt
    <3>3. CASE ~cfg.isClient
      <4>1. stage[p] = 2 /\ Sent(0, 0) /\ Held(0, 0) /\ stage'[p] = 3
        BY <3>3, <1>0, <2>1, <2>3, <1>f, ServerScript DEF Scripted, ServerAt
      <4>2. Sent(0, 0)' /\ Held(1, 0)'
        BY <4>1, <3>1, <2>2, <1>0, <1>4 DEF Sent, Held
      <4> QED
        BY <4>1, <4>2, <3>3, <1>0 DEF Scripted, ServerAt
    <3> QED
      BY <3>2, <3>3
  <2>4. CASE f = "last"
    <3>1. /\ count(wire, "first")' = count(wire, "first") /\ count(sendBuf, "first")' = count(sendBuf, "first")
          /\ count(wire, "last")' = IF buffering THEN count(wire, "last") ELSE count(wire, "last") + 1
          /\ count(sendBuf, "last")' = IF buffering THEN count(sendBuf, "last") + 1 ELSE count(sendBuf, "last")
      BY <2>1, <2>4, <1>4 DEF Tags
    <3>2. CASE cfg.isClient
      <4>1. stage[p] = 4 /\ Sent(1, 0) /\ Held(0, 0) /\ stage'[p] = 5
        BY <3>2, <1>0, <2>1, <2>4, <1>f, ClientScript DEF Scripted, ClientAt
      <4>2. Sent(1, 0)' /\ Held(0, 1)'
        BY <4>1, <3>1, <2>2, <1>0, <1>4 DEF Sent, Held
      <4> QED
        BY <4>1, <4>2, <3>2, <1>0 DEF Scripted, ClientAt
    <3>3. CASE ~cfg.isClient
      <4>1. stage[p] = 6 /\ Sent(1, 0) /\ Held(0, 0) /\ stage'[p] = 7
        BY <3>3, <1>0, <2>1, <2>4, <1>f, ServerScript DEF Scripted, ServerAt
      <4>2. Sent(1, 0)' /\ Held(0, 1)'
        BY <4>1, <3>1, <2>2, <1>0, <1>4 DEF Sent, Held
      <4> QED
        BY <4>1, <4>2, <3>3, <1>0 DEF Scripted, ServerAt
    <3> QED
      BY <3>2, <3>3
  <2> QED
    BY <2>3, <2>4, <1>3
<1> QED
  BY <1>0, <1>1, <1>2, <1>4, <1>5, <1>6, OutputRun

\* Flush writes what is held, or fails.
LEMMA OutputOfFlush ==
    ASSUME Control, Output, NEW p \in Procs, Flush(p)
    PROVE  Output'
<1> USE DEF Control, Output
<1>0. /\ pc[p] = "run" /\ op(p) = "flush"
      /\ UNCHANGED <<cfg, pc, handshakes, closeNotifySent, outErr, sendBuf, buffering, netClosed>>
      /\ Scripted(p) /\ stage'[p] = stage[p] + 1
      /\ wire' = IF netClosed THEN wire ELSE wire \o sendBuf
  BY DEF Flush, Step, At, session, closing, Flights, Types
<1>1. /\ cfg.isClient => stage[p] = 5 /\ Sent(1, 0) /\ Held(0, 1)
      /\ ~cfg.isClient => (stage[p] = 3 /\ Sent(0, 0) /\ Held(1, 0)) \/ (stage[p] = 7 /\ Sent(1, 0) /\ Held(0, 1))
  BY <1>0, ClientScript, ServerScript DEF Scripted, ClientAt, ServerAt
<1>2. \A w \in Procs : pc[w] # "write"
  BY <1>0, <1>1, NoWriter DEF Handshaking
<1>3. \A u : count(wire, u) \in Nat /\ count(sendBuf, u) \in Nat /\ count(sendBuf, u)' = count(sendBuf, u)
  BY <1>0, CountsTyped DEF count
<1>4. /\ \A u : count(wire, u)' = IF netClosed THEN count(wire, u) ELSE count(wire, u) + count(sendBuf, u)
      /\ DataOnlyInSession'
  <2>1. CASE netClosed
    BY <2>1, <1>0, WireKept DEF Types, count
  <2>2. CASE ~netClosed
    BY <2>2, <1>0, FlushCounts DEF Marks
  <2> QED
    BY <2>1, <2>2
<1>5. Marks'
  BY <1>0, <1>3, <1>4 DEF Marks
<1>6. Scripted(p)'
  <2>1. handshakes \in Nat /\ buffering'
    BY <1>0, <1>1 DEF Held, Types
  <2>2. CASE cfg.isClient
    <3>1. Flushing(1, 1)'
      BY <2>1, <2>2, <1>0, <1>1, <1>3, <1>4 DEF Flushing, Sent, Held
    <3> QED
      BY <3>1, <2>2, <1>0, <1>1 DEF Scripted, ClientAt
  <2>3. CASE ~cfg.isClient /\ stage[p] = 3
    <3>1. Flushing(1, 0)'
      BY <2>1, <2>3, <1>0, <1>1, <1>3, <1>4 DEF Flushing, Sent, Held
    <3> QED
      BY <3>1, <2>3, <1>0 DEF Scripted, ServerAt
  <2>4. CASE ~cfg.isClient /\ stage[p] = 7
    <3>1. Flushing(1, 1)'
      BY <2>1, <2>4, <1>0, <1>1, <1>3, <1>4 DEF Flushing, Sent, Held
    <3> QED
      BY <3>1, <2>4, <1>0 DEF Scripted, ServerAt
  <2> QED
    BY <2>2, <2>3, <2>4, <1>1
<1> QED
  BY <1>0, <1>2, <1>4, <1>5, <1>6, OutputRun

\* The second half of Conn.flush empties sendBuf and ends buffering.
LEMMA OutputOfFlushed ==
    ASSUME Control, Output, NEW p \in Procs, Flushed(p)
    PROVE  Output'
<1> USE DEF Control, Output
<1>0. /\ pc[p] = "run" /\ op(p) = "flushed"
      /\ UNCHANGED <<cfg, handshakes, closeNotifySent, outErr, wire, netClosed>>
      /\ Scripted(p) /\ sendBuf' = <<>> /\ buffering' = FALSE
      /\ pc' = pc \/ pc' = [pc EXCEPT ![p] = "fail"]
  BY DEF Flushed, Goto, At, session, closing, Flights
<1>1. /\ cfg.isClient => stage[p] = 6 /\ Flushing(1, 1)
      /\ ~cfg.isClient => (stage[p] = 4 /\ Flushing(1, 0)) \/ (stage[p] = 8 /\ Flushing(1, 1))
  BY <1>0, ClientScript, ServerScript DEF Scripted, ClientAt, ServerAt
<1>2. \A w \in Procs : pc[w] # "write"
  BY <1>0, <1>1, NoWriter DEF Handshaking
<1>3. \A u : count(wire, u) \in Nat /\ count(sendBuf, u) \in Nat /\ count(wire, u)' = count(wire, u) /\ count(sendBuf, u)' = 0
  BY <1>0, CountsTyped, CountEmpty DEF count
<1>4. Marks'
  BY <1>0, <1>3 DEF Marks
<1>5. DataOnlyInSession'
  BY <1>0, WireKept DEF Types
<1>6. ASSUME pc'[p] = "run" PROVE Scripted(p)'
  <2>1. stage'[p] = stage[p] + 1 /\ ~netClosed
    BY <1>6, <1>0 DEF Flushed, Step, Goto, Types
  <2>2. Clear'
    BY <1>0 DEF Clear
  <2>3. CASE cfg.isClient
    <3>1. Sent(1, 1)'
      BY <2>1, <2>3, <1>0, <1>1, <1>3 DEF Flushing, Sent
    <3> QED
      BY <3>1, <2>1, <2>2, <2>3, <1>0, <1>1 DEF Scripted, ClientAt
  <2>4. CASE ~cfg.isClient /\ stage[p] = 4
    <3>1. Sent(1, 0)'
      BY <2>1, <2>4, <1>0, <1>1, <1>3 DEF Flushing, Sent
    <3> QED
      BY <3>1, <2>1, <2>2, <2>4, <1>0 DEF Scripted, ServerAt
  <2>5. CASE ~cfg.isClient /\ stage[p] = 8
    <3>1. Sent(1, 1)'
      BY <2>1, <2>5, <1>0, <1>1, <1>3 DEF Flushing, Sent
    <3> QED
      BY <3>1, <2>1, <2>2, <2>5, <1>0 DEF Scripted, ServerAt
  <2> QED
    BY <2>3, <2>4, <2>5, <1>1
<1> QED
  BY <1>0, <1>2, <1>4, <1>5, <1>6, OutputRun

\* A read of the handshake goes on, starts buffering, or fails with an alert or without.
LEMMA OutputOfRecv ==
    ASSUME Control, Output, NEW p \in Procs, RecvFlight(p)
    PROVE  Output'
<1> USE DEF Control, Output
<1>0. /\ pc[p] = "run" /\ op(p) \in {"recv", "recvThenBuffer"} /\ Scripted(p)
      /\ UNCHANGED <<cfg, renegotiating, session, closing>>
      /\ pc' = pc \/ pc' = [pc EXCEPT ![p] = "fail"]
  BY DEF RecvFlight, Goto, At, Flights
<1>1. /\ cfg.isClient => \/ stage[p] = 2 /\ op(p) = "recvThenBuffer" /\ Sent(1, 0) /\ Clear
                         \/ stage[p] = 3 /\ op(p) = "recv" /\ Sent(1, 0) /\ Held(0, 0)
                         \/ stage[p] = 7 /\ op(p) = "recv" /\ Sent(1, 1) /\ Clear
      /\ ~cfg.isClient => /\ op(p) = "recvThenBuffer"
                          /\ (stage[p] = 1 /\ Sent(0, 0) /\ Clear) \/ (stage[p] = 5 /\ Sent(1, 0) /\ Clear)
  <2>1. CASE cfg.isClient
    <3>1. stage[p] \in 1..8 /\ ClientAt(stage[p])
      BY <2>1, <1>0 DEF Scripted, ClientAt
    <3>2. /\ op(p) = "recvThenBuffer" => stage[p] = 2
          /\ op(p) = "recv" => stage[p] \in {3, 7}
      BY <3>1, <2>1, ClientScript
    <3> QED
      BY <2>1, <3>1, <3>2, <1>0 DEF ClientAt
  <2>2. CASE ~cfg.isClient
    <3>1. stage[p] \in 1..9 /\ ServerAt(stage[p])
      BY <2>2, <1>0 DEF Scripted, ServerAt
    <3>2. op(p) = "recvThenBuffer" /\ stage[p] \in {1, 5}
      BY <3>1, <2>2, <1>0, ServerScript
    <3> QED
      BY <2>2, <3>1, <3>2, <1>0 DEF ServerAt
  <2> QED
    BY <2>1, <2>2
<1>2. \A w \in Procs : pc[w] # "write"
  BY <1>0, <1>1, NoWriter DEF Handshaking
<1>3. \/ sendAlert /\ pc' = [pc EXCEPT ![p] = "fail"] /\ UNCHANGED stage
      \/ UNCHANGED outHalf /\ pc' = [pc EXCEPT ![p] = "fail"]
      \/ UNCHANGED <<outHalf, pc, stage>>
      \/ /\ stage'[p] = stage[p] + 1 /\ UNCHANGED <<pc, outErr, sendBuf, wire>>
         /\ buffering' = (buffering \/ op(p) = "recvThenBuffer")
  BY DEF RecvFlight, Goto, Step, Types
<1>4. CASE sendAlert /\ pc' = [pc EXCEPT ![p] = "fail"] /\ UNCHANGED stage
  <2>1. WriteRecord("fatal") /\ outErr' = TRUE /\ outMutex = None
    BY <1>4 DEF sendAlert, sendAlertLocked, Free
  <2>2. Types'
    BY ControlOfRecv
  <2>3. pc'[p] = "fail" /\ \A q \in Procs \ {p} : pc'[q] = pc[q]
    BY <1>4 DEF Types
  <2> QED
    BY <1>0, <1>4, <2>1, <2>2, <2>3, OutputAlert DEF session, closing
<1>5. CASE UNCHANGED <<outErr, sendBuf, wire>>
  <2>1. \A u : count(wire, u) \in Nat /\ count(wire, u)' = count(wire, u) /\ count(sendBuf, u)' = count(sendBuf, u)
    BY <1>5, CountsTyped DEF count
  <2>2. Marks'
    BY <2>1, <1>0, <1>5 DEF Marks, closing
  <2>3. DataOnlyInSession'
    BY <1>5, WireKept DEF Types
  <2>4. ASSUME pc'[p] = "run" PROVE Scripted(p)'
    <3>1. pc' # [pc EXCEPT ![p] = "fail"]
      BY <2>4 DEF Types
    <3>2. CASE UNCHANGED <<outHalf, pc, stage>>
      BY <3>2, <2>1, <1>0 DEF Scripted, ClientAt, ServerAt, Sent, Held, Clear, Flushing, outHalf, session, closing
    <3>3. CASE /\ stage'[p] = stage[p] + 1 /\ UNCHANGED <<pc, outErr, sendBuf, wire>>
               /\ buffering' = (buffering \/ op(p) = "recvThenBuffer")
      <4>1. \A u : count(<<>>, u) = 0
        BY CountEmpty
      <4>2. UNCHANGED <<cfg, handshakes>>
        BY <1>0 DEF session
      <4>7. buffering' <=> buffering \/ op(p) = "recvThenBuffer"
        BY <3>3
      <4>3. CASE cfg.isClient /\ stage[p] \in {2, 3}
        <5>1. Sent(1, 0)' /\ buffering'
          BY <4>3, <4>2, <4>7, <2>1, <1>1 DEF Sent, Held
        <5>2. Held(0, 0)'
          BY <5>1, <4>3, <4>1, <3>3, <2>1, <1>1 DEF Held, Clear
        <5> QED
          BY <5>1, <5>2, <4>2, <4>3, <3>3 DEF Scripted, ClientAt
      <4>4. CASE cfg.isClient /\ stage[p] = 7
        <5>1. Sent(1, 1)' /\ Clear'
          BY <4>4, <4>2, <4>7, <3>3, <2>1, <1>1 DEF Sent, Clear
        <5> QED
          BY <5>1, <4>2, <4>4, <3>3 DEF Scripted, ClientAt
      <4>5. CASE ~cfg.isClient /\ stage[p] = 1
        <5>1. Sent(0, 0)' /\ buffering'
          BY <4>5, <4>2, <4>7, <2>1, <1>1 DEF Sent, Held
        <5>2. Held(0, 0)'
          BY <5>1, <4>5, <4>1, <3>3, <2>1, <1>1 DEF Held, Clear
        <5> QED
          BY <5>1, <5>2, <4>2, <4>5, <3>3 DEF Scripted, ServerAt
      <4>6. CASE ~cfg.isClient /\ stage[p] = 5
        <5>1. Sent(1, 0)' /\ buffering'
          BY <4>6, <4>2, <4>7, <2>1, <1>1 DEF Sent, Held
        <5>2. Held(0, 0)'
          BY <5>1, <4>6, <4>1, <3>3, <2>1, <1>1 DEF Held, Clear
        <5> QED
          BY <5>1, <5>2, <4>2, <4>6, <3>3 DEF Scripted, ServerAt
      <4> QED
        BY <4>3, <4>4, <4>5, <4>6, <1>1
    <3> QED
      BY <3>1, <3>2, <3>3, <1>3
  <2> QED
    BY <1>0, <1>2, <2>2, <2>3, <2>4, OutputRun
<1> QED
  BY <1>3, <1>4, <1>5 DEF outHalf

\* Between handshakes nothing is half sent.
LEMMA BetweenHandshakes ==
    ASSUME Control, Output, \A q \in Procs : ~Handshaking(q), ~handshakeErr
    PROVE  Sent(0, 0) /\ Clear
  BY DEF Output, Flights

\* A handshake starts in front of its script: the first one before any session, a
\* renegotiation while a Write may still have out.Lock.
LEMMA OutputOfStart ==
    ASSUME Control, Output, NEW p \in Procs, LockInForHandshake(p) \/ LockRenegotiation(p)
    PROVE  Output'
<1> USE DEF Control, Output
<1>0. /\ UNCHANGED <<cfg, handshakeErr, handshakes, outHalf, closing>>
      /\ pc' = [pc EXCEPT ![p] = "run"] /\ stage' = [stage EXCEPT ![p] = 1]
  BY DEF LockInForHandshake, LockRenegotiation, Goto, session
<1>1. pc'[p] = "run" /\ stage'[p] = 1 /\ \A q \in Procs \ {p} : pc'[q] = pc[q]
  BY <1>0 DEF Types
<1>2. (\A q \in Procs : ~Handshaking(q)) /\ ~handshakeErr
  <2>1. \A q \in Procs : Handshaking(q) => handshakeMutex = q
    BY DEF Places, Lock, Handshaking
  <2>2. CASE LockInForHandshake(p)
    BY <2>2, <2>1 DEF LockInForHandshake, At, Places, Lock, Phase, Handshaking
  <2>3. CASE LockRenegotiation(p)
    BY <2>3, <2>1, ConnAssumption DEF LockRenegotiation, At, Free, Places, Phase, Session
  <2> QED
    BY <2>2, <2>3
<1>3. Sent(0, 0) /\ Clear
  BY <1>2, BetweenHandshakes
<1>4. \A u : count(wire, u)' = count(wire, u) /\ count(sendBuf, u)' = count(sendBuf, u)
  BY <1>0 DEF outHalf, count
<1>5. Scripted(p)'
  <2>1. Sent(0, 0)' /\ Clear'
    BY <1>0, <1>3, <1>4 DEF Sent, Clear, outHalf
  <2> QED
    BY <2>1, <1>1 DEF Scripted, ClientAt, ServerAt
<1>6. Flights'
  BY <1>1, <1>2, <1>5 DEF Flights, Handshaking
<1>7. Marks' /\ DataOnlyInSession'
  BY <1>0, <1>4, WireKept DEF Marks, outHalf, closing, Types
<1>8. InSession'
  <2>1. CASE LockInForHandshake(p)
    <3>1. handshakes = 0
      BY <1>2, <2>1 DEF LockInForHandshake, At, Places, Phase, Session
    <3>2. \A w \in Procs : pc'[w] # "write"
      BY <3>1, <1>1 DEF Places, Phase
    <3> QED
      BY <3>2 DEF InSession
  <2>2. CASE LockRenegotiation(p)
    <3>1. renegotiating'[p]
      BY <2>2 DEF LockRenegotiation, Types
    <3> QED
      BY <3>1, <1>0, <1>1, <1>4 DEF InSession, closing
  <2> QED
    BY <2>1, <2>2
<1> QED
  BY <1>6, <1>7, <1>8

\* A handshake that has finished has sent both its flights.
LEMMA OutputOfFinish ==
    ASSUME Control, Output, NEW p \in Procs, FinishHandshake(p)
    PROVE  Output'
<1> USE DEF Control, Output
<1>0. /\ pc[p] = "run" /\ op(p) = "finish" /\ Scripted(p)
      /\ UNCHANGED <<cfg, handshakeErr, outHalf, closing>>
      /\ handshakeStatus' = 1 /\ handshakes' = handshakes + 1
      /\ pc' = [pc EXCEPT ![p] = afterHandshake(p)]
  BY DEF FinishHandshake, Goto, At, Flights
<1>1. Sent(1, 1) /\ Clear /\ stage[p] # 1
  BY <1>0, ClientScript, ServerScript DEF Scripted, ClientAt, ServerAt
<1>2. afterHandshake(p) \in {"lockOut", "read", "lockIn"}
  BY <1>0 DEF afterHandshake, Places, Role
<1>3. pc'[p] \notin {"run", "fail", "write"} /\ \A q \in Procs \ {p} : pc'[q] = pc[q]
  BY <1>0, <1>2 DEF Types
<1>4. \A w \in Procs : pc'[w] \notin {"run", "write"}
  BY <1>0, <1>1, <1>3, NoWriter, RunnerAlone DEF Handshaking
<1>5. \A u : count(wire, u) \in Nat /\ count(wire, u)' = count(wire, u) /\ count(sendBuf, u)' = count(sendBuf, u)
  BY <1>0, CountsTyped DEF outHalf, count
<1>6. Sent(0, 0)' /\ Clear'
  BY <1>0, <1>1, <1>5 DEF Sent, Clear, outHalf, Types
<1>7. Flights' /\ InSession'
  BY <1>4, <1>6 DEF Flights, InSession
<1>8. Marks' /\ DataOnlyInSession'
  BY <1>0, <1>5, WireKept DEF Marks, outHalf, closing, Types
<1> QED
  BY <1>7, <1>8

\* A handshake that fails flushes what is left, which is no data.
LEMMA OutputOfFail ==
    ASSUME Control, Output, NEW p \in Procs, FailHandshake(p)
    PROVE  Output'
<1> USE DEF Control, Output
<1>0. /\ pc[p] = "fail" /\ handshakeErr' = TRUE
      /\ UNCHANGED <<outErr, closeNotifySent>>
      /\ pc' = [pc EXCEPT ![p] = "idle"]
  BY DEF FailHandshake, Goto, At
<1>1. pc'[p] = "idle" /\ \A q \in Procs \ {p} : pc'[q] = pc[q]
  BY <1>0 DEF Types
<1>2. \A w \in Procs : pc'[w] \notin {"run", "write"}
  BY <1>0, <1>1, NoWriter, RunnerAlone DEF Handshaking
<1>3. Flights' /\ InSession'
  BY <1>0, <1>2 DEF Flights, InSession
<1>4. \A u : count(wire, u) \in Nat /\ count(sendBuf, u) \in Nat
  BY CountsTyped
<1>5. Marks' /\ DataOnlyInSession'
  <2>1. CASE UNCHANGED <<wire, sendBuf>>
    <3>1. \A u : count(wire, u)' = count(wire, u) /\ count(sendBuf, u)' = count(sendBuf, u)
      BY <2>1 DEF count
    <3>2. DataOnlyInSession'
      BY <2>1, WireKept DEF Types
    <3> QED
      BY <3>1, <3>2, <1>0 DEF Marks
  <2>2. CASE sendBuf' = <<>> /\ wire' = wire
    <3>1. \A u : count(wire, u)' = count(wire, u) /\ count(sendBuf, u)' = 0
      BY <2>2, CountEmpty DEF count
    <3>2. DataOnlyInSession'
      BY <2>2, WireKept DEF Types
    <3> QED
      BY <3>1, <3>2, <1>0, <1>4 DEF Marks
  <2>3. CASE sendBuf' = <<>> /\ wire' = wire \o sendBuf
    <3>1. \A u : count(sendBuf, u)' = 0
      BY <2>3, CountEmpty
    <3>2. (\A u : count(wire, u)' = count(wire, u) + count(sendBuf, u)) /\ DataOnlyInSession'
      BY <2>3, FlushCounts DEF Marks
    <3> QED
      BY <3>1, <3>2, <1>0, <1>4 DEF Marks
  <2> QED
    BY <2>1, <2>2, <2>3 DEF FailHandshake
<1> QED
  BY <1>3, <1>5

\* Write checks the session under out.Lock.
LEMMA OutputOfLockOut ==
    ASSUME Control, Output, NEW p \in Procs, LockOut(p)
    PROVE  Output'
<1> USE DEF Control, Output
<1>0. /\ pc[p] = "lockOut" /\ UNCHANGED <<cfg, stage, renegotiating, session, outHalf, closeNotifySent, netClosed>>
      /\ \/ pc' = [pc EXCEPT ![p] = "idle"]
         \/ pc' = [pc EXCEPT ![p] = "write"] /\ ~outErr /\ handshakeStatus = 1 /\ ~closeNotifySent
  BY DEF LockOut, ReturnWrite, Goto, At, handshakeComplete
<1>1. CASE pc' = [pc EXCEPT ![p] = "idle"]
  <2>1. pc'[p] = "idle" /\ \A q \in Procs \ {p} : pc'[q] = pc[q]
    BY <1>1 DEF Types
  <2> QED
    BY <2>1, <1>0, OutputFrame DEF session, outHalf
<1>2. CASE pc' = [pc EXCEPT ![p] = "write"] /\ ~outErr /\ handshakeStatus = 1 /\ ~closeNotifySent
  <2>1. pc'[p] = "write" /\ \A q \in Procs \ {p} : pc'[q] = pc[q]
    BY <1>2 DEF Types
  <2>2. \A u : count(wire, u) \in Nat /\ count(sendBuf, u) \in Nat
               /\ count(wire, u)' = count(wire, u) /\ count(sendBuf, u)' = count(sendBuf, u)
    BY <1>0, CountsTyped DEF count, outHalf
  <2>3. count(wire, "fatal")' = 0
    BY <1>2, <2>2 DEF Marks
  <2>4. InSession'
    BY <1>0, <1>2, <2>1, <2>3 DEF InSession, session
  <2>5. \A q \in Procs : pc'[q] # "run" /\ ~Handshaking(q)
    BY <1>2, <2>1 DEF Places, Phase, Handshaking
  <2>6. ~handshakeErr
    BY <1>2 DEF Session
  <2>7. Sent(0, 0)' /\ Clear'
    BY <2>2, <2>5, <2>6, <1>0, BetweenHandshakes DEF Sent, Clear, session, outHalf
  <2>8. Flights'
    BY <2>5, <2>7 DEF Flights
  <2>9. Marks' /\ DataOnlyInSession'
    BY <1>0, <2>2, WireKept DEF Marks, Types, outHalf
  <2> QED
    BY <2>4, <2>8, <2>9
<1> QED
  BY <1>0, <1>1, <1>2

\* A Write that has out.Lock writes inside a session and past the buffer.
LEMMA WriterInSession ==
    ASSUME Control, Output, NEW p \in Procs, pc[p] = "write"
    PROVE  Sent(0, 0) /\ Clear /\ handshakes > 0 /\ ~closeNotifySent /\ count(wire, "fatal") = 0
<1> USE DEF Control, Output
<1>1. handshakes > 0 /\ ~closeNotifySent /\ count(wire, "fatal") = 0
  BY DEF Places, Phase, InSession
<1>2. CASE handshakeStatus = 1
  <2>1. (\A q \in Procs : ~Handshaking(q)) /\ ~handshakeErr
    BY <1>2 DEF Places, Phase, Handshaking, Session
  <2> QED
    BY <2>1, <1>1, BetweenHandshakes
<1>3. CASE \E q \in Procs : pc[q] = "run" /\ renegotiating[q] /\ stage[q] = 1
  BY <1>1, <1>3 DEF Flights, Scripted, ClientAt, ServerAt
<1> QED
  BY <1>2, <1>3 DEF InSession

\* Data joins the wire inside the session.
LEMMA OutputOfWrite ==
    ASSUME Control, Output, NEW p \in Procs, WriteData(p)
    PROVE  Output'
<1> USE DEF Control, Output
<1>0. /\ pc[p] = "write" /\ WriteRecord("data") /\ pc' = [pc EXCEPT ![p] = "idle"]
      /\ UNCHANGED <<cfg, stage, renegotiating, session, closeNotifySent, netClosed>>
  BY DEF WriteData, ReturnWrite, Goto, At
<1>1. pc'[p] = "idle" /\ \A q \in Procs \ {p} : pc'[q] = pc[q]
  BY <1>0 DEF Types
<1>2. Sent(0, 0) /\ Clear /\ handshakes > 0 /\ ~closeNotifySent /\ count(wire, "fatal") = 0
  BY <1>0, WriterInSession
<1>3. \A u : count(wire, u) \in Nat /\ count(sendBuf, u) \in Nat
  BY CountsTyped
<1>4. UNCHANGED <<buffering, sendBuf>> /\ \A u \in Tags \ {"data"} : count(wire, u)' = count(wire, u)
  BY <1>0, <1>2, RecordCounts DEF Clear, Tags
<1>5. /\ count(wire, "first")' = count(wire, "first") /\ count(wire, "last")' = count(wire, "last")
      /\ count(wire, "closeNotify")' = count(wire, "closeNotify") /\ count(wire, "fatal")' = count(wire, "fatal")
      /\ \A u : count(sendBuf, u)' = count(sendBuf, u)
  BY <1>4 DEF Tags, count
<1>6. Flights'
  <2>1. ASSUME NEW q \in Procs, pc'[q] = "run" PROVE Scripted(q)'
    <3>1. Scripted(q)
      BY <2>1, <1>1 DEF Flights
    <3> QED
      BY <3>1, <1>0, <1>4, <1>5 DEF Scripted, ClientAt, ServerAt, Sent, Held, Clear, Flushing, session
  <2>2. (\A q \in Procs : ~Handshaking(q)') /\ ~handshakeErr' => Sent(0, 0)' /\ Clear'
    BY <1>0, <1>2, <1>4, <1>5 DEF Sent, Clear, session
  <2> QED
    BY <2>1, <2>2 DEF Flights
<1>7. Marks'
  <2>1. count(sendBuf, "fatal") = 0
    BY <1>2, CountEmpty DEF Clear
  <2> QED
    BY <2>1, <1>0, <1>2, <1>5 DEF Marks
<1>8. InSession'
  <2>1. \A w \in Procs : pc[w] = "write" => w = p
    BY <1>0 DEF Places, Lock
  <2> QED
    BY <2>1, <1>1 DEF InSession
<1>9. DataOnlyInSession'
  <2>1. CASE wire' = wire
    BY <2>1, WireKept DEF Types
  <2>2. CASE wire' = Append(wire, "data")
    <3>1. count(wire, "first") = count(wire, "last") /\ count(wire, "last") > 0
      BY <1>2 DEF Sent, Types
    <3>2. count(wire, "closeNotify") = 0
      BY <1>2, <1>3 DEF Marks
    <3> QED
      BY <2>2, <3>1, <3>2, <1>2, DataAdded DEF Types
  <2> QED
    BY <2>1, <2>2, <1>0 DEF WriteRecord
<1> QED
  BY <1>6, <1>7, <1>8, <1>9

\* Calls that start, wait or close.
LEMMA OutputOfCalls ==
    ASSUME Control, Output, NEW p \in Procs,
           \/ Begin(p) \/ LoadActiveCall(p) \/ CASActiveCall(p) \/ CheckComplete(p) \/ NetClose(p)
           \/ LockHandshake(p) \/ LockIn(p) \/ ReadError(p) \/ TakeInput(p) \/ SkipEmpty(p)
    PROVE  Output'
<1> USE DEF Control, Output
<1>1. /\ UNCHANGED <<cfg, stage, renegotiating, session, outHalf, closeNotifySent>> /\ (netClosed => netClosed')
      /\ pc[p] \notin {"run", "fail", "write"}
  <2>1. CASE Begin(p) \/ LoadActiveCall(p) \/ CheckComplete(p)
    BY <2>1 DEF Begin, LoadActiveCall, CheckComplete, At, closing
  <2>2. CASE CASActiveCall(p) \/ LockHandshake(p)
    <3>1. UNCHANGED <<cfg, stage, renegotiating, session, outHalf, closeNotifySent, netClosed>>
      BY <2>2, Zenon DEF CASActiveCall, LockHandshake
    <3>2. pc[p] \in {"cas", "handshake"}
      BY <2>2, Zenon DEF CASActiveCall, LockHandshake, At
    <3> QED
      BY <3>1, <3>2
  <2>3. CASE NetClose(p)
    BY <2>3 DEF NetClose, At
  <2>4. CASE LockIn(p) \/ ReadError(p) \/ TakeInput(p) \/ SkipEmpty(p)
    BY <2>4 DEF LockIn, ReadError, TakeInput, SkipEmpty, At, closing
  <2> QED
    BY <2>1, <2>2, <2>3, <2>4
<1>2. \E l \in Labels \ {"run", "fail", "write"} : pc' = [pc EXCEPT ![p] = l]
  <2>1. Role(p, pc[p]) /\ pc[p] \in Labels /\ pc \in [Procs -> Labels]
    BY DEF Places, Types
  <2>2. CASE Begin(p)
    BY <2>2, ConnAssumption DEF Begin, Goto, Procs, Labels
  <2>3. CASE LoadActiveCall(p)
    BY <2>3 DEF LoadActiveCall, Goto, Labels
  <2>4. CASE CASActiveCall(p)
    BY <2>1, <2>4, ConnAssumption DEF CASActiveCall, Goto, At, Labels, Role
  <2>5. CASE CheckComplete(p)
    BY <2>1, <2>5, ConnAssumption DEF CheckComplete, Goto, At, Labels, Role
  <2>6. CASE NetClose(p) \/ LockIn(p)
    BY <2>6 DEF NetClose, LockIn, Goto, Labels
  <2>7. CASE LockHandshake(p)
    BY <2>7 DEF LockHandshake, Goto, Labels
  <2>8. CASE ReadError(p) \/ TakeInput(p)
    BY <2>8 DEF ReadError, TakeInput, ReturnRead, Goto, Labels
  <2>9. CASE SkipEmpty(p)
    <3>1. CASE UNCHANGED pc
      BY <3>1, <2>1, <1>1
    <3>2. CASE ReturnRead(p)
      BY <3>2 DEF ReturnRead, Goto, Labels
    <3> QED
      BY <2>9, <3>1, <3>2 DEF SkipEmpty
  <2> QED
    BY <2>2, <2>3, <2>4, <2>5, <2>6, <2>7, <2>8, <2>9
<1>3. pc'[p] \notin {"run", "fail", "write"} /\ \A q \in Procs \ {p} : pc'[q] = pc[q]
  BY <1>2 DEF Types
<1>4. ASSUME NEW q \in Procs
      PROVE  /\ pc[q] \in {"run", "fail"} \/ pc'[q] \in {"run", "fail", "write"} => pc'[q] = pc[q]
             /\ pc[q] = "run" => stage'[q] = stage[q] /\ renegotiating'[q] = renegotiating[q]
  BY <1>1, <1>3
<1> QED
  BY <1>1, <1>4, OutputFrame DEF session, outHalf

\* Alerts and close_notify of calls that are in no handshake.
LEMMA OutputOfAlerts ==
    ASSUME Control, Output, NEW p \in Procs,
           closeNotify(p) \/ ReadWhileIncomplete(p) \/ ReadRecord(p) \/ Renegotiate(p) \/ UnlockedAlert(p)
    PROVE  Output'
<1> USE DEF Control, Output
<1>0. Types'
  BY ControlOfCalls, ControlOfRead
<1>1. /\ UNCHANGED <<cfg, stage, renegotiating, session, netClosed>> /\ pc[p] \notin {"run", "fail", "write"}
      /\ outErr => outErr'
  <2>1. sendAlert => outErr' = TRUE
    BY DEF sendAlert, sendAlertLocked
  <2> QED
    BY <2>1 DEF closeNotify, ReadWhileIncomplete, ReadRecord, Renegotiate, UnlockedAlert, At, closing, sendAlertLocked, outHalf
<1>2. pc'[p] \notin {"run", "fail", "write"} /\ \A q \in Procs \ {p} : pc'[q] = pc[q]
  <2>1. CASE closeNotify(p)
    BY <2>1 DEF closeNotify, Goto, Types
  <2>2. CASE ReadWhileIncomplete(p) \/ Renegotiate(p) \/ UnlockedAlert(p)
    BY <2>2 DEF ReadWhileIncomplete, Renegotiate, UnlockedAlert, ReturnRead, Goto, Types
  <2>3. CASE ReadRecord(p)
    <3>1. pc' = pc \/ \E l \in {"idle", "renegotiate", "read"} : pc' = [pc EXCEPT ![p] = l]
      BY <2>3 DEF ReadRecord, ReturnRead, Goto
    <3> QED
      BY <3>1, <1>1 DEF Types
  <2> QED
    BY <2>1, <2>2, <2>3
<1>3. CASE UNCHANGED <<outHalf, closeNotifySent>>
  BY <1>1, <1>2, <1>3, OutputFrame DEF session, outHalf
<1>4. CASE WriteRecord("closeNotify") /\ outMutex = None /\ closeNotifySent' = TRUE
  BY <1>0, <1>1, <1>2, <1>4, OutputAlert DEF session
<1>5. CASE sendAlert /\ UNCHANGED closeNotifySent
  <2>1. WriteRecord("fatal") /\ outMutex = None /\ outErr' = TRUE
    BY <1>5 DEF sendAlert, sendAlertLocked, Free
  <2> QED
    BY <1>0, <1>1, <1>2, <1>5, <2>1, OutputAlert DEF session
<1>6. CASE WriteRecord("unlocked") /\ UNCHANGED closeNotifySent
  BY <1>0, <1>1, <1>2, <1>6, OutputAlert DEF session
<1>7. CASE closeNotify(p)
  <2>1. CASE closeNotifySent
    BY <2>1, <1>3, <1>7 DEF closeNotify, outHalf, Types
  <2>2. CASE ~closeNotifySent
    BY <2>2, <1>4, <1>7 DEF closeNotify, Free
  <2> QED
    BY <2>1, <2>2
<1>8. CASE ReadWhileIncomplete(p) \/ ReadRecord(p) \/ Renegotiate(p)
  BY <1>8, <1>3, <1>5 DEF ReadWhileIncomplete, ReadRecord, Renegotiate, closing
<1>9. CASE UnlockedAlert(p)
  BY <1>9, <1>6 DEF UnlockedAlert, sendAlertLocked, closing
<1> QED
  BY <1>7, <1>8, <1>9

\* A new connection has sent nothing.
LEMMA OutputInit == Init => Output
<1> SUFFICES ASSUME Init PROVE Output
  OBVIOUS
<1>1. /\ wire = <<>> /\ sendBuf = <<>> /\ buffering = FALSE /\ handshakes = 0 /\ Len(wire) = 0
      /\ \A p \in Procs : pc[p] = "idle"
  BY DEF Init
<1>2. \A t : count(wire, t) = 0 /\ count(sendBuf, t) = 0
  BY <1>1, CountEmpty
<1> QED
  BY <1>1, <1>2 DEF Output, Flights, Sent, Clear, Marks, InSession, DataOnlyInSession

\* The outgoing half keeps to the script whatever runs beside it.
LEMMA OutputStep == Control /\ Output /\ [Next]_vars => Output'
<1> SUFFICES ASSUME Control, Output, [Next]_vars PROVE Output'
  OBVIOUS
<1>1. CASE UNCHANGED vars
  BY <1>1, OutputFrame DEF vars, local, session, outHalf, closing
<1> QED
  BY <1>1, OutputOfSend, OutputOfFlush, OutputOfFlushed, OutputOfRecv, OutputOfStart, OutputOfFinish, OutputOfFail,
     OutputOfLockOut, OutputOfWrite, OutputOfCalls, OutputOfAlerts DEF Next, CallStep, PeerStep, AllReturned

----------------------------------------------------------------------------
(* The interlock of Write and Close.                                        *)

InWrite == {"handshake", "handshakeIn", "run", "fail", "lockOut", "write"}

\* There are finitely many Writes.
LEMMA InFlightFinite ==
    IsFiniteSet(Writers) /\ IsFiniteSet(InFlight) /\ Cardinality(InFlight) \in Nat /\ (Cardinality(InFlight) = 0 => InFlight = {})
<1>1. IsFiniteSet(Writers)
  BY ConnAssumption, FS_Subset DEF Procs
<1>2. IsFiniteSet(InFlight)
  BY <1>1, FS_Subset DEF InFlight
<1> QED
  BY <1>1, <1>2, FS_CardinalityType, FS_EmptySet

\* A step that moves p, in or out of a Write as it was, and leaves activeCall alone.
LEMMA InterlockMove ==
    ASSUME Control, Interlock, NEW p \in Procs, NEW l, pc' = [pc EXCEPT ![p] = l], activeCall' = activeCall,
           p \in Writers => (pc[p] \in InWrite <=> l \in InWrite),
           l = "cas" => x'[p] % 2 = 0, \A q \in Procs \ {p} : x'[q] = x[q],
           p \in Closers /\ l \in {"complete", "notify"} => pc[p] \in {"complete", "notify"}
    PROVE  Interlock'
<1>1. pc'[p] = l /\ \A q \in Procs \ {p} : pc'[q] = pc[q]
  BY DEF Control, Types
<1>2. InFlight' = InFlight
  <2>1. \A q \in Writers : q \in Procs /\ (pc'[q] \in InWrite <=> pc[q] \in InWrite)
    BY <1>1 DEF Procs
  <2> QED
    BY <2>1 DEF InFlight, InWrite
<1>3. \A q \in Procs : pc'[q] = "cas" => x'[q] % 2 = 0
  BY <1>1 DEF Interlock
<1>4. \A q \in Closers : q \in Procs /\ (pc'[q] \in {"complete", "notify"} => pc[q] \in {"complete", "notify"})
  BY <1>1 DEF Procs
<1> QED
  BY <1>2, <1>3, <1>4 DEF Interlock

\* A Write returns and counts itself out.
LEMMA InterlockLeave ==
    ASSUME Control, Interlock, NEW p \in Procs, p \in Writers, pc[p] \in InWrite,
           pc' = [pc EXCEPT ![p] = "idle"], activeCall' = activeCall - 2, x' = x
    PROVE  Interlock'
<1>1. pc'[p] = "idle" /\ \A q \in Procs \ {p} : pc'[q] = pc[q]
  BY DEF Control, Types
<1>2. p \in InFlight
  BY DEF InFlight, InWrite
<1>3. InFlight' = InFlight \ {p}
  <2>1. \A q \in Writers : q \in Procs
    BY DEF Procs
  <2> QED
    BY <1>1, <2>1 DEF InFlight
<1>4. Cardinality(InFlight \ {p}) = Cardinality(InFlight) - 1
  BY <1>2, InFlightFinite, FS_RemoveElement
<1>5. Cardinality(InFlight)' = Cardinality(InFlight) - 1
  BY <1>3, <1>4
<1>6. activeCall' \in {2 * Cardinality(InFlight)', 2 * Cardinality(InFlight)' + 1}
  BY <1>5, InFlightFinite DEF Interlock
<1>7. \A q \in Procs : pc'[q] = "cas" => x'[q] % 2 = 0
  BY <1>1 DEF Interlock
<1>8. \A q \in Closers : pc'[q] \notin {"complete", "notify"}
  <2>1. \A q \in Closers : q \in Procs /\ pc[q] \notin {"complete", "notify"}
    BY <1>2 DEF Interlock, Procs
  <2> QED
    BY <1>1, <2>1
<1> QED
  BY <1>6, <1>7, <1>8 DEF Interlock

\* A compare and swap that succeeds finds no Close before it; Close's finds every
\* Write in flight.
LEMMA InterlockOfCAS ==
    ASSUME Control, Interlock, NEW p \in Procs, CASActiveCall(p)
    PROVE  Interlock'
<1>0. /\ pc[p] = "cas" /\ x' = [x EXCEPT ![p] = 0] /\ x[p] % 2 = 0 /\ activeCall \in Int
      /\ Cardinality(InFlight) \in Nat /\ x \in [Procs -> Int]
  BY InFlightFinite, Zenon DEF CASActiveCall, At, Interlock, Control, Types
<1>1. (p \in Writers /\ p \notin Closers) \/ (p \in Closers /\ p \notin Writers)
  BY <1>0, ConnAssumption DEF Control, Places, Role
<1>2. \/ activeCall # x[p] /\ pc' = [pc EXCEPT ![p] = "load"] /\ activeCall' = activeCall
      \/ activeCall = x[p] /\ p \in Writers /\ pc' = [pc EXCEPT ![p] = "handshake"] /\ activeCall' = activeCall + 2
      \/ /\ activeCall = x[p] /\ p \in Closers /\ activeCall' = activeCall + 1
         /\ pc' = [pc EXCEPT ![p] = IF x[p] # 0 THEN "netClose" ELSE "complete"]
  BY <1>1 DEF CASActiveCall, Goto
<1>3. \A q \in Procs \ {p} : x'[q] = x[q]
  BY <1>0
<1>4. CASE activeCall # x[p] /\ pc' = [pc EXCEPT ![p] = "load"] /\ activeCall' = activeCall
  BY <1>0, <1>3, <1>4, InterlockMove DEF InWrite
<1>5. ASSUME activeCall = x[p]
      PROVE  activeCall = 2 * Cardinality(InFlight) /\ \A q \in Closers : pc[q] \notin {"complete", "notify"}
  <2>1. activeCall % 2 = 0
    BY <1>0, <1>5
  <2>2. (2 * Cardinality(InFlight) + 1) % 2 = 1 /\ 1 % 2 = 1
    BY <1>0
  <2> QED
    BY <2>1, <2>2 DEF Interlock
<1>6. CASE activeCall = x[p] /\ p \in Writers /\ pc' = [pc EXCEPT ![p] = "handshake"] /\ activeCall' = activeCall + 2
  <2>1. pc'[p] = "handshake" /\ \A q \in Procs \ {p} : pc'[q] = pc[q]
    BY <1>6 DEF Control, Types
  <2>2. p \notin InFlight
    BY <1>0 DEF InFlight
  <2>3. InFlight' = InFlight \cup {p}
    <3>1. \A q \in Writers : q \in Procs
      BY DEF Procs
    <3> QED
      BY <2>1, <3>1, <1>6 DEF InFlight
  <2>4. Cardinality(InFlight)' = Cardinality(InFlight) + 1
    BY <2>2, <2>3, InFlightFinite, FS_AddElement
  <2>5. activeCall' = 2 * Cardinality(InFlight)'
    BY <1>0, <1>5, <1>6, <2>4
  <2>6. \A q \in Procs : pc'[q] = "cas" => x'[q] % 2 = 0
    BY <2>1, <1>3 DEF Interlock
  <2>7. \A q \in Closers : pc'[q] \notin {"complete", "notify"}
    <3>1. \A q \in Closers : q \in Procs
      BY DEF Procs
    <3> QED
      BY <3>1, <2>1, <1>5, <1>6
  <2> QED
    BY <2>5, <2>6, <2>7 DEF Interlock
<1>7. CASE /\ activeCall = x[p] /\ p \in Closers /\ activeCall' = activeCall + 1
           /\ pc' = [pc EXCEPT ![p] = IF x[p] # 0 THEN "netClose" ELSE "complete"]
  <2>1. pc'[p] = (IF x[p] # 0 THEN "netClose" ELSE "complete") /\ \A q \in Procs \ {p} : pc'[q] = pc[q]
    BY <1>7 DEF Control, Types
  <2>2. InFlight' = InFlight
    <3>1. \A q \in Writers : q \in Procs /\ q # p
      BY <1>1, <1>7 DEF Procs
    <3> QED
      BY <2>1, <3>1 DEF InFlight
  <2>3. activeCall' = 2 * Cardinality(InFlight)' + 1
    BY <1>5, <1>7, <2>2
  <2>4. \A q \in Procs : pc'[q] = "cas" => x'[q] % 2 = 0
    BY <2>1, <1>3 DEF Interlock
  <2>5. (\E q \in Closers : pc'[q] \in {"complete", "notify"}) => activeCall' = 1 /\ InFlight' = {}
    <3>1. \A q \in Closers : q \in Procs
      BY DEF Procs
    <3>2. (\E q \in Closers : pc'[q] \in {"complete", "notify"}) => x[p] = 0
      BY <3>1, <2>1, <1>5, <1>7
    <3>3. x[p] = 0 => Cardinality(InFlight) = 0
      BY <1>0, <1>5, <1>7
    <3> QED
      BY <3>2, <3>3, <1>7, <2>2, InFlightFinite
  <2> QED
    BY <2>3, <2>4, <2>5 DEF Interlock
<1> QED
  BY <1>2, <1>4, <1>6, <1>7

\* Steps of readers, closers and of calls that begin.
LEMMA InterlockOfCalls ==
    ASSUME Control, Interlock, NEW p \in Procs,
           \/ Begin(p) \/ CheckComplete(p) \/ closeNotify(p) \/ NetClose(p)
           \/ LockIn(p) \/ ReadWhileIncomplete(p) \/ ReadRecord(p) \/ ReadError(p) \/ TakeInput(p) \/ SkipEmpty(p)
           \/ Renegotiate(p) \/ UnlockedAlert(p) \/ LockRenegotiation(p)
    PROVE  Interlock'
<1> USE DEF Control
<1>0. Role(p, pc[p]) /\ pc[p] \in Labels /\ pc \in [Procs -> Labels]
  BY DEF Places, Types
<1>1. UNCHANGED <<x, activeCall>>
  BY DEF Begin, CheckComplete, closeNotify, NetClose, LockIn, ReadWhileIncomplete, ReadRecord, ReadError, TakeInput,
     SkipEmpty, Renegotiate, UnlockedAlert, LockRenegotiation, closing
<1>2. CASE Begin(p)
  <2>1. pc[p] = "idle" /\ \E l \in {"handshake", "load", "complete"} :
          /\ pc' = [pc EXCEPT ![p] = l]
          /\ l = "handshake" => p \notin Writers
          /\ l = "complete" => p \notin Closers
    BY <1>2, ConnAssumption DEF Begin, At, Goto, Procs
  <2> QED
    BY <2>1, <1>1, InterlockMove DEF InWrite
<1>3. CASE CheckComplete(p) \/ closeNotify(p) \/ NetClose(p)
  <2>1. pc[p] \in {"complete", "notify", "netClose"} /\ p \notin Writers
    BY <1>0, <1>3, ConnAssumption DEF CheckComplete, closeNotify, NetClose, At, Role
  <2>2. \E l \in {"notify", "netClose", "idle"} :
          pc' = [pc EXCEPT ![p] = l] /\ (l = "notify" => pc[p] = "complete")
    <3>1. CASE CheckComplete(p)
      BY <3>1, <1>0, ConnAssumption DEF CheckComplete, At, Role, Goto
    <3>2. CASE closeNotify(p) \/ NetClose(p)
      BY <3>2 DEF closeNotify, NetClose, Goto
    <3> QED
      BY <1>3, <3>1, <3>2
  <2> QED
    BY <2>1, <2>2, <1>1, InterlockMove
<1>4. CASE \/ LockIn(p) \/ ReadWhileIncomplete(p) \/ ReadRecord(p) \/ ReadError(p) \/ TakeInput(p) \/ SkipEmpty(p)
           \/ Renegotiate(p) \/ UnlockedAlert(p) \/ LockRenegotiation(p)
  <2>1. pc[p] \in Reading \union {"lockIn"}
    BY <1>4 DEF LockIn, ReadWhileIncomplete, ReadRecord, ReadError, TakeInput, SkipEmpty, Renegotiate, UnlockedAlert,
       LockRenegotiation, At, Reading
  <2>2. p \notin Writers /\ p \notin Closers
    BY <1>0, <2>1, ConnAssumption DEF Role, Reading
  <2>3. \E l \in Labels \ {"cas"} : pc' = [pc EXCEPT ![p] = l]
    <3>1. \E l : pc' = [pc EXCEPT ![p] = l] /\ l \in {"idle", "read", "ahead", "renegotiate", "unlockedAlert", "renegotiateLock", "run", pc[p]}
      <4>1. pc = [pc EXCEPT ![p] = pc[p]]
        BY <1>0
      <4>2. CASE LockIn(p) \/ ReadWhileIncomplete(p) \/ ReadError(p) \/ TakeInput(p) \/ SkipEmpty(p)
        BY <4>1, <4>2 DEF LockIn, ReadWhileIncomplete, ReadError, TakeInput, SkipEmpty, ReturnRead, Goto
      <4>3. CASE ReadRecord(p)
        <5>1. pc' = pc \/ \E l \in {"idle", "renegotiate", "read"} : pc' = [pc EXCEPT ![p] = l]
          BY <4>3 DEF ReadRecord, ReturnRead, Goto
        <5> QED
          BY <5>1, <4>1
      <4>4. CASE Renegotiate(p) \/ UnlockedAlert(p) \/ LockRenegotiation(p)
        BY <4>4 DEF Renegotiate, UnlockedAlert, LockRenegotiation, ReturnRead, Goto
      <4> QED
        BY <1>4, <4>2, <4>3, <4>4
    <3> QED
      BY <3>1, <2>1 DEF Labels, Reading
  <2> QED
    BY <2>2, <2>3, <1>1, InterlockMove
<1> QED
  BY <1>2, <1>3, <1>4

\* Load reads an even number before it tries to swap.
LEMMA InterlockOfLoad ==
    ASSUME Control, Interlock, NEW p \in Procs, LoadActiveCall(p)
    PROVE  Interlock'
<1>1. pc[p] = "load" /\ activeCall' = activeCall /\ activeCall \in Int /\ x \in [Procs -> Int]
  BY DEF LoadActiveCall, At, closing, Control, Types
<1>2. CASE activeCall % 2 = 1
  BY <1>1, <1>2, InterlockMove DEF LoadActiveCall, Goto, InWrite
<1>3. CASE activeCall % 2 # 1
  <2>1. pc' = [pc EXCEPT ![p] = "cas"] /\ x' = [x EXCEPT ![p] = activeCall]
    BY <1>3 DEF LoadActiveCall, Goto
  <2>2. activeCall % 2 = 0
    BY <1>1, <1>3
  <2>3. x'[p] % 2 = 0 /\ \A q \in Procs \ {p} : x'[q] = x[q]
    BY <1>1, <2>1, <2>2
  <2> QED
    BY <1>1, <2>1, <2>3, InterlockMove DEF InWrite
<1> QED
  BY <1>2, <1>3

\* Steps inside Handshake, and the two of Write under out.Lock.
LEMMA InterlockOfHandshake ==
    ASSUME Control, Interlock, NEW p \in Procs,
           \/ LockHandshake(p) \/ LockInForHandshake(p) \/ SendFlight(p) \/ Flush(p) \/ Flushed(p) \/ RecvFlight(p)
           \/ FinishHandshake(p) \/ FailHandshake(p) \/ LockOut(p) \/ WriteData(p)
    PROVE  Interlock'
<1> USE DEF Control
<1>0. Role(p, pc[p]) /\ pc[p] \in Labels /\ pc \in [Procs -> Labels] /\ x' = x
  BY DEF Places, Types, LockHandshake, LockInForHandshake, SendFlight, Flush, Flushed, RecvFlight, FinishHandshake,
     FailHandshake, LockOut, WriteData
<1>1. pc[p] \in InWrite /\ p \notin Closers /\ p \in Readers \union Writers
  <2>1. pc[p] \in InWrite
    BY DEF LockHandshake, LockInForHandshake, SendFlight, Flush, Flushed, RecvFlight, FinishHandshake,
       FailHandshake, LockOut, WriteData, At, InWrite
  <2> QED
    BY <2>1, <1>0, ConnAssumption DEF Role, InWrite
<1>2. ASSUME NEW l, l \in InWrite \/ p \notin Writers, l # "cas", pc' = [pc EXCEPT ![p] = l], activeCall' = activeCall
      PROVE  Interlock'
  BY <1>0, <1>1, <1>2, InterlockMove
<1>3. ASSUME p \in Writers, pc' = [pc EXCEPT ![p] = "idle"], activeCall' = activeCall - 2
      PROVE  Interlock'
  BY <1>0, <1>1, <1>3, InterlockLeave
<1>4. CASE LockHandshake(p)
  <2>1. \/ \E l \in {"lockIn", "lockOut", "handshakeIn"} :
             /\ pc' = [pc EXCEPT ![p] = l] /\ activeCall' = activeCall
             /\ l = "lockIn" => p \in Readers
        \/ pc' = [pc EXCEPT ![p] = "idle"] /\ activeCall' = IF p \in Writers THEN activeCall - 2 ELSE activeCall
    BY <1>4 DEF LockHandshake, LeaveActive, Goto
  <2>2. p \in Readers => p \notin Writers
    BY ConnAssumption
  <2> QED
    BY <2>1, <2>2, <1>2, <1>3 DEF InWrite
<1>5. CASE LockInForHandshake(p)
  BY <1>5, <1>2 DEF LockInForHandshake, Goto, closing, InWrite
<1>6. CASE SendFlight(p) \/ Flush(p) \/ Flushed(p) \/ RecvFlight(p)
  <2>1. activeCall' = activeCall /\ pc[p] = "run"
    BY <1>6 DEF SendFlight, Flush, Flushed, RecvFlight, closing, At
  <2>2. pc' = pc \/ pc' = [pc EXCEPT ![p] = "fail"]
    BY <1>6 DEF SendFlight, Flush, Flushed, RecvFlight, Goto
  <2>3. pc = [pc EXCEPT ![p] = pc[p]]
    BY <1>0
  <2> QED
    BY <2>1, <2>2, <2>3, <1>2 DEF InWrite
<1>7. CASE FinishHandshake(p)
  <2>1. pc' = [pc EXCEPT ![p] = afterHandshake(p)] /\ activeCall' = activeCall
    BY <1>7 DEF FinishHandshake, Goto, closing
  <2>2. afterHandshake(p) \in {"lockOut", "read", "lockIn"} /\ (p \in Writers => afterHandshake(p) = "lockOut")
    BY <1>1, ConnAssumption DEF afterHandshake
  <2> QED
    BY <2>1, <2>2, <1>2 DEF InWrite
<1>8. CASE FailHandshake(p)
  BY <1>8, <1>2, <1>3 DEF FailHandshake, LeaveActive, Goto
<1>9. CASE LockOut(p) \/ WriteData(p)
  <2>1. p \in Writers
    BY <1>0, <1>9 DEF LockOut, WriteData, At, Role
  <2> QED
    BY <1>9, <2>1, <1>2, <1>3 DEF LockOut, WriteData, ReturnWrite, Goto, InWrite
<1> QED
  BY <1>4, <1>5, <1>6, <1>7, <1>8, <1>9

\* No call has started.
LEMMA InterlockInit == Init => Interlock
<1> SUFFICES ASSUME Init PROVE Interlock
  OBVIOUS
<1>1. activeCall = 0 /\ \A p \in Procs : pc[p] = "idle"
  BY DEF Init
<1>2. InFlight = {} /\ \A p \in Closers : pc[p] = "idle"
  BY <1>1 DEF InFlight, Procs
<1>3. Cardinality(InFlight) = 0
  BY <1>2, FS_EmptySet
<1> QED
  BY <1>1, <1>2, <1>3 DEF Interlock

\* activeCall counts the Writes in flight, whatever runs.
LEMMA InterlockStep == Control /\ Interlock /\ [Next]_vars => Interlock'
<1> SUFFICES ASSUME Control, Interlock, [Next]_vars PROVE Interlock'
  OBVIOUS
<1>1. CASE UNCHANGED vars
  BY <1>1 DEF vars, local, closing, Interlock, InFlight
<1> QED
  BY <1>1, InterlockOfCAS, InterlockOfCalls, InterlockOfLoad, InterlockOfHandshake DEF Next, CallStep, PeerStep, AllReturned

----------------------------------------------------------------------------
(* The input.                                                               *)

\* A step that leaves the input alone may record an error over it only outside a
\* session or with the outgoing half closed, and what closed it may be erased but is
\* not forgotten.
LEMMA InputFrame ==
    ASSUME InputKept, UNCHANGED <<input, unread>>, outErr \/ erased => outErr' \/ erased',
           inErr' => inErr \/ input = <<>> \/ handshakeStatus' # 1 \/ outErr',
           handshakeStatus' = 1 => handshakeStatus = 1 \/ ~inErr'
    PROVE  InputKept'
  BY DEF InputKept, NothingLostBeforeError, handshakeComplete

\* Read gets a record into an empty input and takes it out again.
LEMMA InputOfRead ==
    ASSUME Control, InputKept, NEW p \in Procs, ReadRecord(p) \/ TakeInput(p) \/ SkipEmpty(p)
    PROVE  InputKept'
<1>1. CASE ReadRecord(p)
  <2>1. input = <<>> /\ unread = 0
    BY <1>1 DEF ReadRecord, InputKept, NothingLostBeforeError
  <2>2. PICK r : /\ inErr' = (answered(r, "data") \/ silent(r))
                 /\ input' = IF isData(r) THEN <<size(r)>> ELSE input
                 /\ unread' = IF isData(r) THEN unread + size(r) ELSE unread
    BY <1>1 DEF ReadRecord
  <2>3. CASE isData(r)
    <3>1. size(r) \in {0, 2} /\ ~answered(r, "data") /\ ~silent(r)
      BY <2>3 DEF isData, size, answered, silent, tooManyWarnings, Handshakes
    <3>2. input' = <<size(r)>> /\ unread' = size(r) /\ ~inErr'
      <4>1. ~inErr'
        BY <2>2, <3>1
      <4>2. unread' = unread + size(r) /\ input' = <<size(r)>>
        BY <2>2, <2>3
      <4> QED
        BY <4>1, <4>2, <2>1, <3>1
    <3>3. input'[1] = unread' /\ input' # <<>>
      BY <3>2
    <3> QED
      BY <3>1, <3>2, <3>3 DEF InputKept, NothingLostBeforeError
  <2>4. CASE ~isData(r)
    BY <2>1, <2>2, <2>4 DEF InputKept, NothingLostBeforeError
  <2> QED
    BY <2>3, <2>4
<1>2. CASE TakeInput(p)
  <2>1. /\ input \in {<<1>>, <<2>>} /\ ~inErr' /\ unread = input[1]
    BY <1>2 DEF TakeInput, InputKept, NothingLostBeforeError
  <2>2. PICK n \in 1..input[1] :
          unread' = unread - n /\ input' = IF n = input[1] THEN <<>> ELSE <<input[1] - n>>
    BY <1>2 DEF TakeInput
  <2>3. \/ n = input[1] /\ input' = <<>> /\ unread' = 0
        \/ input' = <<1>> /\ unread' = 1
    BY <2>1, <2>2
  <2> QED
    BY <2>1, <2>3 DEF InputKept, NothingLostBeforeError
<1>3. CASE SkipEmpty(p)
  BY <1>3 DEF SkipEmpty, InputKept, NothingLostBeforeError
<1> QED
  BY <1>1, <1>2, <1>3

\* The other steps only record errors.
LEMMA InputStep == Control /\ InputKept /\ [Next]_vars => InputKept'
<1> SUFFICES ASSUME Control, InputKept, [Next]_vars PROVE InputKept'
  OBVIOUS
<1>1. CASE UNCHANGED vars
  BY <1>1, InputFrame DEF vars, session, inHalf, outHalf
<1>2. ASSUME NEW p \in Procs,
             \/ Begin(p) \/ LoadActiveCall(p) \/ CheckComplete(p) \/ NetClose(p) \/ closeNotify(p)
             \/ LockInForHandshake(p) \/ SendFlight(p) \/ Flush(p) \/ Flushed(p)
             \/ LockIn(p) \/ ReadError(p) \/ LockOut(p)
      PROVE  InputKept'
  <2>1. UNCHANGED <<input, unread, inErr, outErr, erased, handshakeStatus>>
    BY <1>2 DEF Begin, LoadActiveCall, CheckComplete, NetClose, closeNotify, LockInForHandshake, SendFlight,
       Flush, Flushed, LockIn, ReadError, LockOut, session, inHalf, outHalf
  <2> QED
    BY <2>1, InputFrame
<1>3. ASSUME NEW p \in Procs, CASActiveCall(p) \/ LockHandshake(p) PROVE InputKept'
  <2>1. UNCHANGED <<input, unread, inErr, outErr, erased, handshakeStatus>>
    BY <1>3, Zenon DEF CASActiveCall, LockHandshake, session, inHalf, outHalf
  <2> QED
    BY <2>1, InputFrame
<1>4. ASSUME NEW p \in Procs, FinishHandshake(p) PROVE InputKept'
  <2>1. ~inErr
    BY <1>4 DEF FinishHandshake, At, Control, Places, Phase
  <2> QED
    BY <1>4, <2>1, InputFrame DEF FinishHandshake, inHalf, outHalf
<1>5. ASSUME NEW p \in Procs, FailHandshake(p) \/ LockRenegotiation(p) PROVE InputKept'
  <2>1. UNCHANGED <<input, unread, inErr, outErr, erased>> /\ (handshakeStatus' = 1 => handshakeStatus = 1)
    BY <1>5 DEF FailHandshake, LockRenegotiation, session, inHalf, outHalf
  <2> QED
    BY <2>1, InputFrame
<1>7. ASSUME NEW p \in Procs, RecvFlight(p) PROVE InputKept'
  <2>1. handshakeStatus = 0 /\ UNCHANGED <<input, unread, handshakeStatus>>
    BY <1>7 DEF RecvFlight, At, Control, Places, Phase, session
  <2>2. UNCHANGED erased /\ (outErr => outErr')
    BY <1>7 DEF RecvFlight, outHalf, sendAlert, sendAlertLocked
  <2> QED
    BY <2>1, <2>2, InputFrame
<1>8. ASSUME NEW p \in Procs, ReadWhileIncomplete(p) \/ Renegotiate(p) \/ UnlockedAlert(p) PROVE InputKept'
  <2>1. /\ UNCHANGED <<input, unread, handshakeStatus, erased>> /\ (outErr => outErr')
        /\ inErr' => inErr \/ input = <<>> \/ outErr'
    BY <1>8 DEF ReadWhileIncomplete, Renegotiate, UnlockedAlert, sendAlert, sendAlertLocked, session, outHalf
  <2> QED
    BY <2>1, InputFrame
<1>9. ASSUME NEW p \in Procs, WriteData(p) PROVE InputKept'
  <2>1. UNCHANGED <<input, unread, inErr, handshakeStatus>> /\ (outErr \/ erased => outErr' \/ erased')
    BY <1>9 DEF WriteData, session, inHalf
  <2> QED
    BY <2>1, InputFrame
<1> QED
  BY <1>1, <1>2, <1>3, <1>4, <1>5, <1>7, <1>8, <1>9, InputOfRead DEF Next, CallStep, PeerStep, AllReturned

----------------------------------------------------------------------------
(* The theorems.                                                            *)

\* The inductive invariant, and that every behaviour has it.
THEOREM Invariance == Spec => []IInv
<1>1. Init => IInv
  <2>1. Init => InputKept
    BY DEF Init, InputKept, NothingLostBeforeError
  <2> QED
    BY <2>1, ControlInit, OutputInit, InterlockInit DEF IInv
<1>2. IInv /\ [Next]_vars => IInv'
  BY ControlStep, OutputStep, InterlockStep, InputStep DEF IInv
<1> QED
  BY <1>1, <1>2, PTL DEF Spec

\* Application data is only ever on the wire inside a session: after both flights of
\* every handshake begun, before close_notify and before a fatal alert.
THEOREM DataInSession == Spec => []DataOnlyInSession
<1>1. IInv => DataOnlyInSession
  BY DEF IInv, Output
<1> QED
  BY <1>1, Invariance, PTL

\* No byte that was accepted is lost or returned twice, and an error hides some only
\* after a failed renegotiation or an alert in out.err, erased or not.
THEOREM NothingLost == Spec => []NothingLostBeforeError
<1>1. IInv => NothingLostBeforeError
  BY DEF IInv, InputKept
<1> QED
  BY <1>1, Invariance, PTL

\* Only a Write that holds out.Lock adds data to the wire.
LEMMA DataWritten ==
    ASSUME Control, Output, [Next]_vars, \A p \in Procs : pc[p] # "write"
    PROVE  count(wire, "data")' = count(wire, "data")
<1> USE DEF Control, Output
<1>1. CASE wire' = wire
  BY <1>1 DEF count
<1>2. CASE wire' = wire \o sendBuf
  <2>1. count(sendBuf, "data") = 0 /\ count(wire, "data") \in Nat
    BY CountsTyped DEF Marks
  <2> QED
    BY <2>1, <1>2, FlushCounts
<1>3. CASE \E t \in Tags \ {"data"} : WriteRecord(t)
  BY <1>3, RecordCounts DEF Tags
<1>4. ASSUME NEW p \in Procs, SendFlight(p) PROVE \E t \in Tags \ {"data"} : WriteRecord(t)
  BY <1>4, FlightNames DEF SendFlight, Tags
<1>5. sendAlert => WriteRecord("fatal")
  BY DEF sendAlert, sendAlertLocked
<1>6. "fatal" \in Tags \ {"data"} /\ "closeNotify" \in Tags \ {"data"} /\ "unlocked" \in Tags \ {"data"}
  BY DEF Tags
<1>7. ASSUME NEW p \in Procs,
             \/ closeNotify(p) \/ ReadWhileIncomplete(p) \/ ReadRecord(p) \/ Renegotiate(p) \/ UnlockedAlert(p)
             \/ RecvFlight(p)
      PROVE  wire' = wire \/ \E t \in Tags \ {"data"} : WriteRecord(t)
  BY <1>5, <1>6, <1>7 DEF closeNotify, ReadWhileIncomplete, ReadRecord, Renegotiate, UnlockedAlert, RecvFlight,
     sendAlertLocked, outHalf
<1>8. ASSUME NEW p \in Procs, Flush(p) \/ FailHandshake(p) PROVE wire' = wire \/ wire' = wire \o sendBuf
  BY <1>8 DEF Flush, FailHandshake
<1>9. ASSUME NEW p \in Procs,
             \/ Begin(p) \/ LoadActiveCall(p) \/ CheckComplete(p) \/ NetClose(p)
             \/ LockInForHandshake(p) \/ LockRenegotiation(p) \/ Flushed(p) \/ FinishHandshake(p)
             \/ LockIn(p) \/ ReadError(p) \/ TakeInput(p) \/ SkipEmpty(p) \/ LockOut(p)
      PROVE  wire' = wire
  BY <1>9 DEF Begin, LoadActiveCall, CheckComplete, NetClose, LockInForHandshake, LockRenegotiation, Flushed,
     FinishHandshake, LockIn, ReadError, TakeInput, SkipEmpty, LockOut, outHalf
<1>10. ASSUME NEW p \in Procs, CASActiveCall(p) \/ LockHandshake(p) PROVE wire' = wire
  BY <1>10, Zenon DEF CASActiveCall, LockHandshake, outHalf
<1>11. ASSUME NEW p \in Procs PROVE ~WriteData(p)
  BY DEF WriteData, At
<1>12. CASE UNCHANGED vars
  BY <1>12, <1>1 DEF vars, outHalf
<1> QED
  BY <1>1, <1>2, <1>3, <1>4, <1>7, <1>8, <1>9, <1>10, <1>11, <1>12 DEF Next, CallStep, PeerStep, AllReturned

\* A Close that found no Write in flight has the connection to itself.
THEOREM CloseIsQuiet == Spec => QuietAfterClose
<1>1. ASSUME IInv, IInv', [Next]_vars, \E p \in Closers : pc[p] \in {"complete", "notify"}
      PROVE  onWire("data")' = onWire("data")
  <2>1. InFlight = {}
    BY <1>1 DEF IInv, Interlock
  <2>2. \A p \in Procs : pc[p] # "write"
    BY <2>1, <1>1 DEF IInv, Control, Places, Role, InFlight
  <2>3. count(wire, "data")' = count(wire, "data")
    BY <1>1, <2>2, DataWritten DEF IInv
  <2>4. onWire("data") = count(wire, "data")
    BY <1>1, OnWire DEF IInv, Control, Types
  <2>5. onWire("data")' = count(wire, "data")'
    <3>1. wire' \in Seq(Tags)
      BY <1>1 DEF IInv, Control, Types
    <3>2. Len(wire') \in Nat /\ (Len(wire') + 1) - 1 = Len(wire')
      BY <3>1, LenProperties
    <3> QED
      BY <3>2 DEF onWire, before, count
  <2> QED
    BY <2>3, <2>4, <2>5
<1>2. IInv /\ IInv' /\ [Next]_vars =>
        [(\E p \in Closers : pc[p] \in {"complete", "notify"}) => onWire("data")' = onWire("data")]_vars
  BY <1>1
<1> QED
  BY <1>2, Invariance, PTL DEF Spec, QuietAfterClose
============================================================================
