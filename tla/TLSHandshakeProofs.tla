------------------------- MODULE TLSHandshakeProofs -------------------------
(***************************************************************************)
(* Proofs about TLSHandshake for any Configs, any number of connections,    *)
(* key rotations and faults: when an end reports success the two ends agree,*)
(* on the best both Configs allow and with the client the server's policy   *)
(* asks for; what the client caches the server can resume; and nothing is   *)
(* left in a buffer.                                                        *)
(*                                                                          *)
(* The argument is the one for the protocol.  A Finished names the master   *)
(* secret and the transcript of the end that made it, and nothing on the    *)
(* way can make one (DamagedRecord).  So HInv says of each end alone        *)
(*   - what it has chosen as a function of its hellos (CChosen, SChosen),   *)
(*   - that a Finished it has written and its peer has not read is its own  *)
(*     (CStream, SStream), made when it was past its choices (CSent, SSent),*)
(*   - that its master secret says which version and suite it is for        *)
(*     (Bound) and its transcript begins with its hellos (Shape),           *)
(* and of the two together only that an end that is done agrees with its    *)
(* peer (Both).  That is established by the step that accepts a Finished:   *)
(* equal transcripts have equal hellos and are of one kind, full or         *)
(* resumed, and equal secrets have equal versions and suites                *)
(* (FinishedAgree).                                                         *)
(*                                                                          *)
(* Order: the helpers on sequences, records and transcripts; every step of  *)
(* the client and of the server as a step of that end alone (CStep, SStep); *)
(* the two together; the actions; the theorems.                             *)
(***************************************************************************)
EXTENDS TLSHandshake, WellFoundedInduction, SequenceTheorems, TLAPS

----------------------------------------------------------------------------
(* The shape of one end.                                                    *)

EndFields ==
    {"pc", "vers", "haveVers", "in", "out", "sendBuf", "buffering", "net", "gm", "ch", "sh", "hash",
     "suite", "master", "session", "isResume", "stage", "peerPub", "certReq", "peer", "proto", "didResume"}

HelloFields ==
    {"typ", "vers", "random", "suites", "ocsp", "alpn", "npn", "ticketSupported", "ticket", "sid"}

IsSequence(x) == x \in Seq(Range(x))

IsRecord(r) ==
    /\ DOMAIN r = {"typ", "vers", "key", "seq", "msg"}
    /\ r.typ \in {"hs", "ccs", "alert"}
    /\ "typ" \in DOMAIN r.msg
    /\ r.typ = "alert" => r.msg.level \in {"warning", "fatal"}

IsHalf(h) == DOMAIN h = {"cipher", "nextCipher", "seq"}

IsHash(h) == DOMAIN h = {"version", "prf", "md5", "sum"} /\ IsSequence(h.sum)

\* What s has written and its peer has not read.
Stream(s) == Range(s.net) \union Range(s.sendBuf)

IsEnd(s) ==
    /\ DOMAIN s = EndFields
    /\ IsHalf(s.in) /\ IsHalf(s.out) /\ IsHash(s.hash)
    /\ IsSequence(s.net) /\ IsSequence(s.sendBuf)
    /\ s.buffering \in BOOLEAN /\ s.isResume \in BOOLEAN /\ s.stage \in Nat
    /\ \A r \in Stream(s) : IsRecord(r)

\* Nothing is held back between two steps.
Flushed(s) == s.pc # "panic" => s.sendBuf = <<>>

----------------------------------------------------------------------------
(* What an end has settled on.                                              *)

\* A master secret says which version and suite it was made for: an end, a
\* session or the state in a ticket.
Bound(x) == x.master[1] = x.vers /\ x.master[2] = x.suite

KeyOf(dir, s) == keysFromMasterSecret(dir, s.vers, s.suite, s.master, cr(s), sr(s))

\* A transcript of s: its hellos, then the server's certificate unless it resumes.
Shape(T, s) ==
    /\ Len(T) >= 2 /\ T[1] = s.ch /\ T[2] = s.sh
    /\ s.isResume <=> ~(Len(T) >= 3 /\ T[3].typ = "certificate")

\* verify is the verify data of a Finished of s.
FinishedOf(s, verify) == verify[2] = s.master /\ Shape(verify[3], s)

IsTicket(t) == DOMAIN t = {"key", "state", "intact"} /\ Bound(t.state)

\* A ticket that says what x says.
TicketFor(t, x) ==
    /\ IsTicket(t) /\ t.intact
    /\ t.state.vers = x.vers /\ t.state.suite = x.suite /\ t.state.master = x.master

SoundSession(x) == TicketFor(x.ticket, x) /\ Bound(x)

\* Every session ticket in T is for s.
Tickets(T, s) == \A i \in 1..Len(T) : T[i].typ = "newSessionTicket" => TicketFor(T[i].ticket, s)

NoTickets(T) == \A i \in 1..Len(T) : T[i].typ # "newSessionTicket"

\* A ClientHello as it may be read: the ticket, if there is one, may be damaged,
\* not forged.
HelloOk(m) ==
    /\ DOMAIN m = HelloFields
    /\ m.ticket # <<>> => DOMAIN m.ticket = {1} /\ IsTicket(m.ticket[1])

----------------------------------------------------------------------------
(* The client.                                                              *)

ClientPcs == {"idle", "serverHello", "certificate", "flight", "ticket", "ccs", "finished"} \union Over

\* What clientHandshake put into the hello.
CGreeted(c, cfg) ==
    /\ c.gm = cfg.gm
    /\ c.ch.vers = IF cfg.gm THEN VersionGMSSL ELSE cfg.max
    /\ c.ch.npn => c.ch.alpn # <<>>

\* What a ServerHello that was accepted decided.
CChosen(c, cfg) ==
    /\ c.suite \in IF cfg.gm THEN DOMAIN gmCipherSuites ELSE DOMAIN cipherSuites
    /\ cfg.gm => c.vers = VersionGMSSL
    /\ ~c.sh.npn => c.proto = c.sh.alpn

\* The client has sent its Finished.
CSent(c, cfg) ==
    /\ c.pc \in IF c.isResume THEN {"done", "failed"}
                ELSE {"ticket", "ccs", "finished", "done", "failed", "panic"}
    /\ CGreeted(c, cfg) /\ CChosen(c, cfg) /\ Bound(c)
    /\ c.out.cipher = KeyOf("c", c)

\* The session the client would cache: the one it offered, or the one of the
\* ticket it has put into its transcript.
NewSession(c) ==
    /\ c.pc \in {"ccs", "finished"}
    /\ c.session[1].vers = c.vers /\ c.session[1].suite = c.suite /\ c.session[1].master = c.master
    /\ \E i \in 1..Len(c.hash.sum) : /\ c.hash.sum[i].typ = "newSessionTicket"
                                     /\ c.hash.sum[i].ticket = c.session[1].ticket

\* Up to the server's certificate, and with the keys.
CEarly(c, cfg) ==
    /\ c.pc = "idle" => c.session = <<>>
    /\ c.pc \in {"idle", "serverHello"} => c.proto = <<>> /\ ~c.buffering /\ ~c.isResume
    /\ c.pc \in {"certificate", "flight"} => ~c.isResume
    /\ c.pc = "certificate" => Len(c.hash.sum) = 2 /\ c.hash.sum[1] = c.ch /\ c.hash.sum[2] = c.sh
    /\ c.pc \in ClientPcs \ {"idle", "failed", "panic"} => CGreeted(c, cfg)
    /\ c.pc \in ClientPcs \ {"idle", "serverHello", "failed", "panic"} => CChosen(c, cfg)

CLate(c) ==
    /\ c.pc \in {"flight", "ticket", "ccs", "finished", "done"} => Shape(c.hash.sum, c)
    /\ c.pc \in {"ticket", "ccs", "finished", "done"} => Bound(c) /\ (c.isResume \/ ~c.buffering)
    /\ c.pc \in {"ticket", "ccs"} => c.in.nextCipher = KeyOf("s", c)
    /\ c.pc \in {"finished", "done"} => c.in.cipher = KeyOf("s", c)
    /\ c.pc \in {"ticket", "ccs", "finished"} /\ c.isResume => c.out.nextCipher = KeyOf("c", c)
    /\ c.pc = "done" => ~c.buffering

CSession(c) ==
    c.pc \in ClientPcs \ Over /\ c.session # <<>> => SoundSession(c.session[1]) \/ NewSession(c)

CStream(c, cfg) ==
    \A r \in Stream(c) :
      /\ r.msg.typ = "finished" => CSent(c, cfg) /\ FinishedOf(c, r.msg.verify)
      /\ r.msg.typ = "clientHello" => HelloOk(r.msg)

CInv(c, cfg) ==
    /\ IsEnd(c) /\ Flushed(c) /\ c.pc \in ClientPcs
    /\ CEarly(c, cfg) /\ CLate(c) /\ CSession(c) /\ CStream(c, cfg)

----------------------------------------------------------------------------
(* The server.                                                              *)

ServerPcs ==
    {"clientHello", "clientCertificate", "clientKeyExchange", "certificateVerify", "ccs", "nextProto", "finished"}
    \union Over

\* What readClientHello decided.
SChosen(s, cfg) ==
    /\ s.vers = mutualVersion(cfg, s.ch.vers)
    /\ s.suite \in IF s.gm THEN DOMAIN gmCipherSuites ELSE DOMAIN cipherSuites
    /\ s.isResume \/ s.suite = IF s.gm THEN selectCipherSuiteGM(cfg, s.ch) ELSE selectCipherSuite(cfg, s.ch, s.vers)
    /\ s.sh.npn => s.ch.npn /\ s.ch.alpn = <<>>
    /\ ~s.sh.npn => s.proto = s.sh.alpn

\* The server has sent its Finished.
SSent(s, cfg) ==
    /\ s.pc \in IF s.isResume THEN {"ccs", "nextProto", "finished", "done", "failed", "panic"}
                ELSE {"done", "failed"}
    /\ SChosen(s, cfg) /\ Bound(s)
    /\ s.out.cipher = KeyOf("s", s)

\* Config.ClientAuth is satisfied by this chain.
AuthOk(cfg, chain) ==
    /\ cfg.auth \in {RequireAnyClientCert, RequireAndVerifyClientCert} => chain # "none"
    /\ cfg.auth >= VerifyClientCertIfGiven => chain # "bad"
    /\ cfg.auth = NoClientCert => chain = "none"

SEarly(s, cfg) ==
    /\ s.pc = "clientHello" => s.peer = "none" /\ s.isResume = FALSE /\ s.gm = FALSE
    /\ s.pc \in {"clientCertificate", "clientKeyExchange", "certificateVerify"} => ~s.isResume
    /\ s.pc = "clientCertificate" => cfg.auth >= RequestClientCert
    /\ s.pc \in ServerPcs \ {"clientHello", "clientCertificate", "failed", "panic"} => AuthOk(cfg, s.peer)
    /\ s.pc \in ServerPcs \ {"clientHello", "failed", "panic"} =>
         SChosen(s, cfg) /\ Shape(s.hash.sum, s) /\ ~s.buffering
    /\ s.pc \in ServerPcs \ {"clientHello", "failed", "panic", "done"} /\ ~s.isResume => NoTickets(s.hash.sum)

SLate(s) ==
    /\ s.pc \in {"certificateVerify", "ccs", "nextProto", "finished", "done"} => Bound(s)
    /\ s.pc = "ccs" => s.in.nextCipher = KeyOf("c", s)
    /\ s.pc \in {"nextProto", "finished", "done"} => s.in.cipher = KeyOf("c", s)
    /\ s.pc \in {"ccs", "nextProto", "finished"} /\ ~s.isResume => s.out.nextCipher = KeyOf("s", s)
    /\ s.pc = "nextProto" => s.sh.npn

SStream(s, cfg) ==
    \A r \in Stream(s) :
      r.msg.typ = "finished" =>
        SSent(s, cfg) /\ FinishedOf(s, r.msg.verify) /\ Tickets(r.msg.verify[3], s)

SInv(s, cfg) ==
    /\ IsEnd(s) /\ Flushed(s) /\ s.pc \in ServerPcs
    /\ SEarly(s, cfg) /\ SLate(s) /\ SStream(s, cfg)

----------------------------------------------------------------------------
(* Both.                                                                    *)

Same(c, s) ==
    /\ c.ch = s.ch /\ c.sh = s.sh /\ c.vers = s.vers /\ c.suite = s.suite
    /\ c.master = s.master /\ c.isResume = s.isResume

\* An end that is done, and its peer.
Both(c, s, cc, sc) ==
    /\ c.pc = "done" => SSent(s, sc) /\ Same(c, s) /\ c.in.cipher = s.out.cipher
    /\ s.pc = "done" => CSent(c, cc) /\ Same(c, s) /\ s.in.cipher = c.out.cipher

\* The two ends of a connection.
Pair(c, s, cc, sc) == CInv(c, cc) /\ SInv(s, sc) /\ Both(c, s, cc, sc)

HInv ==
    /\ DOMAIN conn = Ends
    /\ scfg \in ServerConfigs /\ broken \in BOOLEAN
    /\ \A p \in Ends : broken => conn[p].net = <<>>
    /\ Pair(conn["client"], conn["server"], ccfg, scfg)
    /\ cache # <<>> => SoundSession(cache[1])
----------------------------------------------------------------------------
(* Sequences of records and messages.                                       *)

\* Then chains two computations on the state of an end.
LEMMA ThenIs ==
  ASSUME NEW s, NEW F(_)
  PROVE  Then(s, F) = F(s)
BY DEF Then

\* What the proofs use of a sequence, whatever its elements are.
LEMMA SequenceParts ==
  ASSUME NEW x, IsSequence(x)
  PROVE  Len(x) \in Nat /\ DOMAIN x = 1..Len(x) /\ \A i \in 1..Len(x) : x[i] \in Range(x)
<1>1. Len(x) \in Nat /\ DOMAIN x = 1..Len(x)
  BY LenProperties DEF IsSequence
<1> QED
  BY <1>1 DEF Range

\* A function on 1..n is a sequence of length n.
LEMMA SequenceOf ==
  ASSUME NEW n \in Nat, NEW x, DOMAIN x = 1..n, x = [i \in 1..n |-> x[i]]
  PROVE  IsSequence(x) /\ Len(x) = n
<1>1. x \in [1..n -> Range(x)]
  BY DEF Range
<1>2. x \in Seq(Range(x))
  BY <1>1, SeqDef, Zenon
<1>3. Len(x) \in Nat /\ DOMAIN x = 1..Len(x)
  BY <1>2, LenProperties
<1> QED
  BY <1>2, <1>3 DEF IsSequence

\* A sequence over some set is a sequence over its own range.
LEMMA SequenceIn ==
  ASSUME NEW S, NEW x \in Seq(S)
  PROVE  IsSequence(x)
<1>1. Len(x) \in Nat /\ x \in [1..Len(x) -> S]
  BY LenProperties
<1>2. DOMAIN x = 1..Len(x) /\ x = [i \in 1..Len(x) |-> x[i]]
  BY <1>1
<1> QED
  BY <1>1, <1>2, SequenceOf

\* The elements of a sequence are those at its indices.
LEMMA InRange ==
  ASSUME NEW x, IsSequence(x), NEW e
  PROVE  e \in Range(x) <=> \E i \in 1..Len(x) : e = x[i]
BY SequenceParts DEF Range

\* Concatenation: length, elements and range.
LEMMA ConcatParts ==
  ASSUME NEW x, NEW y, IsSequence(x), IsSequence(y)
  PROVE  /\ IsSequence(x \o y)
         /\ Len(x \o y) = Len(x) + Len(y)
         /\ \A i \in 1..Len(x) : (x \o y)[i] = x[i]
         /\ \A i \in 1..Len(y) : (x \o y)[Len(x) + i] = y[i]
         /\ \A i \in 1..Len(x \o y) : \/ i \in 1..Len(x) /\ (x \o y)[i] = x[i]
                                      \/ i - Len(x) \in 1..Len(y) /\ (x \o y)[i] = y[i - Len(x)]
         /\ Range(x \o y) = Range(x) \union Range(y)
<1> DEFINE S == Range(x) \union Range(y)
<1>1. x \in Seq(S) /\ y \in Seq(S)
  BY SeqMonotonic, Zenon DEF IsSequence
<1>2. Len(x) \in Nat /\ Len(y) \in Nat
  BY SequenceParts
<1> HIDE DEF S
<1>3. /\ x \o y \in Seq(S)
      /\ Len(x \o y) = Len(x) + Len(y)
      /\ \A i \in 1..Len(x) + Len(y) : (x \o y)[i] = IF i <= Len(x) THEN x[i] ELSE y[i - Len(x)]
  BY <1>1, ConcatProperties
<1>4. DOMAIN (x \o y) = 1..Len(x) + Len(y)
  BY <1>3, LenProperties
<1>6. IsSequence(x \o y)
  BY <1>3, SequenceIn
<1>7. \A i \in 1..Len(x) : (x \o y)[i] = x[i]
  BY <1>2, <1>3
<1>8. \A i \in 1..Len(y) : (x \o y)[Len(x) + i] = y[i]
  BY <1>2, <1>3
<1>9. \A i \in 1..Len(x \o y) : \/ i \in 1..Len(x) /\ (x \o y)[i] = x[i]
                                \/ i - Len(x) \in 1..Len(y) /\ (x \o y)[i] = y[i - Len(x)]
  BY <1>2, <1>3
<1>10. ASSUME NEW e \in Range(x \o y) PROVE e \in Range(x) \union Range(y)
  <2>1. PICK i \in 1..Len(x \o y) : e = (x \o y)[i]
    BY <1>6, InRange
  <2> QED
    BY <1>9, <2>1, InRange
<1>11. ASSUME NEW e \in Range(x) PROVE e \in Range(x \o y)
  <2>1. PICK i \in 1..Len(x) : e = x[i]
    BY InRange
  <2>2. i \in 1..Len(x \o y) /\ (x \o y)[i] = e
    BY <1>2, <1>3, <1>7, <2>1
  <2> QED
    BY <1>6, <2>2, InRange
<1>12. ASSUME NEW e \in Range(y) PROVE e \in Range(x \o y)
  <2>1. PICK i \in 1..Len(y) : e = y[i]
    BY InRange
  <2>2. Len(x) + i \in 1..Len(x \o y) /\ (x \o y)[Len(x) + i] = e
    BY <1>2, <1>3, <1>8, <2>1
  <2> QED
    BY <1>6, <2>2, InRange
<1> QED
  BY <1>3, <1>6, <1>7, <1>8, <1>9, <1>10, <1>11, <1>12

\* The empty sequence.
LEMMA EmptyParts == IsSequence(<<>>) /\ Len(<<>>) = 0 /\ Range(<<>>) = {}
<1>1. DOMAIN <<>> = {} /\ Range(<<>>) = {}
  BY DEF Range
<1> QED
  BY <1>1 DEF IsSequence

\* A sequence of one element.
LEMMA OneParts ==
  ASSUME NEW a
  PROVE  IsSequence(<<a>>) /\ Len(<<a>>) = 1 /\ Range(<<a>>) = {a} /\ <<a>>[1] = a /\ <<a>> # <<>>
<1>1. DOMAIN <<a>> = 1..1 /\ <<a>>[1] = a
  OBVIOUS
<1>2. Range(<<a>>) = {a}
  BY <1>1 DEF Range
<1>3. <<a>> \in Seq({a})
  OBVIOUS
<1> QED
  BY <1>1, <1>2, <1>3 DEF IsSequence

\* A sequence of two elements.
LEMMA TwoParts ==
  ASSUME NEW a, NEW b
  PROVE  /\ IsSequence(<<a, b>>) /\ Len(<<a, b>>) = 2 /\ <<a, b>>[1] = a /\ <<a, b>>[2] = b
         /\ Range(<<a, b>>) = {a, b}
<1>1. DOMAIN <<a, b>> = 1..2 /\ <<a, b>>[1] = a /\ <<a, b>>[2] = b
  OBVIOUS
<1>2. Range(<<a, b>>) = {a, b}
  BY <1>1 DEF Range
<1>3. <<a, b>> \in Seq({a, b})
  OBVIOUS
<1> QED
  BY <1>1, <1>2, <1>3 DEF IsSequence

\* Taking the first element off keeps a sequence, of the same elements or fewer.
LEMMA HeadTailParts ==
  ASSUME NEW x, IsSequence(x), x # <<>>
  PROVE  Head(x) \in Range(x) /\ IsSequence(Tail(x)) /\ Range(Tail(x)) \subseteq Range(x)
<1>0. x \in Seq(Range(x)) /\ Len(x) \in Nat
  BY SequenceParts DEF IsSequence
<1>1. Head(x) \in Range(x)
  BY <1>0, HeadTailProperties
<1>2. /\ Tail(x) \in Seq(Range(x)) /\ Len(Tail(x)) = Len(x) - 1 /\ Len(x) - 1 \in Nat
      /\ \A i \in 1..Len(Tail(x)) : Tail(x)[i] = x[i + 1]
  BY <1>0, HeadTailProperties, EmptySeq
<1>4. IsSequence(Tail(x))
  BY <1>2, SequenceIn
<1>5. ASSUME NEW e \in Range(Tail(x)) PROVE e \in Range(x)
  <2>1. PICK i \in 1..Len(Tail(x)) : e = Tail(x)[i]
    BY <1>4, InRange
  <2>2. i + 1 \in 1..Len(x) /\ x[i + 1] = e
    BY <1>0, <1>2, <2>1
  <2> QED
    BY <2>2, InRange
<1> QED
  BY <1>1, <1>4, <1>5

\* Replacing the first element brings in no other element.
LEMMA FirstReplaced ==
  ASSUME NEW x, IsSequence(x), NEW d
  PROVE  IsSequence([x EXCEPT ![1] = d]) /\ Range([x EXCEPT ![1] = d]) \subseteq Range(x) \union {d}
<1> DEFINE y == [x EXCEPT ![1] = d]
<1>1. Len(x) \in Nat /\ DOMAIN x = 1..Len(x)
  BY SequenceParts
<1>2. DOMAIN y = 1..Len(x) /\ y = [i \in 1..Len(x) |-> y[i]] /\ \A i \in 1..Len(x) : y[i] = IF i = 1 THEN d ELSE x[i]
  BY <1>1
<1> HIDE DEF y
<1>3. IsSequence(y) /\ Len(y) = Len(x)
  BY <1>1, <1>2, SequenceOf
<1>4. Range(y) \subseteq Range(x) \union {d}
  BY <1>2, <1>3, InRange
<1> QED
  BY <1>3, <1>4 DEF y
----------------------------------------------------------------------------
(* The record layer.                                                        *)

\* t is s as far as the handshake is concerned.
Keeps(s, t) ==
    /\ t.pc = s.pc /\ t.vers = s.vers /\ t.gm = s.gm /\ t.ch = s.ch /\ t.sh = s.sh
    /\ t.suite = s.suite /\ t.master = s.master /\ t.session = s.session
    /\ t.isResume = s.isResume /\ t.peer = s.peer /\ t.proto = s.proto /\ t.in = s.in

\* t has written at most the messages of M.
Writes(s, t, M) == \A r \in Stream(t) : r \in Stream(s) \/ r.msg \in M

IsMessages(ms, typ) ==
    /\ IsSequence(ms)
    /\ \A m \in Range(ms) : "typ" \in DOMAIN m /\ (typ = "alert" => m.level \in {"warning", "fatal"})

\* What Conn writes for some messages: well-formed records that carry them.
LEMMA EncryptParts ==
  ASSUME NEW hc, NEW typ \in {"hs", "ccs", "alert"}, NEW vers, NEW ms, IsMessages(ms, typ)
  PROVE  /\ IsSequence(encrypt(hc, typ, vers, ms))
         /\ \A r \in Range(encrypt(hc, typ, vers, ms)) : IsRecord(r) /\ r.msg \in Range(ms)
         /\ ms # <<>> => encrypt(hc, typ, vers, ms) # <<>>
<1> DEFINE rs == encrypt(hc, typ, vers, ms)
<1>1. Len(ms) \in Nat /\ DOMAIN ms = 1..Len(ms) /\ \A i \in 1..Len(ms) : ms[i] \in Range(ms)
  BY SequenceParts DEF IsMessages
<1>2. /\ DOMAIN rs = 1..Len(ms) /\ rs = [i \in 1..Len(ms) |-> rs[i]]
      /\ \A i \in 1..Len(ms) : rs[i] = [typ |-> typ, vers |-> vers, key |-> hc.cipher,
                                        seq |-> hc.seq + i - 1, msg |-> ms[i]]
  BY DEF encrypt
<1> HIDE DEF rs
<1>3. IsSequence(rs) /\ Len(rs) = Len(ms)
  BY <1>1, <1>2, SequenceOf
<1>4. ASSUME NEW r \in Range(rs) PROVE IsRecord(r) /\ r.msg \in Range(ms)
  <2>1. PICK i \in 1..Len(ms) : r = rs[i]
    BY <1>3, InRange
  <2>2. r = [typ |-> typ, vers |-> vers, key |-> hc.cipher, seq |-> hc.seq + i - 1, msg |-> ms[i]]
    BY <1>2, <2>1
  <2>3. DOMAIN r = {"typ", "vers", "key", "seq", "msg"} /\ r.typ = typ /\ r.msg = ms[i]
    BY <2>2
  <2> QED
    BY <1>1, <2>3 DEF IsRecord, IsMessages
<1>5. ms # <<>> => rs # <<>>
  <2>1. CASE Len(ms) = 0
    <3>1. ms = <<>>
      BY <2>1, EmptySeq DEF IsMessages, IsSequence
    <3> QED
      BY <3>1
  <2>2. CASE Len(ms) # 0
    BY <1>3, <2>2, EmptyParts
  <2> QED
    BY <2>1, <2>2
<1> QED
  BY <1>3, <1>4, <1>5 DEF rs

\* What write does with records.
LEMMA WriteParts ==
  ASSUME NEW s, IsEnd(s), NEW rs, IsSequence(rs), \A r \in Range(rs) : IsRecord(r)
  PROVE  /\ IsEnd(write(s, rs)) /\ Keeps(s, write(s, rs))
         /\ write(s, rs).out = s.out /\ write(s, rs).hash = s.hash /\ write(s, rs).buffering = s.buffering
         /\ \A r \in Stream(write(s, rs)) : r \in Stream(s) \/ r \in Range(rs)
         /\ s.buffering = TRUE /\ rs # <<>> => write(s, rs).sendBuf # <<>>
         /\ s.buffering = FALSE => write(s, rs).sendBuf = s.sendBuf
<1>0. /\ DOMAIN s = EndFields /\ IsSequence(s.net) /\ IsSequence(s.sendBuf) /\ s.buffering \in BOOLEAN
      /\ IsHalf(s.in) /\ IsHalf(s.out) /\ IsHash(s.hash) /\ s.isResume \in BOOLEAN /\ s.stage \in Nat
      /\ \A r \in Range(s.net) \union Range(s.sendBuf) : IsRecord(r)
  BY DEF IsEnd, Stream
<1>1. CASE s.buffering = TRUE
  <2> DEFINE t == [s EXCEPT !.sendBuf = @ \o rs]
  <2>1. write(s, rs) = t
    BY <1>1 DEF write
  <2>2. /\ DOMAIN t = EndFields /\ t.net = s.net /\ t.sendBuf = s.sendBuf \o rs /\ Keeps(s, t) /\ t.stage = s.stage
        /\ t.out = s.out /\ t.hash = s.hash /\ t.buffering = s.buffering
    BY <1>0 DEF EndFields, Keeps
  <2> HIDE DEF t
  <2>3. IsSequence(t.sendBuf) /\ Range(t.sendBuf) = Range(s.sendBuf) \union Range(rs) /\ Len(t.sendBuf) = Len(s.sendBuf) + Len(rs)
    BY <1>0, <2>2, ConcatParts
  <2>4. \A r \in Stream(t) : r \in Stream(s) \/ r \in Range(rs)
    BY <2>2, <2>3 DEF Stream
  <2>5. \A r \in Stream(t) : IsRecord(r)
    BY <1>0, <2>4 DEF Stream
  <2>6. IsEnd(t)
    BY <1>0, <2>2, <2>3, <2>5 DEF IsEnd, Keeps
  <2>7. rs # <<>> => t.sendBuf # <<>>
    <3>1. Len(rs) \in Nat /\ Len(s.sendBuf) \in Nat
      BY <1>0, SequenceParts
    <3>2. rs # <<>> => Len(rs) # 0
      BY EmptySeq DEF IsSequence
    <3>3. rs # <<>> => Len(t.sendBuf) # 0
      BY <2>3, <3>1, <3>2
    <3> QED
      BY <3>3, EmptyParts
  <2> QED
    BY <1>1, <2>1, <2>2, <2>4, <2>6, <2>7
<1>2. CASE s.buffering = FALSE
  <2> DEFINE t == [s EXCEPT !.net = @ \o rs]
  <2>1. write(s, rs) = t
    BY <1>2 DEF write
  <2>2. /\ DOMAIN t = EndFields /\ t.sendBuf = s.sendBuf /\ t.net = s.net \o rs /\ Keeps(s, t) /\ t.stage = s.stage
        /\ t.out = s.out /\ t.hash = s.hash /\ t.buffering = s.buffering
    BY <1>0 DEF EndFields, Keeps
  <2> HIDE DEF t
  <2>3. IsSequence(t.net) /\ Range(t.net) = Range(s.net) \union Range(rs)
    BY <1>0, <2>2, ConcatParts
  <2>4. \A r \in Stream(t) : r \in Stream(s) \/ r \in Range(rs)
    BY <2>2, <2>3 DEF Stream
  <2>5. \A r \in Stream(t) : IsRecord(r)
    BY <1>0, <2>4 DEF Stream
  <2>6. IsEnd(t)
    BY <1>0, <2>2, <2>3, <2>5 DEF IsEnd, Keeps
  <2> QED
    BY <1>2, <2>1, <2>2, <2>4, <2>6
<1> QED
  BY <1>0, <1>1, <1>2

\* What writeRecords does: everything but the outgoing half, the buffer and the
\* stream stays.
LEMMA WriteRecordsParts ==
  ASSUME NEW s, IsEnd(s), NEW typ \in {"hs", "ccs", "alert"}, NEW ms, IsMessages(ms, typ)
  PROVE  LET t == writeRecords(s, typ, ms) IN
         /\ IsEnd(t) /\ Keeps(s, t) /\ t.hash = s.hash /\ t.buffering = s.buffering
         /\ Writes(s, t, Range(ms))
         /\ typ # "ccs" => t.out.cipher = s.out.cipher /\ t.out.nextCipher = s.out.nextCipher
         /\ typ = "ccs" => t.out.cipher = s.out.nextCipher
         /\ s.buffering = TRUE /\ ms # <<>> => t.sendBuf # <<>>
         /\ s.buffering = FALSE => t.sendBuf = s.sendBuf
<1> DEFINE vers == IF s.vers = 0 THEN VersionTLS10 ELSE s.vers
           rs == encrypt(s.out, typ, vers, ms)
           u == [s EXCEPT !.out.seq = @ + Len(ms)]
           w == write(u, rs)
           t == IF typ = "ccs" THEN [w EXCEPT !.out = changeCipherSpec(s.out)] ELSE w
<1>0. DOMAIN s = EndFields /\ IsHalf(s.out)
  BY DEF IsEnd
<1>1. /\ DOMAIN u = EndFields /\ Keeps(s, u) /\ u.stage = s.stage /\ u.hash = s.hash /\ u.buffering = s.buffering
      /\ u.net = s.net /\ u.sendBuf = s.sendBuf /\ IsHalf(u.out)
      /\ u.out.cipher = s.out.cipher /\ u.out.nextCipher = s.out.nextCipher
  BY <1>0 DEF EndFields, Keeps, IsHalf
<1>2. writeRecords(s, typ, ms) = t
  BY DEF writeRecords
<1> HIDE DEF vers, u
<1>3. Stream(u) = Stream(s)
  BY <1>1 DEF Stream
<1>4. IsEnd(u)
  BY <1>1, <1>3 DEF IsEnd, Keeps
<1>5. IsSequence(rs) /\ (\A r \in Range(rs) : IsRecord(r) /\ r.msg \in Range(ms)) /\ (ms # <<>> => rs # <<>>)
  BY EncryptParts
<1> HIDE DEF rs
<1>6. /\ IsEnd(w) /\ Keeps(u, w) /\ w.out = u.out /\ w.hash = u.hash /\ w.buffering = u.buffering
      /\ \A r \in Stream(w) : r \in Stream(u) \/ r \in Range(rs)
      /\ u.buffering = TRUE /\ rs # <<>> => w.sendBuf # <<>>
      /\ u.buffering = FALSE => w.sendBuf = u.sendBuf
  BY <1>4, <1>5, WriteParts
<1> HIDE DEF w
<1>7. Writes(s, w, Range(ms)) /\ Keeps(s, w)
  BY <1>1, <1>3, <1>5, <1>6 DEF Writes, Keeps
<1>8. CASE typ # "ccs"
  <2>1. t = w
    BY <1>8
  <2> QED
    BY <1>1, <1>2, <1>5, <1>6, <1>7, <1>8, <2>1
<1>9. CASE typ = "ccs"
  <2>0. t = [w EXCEPT !.out = changeCipherSpec(s.out)] /\ DOMAIN w = EndFields
    BY <1>6, <1>9 DEF IsEnd
  <2>1. /\ DOMAIN t = EndFields /\ Keeps(w, t) /\ t.stage = w.stage /\ t.hash = w.hash /\ t.buffering = w.buffering
        /\ t.net = w.net /\ t.sendBuf = w.sendBuf /\ t.out = changeCipherSpec(s.out)
    BY <2>0 DEF EndFields, Keeps
  <2> HIDE DEF t
  <2>2. IsHalf(t.out) /\ t.out.cipher = s.out.nextCipher
    BY <2>1 DEF changeCipherSpec, IsHalf
  <2>3. Stream(t) = Stream(w)
    BY <2>1 DEF Stream
  <2>4. IsEnd(t)
    BY <1>6, <2>1, <2>2, <2>3 DEF IsEnd, Keeps
  <2>5. Writes(s, t, Range(ms)) /\ Keeps(s, t)
    BY <1>7, <2>1, <2>3 DEF Writes, Keeps
  <2> QED
    BY <1>1, <1>2, <1>5, <1>6, <1>9, <2>1, <2>2, <2>4, <2>5
<1> QED
  BY <1>8, <1>9

\* What flush does: the buffer is empty, and off if there was anything in it.
LEMMA FlushParts ==
  ASSUME NEW s, IsEnd(s)
  PROVE  LET t == flush(s) IN
         /\ IsEnd(t) /\ Keeps(s, t) /\ t.out = s.out /\ t.hash = s.hash
         /\ Writes(s, t, {})
         /\ t.sendBuf = <<>>
         /\ s.buffering = FALSE \/ s.sendBuf # <<>> => t.buffering = FALSE
<1>0. /\ DOMAIN s = EndFields /\ IsSequence(s.net) /\ IsSequence(s.sendBuf) /\ s.buffering \in BOOLEAN
      /\ IsHalf(s.in) /\ IsHalf(s.out) /\ IsHash(s.hash) /\ s.isResume \in BOOLEAN /\ s.stage \in Nat
      /\ \A r \in Range(s.net) \union Range(s.sendBuf) : IsRecord(r)
  BY DEF IsEnd, Stream
<1>1. CASE s.sendBuf = <<>>
  <2>1. flush(s) = s
    BY <1>1 DEF flush
  <2> QED
    BY <1>0, <1>1, <2>1 DEF Keeps, Writes
<1>2. CASE s.sendBuf # <<>>
  <2> DEFINE t == [s EXCEPT !.net = @ \o s.sendBuf, !.sendBuf = <<>>, !.buffering = FALSE]
  <2>1. flush(s) = t
    BY <1>2 DEF flush
  <2>2. /\ DOMAIN t = EndFields /\ t.sendBuf = <<>> /\ t.net = s.net \o s.sendBuf /\ Keeps(s, t) /\ t.stage = s.stage
        /\ t.out = s.out /\ t.hash = s.hash /\ t.buffering = FALSE
    BY <1>0 DEF EndFields, Keeps
  <2> HIDE DEF t
  <2>3. IsSequence(t.net) /\ Range(t.net) = Range(s.net) \union Range(s.sendBuf)
    BY <1>0, <2>2, ConcatParts
  <2>4. IsSequence(t.sendBuf) /\ Range(t.sendBuf) = {}
    BY <2>2, EmptyParts
  <2>5. Stream(t) = Stream(s)
    BY <2>3, <2>4 DEF Stream
  <2>6. IsEnd(t)
    BY <1>0, <2>2, <2>3, <2>4, <2>5 DEF IsEnd, Keeps, Stream
  <2> QED
    BY <2>1, <2>2, <2>5, <2>6 DEF Writes
<1> QED
  BY <1>1, <1>2

\* Fields of the handshake that a failed step keeps, too.
KeepsChoice(s, t) ==
    /\ t.vers = s.vers /\ t.gm = s.gm /\ t.ch = s.ch /\ t.sh = s.sh /\ t.suite = s.suite
    /\ t.master = s.master /\ t.isResume = s.isResume /\ t.proto = s.proto
    /\ t.out.cipher = s.out.cipher

\* A failed step: nothing of what was chosen changes, an alert is all that is
\* written, nothing stays in the buffer.
LEMMA AbortParts ==
  ASSUME NEW s, IsEnd(s), NEW alert
  PROVE  LET t == abort(s, alert) IN
         /\ IsEnd(t) /\ Flushed(t) /\ t.pc = "failed" /\ KeepsChoice(s, t)
         /\ \A r \in Stream(t) : r \in Stream(s) \/ r.msg.typ = "alert"
         /\ s.buffering = FALSE => t.buffering = FALSE
<1> DEFINE m == [typ |-> "alert", level |-> IF alert = "no_renegotiation" THEN "warning" ELSE "fatal", desc |-> alert]
           u == IF alert \in {"remote", "eof"} THEN s ELSE sendAlert(s, alert)
           f == flush(u)
           t == [f EXCEPT !.pc = "failed"]
<1>1. /\ IsEnd(u) /\ Keeps(s, u) /\ u.out.cipher = s.out.cipher /\ u.buffering = s.buffering
      /\ \A r \in Stream(u) : r \in Stream(s) \/ r.msg.typ = "alert"
  <2>1. CASE alert \in {"remote", "eof"}
    BY <2>1 DEF Keeps
  <2>2. CASE alert \notin {"remote", "eof"}
    <3>1. m.typ = "alert" /\ "typ" \in DOMAIN m /\ m.level \in {"warning", "fatal"}
      OBVIOUS
    <3>2. u = writeRecords(s, "alert", <<m>>)
      BY <2>2 DEF sendAlert
    <3> HIDE DEF m
    <3>3. IsMessages(<<m>>, "alert") /\ Range(<<m>>) = {m}
      BY <3>1, OneParts DEF IsMessages
    <3> HIDE DEF u
    <3>4. /\ IsEnd(u) /\ Keeps(s, u) /\ u.out.cipher = s.out.cipher /\ u.buffering = s.buffering
          /\ Writes(s, u, Range(<<m>>))
      BY <3>2, <3>3, WriteRecordsParts
    <3> QED
      BY <3>1, <3>3, <3>4 DEF Writes
  <2> QED
    BY <2>1, <2>2
<1>2. abort(s, alert) = t
  <2>1. Then(u, flush) = f
    BY ThenIs
  <2> QED
    BY <2>1 DEF abort
<1> HIDE DEF u
<1>3. /\ IsEnd(f) /\ Keeps(u, f) /\ f.out = u.out /\ f.sendBuf = <<>> /\ Writes(u, f, {})
      /\ u.buffering = FALSE => f.buffering = FALSE
  BY <1>1, FlushParts
<1> HIDE DEF f
<1>4. DOMAIN f = EndFields
  BY <1>3 DEF IsEnd
<1>5. /\ DOMAIN t = EndFields /\ t.pc = "failed" /\ t.sendBuf = f.sendBuf /\ t.net = f.net /\ t.in = f.in /\ t.out = f.out
      /\ t.hash = f.hash /\ t.buffering = f.buffering /\ t.stage = f.stage
      /\ t.vers = f.vers /\ t.gm = f.gm /\ t.ch = f.ch /\ t.sh = f.sh /\ t.suite = f.suite
      /\ t.master = f.master /\ t.isResume = f.isResume /\ t.proto = f.proto
  BY <1>4 DEF EndFields
<1> HIDE DEF t
<1>6. Stream(t) = Stream(f)
  BY <1>5 DEF Stream
<1>7. IsEnd(t)
  BY <1>3, <1>5, <1>6 DEF IsEnd
<1>8. Flushed(t) /\ KeepsChoice(s, t)
  BY <1>1, <1>3, <1>5 DEF Flushed, KeepsChoice, Keeps
<1>9. \A r \in Stream(t) : r \in Stream(s) \/ r.msg.typ = "alert"
  BY <1>1, <1>3, <1>6 DEF Writes
<1> QED
  BY <1>1, <1>2, <1>3, <1>5, <1>7, <1>8, <1>9

\* A panic changes nothing else.
LEMMA PanicParts ==
  ASSUME NEW s, IsEnd(s)
  PROVE  LET t == panic(s) IN
         IsEnd(t) /\ Flushed(t) /\ t.pc = "panic" /\ KeepsChoice(s, t) /\ Stream(t) = Stream(s)
<1> DEFINE t == [s EXCEPT !.pc = "panic"]
<1>1. DOMAIN s = EndFields
  BY DEF IsEnd
<1>2. /\ DOMAIN t = EndFields /\ t.pc = "panic" /\ t.sendBuf = s.sendBuf /\ t.net = s.net /\ t.in = s.in /\ t.out = s.out
      /\ t.hash = s.hash /\ t.buffering = s.buffering /\ t.stage = s.stage
      /\ t.vers = s.vers /\ t.gm = s.gm /\ t.ch = s.ch /\ t.sh = s.sh /\ t.suite = s.suite
      /\ t.master = s.master /\ t.isResume = s.isResume /\ t.proto = s.proto
  BY <1>1 DEF EndFields
<1>3. panic(s) = t
  BY DEF panic
<1> HIDE DEF t
<1>4. Stream(t) = Stream(s)
  BY <1>2 DEF Stream
<1> QED
  BY <1>2, <1>3, <1>4 DEF IsEnd, Flushed, KeepsChoice

----------------------------------------------------------------------------
(* Transcripts and messages.                                                *)

\* An end whose record layer is that of s.
LEMMA EndFrom ==
  ASSUME NEW s, IsEnd(s), NEW t, DOMAIN t = EndFields, t.net = s.net, t.sendBuf = s.sendBuf,
         IsHalf(t.in), IsHalf(t.out), IsHash(t.hash),
         t.buffering \in BOOLEAN, t.isResume \in BOOLEAN, t.stage \in Nat
  PROVE  IsEnd(t) /\ Stream(t) = Stream(s)
<1>1. Stream(t) = Stream(s)
  BY DEF Stream
<1> QED
  BY <1>1 DEF IsEnd

\* The transcript grows by the messages written into it.
LEMMA HashParts ==
  ASSUME NEW h, IsHash(h), NEW ms, IsSequence(ms)
  PROVE  IsHash(hashWrite(h, ms)) /\ hashWrite(h, ms).sum = h.sum \o ms
<1> DEFINE g == [h EXCEPT !.sum = @ \o ms]
<1>1. DOMAIN g = {"version", "prf", "md5", "sum"} /\ g.sum = h.sum \o ms
  BY DEF IsHash
<1>2. IsSequence(h.sum \o ms)
  BY ConcatParts DEF IsHash
<1> QED
  BY <1>1, <1>2 DEF hashWrite, IsHash

\* A new hash is empty.
LEMMA NewHash ==
  ASSUME NEW vers, NEW h \in {newFinishedHash(vers), newFinishedHashGM}
  PROVE  IsHash(h) /\ h.sum = <<>>
<1>1. DOMAIN h = {"version", "prf", "md5", "sum"} /\ h.sum = <<>>
  <2>1. CASE vers = VersionGMSSL
    BY <2>1 DEF newFinishedHash, newFinishedHashGM, VersionGMSSL, VersionTLS12
  <2>2. CASE vers = VersionTLS12
    BY <2>2 DEF newFinishedHash, newFinishedHashGM, VersionGMSSL, VersionTLS12
  <2>3. CASE vers # VersionGMSSL /\ vers # VersionTLS12
    BY <2>3 DEF newFinishedHash, newFinishedHashGM
  <2> QED
    BY <2>1, <2>2, <2>3
<1> QED
  BY <1>1, EmptyParts DEF IsHash

\* A new hash with the two hellos in it.
LEMMA HelloHash ==
  ASSUME NEW vers, NEW a, NEW b, NEW h \in {newFinishedHash(vers), newFinishedHashGM}
  PROVE  LET g == hashWrite(h, <<a, b>>) IN
         IsHash(g) /\ Len(g.sum) = 2 /\ g.sum[1] = a /\ g.sum[2] = b
<1>1. IsHash(h) /\ h.sum = <<>>
  BY NewHash
<1>2. IsHash(hashWrite(h, <<a, b>>)) /\ hashWrite(h, <<a, b>>).sum = <<>> \o <<a, b>>
  <2> DEFINE ms == <<a, b>>
  <2>1. IsSequence(ms)
    BY TwoParts
  <2> HIDE DEF ms
  <2>2. IsHash(hashWrite(h, ms)) /\ hashWrite(h, ms).sum = h.sum \o ms
    BY <1>1, <2>1, HashParts
  <2>3. IsHash(hashWrite(h, ms)) /\ hashWrite(h, ms).sum = <<>> \o ms
    BY <1>1, <2>2
  <2> QED
    BY <2>3 DEF ms
<1>3. <<>> \o <<a, b>> = <<a, b>>
  BY TwoParts, ConcatEmptySeq DEF IsSequence
<1> QED
  BY <1>2, <1>3, TwoParts

\* Shape is about the transcript, the hellos and the kind of handshake.
LEMMA ShapeKept ==
  ASSUME NEW T, NEW s, NEW t, Shape(T, s), t.ch = s.ch, t.sh = s.sh, t.isResume = s.isResume
  PROVE  Shape(T, t)
BY DEF Shape

\* A transcript keeps its shape when messages are added, as long as a resumed
\* handshake adds no certificate.
LEMMA ShapeGrows ==
  ASSUME NEW T, IsSequence(T), NEW ms, IsSequence(ms), NEW s, Shape(T, s), s.isResume \in BOOLEAN,
         s.isResume = TRUE => \A m \in Range(ms) : m.typ # "certificate"
  PROVE  Shape(T \o ms, s)
<1> DEFINE U == T \o ms
<1>1. Len(T) \in Nat /\ Len(ms) \in Nat
  BY SequenceParts
<1>2. /\ Len(U) = Len(T) + Len(ms)
      /\ \A i \in 1..Len(T) : U[i] = T[i]
      /\ \A i \in 1..Len(U) : \/ i \in 1..Len(T) /\ U[i] = T[i]
                              \/ i - Len(T) \in 1..Len(ms) /\ U[i] = ms[i - Len(T)]
  BY ConcatParts
<1> HIDE DEF U
<1>3. Len(U) >= 2 /\ U[1] = s.ch /\ U[2] = s.sh
  BY <1>1, <1>2 DEF Shape
<1>4. CASE s.isResume = FALSE
  <2>1. Len(T) >= 3 /\ T[3].typ = "certificate"
    BY <1>4 DEF Shape
  <2>2. Len(U) >= 3 /\ U[3].typ = "certificate"
    BY <1>1, <1>2, <2>1
  <2> QED
    BY <1>3, <1>4, <2>2 DEF Shape, U
<1>5. CASE s.isResume = TRUE
  <2>1. ~(Len(T) >= 3 /\ T[3].typ = "certificate")
    BY <1>5 DEF Shape
  <2>2. ASSUME Len(U) >= 3, U[3].typ = "certificate" PROVE FALSE
    <3>1. 3 \in 1..Len(U)
      BY <1>1, <1>2, <2>2
    <3>2. CASE 3 \in 1..Len(T) /\ U[3] = T[3]
      BY <1>1, <2>1, <2>2, <3>2
    <3>3. CASE 3 - Len(T) \in 1..Len(ms) /\ U[3] = ms[3 - Len(T)]
      <4>1. U[3] \in Range(ms)
        BY <3>3, InRange
      <4> QED
        BY <1>5, <2>2, <4>1
    <3> QED
      BY <1>2, <3>1, <3>2, <3>3
  <2> QED
    BY <1>3, <1>5, <2>2 DEF Shape, U
<1> QED
  BY <1>4, <1>5

\* What is known of the tickets in a transcript holds for the longer one, if it
\* holds for the messages added.
LEMMA TicketsGrow ==
  ASSUME NEW T, IsSequence(T), NEW ms, IsSequence(ms), NEW s
  PROVE  /\ NoTickets(T) /\ (\A m \in Range(ms) : m.typ # "newSessionTicket") => NoTickets(T \o ms)
         /\ Tickets(T, s) /\ (\A m \in Range(ms) : m.typ = "newSessionTicket" => TicketFor(m.ticket, s))
              => Tickets(T \o ms, s)
<1> DEFINE U == T \o ms
<1>1. \A i \in 1..Len(U) : \/ i \in 1..Len(T) /\ U[i] = T[i]
                           \/ i - Len(T) \in 1..Len(ms) /\ U[i] = ms[i - Len(T)]
  BY ConcatParts
<1> HIDE DEF U
<1>2. \A i \in 1..Len(U) : (i \in 1..Len(T) /\ U[i] = T[i]) \/ U[i] \in Range(ms)
  BY <1>1, InRange
<1>3. NoTickets(T) /\ (\A m \in Range(ms) : m.typ # "newSessionTicket") => NoTickets(U)
  BY <1>2 DEF NoTickets
<1>4. Tickets(T, s) /\ (\A m \in Range(ms) : m.typ = "newSessionTicket" => TicketFor(m.ticket, s)) => Tickets(U, s)
  BY <1>2 DEF Tickets
<1> QED
  BY <1>3, <1>4 DEF U

\* Messages written to the connection and to the transcript.
LEMMA SendMessagesParts ==
  ASSUME NEW s, IsEnd(s), NEW ms, IsMessages(ms, "hs")
  PROVE  LET t == sendMessages(s, ms) IN
         /\ IsEnd(t) /\ Keeps(s, t) /\ t.hash = hashWrite(s.hash, ms) /\ t.hash.sum = s.hash.sum \o ms
         /\ t.buffering = s.buffering
         /\ Writes(s, t, Range(ms))
         /\ t.out.cipher = s.out.cipher /\ t.out.nextCipher = s.out.nextCipher
         /\ s.buffering = TRUE /\ ms # <<>> => t.sendBuf # <<>>
         /\ s.buffering = FALSE => t.sendBuf = s.sendBuf
<1> DEFINE w == writeRecords(s, "hs", ms)
           h == hashWrite(s.hash, ms)
           t == [w EXCEPT !.hash = h]
<1>1. /\ IsEnd(w) /\ Keeps(s, w) /\ w.hash = s.hash /\ w.buffering = s.buffering
      /\ Writes(s, w, Range(ms))
      /\ w.out.cipher = s.out.cipher /\ w.out.nextCipher = s.out.nextCipher
      /\ s.buffering = TRUE /\ ms # <<>> => w.sendBuf # <<>>
      /\ s.buffering = FALSE => w.sendBuf = s.sendBuf
  BY WriteRecordsParts
<1>2. sendMessages(s, ms) = t
  BY DEF sendMessages
<1>3. IsHash(h) /\ h.sum = s.hash.sum \o ms
  BY HashParts DEF IsEnd, IsMessages
<1> HIDE DEF w, h
<1>4. DOMAIN w = EndFields
  BY <1>1 DEF IsEnd
<1>5. /\ DOMAIN t = EndFields /\ Keeps(w, t) /\ t.stage = w.stage /\ t.hash = h /\ t.buffering = w.buffering
      /\ t.net = w.net /\ t.sendBuf = w.sendBuf /\ t.out = w.out
  BY <1>4 DEF EndFields, Keeps
<1> HIDE DEF t
<1>6. IsEnd(t) /\ Stream(t) = Stream(w)
  BY <1>1, <1>3, <1>5, EndFrom DEF IsEnd, Keeps
<1>7. Writes(s, t, Range(ms)) /\ Keeps(s, t)
  BY <1>1, <1>5, <1>6 DEF Writes, Keeps
<1> QED
  BY <1>1, <1>2, <1>3, <1>5, <1>6, <1>7 DEF h

----------------------------------------------------------------------------
(* The client's steps.  CStep is what every step of the client but the last  *)
(* one establishes.                                                          *)

CStep(c, t, cfg) ==
    /\ CInv(t, cfg) /\ t.pc # "done"
    /\ CSent(c, cfg) => CSent(t, cfg) /\ KeepsChoice(c, t)

CNoFinished(c) == \A r \in Stream(c) : r.msg.typ # "finished"

\* A client that has sent its Finished still has, after a step that keeps what was
\* chosen.
LEMMA CSentKept ==
  ASSUME NEW c, NEW t, NEW cfg, CSent(c, cfg), KeepsChoice(c, t),
         t.pc = c.pc \/ t.pc = "failed" \/ (c.isResume = FALSE /\ t.pc \in {"ccs", "finished", "done", "panic"})
  PROVE  CSent(t, cfg)
<1>1. CGreeted(t, cfg) /\ CChosen(t, cfg) /\ Bound(t)
  BY DEF CSent, KeepsChoice, CGreeted, CChosen, Bound
<1>2. t.out.cipher = KeyOf("c", t)
  BY DEF CSent, KeepsChoice, KeyOf, cr, sr
<1> QED
  BY <1>1, <1>2 DEF CSent, KeepsChoice

\* Before the client has sent its Finished there is none in its stream.
LEMMA CNotYet ==
  ASSUME NEW c, NEW cfg, CInv(c, cfg),
         \/ c.pc \in {"idle", "serverHello", "certificate", "flight"}
         \/ c.isResume = TRUE /\ c.pc \in {"ticket", "ccs", "finished"}
  PROVE  ~CSent(c, cfg) /\ CNoFinished(c)
<1>1. c.isResume \in BOOLEAN
  BY DEF CInv, IsEnd
<1>2. ~CSent(c, cfg)
  BY <1>1 DEF CSent
<1> QED
  BY <1>2 DEF CInv, CStream, CNoFinished

\* A client step that ends in an alert and writes nothing else keeps the invariant.
LEMMA CAborts ==
  ASSUME NEW c, NEW cfg, CInv(c, cfg), NEW t,
         IsEnd(t), Flushed(t), t.pc = "failed", KeepsChoice(c, t),
         \A r \in Stream(t) : r \in Stream(c) \/ r.msg.typ = "alert"
  PROVE  CStep(c, t, cfg)
<1>1. CSent(c, cfg) => CSent(t, cfg)
  BY CSentKept
<1>2. CEarly(t, cfg) /\ CLate(t) /\ CSession(t)
  BY DEF CEarly, CLate, CSession, Over, ClientPcs
<1>3. CStream(t, cfg)
  <2> SUFFICES ASSUME NEW r \in Stream(t)
               PROVE  /\ r.msg.typ = "finished" => CSent(t, cfg) /\ FinishedOf(t, r.msg.verify)
                      /\ r.msg.typ = "clientHello" => HelloOk(r.msg)
    BY DEF CStream
  <2>1. CASE r.msg.typ = "alert"
    BY <2>1
  <2>2. CASE r \in Stream(c)
    <3>1. /\ r.msg.typ = "finished" => CSent(c, cfg) /\ FinishedOf(c, r.msg.verify)
          /\ r.msg.typ = "clientHello" => HelloOk(r.msg)
      BY <2>2 DEF CInv, CStream
    <3>2. FinishedOf(c, r.msg.verify) => FinishedOf(t, r.msg.verify)
      BY DEF FinishedOf, Shape, KeepsChoice
    <3> QED
      BY <1>1, <3>1, <3>2
  <2> QED
    BY <2>1, <2>2
<1> QED
  BY <1>1, <1>2, <1>3 DEF CStep, CInv, ClientPcs, Over

\* A client may fail with any alert at any point.
LEMMA CAbort ==
  ASSUME NEW c, NEW cfg, CInv(c, cfg), NEW alert
  PROVE  CStep(c, abort(c, alert), cfg)
<1>1. IsEnd(c)
  BY DEF CInv
<1> DEFINE t == abort(c, alert)
<1>2. /\ IsEnd(t) /\ Flushed(t) /\ t.pc = "failed" /\ KeepsChoice(c, t)
      /\ \A r \in Stream(t) : r \in Stream(c) \/ r.msg.typ = "alert"
  BY <1>1, AbortParts
<1> HIDE DEF t
<1> QED
  BY <1>2, CAborts DEF t

\* The same from an intermediate state b of a step before the Finished.
LEMMA CAbortEarly ==
  ASSUME NEW c, NEW cfg, CInv(c, cfg), c.pc \in {"idle", "serverHello", "certificate", "flight"},
         NEW b, IsEnd(b), Stream(b) = Stream(c), NEW alert
  PROVE  CStep(c, abort(b, alert), cfg)
<1> DEFINE t == abort(b, alert)
<1>1. /\ IsEnd(t) /\ Flushed(t) /\ t.pc = "failed"
      /\ \A r \in Stream(t) : r \in Stream(b) \/ r.msg.typ = "alert"
  BY AbortParts
<1> HIDE DEF t
<1>2. ~CSent(c, cfg) /\ CNoFinished(c)
  BY CNotYet
<1>3. CEarly(t, cfg) /\ CLate(t) /\ CSession(t)
  BY <1>1 DEF CEarly, CLate, CSession, Over, ClientPcs
<1>4. CStream(t, cfg)
  BY <1>1, <1>2 DEF CStream, CNoFinished, CInv
<1> QED
  BY <1>1, <1>2, <1>3, <1>4 DEF CStep, CInv, ClientPcs, Over, t

\* A connection that lost what was on the way.
LEMMA CDropped ==
  ASSUME NEW t, NEW cfg, CInv(t, cfg), NEW x, IsSequence(x),
         \A r \in Range(x) : /\ IsRecord(r)
                             /\ \/ \E o \in Stream(t) : o.msg = r.msg
                                \/ r.msg.typ # "finished" /\ (r.msg.typ = "clientHello" => HelloOk(r.msg))
  PROVE  LET u == [t EXCEPT !.net = x] IN
         /\ CInv(u, cfg) /\ u.pc = t.pc /\ KeepsChoice(t, u) /\ (CSent(t, cfg) => CSent(u, cfg))
         /\ u.in = t.in /\ u.session = t.session /\ u.hash = t.hash /\ u.buffering = t.buffering
         /\ u.net = x
<1> DEFINE u == [t EXCEPT !.net = x]
<1>1. IsEnd(t) /\ DOMAIN t = EndFields
  BY DEF CInv, IsEnd
<1>2. /\ DOMAIN u = EndFields /\ u.net = x /\ u.sendBuf = t.sendBuf /\ u.buffering = t.buffering /\ Keeps(t, u)
      /\ u.out = t.out /\ u.hash = t.hash /\ u.stage = t.stage
  BY <1>1 DEF EndFields, Keeps
<1> HIDE DEF u
<1>3. \A r \in Stream(u) : r \in Stream(t) \/ r \in Range(x)
  BY <1>2 DEF Stream
<1>4. IsEnd(u)
  BY <1>1, <1>2, <1>3 DEF IsEnd, Keeps
<1>5. KeepsChoice(t, u) /\ u.pc = t.pc
  BY <1>2 DEF Keeps, KeepsChoice
<1>6. CSent(t, cfg) => CSent(u, cfg)
  BY <1>5, CSentKept
<1>7. Flushed(u) /\ CEarly(u, cfg)
  BY <1>2 DEF CInv, Flushed, CEarly, Keeps, CGreeted, CChosen
<1>8. CLate(u)
  BY <1>2 DEF CInv, CLate, Keeps, Shape, Bound, KeyOf, cr, sr
<1>9. CSession(u)
  BY <1>2 DEF CInv, CSession, Keeps, NewSession, SoundSession
<1>10. CStream(u, cfg)
  <2> SUFFICES ASSUME NEW r \in Stream(u)
               PROVE  /\ r.msg.typ = "finished" => CSent(u, cfg) /\ FinishedOf(u, r.msg.verify)
                      /\ r.msg.typ = "clientHello" => HelloOk(r.msg)
    BY DEF CStream
  <2>1. CASE r.msg.typ # "finished" /\ (r.msg.typ = "clientHello" => HelloOk(r.msg))
    BY <2>1
  <2>2. CASE \E o \in Stream(t) : o.msg = r.msg
    <3>1. PICK o \in Stream(t) : o.msg = r.msg
      BY <2>2
    <3>2. /\ o.msg.typ = "finished" => CSent(t, cfg) /\ FinishedOf(t, o.msg.verify)
          /\ o.msg.typ = "clientHello" => HelloOk(o.msg)
      BY DEF CInv, CStream
    <3>3. FinishedOf(t, r.msg.verify) => FinishedOf(u, r.msg.verify)
      BY <1>5 DEF FinishedOf, Shape, KeepsChoice
    <3> QED
      BY <1>6, <3>1, <3>2, <3>3
  <2> QED
    BY <1>3, <2>1, <2>2
<1>11. u.pc \in ClientPcs
  BY <1>5 DEF CInv
<1>12. CInv(u, cfg)
  BY <1>4, <1>7, <1>8, <1>9, <1>10, <1>11 DEF CInv
<1> QED
  BY <1>2, <1>5, <1>6, <1>12 DEF u, Keeps

\* A write that reported the broken connection.
LEMMA CBroken ==
  ASSUME NEW t, NEW cfg, CInv(t, cfg), t.pc # "panic"
  PROVE  LET u == [t EXCEPT !.net = <<>>, !.pc = "failed"] IN
         CInv(u, cfg) /\ u.pc = "failed" /\ KeepsChoice(t, u) /\ (CSent(t, cfg) => CSent(u, cfg)) /\ u.net = <<>>
<1> DEFINE u == [t EXCEPT !.net = <<>>, !.pc = "failed"]
<1>1. IsEnd(t) /\ DOMAIN t = EndFields
  BY DEF CInv, IsEnd
<1>2. /\ DOMAIN u = EndFields /\ u.net = <<>> /\ u.sendBuf = t.sendBuf /\ u.buffering = t.buffering /\ u.pc = "failed"
      /\ KeepsChoice(t, u) /\ u.in = t.in /\ u.out = t.out /\ u.hash = t.hash /\ u.stage = t.stage
  BY <1>1 DEF EndFields, KeepsChoice
<1> HIDE DEF u
<1>3. \A r \in Stream(u) : r \in Stream(t)
  BY <1>2, EmptyParts DEF Stream
<1>4. IsEnd(u) /\ Flushed(u)
  BY <1>1, <1>2, <1>3, EmptyParts DEF IsEnd, KeepsChoice, Flushed, CInv
<1>5. CStep(t, u, cfg)
  BY <1>2, <1>3, <1>4, CAborts
<1> QED
  BY <1>2, <1>5 DEF CStep, u

\* The hello of clientHandshake, with the ticket of a sound session if it offers one.
LEMMA ClientHandshakeStep ==
  ASSUME NEW c, NEW cfg, CInv(c, cfg), c.pc = "idle", NEW n,
         NEW cached, cached # <<>> => SoundSession(cached[1])
  PROVE  CStep(c, clientHandshake(c, cfg, cached, n), cfg) /\ clientHandshake(c, cfg, cached, n).pc = "serverHello"
<1> DEFINE random == <<"c", n>>
           base == IF cfg.gm THEN makeClientHelloGM(cfg, random) ELSE makeClientHello(cfg, random)
           hello == [base EXCEPT !.ticketSupported = cfg.cache]
           offered == IF cfg.cache THEN candidateSession(cfg, hello, cached) ELSE <<>>
           ch == IF offered = <<>> THEN hello
                 ELSE [hello EXCEPT !.ticket = <<offered[1].ticket>>, !.sid = <<"sid", n>>]
           b == [c EXCEPT !.pc = "serverHello", !.gm = cfg.gm, !.ch = ch, !.session = offered,
                          !.vers = IF cfg.gm THEN VersionGMSSL ELSE @]
           t == writeRecords(b, "hs", <<ch>>)
<1>0. IsEnd(c) /\ DOMAIN c = EndFields
  BY DEF CInv, IsEnd
<1>1. clientHandshake(c, cfg, cached, n) = t
  BY DEF clientHandshake
<1>2. /\ DOMAIN base = HelloFields /\ base.typ = "clientHello" /\ base.ticket = <<>>
      /\ base.vers = IF cfg.gm THEN VersionGMSSL ELSE cfg.max
      /\ base.npn => base.alpn # <<>>
  <2>1. CASE cfg.gm
    BY <2>1 DEF makeClientHelloGM, HelloFields
  <2>2. CASE ~cfg.gm
    BY <2>2 DEF makeClientHello, HelloFields
  <2> QED
    BY <2>1, <2>2
<1> HIDE DEF random, base
<1>3. /\ DOMAIN hello = HelloFields /\ hello.typ = "clientHello" /\ hello.ticket = <<>>
      /\ hello.vers = base.vers /\ hello.npn = base.npn /\ hello.alpn = base.alpn
  BY <1>2 DEF HelloFields
<1> HIDE DEF hello
<1>4. offered # <<>> => SoundSession(offered[1])
  BY DEF candidateSession
<1> HIDE DEF offered
<1>5. /\ DOMAIN ch = HelloFields /\ ch.typ = "clientHello" /\ ch.vers = base.vers /\ ch.npn = base.npn /\ ch.alpn = base.alpn
      /\ ch.ticket = IF offered = <<>> THEN <<>> ELSE <<offered[1].ticket>>
  BY <1>3 DEF HelloFields
<1>6. HelloOk(ch) /\ "typ" \in DOMAIN ch
  <2>1. CASE offered = <<>>
    BY <1>5, <2>1 DEF HelloOk, HelloFields
  <2>2. CASE offered # <<>>
    <3>1. IsTicket(offered[1].ticket)
      BY <1>4, <2>2 DEF SoundSession, TicketFor
    <3>2. DOMAIN ch.ticket = {1} /\ ch.ticket[1] = offered[1].ticket
      BY <1>5, <2>2
    <3> QED
      BY <1>5, <3>1, <3>2 DEF HelloOk, HelloFields
  <2> QED
    BY <2>1, <2>2
<1> HIDE DEF ch
<1>7. /\ DOMAIN b = EndFields /\ b.pc = "serverHello" /\ b.gm = cfg.gm /\ b.ch = ch /\ b.session = offered
      /\ b.net = c.net /\ b.sendBuf = c.sendBuf /\ b.in = c.in /\ b.out = c.out /\ b.hash = c.hash
      /\ b.buffering = c.buffering /\ b.isResume = c.isResume /\ b.stage = c.stage /\ b.proto = c.proto
  BY <1>0 DEF EndFields
<1> HIDE DEF b
<1>8. IsEnd(b) /\ Stream(b) = Stream(c)
  BY <1>0, <1>7, EndFrom DEF IsEnd
<1>9. IsMessages(<<ch>>, "hs") /\ Range(<<ch>>) = {ch}
  BY <1>6, OneParts DEF IsMessages
<1>10. /\ IsEnd(t) /\ Keeps(b, t) /\ t.hash = b.hash /\ t.buffering = b.buffering
       /\ Writes(b, t, Range(<<ch>>))
       /\ b.buffering = FALSE => t.sendBuf = b.sendBuf
  BY <1>8, <1>9, WriteRecordsParts
<1> HIDE DEF t
<1>11. c.proto = <<>> /\ c.buffering = FALSE /\ c.isResume = FALSE /\ c.sendBuf = <<>>
  BY <1>0 DEF CInv, CEarly, Flushed, IsEnd
<1>12. Flushed(t) /\ t.pc = "serverHello"
  BY <1>7, <1>10, <1>11 DEF Flushed, Keeps
<1>13. CGreeted(t, cfg)
  BY <1>2, <1>5, <1>7, <1>10 DEF CGreeted, Keeps
<1>14. CEarly(t, cfg)
  BY <1>7, <1>10, <1>11, <1>12, <1>13 DEF CEarly, Keeps
<1>15. CLate(t)
  BY <1>12 DEF CLate
<1>16. CSession(t)
  BY <1>4, <1>7, <1>10 DEF CSession, Keeps
<1>17. ~CSent(c, cfg) /\ CNoFinished(c)
  BY CNotYet
<1>18. CStream(t, cfg)
  <2> SUFFICES ASSUME NEW r \in Stream(t)
               PROVE  r.msg.typ # "finished" /\ (r.msg.typ = "clientHello" => HelloOk(r.msg))
    BY DEF CStream
  <2>1. CASE r \in Stream(c)
    BY <1>17, <2>1 DEF CNoFinished, CInv, CStream
  <2>2. CASE r.msg = ch
    BY <1>5, <1>6, <2>2
  <2> QED
    BY <1>8, <1>9, <1>10, <2>1, <2>2 DEF Writes
<1> QED
  BY <1>1, <1>10, <1>12, <1>14, <1>15, <1>16, <1>17, <1>18 DEF CStep, CInv, ClientPcs

\* The keys of both directions, prepared for the ChangeCipherSpecs.
LEMMA ClientKeysParts ==
  ASSUME NEW s, IsEnd(s)
  PROVE  LET t == clientEstablishKeys(s) IN
         /\ IsEnd(t) /\ Stream(t) = Stream(s) /\ t.pc = s.pc /\ KeepsChoice(s, t)
         /\ t.session = s.session /\ t.hash = s.hash /\ t.sendBuf = s.sendBuf /\ t.buffering = s.buffering
         /\ t.in.nextCipher = KeyOf("s", t) /\ t.out.nextCipher = KeyOf("c", t)
<1> DEFINE k(d) == keysFromMasterSecret(d, s.vers, s.suite, s.master, cr(s), sr(s))
           t == [s EXCEPT !.in = prepareCipherSpec(@, k("s")), !.out = prepareCipherSpec(@, k("c"))]
<1>0. DOMAIN s = EndFields /\ IsHalf(s.in) /\ IsHalf(s.out)
  BY DEF IsEnd
<1>1. clientEstablishKeys(s) = t
  BY DEF clientEstablishKeys
<1> HIDE DEF k
<1>2. /\ DOMAIN t = EndFields /\ t.in = prepareCipherSpec(s.in, k("s")) /\ t.out = prepareCipherSpec(s.out, k("c"))
      /\ t.pc = s.pc /\ t.session = s.session /\ t.hash = s.hash /\ t.sendBuf = s.sendBuf /\ t.buffering = s.buffering
      /\ t.net = s.net /\ t.stage = s.stage
      /\ t.vers = s.vers /\ t.gm = s.gm /\ t.ch = s.ch /\ t.sh = s.sh /\ t.suite = s.suite
      /\ t.master = s.master /\ t.isResume = s.isResume /\ t.proto = s.proto
  BY <1>0 DEF EndFields
<1> HIDE DEF t
<1>3. /\ IsHalf(t.in) /\ IsHalf(t.out) /\ t.in.nextCipher = k("s") /\ t.out.nextCipher = k("c")
      /\ t.out.cipher = s.out.cipher
  BY <1>0, <1>2 DEF prepareCipherSpec, IsHalf
<1>4. IsEnd(t) /\ Stream(t) = Stream(s)
  BY <1>2, <1>3, EndFrom DEF IsEnd
<1>5. KeyOf("s", t) = k("s") /\ KeyOf("c", t) = k("c")
  BY <1>2 DEF KeyOf, k, cr, sr
<1> QED
  BY <1>1, <1>2, <1>3, <1>4, <1>5 DEF KeepsChoice

\* A ServerHello that passed the checks.
LEMMA AcceptServerHello ==
  ASSUME NEW c, NEW cfg, CInv(c, cfg), c.pc = "serverHello", NEW sh, NEW vers,
         sh.suite \in IF cfg.gm THEN DOMAIN gmCipherSuites ELSE DOMAIN cipherSuites,
         cfg.gm => vers = VersionGMSSL,
         serverResumedSession(c, sh) => c.session[1].vers = vers /\ c.session[1].suite = sh.suite
  PROVE  CStep(c, acceptServerHello(c, sh, vers), cfg)
<1> DEFINE isResume == serverResumedSession(c, sh)
           h == IF c.gm THEN newFinishedHashGM ELSE newFinishedHash(vers)
           t == [c EXCEPT !.vers = vers, !.haveVers = ~c.gm, !.suite = sh.suite, !.sh = sh,
                          !.hash = hashWrite(h, <<c.ch, sh>>), !.buffering = TRUE, !.isResume = isResume,
                          !.proto = IF sh.alpn # <<>> THEN sh.alpn ELSE @, !.pc = "certificate"]
           r1 == [t EXCEPT !.master = c.session[1].master, !.peer = c.session[1].peer]
           r2 == clientEstablishKeys(r1)
           r3 == expectTicketOrCCS(r2)
<1>0. /\ IsEnd(c) /\ DOMAIN c = EndFields /\ c.proto = <<>> /\ c.sendBuf = <<>> /\ CGreeted(c, cfg)
      /\ c.session # <<>> => SoundSession(c.session[1])
  BY DEF CInv, IsEnd, CEarly, Flushed, ClientPcs, CSession, NewSession, Over
<1>1. acceptServerHello(c, sh, vers) = IF ~isResume THEN t ELSE r3
  <2>1. Then(r1, LAMBDA x : IF c.gm THEN clientEstablishKeysGM(x) ELSE clientEstablishKeys(x)) = r2
    <3>1. Then(r1, LAMBDA x : IF c.gm THEN clientEstablishKeysGM(x) ELSE clientEstablishKeys(x))
            = IF c.gm THEN clientEstablishKeysGM(r1) ELSE clientEstablishKeys(r1)
      BY ThenIs
    <3> QED
      BY <3>1 DEF clientEstablishKeysGM
  <2>2. Then(r2, expectTicketOrCCS) = r3
    BY ThenIs
  <2> QED
    BY <2>1, <2>2 DEF acceptServerHello
<1>2. isResume \in BOOLEAN
  BY DEF serverResumedSession
<1>3. h \in {newFinishedHash(vers), newFinishedHashGM}
  OBVIOUS
<1>4. LET g == hashWrite(h, <<c.ch, sh>>) IN IsHash(g) /\ Len(g.sum) = 2 /\ g.sum[1] = c.ch /\ g.sum[2] = sh
  BY <1>3, HelloHash
<1> HIDE DEF h
<1>5. /\ DOMAIN t = EndFields /\ t.vers = vers /\ t.suite = sh.suite /\ t.sh = sh /\ t.ch = c.ch /\ t.gm = c.gm
      /\ t.hash = hashWrite(h, <<c.ch, sh>>) /\ t.buffering = TRUE /\ t.isResume = isResume
      /\ t.proto = (IF sh.alpn # <<>> THEN sh.alpn ELSE c.proto) /\ t.pc = "certificate"
      /\ t.session = c.session /\ t.net = c.net /\ t.sendBuf = c.sendBuf /\ t.in = c.in /\ t.out = c.out /\ t.stage = c.stage
  BY <1>0 DEF EndFields
<1>6. isResume => c.session # <<>> /\ SoundSession(c.session[1]) /\ c.session[1].vers = vers /\ c.session[1].suite = sh.suite
  BY <1>0 DEF serverResumedSession
<1> HIDE DEF t, isResume
<1>7. IsEnd(t) /\ Stream(t) = Stream(c)
  BY <1>0, <1>2, <1>4, <1>5, EndFrom DEF IsEnd
<1>8. ~CSent(c, cfg) /\ CNoFinished(c) /\ \A r \in Stream(c) : r.msg.typ = "clientHello" => HelloOk(r.msg)
  BY CNotYet DEF CInv, CStream
<1>9. CGreeted(t, cfg) /\ CChosen(t, cfg)
  BY <1>0, <1>5 DEF CGreeted, CChosen
<1>10. CASE isResume = FALSE
  <2>1. Flushed(t)
    BY <1>0, <1>5 DEF Flushed
  <2>2. CEarly(t, cfg) /\ CLate(t)
    BY <1>4, <1>5, <1>9, <1>10 DEF CEarly, CLate
  <2>3. CSession(t)
    BY <1>0, <1>5 DEF CSession
  <2>4. CStream(t, cfg)
    BY <1>7, <1>8 DEF CStream, CNoFinished
  <2> QED
    BY <1>1, <1>5, <1>7, <1>8, <1>10, <2>1, <2>2, <2>3, <2>4 DEF CStep, CInv, ClientPcs
<1>11. CASE isResume = TRUE
  <2>1. /\ DOMAIN r1 = EndFields /\ r1.vers = vers /\ r1.suite = sh.suite /\ r1.sh = sh /\ r1.ch = c.ch /\ r1.gm = c.gm
        /\ r1.hash = t.hash /\ r1.buffering = TRUE /\ r1.isResume = isResume /\ r1.proto = t.proto
        /\ r1.session = c.session /\ r1.net = t.net /\ r1.sendBuf = c.sendBuf /\ r1.in = t.in /\ r1.out = t.out
        /\ r1.stage = t.stage /\ r1.master = c.session[1].master
    BY <1>5, <1>7 DEF EndFields, IsEnd
  <2> HIDE DEF r1
  <2>2. IsEnd(r1) /\ Stream(r1) = Stream(c)
    <3>1. r1.sendBuf = t.sendBuf
      BY <1>5, <2>1
    <3>2. IsEnd(r1) /\ Stream(r1) = Stream(t)
      BY <1>7, <2>1, <1>2, <3>1, EndFrom DEF IsEnd
    <3> QED
      BY <1>7, <3>2
  <2>3. /\ IsEnd(r2) /\ Stream(r2) = Stream(r1) /\ r2.pc = r1.pc /\ KeepsChoice(r1, r2)
        /\ r2.session = r1.session /\ r2.hash = r1.hash /\ r2.sendBuf = r1.sendBuf /\ r2.buffering = r1.buffering
        /\ r2.in.nextCipher = KeyOf("s", r2) /\ r2.out.nextCipher = KeyOf("c", r2)
    BY <2>2, ClientKeysParts
  <2> HIDE DEF r2
  <2>4. /\ DOMAIN r3 = EndFields /\ r3.pc \in {"ticket", "ccs"} /\ KeepsChoice(r2, r3) /\ r3.stage = r2.stage /\ r3.net = r2.net
        /\ r3.session = r2.session /\ r3.hash = r2.hash /\ r3.sendBuf = r2.sendBuf /\ r3.buffering = r2.buffering
        /\ r3.in = r2.in /\ r3.out = r2.out
    <3>1. DOMAIN r2 = EndFields
      BY <2>3 DEF IsEnd
    <3> QED
      BY <3>1 DEF EndFields, KeepsChoice, expectTicketOrCCS
  <2> HIDE DEF r3
  <2>5. IsEnd(r3) /\ Stream(r3) = Stream(r2)
    BY <2>3, <2>4, EndFrom DEF IsEnd, KeepsChoice
  <2>6. Flushed(r3)
    BY <1>0, <2>1, <2>3, <2>4 DEF Flushed
  <2>7. /\ r3.vers = vers /\ r3.suite = sh.suite /\ r3.sh = sh /\ r3.ch = c.ch /\ r3.gm = c.gm /\ r3.isResume = TRUE
        /\ r3.hash = t.hash /\ r3.master = c.session[1].master /\ r3.session = c.session /\ r3.proto = t.proto
    BY <1>11, <2>1, <2>3, <2>4 DEF KeepsChoice
  <2>8. CGreeted(r3, cfg) /\ CChosen(r3, cfg)
    BY <1>5, <1>9, <2>7 DEF CGreeted, CChosen
  <2>9. CEarly(r3, cfg)
    BY <2>4, <2>8 DEF CEarly
  <2>10. Shape(r3.hash.sum, r3) /\ Bound(r3)
    BY <1>4, <1>5, <1>6, <1>11, <2>7 DEF Shape, Bound, SoundSession
  <2>11. r3.in.nextCipher = KeyOf("s", r3) /\ r3.out.nextCipher = KeyOf("c", r3)
    BY <2>3, <2>4 DEF KeyOf, KeepsChoice, cr, sr
  <2>12. CLate(r3)
    BY <2>4, <2>7, <2>10, <2>11 DEF CLate
  <2>13. CSession(r3)
    BY <1>6, <1>11, <2>7 DEF CSession
  <2>14. CStream(r3, cfg)
    BY <1>8, <2>2, <2>3, <2>5 DEF CStream, CNoFinished
  <2> QED
    BY <1>1, <1>8, <1>11, <2>4, <2>5, <2>6, <2>9, <2>12, <2>13, <2>14 DEF CStep, CInv, ClientPcs
<1> QED
  BY <1>2, <1>10, <1>11

\* The ServerHello, whichever copy of the code reads it.
LEMMA ReadServerHelloStep ==
  ASSUME NEW c, CInv(c, ccfg), c.pc = "serverHello", NEW m
  PROVE  CStep(c, clientOnServerHello(c, m), ccfg)
<1>0. IsEnd(c) /\ DOMAIN c = EndFields /\ c.gm = ccfg.gm
  BY DEF CInv, IsEnd, CEarly, CGreeted, ClientPcs, Over
<1>1. CASE m.typ # "serverHello"
  <2>1. clientOnServerHello(c, m) = abort(c, "unexpected_message")
    BY <1>1 DEF clientOnServerHello, readServerHello, readServerHelloGM
  <2> QED
    BY <2>1, CAbort
<1>2. CASE m.typ = "serverHello" /\ ~c.gm
  <2> DEFINE vers == pickTLSVersion(ccfg, m)
             known == [c EXCEPT !.vers = vers, !.haveVers = TRUE]
             verdict == processServerHello(c, m, vers)
  <2>1. clientOnServerHello(c, m)
          = CASE vers = 0 -> abort(c, "protocol_version")
              [] vers # 0 /\ ~mutualCipherSuite(c.ch.suites, m.suite) -> abort(known, "handshake_failure")
              [] OTHER -> IF verdict # "ok" THEN abort(known, verdict) ELSE acceptServerHello(c, m, vers)
    BY <1>2 DEF clientOnServerHello, readServerHello
  <2> HIDE DEF vers
  <2>2. DOMAIN known = EndFields /\ known.net = c.net /\ known.sendBuf = c.sendBuf /\ known.in = c.in /\ known.out = c.out
        /\ known.hash = c.hash /\ known.buffering = c.buffering /\ known.isResume = c.isResume /\ known.stage = c.stage
    BY <1>0 DEF EndFields
  <2> HIDE DEF known
  <2>3. IsEnd(known) /\ Stream(known) = Stream(c)
    BY <1>0, <2>2, EndFrom DEF IsEnd
  <2>4. CASE vers = 0
    BY <2>1, <2>4, CAbort
  <2>5. CASE vers # 0 /\ ~mutualCipherSuite(c.ch.suites, m.suite)
    <3>1. clientOnServerHello(c, m) = abort(known, "handshake_failure")
      BY <2>1, <2>5
    <3> QED
      BY <2>3, <3>1, CAbortEarly
  <2>6. CASE vers # 0 /\ mutualCipherSuite(c.ch.suites, m.suite) /\ verdict # "ok"
    <3>1. clientOnServerHello(c, m) = abort(known, verdict)
      BY <2>1, <2>6
    <3> QED
      BY <2>3, <3>1, CAbortEarly
  <2>7. CASE vers # 0 /\ mutualCipherSuite(c.ch.suites, m.suite) /\ verdict = "ok"
    <3>1. clientOnServerHello(c, m) = acceptServerHello(c, m, vers)
      BY <2>1, <2>7
    <3>2. m.suite \in DOMAIN cipherSuites
      BY <2>7 DEF mutualCipherSuite
    <3>3. serverResumedSession(c, m) => c.session[1].vers = vers /\ c.session[1].suite = m.suite
      BY <2>7 DEF processServerHello
    <3> QED
      BY <1>0, <1>2, <3>1, <3>2, <3>3, AcceptServerHello
  <2> QED
    BY <2>4, <2>5, <2>6, <2>7
<1>3. CASE m.typ = "serverHello" /\ c.gm
  <2> DEFINE vers == pickGMVersion(m)
             verdict == processServerHelloGM(c, m, vers)
  <2>1. clientOnServerHello(c, m)
          = CASE vers = 0 -> abort(c, "protocol_version")
              [] vers # 0 /\ ~mutualCipherSuiteGM(c.ch.suites, m.suite) -> abort(c, "handshake_failure")
              [] OTHER -> IF verdict # "ok" THEN abort(c, verdict) ELSE acceptServerHello(c, m, vers)
    BY <1>3 DEF clientOnServerHello, readServerHelloGM
  <2>2. vers = 0 \/ vers = VersionGMSSL
    BY DEF pickGMVersion
  <2> HIDE DEF vers
  <2>4. CASE vers = 0
    BY <2>1, <2>4, CAbort
  <2>5. CASE vers # 0 /\ ~mutualCipherSuiteGM(c.ch.suites, m.suite)
    <3>1. clientOnServerHello(c, m) = abort(c, "handshake_failure")
      BY <2>1, <2>5
    <3> QED
      BY <3>1, CAbort
  <2>6. CASE vers # 0 /\ mutualCipherSuiteGM(c.ch.suites, m.suite) /\ verdict # "ok"
    <3>1. clientOnServerHello(c, m) = abort(c, verdict)
      BY <2>1, <2>6
    <3> QED
      BY <3>1, CAbort
  <2>7. CASE vers # 0 /\ mutualCipherSuiteGM(c.ch.suites, m.suite) /\ verdict = "ok"
    <3>1. clientOnServerHello(c, m) = acceptServerHello(c, m, vers)
      BY <2>1, <2>7
    <3>2. m.suite \in DOMAIN gmCipherSuites
      BY <2>7 DEF mutualCipherSuiteGM
    <3>3. serverResumedSession(c, m) => c.session[1].vers = vers /\ c.session[1].suite = m.suite
      BY <2>7 DEF processServerHello, processServerHelloGM
    <3> QED
      BY <1>0, <1>3, <2>2, <2>7, <3>1, <3>2, <3>3, AcceptServerHello
  <2> QED
    BY <2>4, <2>5, <2>6, <2>7
<1> QED
  BY <1>1, <1>2, <1>3

\* The server's certificates.
LEMMA ReadServerCertificateStep ==
  ASSUME NEW c, CInv(c, ccfg), c.pc = "certificate", NEW m
  PROVE  CStep(c, clientOnCertificate(c, m), ccfg)
<1> DEFINE heard == [c EXCEPT !.hash = hashWrite(@, <<m>>), !.peer = "server", !.pc = "flight"]
<1>0. /\ IsEnd(c) /\ DOMAIN c = EndFields /\ c.isResume = FALSE /\ IsHash(c.hash) /\ CGreeted(c, ccfg) /\ CChosen(c, ccfg)
      /\ Len(c.hash.sum) = 2 /\ c.hash.sum[1] = c.ch /\ c.hash.sum[2] = c.sh /\ c.sendBuf = <<>>
      /\ c.session # <<>> => SoundSession(c.session[1])
  BY DEF CInv, IsEnd, CEarly, ClientPcs, Over, Flushed, CSession, NewSession
<1>1. \/ m.typ = "certificate" /\ clientOnCertificate(c, m) = heard
      \/ \E alert : clientOnCertificate(c, m) = abort(c, alert)
  BY DEF clientOnCertificate, readServerCertificate, readServerCertificateGM
<1>2. CASE \E alert : clientOnCertificate(c, m) = abort(c, alert)
  BY <1>2, CAbort
<1>3. CASE m.typ = "certificate" /\ clientOnCertificate(c, m) = heard
  <2>1. IsSequence(<<m>>) /\ Len(<<m>>) = 1 /\ <<m>>[1] = m
    BY OneParts
  <2>2. IsHash(hashWrite(c.hash, <<m>>)) /\ hashWrite(c.hash, <<m>>).sum = c.hash.sum \o <<m>>
    BY <1>0, <2>1, HashParts
  <2>3. /\ Len(c.hash.sum \o <<m>>) = 3 /\ (c.hash.sum \o <<m>>)[1] = c.ch /\ (c.hash.sum \o <<m>>)[2] = c.sh
        /\ (c.hash.sum \o <<m>>)[3] = m
    BY <1>0, <2>1, ConcatParts DEF IsHash
  <2>4. /\ DOMAIN heard = EndFields /\ heard.hash = hashWrite(c.hash, <<m>>) /\ heard.pc = "flight"
        /\ heard.session = c.session /\ heard.net = c.net /\ heard.sendBuf = c.sendBuf /\ heard.in = c.in
        /\ heard.out = c.out /\ heard.stage = c.stage /\ heard.buffering = c.buffering /\ KeepsChoice(c, heard)
    BY <1>0 DEF EndFields, KeepsChoice
  <2> HIDE DEF heard
  <2>5. IsEnd(heard) /\ Stream(heard) = Stream(c)
    BY <1>0, <2>2, <2>4, EndFrom DEF IsEnd, KeepsChoice
  <2>6. Shape(heard.hash.sum, heard)
    BY <1>0, <1>3, <2>2, <2>3, <2>4 DEF Shape, KeepsChoice
  <2>7. CGreeted(heard, ccfg) /\ CChosen(heard, ccfg)
    BY <1>0, <2>4 DEF CGreeted, CChosen, KeepsChoice
  <2>8. CEarly(heard, ccfg) /\ CLate(heard) /\ CSession(heard) /\ Flushed(heard)
    BY <1>0, <2>4, <2>6, <2>7 DEF CEarly, CLate, CSession, Flushed, KeepsChoice
  <2>9. ~CSent(c, ccfg) /\ CNoFinished(c) /\ \A r \in Stream(c) : r.msg.typ = "clientHello" => HelloOk(r.msg)
    BY CNotYet DEF CInv, CStream
  <2>10. CStream(heard, ccfg)
    BY <2>5, <2>9 DEF CStream, CNoFinished
  <2> QED
    BY <1>3, <2>4, <2>5, <2>8, <2>9, <2>10 DEF CStep, CInv, ClientPcs
<1> QED
  BY <1>1, <1>2, <1>3

\* What is agreed before the keys.
KeepsNames(s, t) ==
    /\ t.vers = s.vers /\ t.gm = s.gm /\ t.ch = s.ch /\ t.sh = s.sh /\ t.suite = s.suite
    /\ t.master = s.master /\ t.isResume = s.isResume

\* t is s after it sent its Finished, or panicked on the way.
SendsFinished(s, t) ==
    /\ IsEnd(t) /\ t.pc \in {s.pc, "panic"} /\ t.in = s.in /\ t.session = s.session /\ t.peer = s.peer /\ KeepsNames(s, t)
    /\ t.out.cipher = s.out.nextCipher
    /\ t.buffering = s.buffering
    /\ s.buffering = TRUE => t.sendBuf # <<>>
    /\ s.buffering = FALSE => t.sendBuf = s.sendBuf
    /\ t.pc # "panic" => Shape(t.hash.sum, t)

\* sendFinished of the client: at most a ChangeCipherSpec, a NextProto and a Finished
\* over its own transcript are written.
LEMMA ClientSendFinishedParts ==
  ASSUME NEW s, IsEnd(s), s.pc # "panic", NEW cfg, Shape(s.hash.sum, s)
  PROVE  LET t == clientSendFinished(s, cfg) IN
         /\ SendsFinished(s, t)
         /\ ~s.sh.npn => t.proto = s.proto
         /\ \A r \in Stream(t) : \/ r \in Stream(s)
                                 \/ r.msg.typ \in {"ccs", "nextProto"}
                                 \/ t.pc # "panic" /\ r.msg.typ = "finished" /\ FinishedOf(s, r.msg.verify)
<1> DEFINE mutual == mutualProtocol(cfg.protos, s.sh.nextProtos)
           chosen == IF mutual = <<>> THEN <<cfg.protos[1]>> ELSE mutual
           npm == [typ |-> "nextProto", proto |-> chosen]
           np == IF s.sh.npn THEN <<npm>> ELSE <<>>
           h == hashWrite(s.hash, np)
           ccs == [typ |-> "ccs"]
           fin == [typ |-> "finished", verify |-> verifyData("client", h, s.master)]
           w == writeRecords(s, "ccs", <<ccs>>)
           p == [w EXCEPT !.proto = IF s.sh.npn THEN chosen ELSE @]
           ms == np \o <<fin>>
           f == sendMessages(p, ms)
           t == clientSendFinished(s, cfg)
<1>0. IsHash(s.hash) /\ s.isResume \in BOOLEAN
  BY DEF IsEnd
<1>1. t = IF hashSumPanics(s.hash) THEN panic(w) ELSE f
  <2>1. Then(p, LAMBDA x : sendMessages(x, ms)) = f
    BY ThenIs
  <2> QED
    BY <2>1 DEF clientSendFinished
<1> HIDE DEF t
<1>2. ccs.typ = "ccs" /\ "typ" \in DOMAIN ccs /\ npm.typ = "nextProto" /\ "typ" \in DOMAIN npm
  OBVIOUS
<1>3. fin.typ = "finished" /\ "typ" \in DOMAIN fin /\ fin.verify[2] = s.master /\ fin.verify[3] = h.sum
  BY DEF verifyData
<1> HIDE DEF ccs, npm, fin
<1>4. IsMessages(<<ccs>>, "ccs") /\ Range(<<ccs>>) = {ccs} /\ <<ccs>> # <<>>
  BY <1>2, OneParts DEF IsMessages
<1>5. /\ IsEnd(w) /\ Keeps(s, w) /\ w.hash = s.hash /\ w.buffering = s.buffering /\ Writes(s, w, Range(<<ccs>>))
      /\ w.out.cipher = s.out.nextCipher
      /\ s.buffering = TRUE => w.sendBuf # <<>>
      /\ s.buffering = FALSE => w.sendBuf = s.sendBuf
  BY <1>4, WriteRecordsParts
<1> HIDE DEF w
<1>6. \A r \in Stream(w) : r \in Stream(s) \/ r.msg.typ = "ccs"
  BY <1>2, <1>4, <1>5 DEF Writes
<1>7. CASE hashSumPanics(s.hash)
  <2>1. t = panic(w)
    BY <1>1, <1>7
  <2>2. IsEnd(t) /\ t.pc = "panic" /\ KeepsChoice(w, t) /\ Stream(t) = Stream(w)
    BY <1>5, <2>1, PanicParts
  <2>3. t.in = w.in /\ t.session = w.session /\ t.peer = w.peer /\ t.buffering = w.buffering /\ t.sendBuf = w.sendBuf
    <3>1. DOMAIN w = EndFields
      BY <1>5 DEF IsEnd
    <3> QED
      BY <2>1, <3>1 DEF panic, EndFields
  <2>4. SendsFinished(s, t) /\ t.proto = s.proto
    BY <1>5, <2>2, <2>3 DEF SendsFinished, KeepsChoice, Keeps, KeepsNames
  <2> QED
    BY <1>6, <2>2, <2>4 DEF t
<1>8. CASE ~hashSumPanics(s.hash)
  <2>1. DOMAIN w = EndFields
    BY <1>5 DEF IsEnd
  <2>2. /\ DOMAIN p = EndFields /\ p.net = w.net /\ p.sendBuf = w.sendBuf /\ p.in = w.in /\ p.out = w.out /\ p.hash = w.hash
        /\ p.buffering = w.buffering /\ p.stage = w.stage /\ p.pc = w.pc /\ p.session = w.session /\ p.peer = w.peer
        /\ KeepsNames(w, p) /\ (~s.sh.npn => p.proto = w.proto)
    BY <2>1 DEF EndFields, KeepsNames
  <2> HIDE DEF p
  <2>3. IsEnd(p) /\ Stream(p) = Stream(w)
    BY <1>5, <2>2, EndFrom DEF IsEnd, KeepsNames
  <2>4. IsSequence(np) /\ \A m \in Range(np) : m.typ = "nextProto" /\ "typ" \in DOMAIN m
    BY <1>2, OneParts, EmptyParts
  <2> HIDE DEF np
  <2>5. IsSequence(<<fin>>) /\ Range(<<fin>>) = {fin} /\ Len(<<fin>>) = 1
    BY OneParts
  <2>6. IsSequence(ms) /\ Range(ms) = Range(np) \union {fin} /\ Len(ms) = Len(np) + 1 /\ Len(np) \in Nat
    BY <2>4, <2>5, ConcatParts, SequenceParts
  <2>7. ms # <<>>
    BY <2>6, EmptyParts
  <2> HIDE DEF ms
  <2>8. IsMessages(ms, "hs")
    BY <1>3, <2>4, <2>6 DEF IsMessages
  <2>9. /\ IsEnd(f) /\ Keeps(p, f) /\ f.hash.sum = p.hash.sum \o ms /\ f.buffering = p.buffering
        /\ Writes(p, f, Range(ms)) /\ f.out.cipher = p.out.cipher
        /\ p.buffering = TRUE => f.sendBuf # <<>>
        /\ p.buffering = FALSE => f.sendBuf = p.sendBuf
    BY <2>3, <2>7, <2>8, SendMessagesParts
  <2> HIDE DEF f
  <2>10. h.sum = s.hash.sum \o np
    BY <1>0, <2>4, HashParts
  <2>11. IsSequence(s.hash.sum)
    BY <1>0 DEF IsHash
  <2>12. Shape(s.hash.sum \o np, s)
    BY <1>0, <2>4, <2>11, ShapeGrows
  <2>13. FinishedOf(s, fin.verify)
    BY <1>3, <2>10, <2>12 DEF FinishedOf
  <2>14. Shape(s.hash.sum \o ms, s)
    BY <1>0, <1>3, <2>4, <2>6, <2>11, ShapeGrows
  <2>15. KeepsNames(s, f) /\ f.pc = s.pc /\ f.in = s.in /\ f.session = s.session /\ f.peer = s.peer
    BY <1>5, <2>2, <2>9 DEF KeepsNames, Keeps
  <2>16. Shape(f.hash.sum, f)
    BY <1>5, <2>2, <2>9, <2>14, <2>15 DEF Shape, KeepsNames
  <2>17. SendsFinished(s, f)
    BY <1>5, <2>2, <2>9, <2>15, <2>16 DEF SendsFinished
  <2>18. ~s.sh.npn => f.proto = s.proto
    BY <1>5, <2>2, <2>9 DEF Keeps
  <2>19. \A r \in Stream(f) : \/ r \in Stream(s)
                              \/ r.msg.typ \in {"ccs", "nextProto"}
                              \/ f.pc # "panic" /\ r.msg.typ = "finished" /\ FinishedOf(s, r.msg.verify)
    <3> SUFFICES ASSUME NEW r \in Stream(f), r \notin Stream(w)
                 PROVE  \/ r.msg.typ = "nextProto"
                        \/ f.pc # "panic" /\ r.msg.typ = "finished" /\ FinishedOf(s, r.msg.verify)
      BY <1>6
    <3>1. r.msg \in Range(np) \/ r.msg = fin
      BY <2>3, <2>6, <2>9 DEF Writes
    <3> QED
      BY <1>3, <2>4, <2>13, <2>15, <3>1
  <2>20. t = f
    BY <1>1, <1>8
  <2> QED
    BY <2>17, <2>18, <2>19, <2>20 DEF t
<1> QED
  BY <1>7, <1>8

\* The client's flight, without its Finished.
LEMMA ClientFlightParts ==
  ASSUME NEW s, IsEnd(s), s.isResume = FALSE, Shape(s.hash.sum, s), NEW cfg, NEW chain
  PROVE  LET t == clientFlight(s, cfg, chain) IN
         /\ IsEnd(t) /\ t.pc = s.pc /\ t.session = s.session /\ t.isResume = s.isResume
         /\ t.vers = s.vers /\ t.gm = s.gm /\ t.ch = s.ch /\ t.sh = s.sh /\ t.suite = s.suite /\ t.proto = s.proto
         /\ Bound(t) /\ Shape(t.hash.sum, t) /\ t.buffering = s.buffering
         /\ s.buffering = FALSE => t.sendBuf = s.sendBuf
         /\ \A r \in Stream(t) : r \in Stream(s) \/ r.msg.typ \in {"certificate", "clientKeyExchange", "certificateVerify"}
<1> DEFINE kx == generateClientKeyExchange(keyAgreementOf(s.suite), cr(s), s.peerPub)
           cm == [typ |-> "certificate", chain |-> chain]
           km == [typ |-> "clientKeyExchange", pub |-> kx.pub]
           c1 == IF s.certReq THEN <<cm>> ELSE <<>>
           first == c1 \o <<km>>
           vm == [typ |-> "certificateVerify", sig |-> s.hash.sum \o first]
           proof == IF s.certReq /\ chain # "none" THEN <<vm>> ELSE <<>>
           ms == first \o proof
           f == sendMessages(s, ms)
           secret == masterFromPreMasterSecret(s.vers, s.suite, kx.secret, cr(s), sr(s))
           t == [f EXCEPT !.master = secret]
<1>0. clientFlight(s, cfg, chain) = t
  BY DEF clientFlight
<1>1. secret[1] = s.vers /\ secret[2] = s.suite
  BY DEF masterFromPreMasterSecret
<1>2. /\ cm.typ = "certificate" /\ km.typ = "clientKeyExchange" /\ vm.typ = "certificateVerify"
      /\ "typ" \in DOMAIN cm /\ "typ" \in DOMAIN km /\ "typ" \in DOMAIN vm
  OBVIOUS
<1> HIDE DEF secret, cm, km, vm
<1>3. IsSequence(c1) /\ Range(c1) \subseteq {cm}
  BY OneParts, EmptyParts
<1>4. IsSequence(proof) /\ Range(proof) \subseteq {vm}
  BY OneParts, EmptyParts
<1>5. IsSequence(<<km>>) /\ Range(<<km>>) = {km}
  BY OneParts
<1> HIDE DEF c1, proof
<1>6. IsSequence(first) /\ Range(first) = Range(c1) \union {km}
  BY <1>3, <1>5, ConcatParts
<1> HIDE DEF first
<1>7. IsSequence(ms) /\ Range(ms) = Range(first) \union Range(proof)
  BY <1>4, <1>6, ConcatParts
<1> HIDE DEF ms
<1>8. IsMessages(ms, "hs") /\ \A m \in Range(ms) : m.typ \in {"certificate", "clientKeyExchange", "certificateVerify"}
  BY <1>2, <1>3, <1>4, <1>6, <1>7 DEF IsMessages
<1>9. /\ IsEnd(f) /\ Keeps(s, f) /\ f.hash.sum = s.hash.sum \o ms /\ f.buffering = s.buffering
      /\ Writes(s, f, Range(ms))
      /\ s.buffering = FALSE => f.sendBuf = s.sendBuf
  BY <1>8, SendMessagesParts
<1> HIDE DEF f
<1>10. DOMAIN f = EndFields
  BY <1>9 DEF IsEnd
<1>11. /\ DOMAIN t = EndFields /\ t.net = f.net /\ t.sendBuf = f.sendBuf /\ t.in = f.in /\ t.out = f.out /\ t.hash = f.hash
       /\ t.buffering = f.buffering /\ t.stage = f.stage /\ t.pc = f.pc /\ t.session = f.session /\ t.isResume = f.isResume
       /\ t.vers = f.vers /\ t.gm = f.gm /\ t.ch = f.ch /\ t.sh = f.sh /\ t.suite = f.suite /\ t.proto = f.proto
       /\ t.master = secret
  BY <1>10 DEF EndFields
<1> HIDE DEF t
<1>12. IsEnd(t) /\ Stream(t) = Stream(f)
  BY <1>9, <1>11, EndFrom DEF IsEnd
<1>13. Bound(t)
  BY <1>1, <1>9, <1>11 DEF Bound, Keeps
<1>14. Shape(s.hash.sum \o ms, s)
  BY <1>7, ShapeGrows DEF IsEnd, IsHash
<1>15. Shape(t.hash.sum, t)
  BY <1>9, <1>11, <1>14 DEF Shape, Keeps
<1>16. \A r \in Stream(t) : r \in Stream(s) \/ r.msg.typ \in {"certificate", "clientKeyExchange", "certificateVerify"}
  BY <1>8, <1>9, <1>12 DEF Writes
<1> QED
  BY <1>0, <1>9, <1>11, <1>12, <1>13, <1>15, <1>16 DEF Keeps

\* The answer to ServerHelloDone.
LEMMA ClientAnswerStep ==
  ASSUME NEW c, NEW cfg, CInv(c, cfg), c.pc = "flight", NEW chain,
         NEW a, IsEnd(a), Stream(a) = Stream(c), a.pc = "flight", KeepsChoice(c, a), a.session = c.session,
         Shape(a.hash.sum, a), a.sendBuf = <<>>
  PROVE  CStep(c, finishClientFlight(clientSendFinished(clientEstablishKeys(clientFlight(a, cfg, chain)), cfg)), cfg)
<1> DEFINE b == clientFlight(a, cfg, chain)
           d == clientEstablishKeys(b)
           e == clientSendFinished(d, cfg)
           f == flush(e)
           t == finishClientFlight(e)
<1>0. /\ IsEnd(c) /\ c.isResume = FALSE /\ CGreeted(c, cfg) /\ CChosen(c, cfg)
      /\ c.session # <<>> => SoundSession(c.session[1])
  BY DEF CInv, IsEnd, CEarly, ClientPcs, Over, CSession, NewSession
<1>1. ~CSent(c, cfg) /\ CNoFinished(c) /\ \A r \in Stream(c) : r.msg.typ = "clientHello" => HelloOk(r.msg)
  BY CNotYet DEF CInv, CStream
<1>2. a.isResume = FALSE
  BY <1>0 DEF KeepsChoice
<1>3. /\ IsEnd(b) /\ b.pc = a.pc /\ b.session = a.session /\ b.isResume = a.isResume
      /\ b.vers = a.vers /\ b.gm = a.gm /\ b.ch = a.ch /\ b.sh = a.sh /\ b.suite = a.suite /\ b.proto = a.proto
      /\ Bound(b) /\ Shape(b.hash.sum, b) /\ b.buffering = a.buffering
      /\ a.buffering = FALSE => b.sendBuf = a.sendBuf
      /\ \A r \in Stream(b) : r \in Stream(a) \/ r.msg.typ \in {"certificate", "clientKeyExchange", "certificateVerify"}
  BY <1>2, ClientFlightParts
<1> HIDE DEF b
<1>4. /\ IsEnd(d) /\ Stream(d) = Stream(b) /\ d.pc = b.pc /\ KeepsChoice(b, d)
      /\ d.session = b.session /\ d.hash = b.hash /\ d.sendBuf = b.sendBuf /\ d.buffering = b.buffering
      /\ d.in.nextCipher = KeyOf("s", d) /\ d.out.nextCipher = KeyOf("c", d)
  BY <1>3, ClientKeysParts
<1> HIDE DEF d
<1>5. Shape(d.hash.sum, d) /\ Bound(d) /\ d.pc # "panic" /\ d.buffering \in BOOLEAN /\ d.isResume = FALSE
  BY <1>2, <1>3, <1>4 DEF Shape, Bound, KeepsChoice, IsEnd
<1>6. /\ SendsFinished(d, e)
      /\ ~d.sh.npn => e.proto = d.proto
      /\ \A r \in Stream(e) : \/ r \in Stream(d)
                              \/ r.msg.typ \in {"ccs", "nextProto"}
                              \/ e.pc # "panic" /\ r.msg.typ = "finished" /\ FinishedOf(d, r.msg.verify)
  BY <1>4, <1>5, ClientSendFinishedParts
<1> HIDE DEF e
<1>7. /\ IsEnd(e) /\ e.pc \in {"flight", "panic"} /\ e.in = d.in /\ e.session = c.session /\ KeepsNames(d, e)
      /\ e.out.cipher = KeyOf("c", d) /\ e.buffering = d.buffering
      /\ d.buffering = TRUE => e.sendBuf # <<>>
      /\ e.pc # "panic" => Shape(e.hash.sum, e)
  BY <1>3, <1>4, <1>6 DEF SendsFinished
<1>8. \A r \in Stream(e) : /\ r.msg.typ = "clientHello" => HelloOk(r.msg)
                           /\ r.msg.typ = "finished" => e.pc # "panic" /\ FinishedOf(d, r.msg.verify)
  <2> SUFFICES ASSUME NEW r \in Stream(e)
               PROVE  /\ r.msg.typ = "clientHello" => HelloOk(r.msg)
                      /\ r.msg.typ = "finished" => e.pc # "panic" /\ FinishedOf(d, r.msg.verify)
    OBVIOUS
  <2>1. \/ r \in Stream(c)
        \/ r.msg.typ \in {"certificate", "clientKeyExchange", "certificateVerify"}
        \/ r.msg.typ \in {"ccs", "nextProto"}
        \/ e.pc # "panic" /\ r.msg.typ = "finished" /\ FinishedOf(d, r.msg.verify)
    BY <1>3, <1>4, <1>6
  <2> QED
    BY <1>1, <2>1 DEF CNoFinished
<1>9. ASSUME e.pc = "panic" PROVE CStep(c, t, cfg)
  <2>1. t = e
    BY <1>9 DEF finishClientFlight
  <2>2. CEarly(e, cfg) /\ CLate(e) /\ CSession(e) /\ Flushed(e)
    BY <1>9 DEF CEarly, CLate, CSession, Flushed, Over, ClientPcs
  <2>3. CStream(e, cfg)
    BY <1>8, <1>9 DEF CStream
  <2> QED
    BY <1>1, <1>7, <1>9, <2>1, <2>2, <2>3 DEF CStep, CInv, ClientPcs, Over
<1>10. ASSUME e.pc = "flight" PROVE CStep(c, t, cfg)
  <2>1. /\ IsEnd(f) /\ Keeps(e, f) /\ f.out = e.out /\ f.hash = e.hash /\ Writes(e, f, {}) /\ f.sendBuf = <<>>
        /\ e.buffering = FALSE \/ e.sendBuf # <<>> => f.buffering = FALSE
    BY <1>7, FlushParts
  <2>2. t = [f EXCEPT !.pc = IF f.sh.ticketSupported THEN "ticket" ELSE "ccs"]
    BY <1>10 DEF finishClientFlight, expectTicketOrCCS
  <2> HIDE DEF f, t
  <2>3. DOMAIN f = EndFields
    BY <2>1 DEF IsEnd
  <2>4. /\ DOMAIN t = EndFields /\ t.net = f.net /\ t.sendBuf = f.sendBuf /\ t.in = f.in /\ t.out = f.out /\ t.hash = f.hash
        /\ t.buffering = f.buffering /\ t.stage = f.stage /\ t.pc \in {"ticket", "ccs"} /\ t.session = f.session
        /\ KeepsNames(f, t) /\ t.proto = f.proto
    BY <2>2, <2>3 DEF EndFields, KeepsNames
  <2>5. IsEnd(t) /\ Stream(t) = Stream(f)
    BY <2>1, <2>4, EndFrom DEF IsEnd, KeepsNames
  <2>6. t.buffering = FALSE /\ t.sendBuf = <<>>
    BY <1>5, <1>7, <2>1, <2>4
  <2>7. KeepsNames(d, t) /\ t.in = d.in /\ t.out.cipher = KeyOf("c", d) /\ t.session = c.session
    BY <1>7, <2>1, <2>4 DEF KeepsNames, Keeps
  <2>8. KeyOf("c", t) = KeyOf("c", d) /\ KeyOf("s", t) = KeyOf("s", d)
    BY <2>7 DEF KeyOf, KeepsNames, cr, sr
  <2>9. Bound(t) /\ Shape(t.hash.sum, t)
    BY <1>5, <1>7, <1>10, <2>1, <2>4, <2>7 DEF Bound, Shape, KeepsNames, Keeps
  <2>10. /\ t.gm = c.gm /\ t.ch = c.ch /\ t.sh = c.sh /\ t.vers = c.vers /\ t.suite = c.suite /\ t.isResume = FALSE
         /\ ~c.sh.npn => t.proto = c.proto
    BY <1>0, <1>3, <1>4, <1>6, <2>1, <2>4, <2>7 DEF KeepsChoice, KeepsNames, Keeps
  <2>11. CGreeted(t, cfg) /\ CChosen(t, cfg)
    BY <1>0, <2>10 DEF CGreeted, CChosen
  <2>12. CEarly(t, cfg) /\ Flushed(t)
    BY <2>4, <2>6, <2>11 DEF CEarly, Flushed
  <2>13. CLate(t)
    BY <1>4, <2>4, <2>6, <2>7, <2>8, <2>9, <2>10 DEF CLate
  <2>14. CSession(t)
    BY <1>0, <2>7 DEF CSession
  <2>15. CSent(t, cfg)
    BY <2>4, <2>7, <2>8, <2>9, <2>10, <2>11 DEF CSent
  <2>16. CStream(t, cfg)
    <3>1. \A r \in Stream(t) : r \in Stream(e)
      BY <2>1, <2>5 DEF Writes
    <3>2. ASSUME NEW v PROVE FinishedOf(d, v) => FinishedOf(t, v)
      BY <2>7 DEF FinishedOf, Shape, KeepsNames
    <3> QED
      BY <1>8, <2>15, <3>1, <3>2 DEF CStream
  <2> QED
    BY <1>1, <2>4, <2>5, <2>12, <2>13, <2>14, <2>15, <2>16 DEF CStep, CInv, ClientPcs
<1>11. CStep(c, t, cfg)
  BY <1>7, <1>9, <1>10
<1> QED
  BY <1>11 DEF b, d, e

\* One message of the server's flight.
LEMMA ReadFlightStep ==
  ASSUME NEW c, CInv(c, ccfg), c.pc = "flight", NEW m
  PROVE  CStep(c, clientOnFlight(c, m), ccfg)
<1> DEFINE ka == keyAgreementOf(c.suite)
           heard == [c EXCEPT !.hash = hashWrite(@, <<m>>), !.stage = flightOrder[m.typ]]
           paired == [heard EXCEPT !.peerPub = m.pub]
           asked == [heard EXCEPT !.certReq = TRUE]
           answer == finishClientFlight(clientSendFinished(clientEstablishKeys(clientFlight(heard, ccfg, ccfg.cert)), ccfg))
           T == clientOnFlight(c, m)
<1>0. /\ IsEnd(c) /\ DOMAIN c = EndFields /\ c.isResume = FALSE /\ IsHash(c.hash) /\ CGreeted(c, ccfg) /\ CChosen(c, ccfg)
      /\ Shape(c.hash.sum, c) /\ c.sendBuf = <<>> /\ c.stage \in Nat
      /\ c.session # <<>> => SoundSession(c.session[1])
  BY DEF CInv, IsEnd, CEarly, CLate, ClientPcs, Over, Flushed, CSession, NewSession
<1>1. /\ Then(Then(Then(Then(heard, LAMBDA t : clientFlight(t, ccfg, getClientCertificate(ccfg))),
                 clientEstablishKeys), LAMBDA t : clientSendFinished(t, ccfg)), finishClientFlight) = answer
      /\ Then(Then(Then(Then(heard, LAMBDA t : clientFlight(t, ccfg, getClientCertificateGM(ccfg))),
                 clientEstablishKeysGM), LAMBDA t : clientSendFinishedGM(t, ccfg)), finishClientFlight) = answer
  <2> DEFINE x1 == Then(heard, LAMBDA t : clientFlight(t, ccfg, getClientCertificate(ccfg)))
             x2 == Then(x1, clientEstablishKeys)
             x3 == Then(x2, LAMBDA t : clientSendFinished(t, ccfg))
             y1 == Then(heard, LAMBDA t : clientFlight(t, ccfg, getClientCertificateGM(ccfg)))
             y2 == Then(y1, clientEstablishKeysGM)
             y3 == Then(y2, LAMBDA t : clientSendFinishedGM(t, ccfg))
  <2>1. x1 = clientFlight(heard, ccfg, getClientCertificate(ccfg)) /\ y1 = clientFlight(heard, ccfg, getClientCertificateGM(ccfg))
    BY ThenIs
  <2>2. x2 = clientEstablishKeys(x1) /\ y2 = clientEstablishKeysGM(y1)
    BY ThenIs
  <2>3. x3 = clientSendFinished(x2, ccfg) /\ y3 = clientSendFinishedGM(y2, ccfg)
    BY ThenIs
  <2>4. Then(x3, finishClientFlight) = finishClientFlight(x3) /\ Then(y3, finishClientFlight) = finishClientFlight(y3)
    BY ThenIs
  <2> HIDE DEF x1, x2, x3, y1, y2, y3, heard
  <2>5. Then(x3, finishClientFlight) = answer /\ Then(y3, finishClientFlight) = answer
    BY <2>1, <2>2, <2>3, <2>4 DEF getClientCertificate, getClientCertificateGM, clientEstablishKeysGM, clientSendFinishedGM
  <2> QED
    BY <2>5 DEF x1, x2, x3, y1, y2, y3, heard
<1>2. flightOrder = [certificateStatus |-> 1, serverKeyExchange |-> 2, certificateRequest |-> 3, serverHelloDone |-> 4]
  BY DEF flightOrder
<1>3. \/ \E alert : T = abort(c, alert)
      \/ m.typ \in DOMAIN flightOrder /\ T \in {heard, paired, asked, answer, abort(heard, "internal_error")}
  <2> DEFINE ok == m.typ \in DOMAIN flightOrder /\ ~(flightOrder[m.typ] <= c.stage)
  <2>1. CASE ~ok
    <3>1. DOMAIN flightOrder = {"certificateStatus", "serverKeyExchange", "certificateRequest", "serverHelloDone"}
      BY <1>2
    <3>2. ~(m.typ = "certificateStatus" /\ c.stage < 1) /\ ~(m.typ = "serverKeyExchange" /\ c.stage < 2)
          /\ ~(m.typ = "certificateRequest" /\ c.stage < 3) /\ ~(m.typ = "serverHelloDone" /\ c.stage < 4)
      BY <1>0, <1>2, <2>1
    <3> HIDE DEF heard, paired, asked, answer
    <3>3. CASE c.gm
      <4>1. T = readFlightGM(c, ccfg, m)
        BY <3>3 DEF clientOnFlight
      <4>2. readFlightGM(c, ccfg, m) = abort(c, "unexpected_message")
        BY <2>1, <3>1, <3>2 DEF readFlightGM
      <4> QED
        BY <4>1, <4>2
    <3>4. CASE ~c.gm
      <4>1. T = readFlight(c, ccfg, m)
        BY <3>4 DEF clientOnFlight
      <4>2. readFlight(c, ccfg, m) = abort(c, "unexpected_message")
        BY <2>1, <3>1, <3>2 DEF readFlight
      <4> QED
        BY <4>1, <4>2
    <3> QED
      BY <3>3, <3>4
  <2>2. CASE ok /\ m.typ = "certificateStatus"
    <3>1. c.stage < 1
      BY <1>0, <1>2, <2>2
    <3>2. CASE c.gm
      <4>1. T = abort(c, "unexpected_message")
        BY <1>2, <2>2, <3>2 DEF clientOnFlight, readFlightGM
      <4> QED
        BY <4>1
    <3>3. CASE ~c.gm /\ ~c.sh.ocsp
      <4>1. T = abort(c, "unexpected_message")
        BY <1>2, <2>2, <3>3 DEF clientOnFlight, readFlight
      <4> QED
        BY <4>1
    <3>4. CASE ~c.gm /\ c.sh.ocsp
      <4> HIDE DEF heard
      <4>1. T = heard
        BY <1>2, <2>2, <3>1, <3>4 DEF clientOnFlight, readFlight, heard
      <4> QED
        BY <2>2, <4>1
    <3> QED
      BY <3>2, <3>3, <3>4
  <2>3. CASE ok /\ m.typ = "serverKeyExchange"
    <3>1. c.stage < 2
      BY <1>0, <1>2, <2>3
    <3>2. T = IF processServerKeyExchange(ka, cr(c), sr(c), m) THEN paired ELSE abort(c, "unexpected_message")
      BY <1>2, <2>3, <3>1 DEF clientOnFlight, readFlight, readFlightGM
    <3> QED
      BY <2>3, <3>2
  <2>4. CASE ok /\ m.typ = "certificateRequest"
    <3>1. c.stage < 3
      BY <1>0, <1>2, <2>4
    <3>2. T = asked
      BY <1>2, <2>4, <3>1 DEF clientOnFlight, readFlight, readFlightGM
    <3> QED
      BY <2>4, <3>2
  <2>5. CASE ok /\ m.typ = "serverHelloDone"
    <3>1. c.stage < 4
      BY <1>0, <1>2, <2>5
    <3>2. T = IF needsServerKeyExchange(ka) /\ c.peerPub = <<>> THEN abort(heard, "internal_error") ELSE answer
      BY <1>1, <1>2, <2>5, <3>1 DEF clientOnFlight, readFlight, readFlightGM
    <3> QED
      BY <2>5, <3>2
  <2> QED
    BY <1>2, <2>1, <2>2, <2>3, <2>4, <2>5
<1>4. CASE \E alert : T = abort(c, alert)
  BY <1>4, CAbort
<1>5. CASE m.typ \in DOMAIN flightOrder /\ T \in {heard, paired, asked, answer, abort(heard, "internal_error")}
  <2>1. flightOrder[m.typ] \in Nat /\ m.typ # "certificate"
    BY <1>2, <1>5
  <2>2. IsSequence(<<m>>) /\ Range(<<m>>) = {m}
    BY OneParts
  <2>3. IsHash(hashWrite(c.hash, <<m>>)) /\ hashWrite(c.hash, <<m>>).sum = c.hash.sum \o <<m>>
    BY <1>0, <2>2, HashParts
  <2>4. Shape(c.hash.sum \o <<m>>, c)
    BY <1>0, <2>2, ShapeGrows DEF IsHash
  <2>5. ASSUME NEW t \in {heard, paired, asked}
        PROVE  /\ DOMAIN t = EndFields /\ t.hash = hashWrite(c.hash, <<m>>) /\ t.pc = "flight"
               /\ t.session = c.session /\ t.net = c.net /\ t.sendBuf = c.sendBuf /\ t.in = c.in
               /\ t.out = c.out /\ t.stage = flightOrder[m.typ] /\ t.buffering = c.buffering /\ KeepsChoice(c, t)
    <3>1. CASE t = heard
      BY <1>0, <3>1 DEF EndFields, KeepsChoice
    <3>2. CASE t = paired
      BY <1>0, <3>2 DEF EndFields, KeepsChoice
    <3>3. CASE t = asked
      BY <1>0, <3>3 DEF EndFields, KeepsChoice
    <3> QED
      BY <2>5, <3>1, <3>2, <3>3
  <2> HIDE DEF heard, paired, asked, answer, T
  <2>6. ASSUME NEW t \in {heard, paired, asked}
        PROVE  IsEnd(t) /\ Stream(t) = Stream(c) /\ Shape(t.hash.sum, t)
    <3>1. IsEnd(t) /\ Stream(t) = Stream(c)
      BY <1>0, <2>1, <2>3, <2>5, EndFrom DEF IsEnd, KeepsChoice
    <3> QED
      BY <2>3, <2>4, <2>5, <3>1 DEF Shape, KeepsChoice
  <2>7. ASSUME NEW t \in {heard, paired, asked} PROVE CStep(c, t, ccfg)
    <3>1. CGreeted(t, ccfg) /\ CChosen(t, ccfg)
      BY <1>0, <2>5 DEF CGreeted, CChosen, KeepsChoice
    <3>2. CEarly(t, ccfg) /\ CLate(t) /\ CSession(t) /\ Flushed(t)
      BY <1>0, <2>5, <2>6, <3>1 DEF CEarly, CLate, CSession, Flushed, KeepsChoice
    <3>3. ~CSent(c, ccfg) /\ CNoFinished(c) /\ \A r \in Stream(c) : r.msg.typ = "clientHello" => HelloOk(r.msg)
      BY CNotYet DEF CInv, CStream
    <3>4. CStream(t, ccfg)
      BY <2>6, <3>3 DEF CStream, CNoFinished
    <3> QED
      BY <2>5, <2>6, <3>2, <3>3, <3>4 DEF CStep, CInv, ClientPcs
  <2>8. CStep(c, abort(heard, "internal_error"), ccfg)
    BY <2>6, CAbortEarly
  <2>9. heard.sendBuf = <<>> /\ heard.pc = "flight" /\ heard.session = c.session /\ KeepsChoice(c, heard)
    BY <1>0, <2>5
  <2>10. CStep(c, answer, ccfg)
    BY <2>6, <2>9, ClientAnswerStep DEF answer
  <2>11. CStep(c, T, ccfg)
    BY <1>5, <2>7, <2>8, <2>10
  <2> QED
    BY <2>11 DEF T
<1> QED
  BY <1>3, <1>4, <1>5

\* A step that writes nothing new keeps what was said of the stream.
LEMMA CStreamKept ==
  ASSUME NEW c, NEW cfg, CInv(c, cfg), NEW t, KeepsNames(c, t), CSent(c, cfg) => CSent(t, cfg),
         \A r \in Stream(t) : r \in Stream(c)
  PROVE  CStream(t, cfg)
<1>1. ASSUME NEW v PROVE FinishedOf(c, v) => FinishedOf(t, v)
  BY DEF FinishedOf, Shape, KeepsNames
<1> QED
  BY <1>1 DEF CStream, CInv

\* The incoming half counts a record.
LEMMA CAfterRead ==
  ASSUME NEW c, NEW cfg, CInv(c, cfg), NEW r, r.typ # "ccs"
  PROVE  LET t == afterRead(c, r) IN
         /\ CInv(t, cfg) /\ t.pc = c.pc /\ KeepsChoice(c, t) /\ (CSent(c, cfg) <=> CSent(t, cfg))
         /\ t.in.cipher = c.in.cipher /\ t.session = c.session /\ t.hash = c.hash /\ t.net = c.net
<1> DEFINE t == [c EXCEPT !.in.seq = @ + 1]
<1>0. IsEnd(c) /\ DOMAIN c = EndFields /\ IsHalf(c.in)
  BY DEF CInv, IsEnd
<1>1. afterRead(c, r) = t
  BY DEF afterRead
<1>2. /\ DOMAIN t = EndFields /\ IsHalf(t.in) /\ t.in.cipher = c.in.cipher /\ t.in.nextCipher = c.in.nextCipher
      /\ t.pc = c.pc /\ t.session = c.session /\ t.hash = c.hash /\ t.sendBuf = c.sendBuf /\ t.net = c.net
      /\ t.buffering = c.buffering /\ t.stage = c.stage /\ t.out = c.out /\ KeepsChoice(c, t)
  BY <1>0 DEF EndFields, KeepsChoice, IsHalf
<1> HIDE DEF t
<1>3. IsEnd(t) /\ Stream(t) = Stream(c)
  BY <1>0, <1>2, EndFrom DEF IsEnd, KeepsChoice
<1>4. CSent(c, cfg) <=> CSent(t, cfg)
  BY <1>2 DEF CSent, KeepsChoice, CGreeted, CChosen, Bound, KeyOf, cr, sr
<1>5. Flushed(t) /\ CEarly(t, cfg)
  BY <1>2 DEF CInv, Flushed, CEarly, KeepsChoice, CGreeted, CChosen
<1>6. CLate(t)
  BY <1>2 DEF CInv, CLate, KeepsChoice, Shape, Bound, KeyOf, cr, sr
<1>7. CSession(t)
  BY <1>2 DEF CInv, CSession, KeepsChoice, NewSession, SoundSession
<1>8. CStream(t, cfg)
  BY <1>2, <1>3, <1>4, CStreamKept DEF KeepsNames, KeepsChoice
<1> QED
  BY <1>1, <1>2, <1>3, <1>4, <1>5, <1>6, <1>7, <1>8 DEF CInv

\* The server's session ticket.
LEMMA ReadTicketStep ==
  ASSUME NEW c, CInv(c, ccfg), c.pc = "ticket", NEW m
  PROVE  CStep(c, clientOnTicket(c, m), ccfg)
<1> DEFINE x == [ticket |-> m.ticket, vers |-> c.vers, suite |-> c.suite, master |-> c.master, peer |-> c.peer]
           t == [c EXCEPT !.hash = hashWrite(@, <<m>>), !.pc = "ccs", !.session = <<x>>]
<1>0. /\ IsEnd(c) /\ DOMAIN c = EndFields /\ IsHash(c.hash) /\ CGreeted(c, ccfg) /\ CChosen(c, ccfg) /\ CLate(c)
      /\ Shape(c.hash.sum, c) /\ c.sendBuf = <<>> /\ c.isResume \in BOOLEAN
  BY DEF CInv, IsEnd, CEarly, CLate, ClientPcs, Over, Flushed
<1>1. CASE m.typ # "newSessionTicket"
  <2>1. clientOnTicket(c, m) = abort(c, "unexpected_message")
    BY <1>1 DEF clientOnTicket, readSessionTicket, readSessionTicketGM
  <2> QED
    BY <2>1, CAbort
<1>2. CASE m.typ = "newSessionTicket"
  <2>1. clientOnTicket(c, m) = t
    BY <1>2 DEF clientOnTicket, readSessionTicket, readSessionTicketGM
  <2>2. x.ticket = m.ticket /\ x.vers = c.vers /\ x.suite = c.suite /\ x.master = c.master
    OBVIOUS
  <2> HIDE DEF x
  <2>3. IsSequence(<<m>>) /\ Range(<<m>>) = {m} /\ Len(<<m>>) = 1 /\ <<m>>[1] = m
    BY OneParts
  <2>4. IsHash(hashWrite(c.hash, <<m>>)) /\ hashWrite(c.hash, <<m>>).sum = c.hash.sum \o <<m>>
    BY <1>0, <2>3, HashParts
  <2>5. Shape(c.hash.sum \o <<m>>, c)
    BY <1>0, <1>2, <2>3, ShapeGrows DEF IsHash
  <2>6. /\ Len(c.hash.sum) \in Nat /\ Len(c.hash.sum \o <<m>>) = Len(c.hash.sum) + 1
        /\ (c.hash.sum \o <<m>>)[Len(c.hash.sum) + 1] = m
    BY <1>0, <2>3, ConcatParts, SequenceParts DEF IsHash
  <2>7. /\ DOMAIN t = EndFields /\ t.hash = hashWrite(c.hash, <<m>>) /\ t.pc = "ccs" /\ t.session = <<x>>
        /\ t.net = c.net /\ t.sendBuf = c.sendBuf /\ t.in = c.in /\ t.out = c.out /\ t.stage = c.stage
        /\ t.buffering = c.buffering /\ KeepsChoice(c, t)
    BY <1>0 DEF EndFields, KeepsChoice
  <2> HIDE DEF t
  <2>8. IsEnd(t) /\ Stream(t) = Stream(c)
    BY <1>0, <2>4, <2>7, EndFrom DEF IsEnd, KeepsChoice
  <2>9. Shape(t.hash.sum, t)
    BY <2>4, <2>5, <2>7 DEF Shape, KeepsChoice
  <2>10. CEarly(t, ccfg) /\ Flushed(t)
    BY <1>0, <2>7 DEF CEarly, Flushed, KeepsChoice, CGreeted, CChosen
  <2>11. CLate(t)
    BY <1>0, <2>7, <2>9 DEF CLate, KeepsChoice, Bound, KeyOf, cr, sr
  <2>12. NewSession(t)
    <3> DEFINE i == Len(c.hash.sum) + 1
    <3>1. i \in 1..Len(t.hash.sum) /\ t.hash.sum[i] = m
      BY <2>4, <2>6, <2>7
    <3>2. t.session[1] = x
      BY <2>7
    <3> QED
      BY <1>2, <2>2, <2>7, <3>1, <3>2 DEF NewSession, KeepsChoice
  <2>13. CSession(t)
    BY <2>12 DEF CSession
  <2>14. CSent(c, ccfg) => CSent(t, ccfg)
    <3>1. CASE c.isResume = TRUE
      BY <3>1, CNotYet
    <3>2. CASE c.isResume = FALSE
      BY <2>7, <3>2, CSentKept
    <3> QED
      BY <1>0, <3>1, <3>2
  <2>15. CStream(t, ccfg)
    BY <2>7, <2>8, <2>14, CStreamKept DEF KeepsNames, KeepsChoice
  <2> QED
    BY <2>1, <2>7, <2>8, <2>10, <2>11, <2>13, <2>14, <2>15 DEF CStep, CInv, ClientPcs
<1> QED
  BY <1>1, <1>2

\* The server's ChangeCipherSpec.
LEMMA ClientCCSStep ==
  ASSUME NEW c, NEW cfg, CInv(c, cfg), c.pc = "ccs", NEW r, r.typ = "ccs"
  PROVE  CStep(c, [afterRead(c, r) EXCEPT !.pc = "finished"], cfg)
<1> DEFINE a == [c EXCEPT !.in = changeCipherSpec(@)]
           t == [a EXCEPT !.pc = "finished"]
<1>0. /\ IsEnd(c) /\ DOMAIN c = EndFields /\ CGreeted(c, cfg) /\ CChosen(c, cfg) /\ CLate(c) /\ CSession(c)
      /\ c.sendBuf = <<>> /\ c.isResume \in BOOLEAN
  BY DEF CInv, IsEnd, CEarly, ClientPcs, Over, Flushed
<1>1. afterRead(c, r) = a
  BY DEF afterRead
<1>2. DOMAIN a = EndFields
  BY <1>0 DEF EndFields
<1>3. /\ DOMAIN t = EndFields /\ t.in = changeCipherSpec(c.in) /\ t.pc = "finished" /\ t.session = c.session /\ t.hash = c.hash
      /\ t.net = c.net /\ t.sendBuf = c.sendBuf /\ t.out = c.out /\ t.stage = c.stage
      /\ t.buffering = c.buffering /\ KeepsChoice(c, t)
  BY <1>0, <1>2 DEF EndFields, KeepsChoice
<1> HIDE DEF t
<1>4. IsHalf(t.in) /\ t.in.cipher = c.in.nextCipher
  BY <1>3 DEF changeCipherSpec, IsHalf
<1>5. IsEnd(t) /\ Stream(t) = Stream(c)
  BY <1>0, <1>3, <1>4, EndFrom DEF IsEnd, KeepsChoice
<1>6. CEarly(t, cfg) /\ Flushed(t)
  BY <1>0, <1>3 DEF CEarly, Flushed, KeepsChoice, CGreeted, CChosen
<1>7. CLate(t)
  BY <1>0, <1>3, <1>4 DEF CLate, KeepsChoice, Shape, Bound, KeyOf, cr, sr
<1>8. CSession(t)
  BY <1>0, <1>3 DEF CSession, NewSession, KeepsChoice, ClientPcs, Over
<1>9. CSent(c, cfg) => CSent(t, cfg)
  <2>1. CASE c.isResume = TRUE
    BY <2>1, CNotYet
  <2>2. CASE c.isResume = FALSE
    BY <1>3, <2>2, CSentKept
  <2> QED
    BY <1>0, <2>1, <2>2
<1>10. CStream(t, cfg)
  BY <1>3, <1>5, <1>9, CStreamKept DEF KeepsNames, KeepsChoice
<1>11. CStep(c, t, cfg)
  BY <1>3, <1>5, <1>6, <1>7, <1>8, <1>9, <1>10 DEF CStep, CInv, ClientPcs
<1> QED
  BY <1>1, <1>11 DEF t

\* The client accepted the server's Finished m: it covers the client's transcript.
CDone(c, t, m, cfg) ==
    /\ CInv(t, cfg) /\ t.pc = "done" /\ KeepsNames(c, t)
    /\ t.session = c.session /\ t.in.cipher = c.in.cipher
    /\ CSent(c, cfg) => CSent(t, cfg) /\ KeepsChoice(c, t)
    /\ m.typ = "finished" /\ m.verify[2] = c.master /\ m.verify[3] = c.hash.sum

\* The last lines of Handshake.
LEMMA CompleteParts ==
  ASSUME NEW s, IsEnd(s), s.pc # "panic"
  PROVE  LET t == complete(s) IN
         /\ IsEnd(t) /\ t.pc = "done" /\ KeepsChoice(s, t) /\ Stream(t) = Stream(s) /\ t.session = s.session /\ t.in = s.in
         /\ t.out = s.out /\ t.hash = s.hash /\ t.sendBuf = s.sendBuf /\ t.buffering = s.buffering /\ t.peer = s.peer
<1> DEFINE t == [s EXCEPT !.pc = "done", !.didResume = s.isResume]
<1>0. DOMAIN s = EndFields
  BY DEF IsEnd
<1>1. complete(s) = t
  BY DEF complete
<1>2. /\ DOMAIN t = EndFields /\ t.pc = "done" /\ t.session = s.session /\ t.in = s.in /\ t.out = s.out /\ t.hash = s.hash
      /\ t.net = s.net /\ t.sendBuf = s.sendBuf /\ t.stage = s.stage /\ t.buffering = s.buffering /\ t.peer = s.peer
      /\ KeepsChoice(s, t)
  BY <1>0 DEF EndFields, KeepsChoice
<1> HIDE DEF t
<1>3. IsEnd(t) /\ Stream(t) = Stream(s)
  BY <1>2, EndFrom DEF IsEnd, KeepsChoice
<1> QED
  BY <1>1, <1>2, <1>3

\* A panic while the Finished is read.
LEMMA CPanic ==
  ASSUME NEW c, NEW cfg, CInv(c, cfg), c.pc = "finished"
  PROVE  CStep(c, panic(c), cfg)
<1> DEFINE t == panic(c)
<1>1. IsEnd(c) /\ c.isResume \in BOOLEAN
  BY DEF CInv, IsEnd
<1>2. IsEnd(t) /\ Flushed(t) /\ t.pc = "panic" /\ KeepsChoice(c, t) /\ Stream(t) = Stream(c)
  BY <1>1, PanicParts
<1> HIDE DEF t
<1>3. CEarly(t, cfg) /\ CLate(t) /\ CSession(t)
  BY <1>2 DEF CEarly, CLate, CSession, Over, ClientPcs
<1>4. CSent(c, cfg) => CSent(t, cfg)
  <2>1. CASE c.isResume = TRUE
    BY <2>1, CNotYet
  <2>2. CASE c.isResume = FALSE
    BY <1>2, <2>2, CSentKept
  <2> QED
    BY <1>1, <2>1, <2>2
<1>5. CStream(t, cfg)
  BY <1>2, <1>4, CStreamKept DEF KeepsNames, KeepsChoice
<1>6. CStep(c, t, cfg)
  BY <1>2, <1>3, <1>4, <1>5 DEF CStep, CInv, ClientPcs, Over
<1> QED
  BY <1>6 DEF t

\* The server's Finished, at the end of a full handshake and in a resumed one.
LEMMA ClientReadFinishedStep ==
  ASSUME NEW c, CInv(c, ccfg), c.pc = "finished", NEW m
  PROVE  CStep(c, clientOnFinished(c, m), ccfg) \/ CDone(c, clientOnFinished(c, m), m, ccfg)
<1> DEFINE heard == [c EXCEPT !.hash = hashWrite(@, <<m>>)]
           e == clientSendFinished(heard, ccfg)
           f == flush(e)
           good == m.typ = "finished" /\ m.verify = verifyData("server", c.hash, c.master)
           T == clientOnFinished(c, m)
<1>0. /\ IsEnd(c) /\ DOMAIN c = EndFields /\ IsHash(c.hash) /\ CGreeted(c, ccfg) /\ CChosen(c, ccfg) /\ CLate(c)
      /\ Shape(c.hash.sum, c) /\ c.sendBuf = <<>> /\ c.isResume \in BOOLEAN /\ c.buffering \in BOOLEAN
  BY DEF CInv, IsEnd, CEarly, CLate, ClientPcs, Over, Flushed
<1>1. \/ \E alert : T = abort(c, alert)
      \/ T = panic(c)
      \/ good /\ T = IF c.isResume THEN complete(f) ELSE complete(heard)
  <2>1. Then(Then(e, flush), complete) = complete(f)
    <3>1. Then(e, flush) = f
      BY ThenIs
    <3>2. Then(f, complete) = complete(f)
      BY ThenIs
    <3> QED
      BY <3>1, <3>2
  <2>2. CASE c.gm
    <3>1. T = clientReadFinishedGM(c, ccfg, m)
      BY <2>2 DEF clientOnFinished
    <3> HIDE DEF heard, e, f, T
    <3>2. T = IF m.typ # "finished" THEN abort(c, "unexpected_message")
              ELSE IF m.verify # verifyData("server", c.hash, c.master) THEN abort(c, "handshake_failure")
              ELSE IF c.isResume THEN complete(f) ELSE complete(heard)
      BY <2>1, <3>1 DEF clientReadFinishedGM, clientSendFinishedGM, heard, e
    <3> QED
      BY <3>2
  <2>3. CASE ~c.gm
    <3>1. T = clientReadFinished(c, ccfg, m)
      BY <2>3 DEF clientOnFinished
    <3>2. T = CASE m.typ # "finished" -> abort(c, "unexpected_message")
                [] m.typ = "finished" /\ hashSumPanics(c.hash) -> panic(c)
                [] OTHER -> IF m.verify # verifyData("server", c.hash, c.master) THEN abort(c, "handshake_failure")
                            ELSE IF c.isResume THEN complete(f) ELSE complete(heard)
      BY <2>1, <3>1 DEF clientReadFinished
    <3> HIDE DEF heard, e, f, T
    <3>3. CASE m.typ # "finished"
      BY <3>2, <3>3
    <3>4. CASE m.typ = "finished" /\ hashSumPanics(c.hash)
      BY <3>2, <3>4
    <3>5. CASE m.typ = "finished" /\ ~hashSumPanics(c.hash)
      BY <3>2, <3>5
    <3> QED
      BY <3>3, <3>4, <3>5
  <2> QED
    BY <2>2, <2>3
<1>2. CASE \E alert : T = abort(c, alert)
  BY <1>2, CAbort
<1>3. CASE T = panic(c)
  BY <1>3, CPanic
<1>4. CASE good /\ T = IF c.isResume THEN complete(f) ELSE complete(heard)
  <2>1. m.typ = "finished" /\ m.verify[2] = c.master /\ m.verify[3] = c.hash.sum
    BY <1>4 DEF verifyData
  <2>2. IsSequence(<<m>>) /\ Range(<<m>>) = {m}
    BY OneParts
  <2>3. IsHash(hashWrite(c.hash, <<m>>)) /\ hashWrite(c.hash, <<m>>).sum = c.hash.sum \o <<m>>
    BY <1>0, <2>2, HashParts
  <2>4. Shape(c.hash.sum \o <<m>>, c)
    BY <1>0, <2>1, <2>2, ShapeGrows DEF IsHash
  <2>5. /\ DOMAIN heard = EndFields /\ heard.hash = hashWrite(c.hash, <<m>>) /\ heard.pc = "finished"
        /\ heard.session = c.session /\ heard.net = c.net /\ heard.sendBuf = c.sendBuf /\ heard.in = c.in
        /\ heard.out = c.out /\ heard.stage = c.stage /\ heard.buffering = c.buffering /\ KeepsChoice(c, heard)
    BY <1>0 DEF EndFields, KeepsChoice
  <2> HIDE DEF heard, T
  <2>6. IsEnd(heard) /\ Stream(heard) = Stream(c)
    BY <1>0, <2>3, <2>5, EndFrom DEF IsEnd, KeepsChoice
  <2>7. Shape(heard.hash.sum, heard)
    BY <2>3, <2>4, <2>5 DEF Shape, KeepsChoice
  <2>8. CASE c.isResume = FALSE
    <3> DEFINE t == complete(heard)
    <3>1. /\ IsEnd(t) /\ t.pc = "done" /\ KeepsChoice(heard, t) /\ Stream(t) = Stream(heard) /\ t.session = heard.session
          /\ t.in = heard.in /\ t.out = heard.out /\ t.hash = heard.hash /\ t.sendBuf = heard.sendBuf /\ t.buffering = heard.buffering
      BY <2>5, <2>6, CompleteParts
    <3>2. T = t
      BY <1>4, <2>8
    <3> HIDE DEF t
    <3>3. KeepsChoice(c, t) /\ KeepsNames(c, t) /\ t.in = c.in /\ t.sendBuf = <<>> /\ t.session = c.session
      BY <1>0, <2>5, <3>1 DEF KeepsChoice, KeepsNames
    <3>4. t.buffering = FALSE
      BY <1>0, <2>5, <2>8, <3>1 DEF CLate
    <3>5. CSent(c, ccfg) => CSent(t, ccfg)
      BY <2>8, <3>1, <3>3, CSentKept
    <3>6. CEarly(t, ccfg) /\ Flushed(t) /\ CSession(t)
      BY <1>0, <3>1, <3>3 DEF CEarly, Flushed, CSession, KeepsChoice, CGreeted, CChosen, Over
    <3>7. CLate(t)
      BY <1>0, <2>7, <3>1, <3>3, <3>4 DEF CLate, KeepsChoice, Shape, Bound, KeyOf, cr, sr
    <3>8. CStream(t, ccfg)
      BY <2>6, <3>1, <3>3, <3>5, CStreamKept
    <3>9. CDone(c, T, m, ccfg)
      BY <2>1, <3>1, <3>2, <3>3, <3>5, <3>6, <3>7, <3>8 DEF CDone, CInv, ClientPcs, Over
    <3> QED
      BY <3>9 DEF T
  <2>9. CASE c.isResume = TRUE
    <3>0. heard.pc # "panic" /\ heard.isResume = TRUE /\ heard.buffering \in BOOLEAN
      BY <1>0, <2>5, <2>9 DEF KeepsChoice
    <3>1. /\ SendsFinished(heard, e)
          /\ ~heard.sh.npn => e.proto = heard.proto
          /\ \A r \in Stream(e) : \/ r \in Stream(heard)
                                  \/ r.msg.typ \in {"ccs", "nextProto"}
                                  \/ e.pc # "panic" /\ r.msg.typ = "finished" /\ FinishedOf(heard, r.msg.verify)
      BY <2>6, <2>7, <3>0, ClientSendFinishedParts
    <3> HIDE DEF e
    <3>2. /\ IsEnd(e) /\ e.pc \in {"finished", "panic"} /\ e.in = c.in /\ e.session = c.session /\ KeepsNames(c, e)
          /\ e.out.cipher = c.out.nextCipher /\ e.buffering = heard.buffering
          /\ heard.buffering = TRUE => e.sendBuf # <<>>
          /\ e.pc # "panic" => Shape(e.hash.sum, e)
      BY <2>5, <3>1 DEF SendsFinished, KeepsNames, KeepsChoice
    <3>3. /\ IsEnd(f) /\ Keeps(e, f) /\ f.out = e.out /\ f.hash = e.hash /\ Writes(e, f, {}) /\ f.sendBuf = <<>>
          /\ e.buffering = FALSE \/ e.sendBuf # <<>> => f.buffering = FALSE
      BY <3>2, FlushParts
    <3> HIDE DEF f
    <3>4. f.buffering = FALSE
      BY <3>0, <3>2, <3>3
    <3>5. ~CSent(c, ccfg) /\ CNoFinished(c) /\ \A r \in Stream(c) : r.msg.typ = "clientHello" => HelloOk(r.msg)
      BY <2>9, CNotYet DEF CInv, CStream
    <3>6. \A r \in Stream(f) : /\ r.msg.typ = "clientHello" => HelloOk(r.msg)
                               /\ r.msg.typ = "finished" => f.pc # "panic" /\ FinishedOf(heard, r.msg.verify)
      <4> SUFFICES ASSUME NEW r \in Stream(f)
                   PROVE  /\ r.msg.typ = "clientHello" => HelloOk(r.msg)
                          /\ r.msg.typ = "finished" => f.pc # "panic" /\ FinishedOf(heard, r.msg.verify)
        OBVIOUS
      <4>1. \/ r \in Stream(c)
            \/ r.msg.typ \in {"ccs", "nextProto"}
            \/ e.pc # "panic" /\ r.msg.typ = "finished" /\ FinishedOf(heard, r.msg.verify)
        BY <2>6, <3>1, <3>3 DEF Writes
      <4> QED
        BY <3>3, <3>5, <4>1 DEF CNoFinished, Keeps
    <3>7. CASE f.pc = "panic"
      <4>1. T = f
        BY <1>4, <2>9, <3>7 DEF complete
      <4>2. CEarly(f, ccfg) /\ CLate(f) /\ CSession(f) /\ Flushed(f)
        BY <3>7 DEF CEarly, CLate, CSession, Flushed, Over, ClientPcs
      <4>3. CStream(f, ccfg)
        BY <3>6, <3>7 DEF CStream
      <4>4. CStep(c, T, ccfg)
        BY <3>3, <3>5, <3>7, <4>1, <4>2, <4>3 DEF CStep, CInv, ClientPcs, Over
      <4> QED
        BY <4>4 DEF T
    <3>8. CASE f.pc # "panic"
      <4> DEFINE t == complete(f)
      <4>1. /\ IsEnd(t) /\ t.pc = "done" /\ KeepsChoice(f, t) /\ Stream(t) = Stream(f) /\ t.session = f.session
            /\ t.in = f.in /\ t.out = f.out /\ t.hash = f.hash /\ t.sendBuf = f.sendBuf /\ t.buffering = f.buffering
        BY <3>3, <3>8, CompleteParts
      <4>2. T = t
        BY <1>4, <2>9
      <4> HIDE DEF t
      <4>3. /\ KeepsNames(c, t) /\ t.in = c.in /\ t.sendBuf = <<>> /\ t.session = c.session /\ t.buffering = FALSE
            /\ t.out.cipher = c.out.nextCipher
        BY <3>2, <3>3, <3>4, <4>1 DEF KeepsChoice, KeepsNames, Keeps
      <4>4. ~c.sh.npn => t.proto = c.proto
        BY <2>5, <3>1, <3>3, <4>1 DEF KeepsChoice, Keeps
      <4>5. CGreeted(t, ccfg) /\ CChosen(t, ccfg)
        BY <1>0, <4>3, <4>4 DEF KeepsNames, CGreeted, CChosen
      <4>6. Bound(t) /\ KeyOf("c", t) = KeyOf("c", c) /\ KeyOf("s", t) = KeyOf("s", c)
        BY <1>0, <4>3 DEF CLate, Bound, KeepsNames, KeyOf, cr, sr
      <4>7. t.in.cipher = KeyOf("s", t) /\ t.out.cipher = KeyOf("c", t)
        BY <1>0, <2>9, <4>3, <4>6 DEF CLate
      <4>8. CSent(t, ccfg)
        BY <2>9, <4>1, <4>3, <4>5, <4>6, <4>7 DEF CSent, KeepsNames
      <4>9. CEarly(t, ccfg) /\ Flushed(t) /\ CSession(t)
        BY <4>1, <4>3, <4>5 DEF CEarly, Flushed, CSession, Over
      <4>10. Shape(t.hash.sum, t)
        BY <3>2, <3>3, <3>8, <4>1 DEF Shape, KeepsChoice, Keeps
      <4>11. CLate(t)
        BY <4>1, <4>3, <4>6, <4>7, <4>10 DEF CLate
      <4>12. ASSUME NEW v PROVE FinishedOf(heard, v) => FinishedOf(t, v)
        BY <2>5, <4>3 DEF FinishedOf, Shape, KeepsNames, KeepsChoice
      <4>13. CStream(t, ccfg)
        BY <3>6, <4>1, <4>8, <4>12 DEF CStream
      <4>14. CDone(c, T, m, ccfg)
        BY <2>1, <3>5, <4>1, <4>2, <4>3, <4>9, <4>11, <4>13 DEF CDone, CInv, ClientPcs, Over
      <4> QED
        BY <4>14 DEF T
    <3> QED
      BY <3>7, <3>8
  <2> QED
    BY <1>0, <2>8, <2>9
<1> QED
  BY <1>1, <1>2, <1>3, <1>4

----------------------------------------------------------------------------
(* The suite a server selects.                                              *)

\* A non-empty set of natural numbers has a smallest element.
LEMMA Least ==
  ASSUME NEW S \in SUBSET Nat, S # {}
  PROVE  Min(S) \in S
<1> DEFINE R == {ss \in Nat \X Nat : ss[1] < ss[2]}
<1>1. IsWellFoundedOn(R, Nat)
  BY NatLessThanWellFounded DEF OpToRel
<1>2. PICK m \in S : \A n \in S : ~(<<n, m>> \in R)
  BY <1>1, WFMin
<1>3. ASSUME NEW n \in S PROVE m <= n
  <2>1. <<n, m>> \in Nat \X Nat /\ <<n, m>>[1] = n /\ <<n, m>>[2] = m
    OBVIOUS
  <2> QED
    BY <1>2, <2>1
<1> QED
  BY <1>3 DEF Min

\* A suite that is selected is one of the package's, of the right kind.
LEMMA SelectedSuite ==
  ASSUME NEW cfg, NEW ch, NEW vers
  PROVE  /\ selectCipherSuite(cfg, ch, vers) = "none" \/ selectCipherSuite(cfg, ch, vers) \in DOMAIN cipherSuites
         /\ selectCipherSuiteGM(cfg, ch) = "none" \/ selectCipherSuiteGM(cfg, ch) \in DOMAIN gmCipherSuites
<1> DEFINE ours == configCipherSuites(cfg)
           oursGM == getCipherSuites(cfg)
           theirs == ch.suites
           a == FirstUsable(ours, LAMBDA id : setCipherSuite(cfg, id, theirs, vers))
           b == FirstUsable(theirs, LAMBDA id : setCipherSuite(cfg, id, ours, vers))
           d == FirstUsable(oursGM, LAMBDA id : setCipherSuiteGM(id, theirs))
           e == FirstUsable(theirs, LAMBDA id : setCipherSuiteGM(id, oursGM))
<1>1. selectCipherSuite(cfg, ch, vers) = IF cfg.prefer THEN a ELSE b
  BY DEF selectCipherSuite
<1>2. selectCipherSuiteGM(cfg, ch) = IF cfg.prefer THEN d ELSE e
  BY DEF selectCipherSuiteGM
<1> HIDE DEF ours, oursGM, theirs
<1>3. a = "none" \/ setCipherSuite(cfg, a, theirs, vers)
  <2> DEFINE I == {i \in 1..Len(ours) : setCipherSuite(cfg, ours[i], theirs, vers)}
             k == IF I # {} THEN Min(I) ELSE 0
  <2>1. a = IF k = 0 THEN "none" ELSE ours[k]
    BY DEF FirstUsable, SelectInSeq
  <2>2. I \in SUBSET Nat
    OBVIOUS
  <2>3. k = 0 \/ k \in I
    <3> HIDE DEF I
    <3> QED
      BY <2>2, Least
  <2> HIDE DEF k, a
  <2> QED
    BY <2>1, <2>3
<1>4. b = "none" \/ setCipherSuite(cfg, b, ours, vers)
  <2> DEFINE I == {i \in 1..Len(theirs) : setCipherSuite(cfg, theirs[i], ours, vers)}
             k == IF I # {} THEN Min(I) ELSE 0
  <2>1. b = IF k = 0 THEN "none" ELSE theirs[k]
    BY DEF FirstUsable, SelectInSeq
  <2>2. I \in SUBSET Nat
    OBVIOUS
  <2>3. k = 0 \/ k \in I
    <3> HIDE DEF I
    <3> QED
      BY <2>2, Least
  <2> HIDE DEF k, b
  <2> QED
    BY <2>1, <2>3
<1>5. d = "none" \/ setCipherSuiteGM(d, theirs)
  <2> DEFINE I == {i \in 1..Len(oursGM) : setCipherSuiteGM(oursGM[i], theirs)}
             k == IF I # {} THEN Min(I) ELSE 0
  <2>1. d = IF k = 0 THEN "none" ELSE oursGM[k]
    BY DEF FirstUsable, SelectInSeq
  <2>2. I \in SUBSET Nat
    OBVIOUS
  <2>3. k = 0 \/ k \in I
    <3> HIDE DEF I
    <3> QED
      BY <2>2, Least
  <2> HIDE DEF k, d
  <2> QED
    BY <2>1, <2>3
<1>6. e = "none" \/ setCipherSuiteGM(e, oursGM)
  <2> DEFINE I == {i \in 1..Len(theirs) : setCipherSuiteGM(theirs[i], oursGM)}
             k == IF I # {} THEN Min(I) ELSE 0
  <2>1. e = IF k = 0 THEN "none" ELSE theirs[k]
    BY DEF FirstUsable, SelectInSeq
  <2>2. I \in SUBSET Nat
    OBVIOUS
  <2>3. k = 0 \/ k \in I
    <3> HIDE DEF I
    <3> QED
      BY <2>2, Least
  <2> HIDE DEF k, e
  <2> QED
    BY <2>1, <2>3
<1> HIDE DEF a, b, d, e
<1> QED
  BY <1>3, <1>4, <1>5, <1>6, <1>1, <1>2 DEF setCipherSuite, setCipherSuiteGM

----------------------------------------------------------------------------
(* The server's steps.                                                      *)

SStep(s, t, cfg) ==
    /\ SInv(t, cfg) /\ t.pc # "done"
    /\ SSent(s, cfg) => SSent(t, cfg) /\ KeepsNames(s, t) /\ t.out.cipher = s.out.cipher

SNoFinished(s) == \A r \in Stream(s) : r.msg.typ # "finished"

\* A server that has sent its Finished still has, after a step that keeps what was
\* chosen.
LEMMA SSentKept ==
  ASSUME NEW s, NEW t, NEW cfg, SSent(s, cfg), KeepsNames(s, t), t.out.cipher = s.out.cipher,
         ~s.sh.npn => t.proto = s.proto,
         t.pc = s.pc \/ t.pc = "failed" \/ (s.isResume = TRUE /\ t.pc \in {"nextProto", "finished", "done", "panic"})
  PROVE  SSent(t, cfg)
<1>1. SChosen(t, cfg) /\ Bound(t)
  BY DEF SSent, KeepsNames, SChosen, Bound
<1>2. t.out.cipher = KeyOf("s", t)
  BY DEF SSent, KeepsNames, KeyOf, cr, sr
<1> QED
  BY <1>1, <1>2 DEF SSent, KeepsNames

\* Before the server has sent its Finished there is none in its stream.
LEMMA SNotYet ==
  ASSUME NEW s, NEW cfg, SInv(s, cfg),
         \/ s.pc \in {"clientHello", "clientCertificate", "clientKeyExchange", "certificateVerify"}
         \/ s.isResume = FALSE /\ s.pc \in {"ccs", "nextProto", "finished"}
  PROVE  ~SSent(s, cfg) /\ SNoFinished(s)
<1>1. s.isResume \in BOOLEAN
  BY DEF SInv, IsEnd
<1>2. s.pc \in {"clientHello", "clientCertificate", "clientKeyExchange", "certificateVerify"} => s.isResume = FALSE
  BY <1>1 DEF SInv, SEarly
<1>3. ~SSent(s, cfg)
  BY <1>1, <1>2 DEF SSent
<1> QED
  BY <1>3 DEF SInv, SStream, SNoFinished

\* A step that writes nothing but alerts keeps what was said of the stream.
LEMMA SStreamKept ==
  ASSUME NEW s, NEW cfg, SInv(s, cfg), NEW t, KeepsNames(s, t), SSent(s, cfg) => SSent(t, cfg),
         \A r \in Stream(t) : r \in Stream(s) \/ r.msg.typ = "alert"
  PROVE  SStream(t, cfg)
<1>1. ASSUME NEW v PROVE FinishedOf(s, v) /\ Tickets(v[3], s) => FinishedOf(t, v) /\ Tickets(v[3], t)
  BY DEF FinishedOf, Shape, Tickets, TicketFor, KeepsNames
<1> QED
  BY <1>1 DEF SStream, SInv

\* A server step that ends in an alert and writes nothing else keeps the invariant.
LEMMA SAborts ==
  ASSUME NEW s, NEW cfg, SInv(s, cfg), NEW t,
         IsEnd(t), Flushed(t), t.pc = "failed", KeepsChoice(s, t),
         \A r \in Stream(t) : r \in Stream(s) \/ r.msg.typ = "alert"
  PROVE  SStep(s, t, cfg)
<1>0. KeepsNames(s, t) /\ t.proto = s.proto /\ t.out.cipher = s.out.cipher
  BY DEF KeepsNames, KeepsChoice
<1>1. SSent(s, cfg) => SSent(t, cfg)
  BY <1>0, SSentKept
<1>2. SEarly(t, cfg) /\ SLate(t)
  BY DEF SEarly, SLate, Over, ServerPcs
<1>3. SStream(t, cfg)
  BY <1>0, <1>1, SStreamKept
<1> QED
  BY <1>0, <1>1, <1>2, <1>3 DEF SStep, SInv, ServerPcs, Over

\* A server may fail with any alert at any point.
LEMMA SAbort ==
  ASSUME NEW s, NEW cfg, SInv(s, cfg), NEW alert
  PROVE  SStep(s, abort(s, alert), cfg)
<1>1. IsEnd(s)
  BY DEF SInv
<1> DEFINE t == abort(s, alert)
<1>2. /\ IsEnd(t) /\ Flushed(t) /\ t.pc = "failed" /\ KeepsChoice(s, t)
      /\ \A r \in Stream(t) : r \in Stream(s) \/ r.msg.typ = "alert"
  BY <1>1, AbortParts
<1> HIDE DEF t
<1> QED
  BY <1>2, SAborts DEF t

\* A step that ends the handshake before the server has sent its Finished.
LEMMA SEndsEarly ==
  ASSUME NEW s, NEW cfg, SInv(s, cfg), ~SSent(s, cfg), NEW t, IsEnd(t), Flushed(t), t.pc \in {"failed", "panic"},
         SNoFinished(t)
  PROVE  SStep(s, t, cfg)
<1>1. SEarly(t, cfg) /\ SLate(t)
  BY DEF SEarly, SLate, Over, ServerPcs
<1>2. SStream(t, cfg)
  BY DEF SStream, SNoFinished
<1> QED
  BY <1>1, <1>2 DEF SStep, SInv, ServerPcs, Over

\* A server that fails halfway through a step, before it has sent a Finished.
LEMMA SAbortEarly ==
  ASSUME NEW s, NEW cfg, SInv(s, cfg), ~SSent(s, cfg), NEW b, IsEnd(b), SNoFinished(b), NEW alert
  PROVE  SStep(s, abort(b, alert), cfg)
<1> DEFINE t == abort(b, alert)
<1>1. /\ IsEnd(t) /\ Flushed(t) /\ t.pc = "failed"
      /\ \A r \in Stream(t) : r \in Stream(b) \/ r.msg.typ = "alert"
  BY AbortParts
<1> HIDE DEF t
<1>2. SNoFinished(t)
  BY <1>1 DEF SNoFinished
<1> QED
  BY <1>1, <1>2, SEndsEarly DEF t

\* The same for a panic.
LEMMA SPanicEarly ==
  ASSUME NEW s, NEW cfg, SInv(s, cfg), ~SSent(s, cfg), NEW b, IsEnd(b), SNoFinished(b)
  PROVE  SStep(s, panic(b), cfg)
<1> DEFINE t == panic(b)
<1>1. IsEnd(t) /\ Flushed(t) /\ t.pc = "panic" /\ Stream(t) = Stream(b)
  BY PanicParts
<1> HIDE DEF t
<1>2. SNoFinished(t)
  BY <1>1 DEF SNoFinished
<1> QED
  BY <1>1, <1>2, SEndsEarly DEF t

\* establishKeys of the server puts the keys of both directions in wait.
LEMMA ServerKeysParts ==
  ASSUME NEW s, IsEnd(s)
  PROVE  LET t == serverEstablishKeys(s) IN
         /\ IsEnd(t) /\ Stream(t) = Stream(s) /\ t.pc = s.pc /\ KeepsChoice(s, t) /\ t.peer = s.peer
         /\ t.session = s.session /\ t.hash = s.hash /\ t.sendBuf = s.sendBuf /\ t.buffering = s.buffering
         /\ t.in.nextCipher = KeyOf("c", t) /\ t.out.nextCipher = KeyOf("s", t)
<1> DEFINE k(d) == keysFromMasterSecret(d, s.vers, s.suite, s.master, cr(s), sr(s))
           t == [s EXCEPT !.in = prepareCipherSpec(@, k("c")), !.out = prepareCipherSpec(@, k("s"))]
<1>0. DOMAIN s = EndFields /\ IsHalf(s.in) /\ IsHalf(s.out)
  BY DEF IsEnd
<1>1. serverEstablishKeys(s) = t
  BY DEF serverEstablishKeys
<1> HIDE DEF k
<1>2. /\ DOMAIN t = EndFields /\ t.in = prepareCipherSpec(s.in, k("c")) /\ t.out = prepareCipherSpec(s.out, k("s"))
      /\ t.pc = s.pc /\ t.session = s.session /\ t.hash = s.hash /\ t.sendBuf = s.sendBuf /\ t.buffering = s.buffering
      /\ t.net = s.net /\ t.stage = s.stage /\ t.peer = s.peer
      /\ t.vers = s.vers /\ t.gm = s.gm /\ t.ch = s.ch /\ t.sh = s.sh /\ t.suite = s.suite
      /\ t.master = s.master /\ t.isResume = s.isResume /\ t.proto = s.proto
  BY <1>0 DEF EndFields
<1> HIDE DEF t
<1>3. /\ IsHalf(t.in) /\ IsHalf(t.out) /\ t.in.nextCipher = k("c") /\ t.out.nextCipher = k("s")
      /\ t.out.cipher = s.out.cipher
  BY <1>0, <1>2 DEF prepareCipherSpec, IsHalf
<1>4. IsEnd(t) /\ Stream(t) = Stream(s)
  BY <1>2, <1>3, EndFrom DEF IsEnd
<1>5. KeyOf("c", t) = k("c") /\ KeyOf("s", t) = k("s")
  BY <1>2 DEF KeyOf, k, cr, sr
<1> QED
  BY <1>1, <1>2, <1>3, <1>4, <1>5 DEF KeepsChoice

\* A new ticket says what the server has settled on.
LEMMA SessionTicketParts ==
  ASSUME NEW s, IsEnd(s), Bound(s), Shape(s.hash.sum, s), Tickets(s.hash.sum, s)
  PROVE  LET t == sendSessionTicket(s) IN
         /\ IsEnd(t) /\ Keeps(s, t) /\ t.buffering = s.buffering
         /\ t.out.cipher = s.out.cipher /\ t.out.nextCipher = s.out.nextCipher
         /\ s.buffering = FALSE => t.sendBuf = s.sendBuf
         /\ Shape(t.hash.sum, t) /\ Tickets(t.hash.sum, t)
         /\ \A r \in Stream(t) : r \in Stream(s) \/ r.msg.typ = "newSessionTicket"
<1> DEFINE st == [vers |-> s.vers, suite |-> s.suite, master |-> s.master, certs |-> s.peer]
           k == encryptTicket(keys, st)
           m == [typ |-> "newSessionTicket", ticket |-> k]
           t == sendMessages(s, <<m>>)
<1>0. IsHash(s.hash) /\ IsSequence(s.hash.sum) /\ s.isResume \in BOOLEAN
  BY DEF IsEnd, IsHash
<1>1. CASE ~s.sh.ticketSupported
  <2>1. sendSessionTicket(s) = s
    BY <1>1 DEF sendSessionTicket
  <2> QED
    BY <2>1 DEF Keeps
<1>2. CASE s.sh.ticketSupported
  <2>1. sendSessionTicket(s) = t
    BY <1>2 DEF sendSessionTicket
  <2>2. st.vers = s.vers /\ st.suite = s.suite /\ st.master = s.master
    OBVIOUS
  <2> HIDE DEF st
  <2>3. DOMAIN k = {"key", "state", "intact"} /\ k.state = st /\ k.intact = TRUE
    BY DEF encryptTicket
  <2> HIDE DEF k
  <2>4. TicketFor(k, s)
    BY <2>2, <2>3 DEF TicketFor, IsTicket, Bound
  <2>5. m.typ = "newSessionTicket" /\ m.ticket = k /\ "typ" \in DOMAIN m
    OBVIOUS
  <2> HIDE DEF m
  <2>6. IsMessages(<<m>>, "hs") /\ Range(<<m>>) = {m} /\ IsSequence(<<m>>)
    BY <2>5, OneParts DEF IsMessages
  <2>7. /\ IsEnd(t) /\ Keeps(s, t) /\ t.hash.sum = s.hash.sum \o <<m>> /\ t.buffering = s.buffering
        /\ Writes(s, t, Range(<<m>>)) /\ t.out.cipher = s.out.cipher /\ t.out.nextCipher = s.out.nextCipher
        /\ s.buffering = FALSE => t.sendBuf = s.sendBuf
    BY <2>6, SendMessagesParts
  <2> HIDE DEF t
  <2>8. Shape(s.hash.sum \o <<m>>, s)
    BY <1>0, <2>5, <2>6, ShapeGrows
  <2>9. Tickets(s.hash.sum \o <<m>>, s)
    BY <1>0, <2>4, <2>5, <2>6, TicketsGrow
  <2>10. Shape(t.hash.sum, t) /\ Tickets(t.hash.sum, t)
    <3>1. /\ t.hash.sum = s.hash.sum \o <<m>> /\ t.ch = s.ch /\ t.sh = s.sh /\ t.isResume = s.isResume
          /\ t.vers = s.vers /\ t.suite = s.suite /\ t.master = s.master
      BY <2>7 DEF Keeps
    <3>2. Shape(t.hash.sum, t)
      BY <2>8, <3>1, ShapeKept
    <3>3. Tickets(t.hash.sum, t)
      BY <2>9, <3>1 DEF Tickets, TicketFor
    <3> QED
      BY <3>2, <3>3
  <2>11. \A r \in Stream(t) : r \in Stream(s) \/ r.msg.typ = "newSessionTicket"
    BY <2>5, <2>6, <2>7 DEF Writes
  <2> QED
    BY <2>1, <2>7, <2>10, <2>11
<1> QED
  BY <1>1, <1>2

\* sendFinished of the server: at most a ChangeCipherSpec and a Finished over its own
\* transcript are written.
LEMMA ServerSendFinishedParts ==
  ASSUME NEW s, IsEnd(s), s.pc # "panic", Shape(s.hash.sum, s)
  PROVE  LET t == serverSendFinished(s) IN
         /\ SendsFinished(s, t) /\ t.proto = s.proto
         /\ \A r \in Stream(t) : \/ r \in Stream(s)
                                 \/ r.msg.typ = "ccs"
                                 \/ /\ t.pc # "panic" /\ r.msg.typ = "finished"
                                    /\ r.msg.verify[2] = s.master /\ r.msg.verify[3] = s.hash.sum
<1> DEFINE ccs == [typ |-> "ccs"]
           fin == [typ |-> "finished", verify |-> verifyData("server", s.hash, s.master)]
           w == writeRecords(s, "ccs", <<ccs>>)
           f == sendMessages(w, <<fin>>)
           t == serverSendFinished(s)
<1>0. IsHash(s.hash) /\ IsSequence(s.hash.sum) /\ s.isResume \in BOOLEAN
  BY DEF IsEnd, IsHash
<1>1. t = IF hashSumPanics(s.hash) THEN panic(w) ELSE f
  <2>1. Then(w, LAMBDA x : sendMessages(x, <<fin>>)) = f
    BY ThenIs
  <2> QED
    BY <2>1 DEF serverSendFinished
<1> HIDE DEF t
<1>2. ccs.typ = "ccs" /\ "typ" \in DOMAIN ccs
  OBVIOUS
<1>3. fin.typ = "finished" /\ "typ" \in DOMAIN fin /\ fin.verify[2] = s.master /\ fin.verify[3] = s.hash.sum
  BY DEF verifyData
<1> HIDE DEF ccs, fin
<1>4. IsMessages(<<ccs>>, "ccs") /\ Range(<<ccs>>) = {ccs} /\ <<ccs>> # <<>>
  BY <1>2, OneParts DEF IsMessages
<1>5. /\ IsEnd(w) /\ Keeps(s, w) /\ w.hash = s.hash /\ w.buffering = s.buffering /\ Writes(s, w, Range(<<ccs>>))
      /\ w.out.cipher = s.out.nextCipher
      /\ s.buffering = TRUE => w.sendBuf # <<>>
      /\ s.buffering = FALSE => w.sendBuf = s.sendBuf
  BY <1>4, WriteRecordsParts
<1> HIDE DEF w
<1>6. \A r \in Stream(w) : r \in Stream(s) \/ r.msg.typ = "ccs"
  BY <1>2, <1>4, <1>5 DEF Writes
<1>7. CASE hashSumPanics(s.hash)
  <2>1. t = panic(w)
    BY <1>1, <1>7
  <2>2. IsEnd(t) /\ t.pc = "panic" /\ KeepsChoice(w, t) /\ Stream(t) = Stream(w)
    BY <1>5, <2>1, PanicParts
  <2>3. t.in = w.in /\ t.session = w.session /\ t.peer = w.peer /\ t.buffering = w.buffering /\ t.sendBuf = w.sendBuf
    <3>1. DOMAIN w = EndFields
      BY <1>5 DEF IsEnd
    <3> QED
      BY <2>1, <3>1 DEF panic, EndFields
  <2>4. SendsFinished(s, t) /\ t.proto = s.proto
    BY <1>5, <2>2, <2>3 DEF SendsFinished, KeepsChoice, Keeps, KeepsNames
  <2> QED
    BY <1>6, <2>2, <2>4 DEF t
<1>8. CASE ~hashSumPanics(s.hash)
  <2>1. IsSequence(<<fin>>) /\ Range(<<fin>>) = {fin} /\ <<fin>> # <<>> /\ IsMessages(<<fin>>, "hs")
    BY <1>3, OneParts DEF IsMessages
  <2>2. /\ IsEnd(f) /\ Keeps(w, f) /\ f.hash.sum = w.hash.sum \o <<fin>> /\ f.buffering = w.buffering
        /\ Writes(w, f, Range(<<fin>>)) /\ f.out.cipher = w.out.cipher
        /\ w.buffering = TRUE => f.sendBuf # <<>>
        /\ w.buffering = FALSE => f.sendBuf = w.sendBuf
    BY <1>5, <2>1, SendMessagesParts
  <2> HIDE DEF f
  <2>3. Shape(s.hash.sum \o <<fin>>, s)
    BY <1>0, <1>3, <2>1, ShapeGrows
  <2>4. KeepsNames(s, f) /\ f.pc = s.pc /\ f.in = s.in /\ f.session = s.session /\ f.peer = s.peer /\ f.proto = s.proto
    BY <1>5, <2>2 DEF KeepsNames, Keeps
  <2>5. Shape(f.hash.sum, f)
    BY <1>5, <2>2, <2>3, <2>4 DEF Shape, KeepsNames
  <2>6. SendsFinished(s, f)
    BY <1>5, <2>2, <2>4, <2>5 DEF SendsFinished
  <2>7. \A r \in Stream(f) : \/ r \in Stream(s)
                             \/ r.msg.typ = "ccs"
                             \/ /\ f.pc # "panic" /\ r.msg.typ = "finished"
                                /\ r.msg.verify[2] = s.master /\ r.msg.verify[3] = s.hash.sum
    BY <1>3, <1>6, <2>1, <2>2, <2>4 DEF Writes
  <2>8. t = f
    BY <1>1, <1>8
  <2> QED
    BY <2>4, <2>6, <2>7, <2>8 DEF t
<1> QED
  BY <1>7, <1>8

ServerHelloFields ==
    {"typ", "vers", "random", "suite", "sid", "ticketSupported", "ocsp", "alpn", "npn", "nextProtos"}

\* x is s once readClientHello has prepared its answer.
Prepared(s, x, cfg) ==
    /\ IsEnd(x) /\ Stream(x) = Stream(s) /\ x.sendBuf = <<>> /\ x.isResume = FALSE /\ x.peer = "none"
    /\ x.ch.typ = "clientHello" /\ HelloOk(x.ch)
    /\ x.vers = mutualVersion(cfg, x.ch.vers)
    /\ DOMAIN x.sh = ServerHelloFields /\ x.sh.typ = "serverHello"
    /\ x.sh.npn => x.ch.npn /\ x.ch.alpn = <<>>
    /\ x.proto = x.sh.alpn

\* A server's flight begins with its hello and its certificates, and has no
\* ticket and no Finished.
Plain(ms) == IsSequence(ms) /\ \A m \in Range(ms) : "typ" \in DOMAIN m /\ m.typ \notin {"newSessionTicket", "finished"}

Flight(ms, sh, cert) == Plain(ms) /\ Len(ms) >= 2 /\ ms[1] = sh /\ ms[2] = cert

\* The flight of a full handshake stays one when plain messages follow.
LEMMA FlightGrows ==
  ASSUME NEW ms, NEW sh, NEW cert, Flight(ms, sh, cert), NEW more, Plain(more)
  PROVE  Flight(ms \o more, sh, cert)
<1>1. /\ IsSequence(ms \o more) /\ Len(ms \o more) = Len(ms) + Len(more)
      /\ \A i \in 1..Len(ms) : (ms \o more)[i] = ms[i]
      /\ Range(ms \o more) = Range(ms) \union Range(more)
  BY ConcatParts DEF Flight, Plain
<1>2. Len(ms) \in Nat /\ Len(more) \in Nat
  BY SequenceParts DEF Flight, Plain
<1>3. Plain(ms \o more)
  BY <1>1 DEF Flight, Plain
<1> QED
  BY <1>1, <1>2, <1>3 DEF Flight

\* One message that is neither a ticket nor a Finished is plain.
LEMMA PlainOne ==
  ASSUME NEW m, "typ" \in DOMAIN m, m.typ \notin {"newSessionTicket", "finished"}
  PROVE  Plain(<<m>>)
BY OneParts DEF Plain

\* No message at all is plain.
LEMMA PlainNone == Plain(<<>>)
BY EmptyParts DEF Plain

\* The server's key exchange, if there is one, is plain.
LEMMA ServerKeyExchangePlain ==
  ASSUME NEW suite \in DOMAIN cipherSuites \union DOMAIN gmCipherSuites, NEW a, NEW b
  PROVE  Plain(generateServerKeyExchange(keyAgreementOf(suite), a, b))
<1> DEFINE ka == keyAgreementOf(suite)
           pub == <<"spub", b>>
           m1 == [typ |-> "serverKeyExchange", pub |-> pub, sig |-> Signature(a, b, pub)]
           m2 == [typ |-> "serverKeyExchange", pub |-> <<"encCert">>, sig |-> Signature(a, b, <<"encCert">>)]
<1>1. ka \in {"rsa", "ecdhe", "ecdheGM", "eccGM"}
  BY DEF keyAgreementOf, cipherSuites, gmCipherSuites
<1> HIDE DEF ka
<1>2. generateServerKeyExchange(ka, a, b) \in {<<>>, <<m1>>, <<m2>>}
  <2>1. CASE ka = "rsa"
    BY <2>1 DEF generateServerKeyExchange
  <2>2. CASE ka = "ecdhe"
    BY <2>2 DEF generateServerKeyExchange, ecdheGenerateServerKeyExchange
  <2>3. CASE ka = "ecdheGM"
    BY <2>3 DEF generateServerKeyExchange, ecdheGMGenerateServerKeyExchange, ecdheGenerateServerKeyExchange
  <2>4. CASE ka = "eccGM"
    BY <2>4 DEF generateServerKeyExchange, eccGMGenerateServerKeyExchange
  <2> QED
    BY <1>1, <2>1, <2>2, <2>3, <2>4
<1>3. m1.typ = "serverKeyExchange" /\ "typ" \in DOMAIN m1 /\ m2.typ = "serverKeyExchange" /\ "typ" \in DOMAIN m2
  OBVIOUS
<1> HIDE DEF m1, m2
<1>4. Plain(<<m1>>) /\ Plain(<<m2>>)
  BY <1>3, PlainOne
<1>5. Plain(generateServerKeyExchange(ka, a, b))
  BY <1>2, <1>4, PlainNone
<1> QED
  BY <1>5 DEF ka

\* The server's flight of a full handshake.
LEMMA ServerFlightStep ==
  ASSUME NEW s, NEW cfg \in ServerConfigs, SInv(s, cfg), s.pc = "clientHello",
         NEW x, Prepared(s, x, cfg), x.buffering = TRUE, x.hash.sum = <<>>, NEW n, NEW suite,
         suite \in IF x.gm THEN DOMAIN gmCipherSuites ELSE DOMAIN cipherSuites,
         suite = IF x.gm THEN selectCipherSuiteGM(cfg, x.ch) ELSE selectCipherSuite(cfg, x.ch, x.vers)
  PROVE  SStep(s, serverFlight(x, cfg, suite, n), cfg)
<1> DEFINE sh == [x.sh EXCEPT !.suite = suite, !.ticketSupported = x.ch.ticketSupported /\ cfg.tickets,
                              !.ocsp = x.ch.ocsp /\ cfg.staple]
           cert == [typ |-> "certificate", n |-> n, trusted |-> cfg.trusted]
           status == [typ |-> "certificateStatus"]
           request == [typ |-> "certificateRequest"]
           over == [typ |-> "serverHelloDone"]
           f0 == <<sh, cert>>
           a1 == IF sh.ocsp THEN <<status>> ELSE <<>>
           f1 == f0 \o a1
           a2 == generateServerKeyExchange(keyAgreementOf(suite), x.ch.random, sh.random)
           f2 == f1 \o a2
           a3 == IF cfg.auth >= RequestClientCert THEN <<request>> ELSE <<>>
           f3 == f2 \o a3
           ms == f3 \o <<over>>
           b == [x EXCEPT !.sh = sh, !.suite = suite, !.hash = hashWrite(@, <<x.ch>>)]
           w == sendMessages(b, ms)
           f == flush(w)
           t == [f EXCEPT !.pc = IF cfg.auth >= RequestClientCert THEN "clientCertificate" ELSE "clientKeyExchange"]
<1>0. IsEnd(x) /\ DOMAIN x = EndFields /\ IsHash(x.hash) /\ DOMAIN x.sh = ServerHelloFields
  BY DEF Prepared, IsEnd
<1>1. serverFlight(x, cfg, suite, n) = t
  <2>1. Then(w, flush) = f
    BY ThenIs
  <2> QED
    BY <2>1 DEF serverFlight
<1>2. /\ DOMAIN sh = ServerHelloFields /\ sh.typ = "serverHello" /\ sh.npn = x.sh.npn /\ sh.alpn = x.sh.alpn
      /\ "typ" \in DOMAIN sh
  BY <1>0 DEF ServerHelloFields, Prepared
<1>3. /\ cert.typ = "certificate" /\ status.typ = "certificateStatus" /\ request.typ = "certificateRequest"
      /\ over.typ = "serverHelloDone"
      /\ "typ" \in DOMAIN cert /\ "typ" \in DOMAIN status /\ "typ" \in DOMAIN request /\ "typ" \in DOMAIN over
  OBVIOUS
<1> HIDE DEF sh, cert, status, request, over
<1>4. Flight(f0, sh, cert)
  BY <1>2, <1>3, TwoParts DEF Flight, Plain
<1>5. Plain(a1) /\ Plain(a3) /\ Plain(<<over>>)
  BY <1>3, PlainOne, PlainNone
<1>6. suite \in DOMAIN cipherSuites \union DOMAIN gmCipherSuites
  OBVIOUS
<1>7. Plain(a2)
  BY <1>6, ServerKeyExchangePlain
<1> HIDE DEF f0, a1, a2, a3
<1>8. Flight(f1, sh, cert)
  BY <1>4, <1>5, FlightGrows
<1> HIDE DEF f1
<1>9. Flight(f2, sh, cert)
  BY <1>7, <1>8, FlightGrows
<1> HIDE DEF f2
<1>10. Flight(f3, sh, cert)
  BY <1>5, <1>9, FlightGrows
<1> HIDE DEF f3
<1>11. Flight(ms, sh, cert)
  BY <1>5, <1>10, FlightGrows
<1> HIDE DEF ms
<1>12. IsMessages(ms, "hs") /\ IsSequence(ms) /\ Len(ms) \in Nat /\ ms # <<>>
  <2>1. IsSequence(ms) /\ Len(ms) \in Nat /\ Len(ms) >= 2
    BY <1>11, SequenceParts DEF Flight, Plain
  <2> QED
    BY <1>11, <2>1, EmptyParts DEF IsMessages, Flight, Plain
<1>13. LET o == <<x.ch>> IN IsSequence(o) /\ Len(o) = 1 /\ o[1] = x.ch /\ Range(o) = {x.ch}
  BY OneParts
<1>14. IsHash(hashWrite(x.hash, <<x.ch>>)) /\ hashWrite(x.hash, <<x.ch>>).sum = <<x.ch>>
  <2> DEFINE o == <<x.ch>>
  <2>1. IsSequence(o)
    BY <1>13
  <2> HIDE DEF o
  <2>2. IsHash(hashWrite(x.hash, o)) /\ hashWrite(x.hash, o).sum = <<>> \o o
    BY <1>0, <2>1, HashParts
  <2>3. <<>> \o o = o
    BY <2>1, ConcatEmptySeq DEF IsSequence
  <2> QED
    BY <2>2, <2>3 DEF o
<1>15. /\ DOMAIN b = EndFields /\ b.sh = sh /\ b.suite = suite /\ b.hash = hashWrite(x.hash, <<x.ch>>) /\ b.ch = x.ch
       /\ b.vers = x.vers /\ b.gm = x.gm /\ b.proto = x.proto /\ b.isResume = FALSE /\ b.peer = x.peer
       /\ b.net = x.net /\ b.sendBuf = x.sendBuf /\ b.in = x.in /\ b.out = x.out /\ b.buffering = TRUE /\ b.stage = x.stage
  BY <1>0 DEF EndFields, Prepared
<1> HIDE DEF b
<1>16. IsEnd(b) /\ Stream(b) = Stream(x)
  BY <1>0, <1>14, <1>15, EndFrom DEF IsEnd
<1>17. /\ IsEnd(w) /\ Keeps(b, w) /\ w.hash.sum = b.hash.sum \o ms /\ w.buffering = b.buffering
       /\ Writes(b, w, Range(ms)) /\ w.sendBuf # <<>>
  BY <1>12, <1>15, <1>16, SendMessagesParts
<1> HIDE DEF w
<1>18. /\ IsEnd(f) /\ Keeps(w, f) /\ f.hash = w.hash /\ Writes(w, f, {}) /\ f.sendBuf = <<>> /\ f.buffering = FALSE
  BY <1>17, FlushParts
<1> HIDE DEF f
<1>19. DOMAIN f = EndFields
  BY <1>18 DEF IsEnd
<1>20. /\ DOMAIN t = EndFields /\ t.pc = (IF cfg.auth >= RequestClientCert THEN "clientCertificate" ELSE "clientKeyExchange")
       /\ KeepsNames(f, t) /\ t.proto = f.proto /\ t.peer = f.peer /\ t.hash = f.hash /\ t.stage = f.stage
       /\ t.net = f.net /\ t.sendBuf = f.sendBuf /\ t.in = f.in /\ t.out = f.out /\ t.buffering = f.buffering
  BY <1>19 DEF EndFields, KeepsNames
<1> HIDE DEF t
<1>21. IsEnd(t) /\ Stream(t) = Stream(f)
  BY <1>18, <1>20, EndFrom DEF IsEnd, KeepsNames
<1>22. /\ t.sh = sh /\ t.suite = suite /\ t.ch = x.ch /\ t.vers = x.vers /\ t.gm = x.gm /\ t.proto = x.proto
       /\ t.isResume = FALSE /\ t.peer = "none" /\ t.hash.sum = <<x.ch>> \o ms /\ t.sendBuf = <<>> /\ t.buffering = FALSE
  <2>1. t.hash.sum = b.hash.sum \o ms
    BY <1>17, <1>18, <1>20
  <2>2. b.hash.sum = <<x.ch>>
    BY <1>14, <1>15
  <2>3. x.peer = "none"
    BY DEF Prepared
  <2>4. t.hash.sum = <<x.ch>> \o ms
    BY <2>1, <2>2
  <2>5. /\ t.sh = sh /\ t.suite = suite /\ t.ch = x.ch /\ t.vers = x.vers /\ t.gm = x.gm /\ t.proto = x.proto
        /\ t.isResume = FALSE /\ t.peer = x.peer /\ t.sendBuf = <<>> /\ t.buffering = FALSE
    BY <1>15, <1>17, <1>18, <1>20 DEF KeepsNames, Keeps
  <2> QED
    BY <2>3, <2>4, <2>5
<1>23. SChosen(t, cfg)
  BY <1>2, <1>22 DEF SChosen, Prepared
<1>24. Shape(t.hash.sum, t) /\ NoTickets(t.hash.sum)
  <2> DEFINE o == <<x.ch>>
             T == o \o ms
  <2>1. IsSequence(o) /\ Len(o) = 1 /\ o[1] = x.ch /\ Range(o) = {x.ch}
    BY <1>13
  <2>2. t.hash.sum = T
    BY <1>22
  <2> HIDE DEF o
  <2>3. /\ Len(T) = 1 + Len(ms) /\ (\A i \in 1..1 : T[i] = o[i]) /\ \A i \in 1..Len(ms) : T[1 + i] = ms[i]
    <3>1. /\ Len(T) = Len(o) + Len(ms) /\ (\A i \in 1..Len(o) : T[i] = o[i])
          /\ \A i \in 1..Len(ms) : T[Len(o) + i] = ms[i]
      <4>1. IsSequence(o) /\ IsSequence(ms)
        BY <1>12, <2>1
      <4> QED
        BY <4>1, ConcatParts
    <3> HIDE DEF T
    <3> QED
      BY <2>1, <3>1
  <2>4. NoTickets(o)
    BY <2>1 DEF NoTickets, Prepared
  <2>5. NoTickets(T)
    BY <1>11, <1>12, <2>1, <2>4, TicketsGrow DEF Flight, Plain
  <2> HIDE DEF T
  <2>6. T[1] = x.ch /\ T[1 + 1] = sh /\ T[1 + 2] = cert /\ Len(T) >= 3
    BY <1>11, <1>12, <2>1, <2>3 DEF Flight
  <2>7. T[1] = x.ch /\ T[2] = sh /\ T[3] = cert /\ Len(T) >= 3 /\ Len(T) >= 2
    <3>1. 1 + 1 = 2 /\ 1 + 2 = 3
      OBVIOUS
    <3> QED
      BY <1>12, <2>3, <2>6, <3>1
  <2> QED
    BY <1>3, <1>22, <2>2, <2>5, <2>7 DEF Shape
<1>25. cfg.auth \in 0..4
  BY ServerConfigKinds DEF NoClientCert, RequireAndVerifyClientCert
<1>26. t.pc = "clientKeyExchange" => AuthOk(cfg, t.peer)
  BY <1>20, <1>22, <1>25 DEF AuthOk, RequestClientCert, RequireAnyClientCert, RequireAndVerifyClientCert, VerifyClientCertIfGiven
<1>27. SEarly(t, cfg)
  BY <1>20, <1>22, <1>23, <1>24, <1>26 DEF SEarly
<1>28. SLate(t) /\ Flushed(t)
  BY <1>20, <1>22 DEF SLate, Flushed
<1>29. ~SSent(s, cfg) /\ SNoFinished(s)
  BY SNotYet
<1>30. SStream(t, cfg)
  <2>1. \A r \in Stream(t) : r \in Stream(s) \/ r.msg \in Range(ms)
    BY <1>16, <1>17, <1>18, <1>21 DEF Writes, Prepared
  <2> QED
    BY <1>11, <1>29, <2>1 DEF SStream, SNoFinished, Flight, Plain
<1> QED
  BY <1>1, <1>20, <1>21, <1>27, <1>28, <1>29, <1>30 DEF SStep, SInv, ServerPcs

\* The GM copies of the resumption are the TLS ones.
LEMMA ResumeCopies ==
  ASSUME NEW x, NEW cfg, NEW d
  PROVE  doResumeHandshakeGM(x, cfg, d) = doResumeHandshake(x, cfg, d)
<1>1. ASSUME NEW g PROVE resumeFlightGM(g, d) = resumeFlight(g, d)
  <2> DEFINE p == [g EXCEPT !.peer = d.state.certs]
  <2>1. Then(p, serverEstablishKeysGM) = serverEstablishKeys(p) /\ Then(p, serverEstablishKeys) = serverEstablishKeys(p)
    <3>1. Then(p, serverEstablishKeysGM) = serverEstablishKeysGM(p) /\ Then(p, serverEstablishKeys) = serverEstablishKeys(p)
      BY ThenIs
    <3> QED
      BY <3>1 DEF serverEstablishKeysGM
  <2> DEFINE k == serverEstablishKeys(p)
  <2>2. Then(k, sendSessionTicketGM) = sendSessionTicket(k) /\ Then(k, sendSessionTicket) = sendSessionTicket(k)
    <3> HIDE DEF k
    <3>1. Then(k, sendSessionTicketGM) = sendSessionTicketGM(k) /\ Then(k, sendSessionTicket) = sendSessionTicket(k)
      BY ThenIs
    <3> QED
      BY <3>1 DEF sendSessionTicketGM
  <2> DEFINE q == sendSessionTicket(k)
  <2>3. Then(q, serverSendFinishedGM) = serverSendFinished(q) /\ Then(q, serverSendFinished) = serverSendFinished(q)
    <3> HIDE DEF q
    <3>1. Then(q, serverSendFinishedGM) = serverSendFinishedGM(q) /\ Then(q, serverSendFinished) = serverSendFinished(q)
      BY ThenIs
    <3> QED
      BY <3>1 DEF serverSendFinishedGM
  <2>4. resumeFlightGM(g, d) = serverSendFinished(q) /\ resumeFlight(g, d) = serverSendFinished(q)
    BY <2>1, <2>2, <2>3 DEF resumeFlightGM, resumeFlight
  <2> QED
    BY <2>4
<1>2. ASSUME NEW g PROVE Then(g, LAMBDA y : resumeFlightGM(y, d)) = Then(g, LAMBDA y : resumeFlight(y, d))
  <2>1. Then(g, LAMBDA y : resumeFlightGM(y, d)) = resumeFlightGM(g, d) /\ Then(g, LAMBDA y : resumeFlight(y, d)) = resumeFlight(g, d)
    BY ThenIs
  <2> QED
    BY <1>1, <2>1
<1> DEFINE sh == [x.sh EXCEPT !.suite = d.state.suite, !.sid = x.ch.sid, !.ticketSupported = d.usedOldKey]
           h == newFinishedHash(x.vers)
           b == [x EXCEPT !.sh = sh, !.suite = sh.suite, !.master = d.state.master,
                          !.isResume = TRUE, !.hash = hashWrite(h, <<x.ch, sh>>)]
           g == writeRecords(b, "hs", <<sh>>)
           v == IF d.state.certs = "none" THEN "ok" ELSE processCertsFromClient(cfg, d.state.certs)
           sent == Then(g, LAMBDA y : resumeFlight(y, d))
           sentGM == Then(g, LAMBDA y : resumeFlightGM(y, d))
<1>3. doResumeHandshake(x, cfg, d)
        = CASE hashWritePanics(h) -> panic(x)
            [] ~hashWritePanics(h) /\ v # "ok" -> abort(g, v)
            [] OTHER -> IF sent.pc = "panic" THEN sent ELSE [Then(sent, flush) EXCEPT !.pc = "ccs"]
  BY DEF doResumeHandshake
<1>4. doResumeHandshakeGM(x, cfg, d)
        = CASE hashWritePanics(h) -> panic(x)
            [] ~hashWritePanics(h) /\ v # "ok" -> abort(g, v)
            [] OTHER -> IF sentGM.pc = "panic" THEN sentGM ELSE [Then(sentGM, flush) EXCEPT !.pc = "ccs"]
  BY DEF doResumeHandshakeGM, processCertsFromClientGM
<1>5. sent = sentGM
  <2> HIDE DEF g
  <2> QED
    BY <1>2
<1> HIDE DEF g, h, v, sent, sentGM
<1> QED
  BY <1>3, <1>4, <1>5

\* An abbreviated handshake, up to the client's ChangeCipherSpec.
LEMMA ResumeStep ==
  ASSUME NEW s, NEW cfg \in ServerConfigs, SInv(s, cfg), s.pc = "clientHello",
         NEW x, Prepared(s, x, cfg), x.buffering = TRUE, x.pc = "clientHello", NEW d,
         Bound(d.state), d.state.vers = x.vers, resumableCerts(cfg, d.state.certs),
         d.state.suite \in IF x.gm THEN DOMAIN gmCipherSuites ELSE DOMAIN cipherSuites
  PROVE  SStep(s, doResumeHandshake(x, cfg, d), cfg)
<1> DEFINE sh == [x.sh EXCEPT !.suite = d.state.suite, !.sid = x.ch.sid, !.ticketSupported = d.usedOldKey]
           h == newFinishedHash(x.vers)
           b == [x EXCEPT !.sh = sh, !.suite = sh.suite, !.master = d.state.master,
                          !.isResume = TRUE, !.hash = hashWrite(h, <<x.ch, sh>>)]
           g == writeRecords(b, "hs", <<sh>>)
           v == IF d.state.certs = "none" THEN "ok" ELSE processCertsFromClient(cfg, d.state.certs)
           p == [g EXCEPT !.peer = d.state.certs]
           k == serverEstablishKeys(p)
           q == sendSessionTicket(k)
           e == serverSendFinished(q)
           f == flush(e)
           t == [f EXCEPT !.pc = "ccs"]
           T == doResumeHandshake(x, cfg, d)
<1>0. /\ IsEnd(x) /\ DOMAIN x = EndFields /\ DOMAIN x.sh = ServerHelloFields /\ x.sh.typ = "serverHello"
      /\ x.ch.typ = "clientHello" /\ x.sendBuf = <<>> /\ Stream(x) = Stream(s)
  BY DEF Prepared, IsEnd
<1>1. ~SSent(s, cfg) /\ SNoFinished(s)
  BY SNotYet
<1>2. T = CASE hashWritePanics(h) -> panic(x)
            [] ~hashWritePanics(h) /\ v # "ok" -> abort(g, v)
            [] OTHER -> IF e.pc = "panic" THEN e ELSE t
  <2>1. Then(p, serverEstablishKeys) = k
    BY ThenIs
  <2>2. Then(k, sendSessionTicket) = q
    <3> HIDE DEF k
    <3> QED
      BY ThenIs
  <2>3. Then(q, serverSendFinished) = e
    <3> HIDE DEF q
    <3> QED
      BY ThenIs
  <2>4. resumeFlight(g, d) = e
    BY <2>1, <2>2, <2>3 DEF resumeFlight
  <2>5. Then(g, LAMBDA y : resumeFlight(y, d)) = resumeFlight(g, d)
    BY ThenIs
  <2>6. Then(e, flush) = f
    <3> HIDE DEF e
    <3> QED
      BY ThenIs
  <2> DEFINE sent == Then(g, LAMBDA y : resumeFlight(y, d))
  <2>7. T = CASE hashWritePanics(h) -> panic(x)
              [] ~hashWritePanics(h) /\ v # "ok" -> abort(g, v)
              [] OTHER -> IF sent.pc = "panic" THEN sent ELSE [Then(sent, flush) EXCEPT !.pc = "ccs"]
    BY DEF doResumeHandshake
  <2>8. sent = e
    BY <2>4, <2>5
  <2> HIDE DEF T, sent, e, f, g, v, h
  <2> QED
    BY <2>6, <2>7, <2>8
<1> HIDE DEF T
<1>3. /\ DOMAIN sh = ServerHelloFields /\ sh.typ = "serverHello" /\ sh.npn = x.sh.npn /\ sh.alpn = x.sh.alpn
      /\ sh.suite = d.state.suite /\ "typ" \in DOMAIN sh
  BY <1>0 DEF ServerHelloFields
<1> HIDE DEF sh
<1>4. h \in {newFinishedHash(x.vers), newFinishedHashGM}
  OBVIOUS
<1>5. LET y == hashWrite(h, <<x.ch, sh>>) IN IsHash(y) /\ Len(y.sum) = 2 /\ y.sum[1] = x.ch /\ y.sum[2] = sh
  BY <1>4, HelloHash
<1> HIDE DEF h
<1>6. /\ DOMAIN b = EndFields /\ b.sh = sh /\ b.suite = d.state.suite /\ b.hash = hashWrite(h, <<x.ch, sh>>) /\ b.ch = x.ch
      /\ b.vers = x.vers /\ b.gm = x.gm /\ b.proto = x.proto /\ b.isResume = TRUE /\ b.master = d.state.master
      /\ b.net = x.net /\ b.sendBuf = x.sendBuf /\ b.in = x.in /\ b.out = x.out /\ b.buffering = TRUE /\ b.stage = x.stage
      /\ b.pc = "clientHello"
  BY <1>0, <1>3 DEF EndFields
<1> HIDE DEF b
<1>7. IsEnd(b) /\ Stream(b) = Stream(x)
  BY <1>0, <1>5, <1>6, EndFrom DEF IsEnd
<1>8. IsMessages(<<sh>>, "hs") /\ Range(<<sh>>) = {sh}
  BY <1>3, OneParts DEF IsMessages
<1>9. /\ IsEnd(g) /\ Keeps(b, g) /\ g.hash = b.hash /\ g.buffering = b.buffering /\ Writes(b, g, Range(<<sh>>))
  <2> DEFINE ms == <<sh>>
  <2>1. IsMessages(ms, "hs")
    BY <1>8
  <2> HIDE DEF ms
  <2>2. LET w == writeRecords(b, "hs", ms) IN
        IsEnd(w) /\ Keeps(b, w) /\ w.hash = b.hash /\ w.buffering = b.buffering /\ Writes(b, w, Range(ms))
    <3>1. IsEnd(b) /\ "hs" \in {"hs", "ccs", "alert"}
      BY <1>7
    <3> QED
      BY ONLY <2>1, <3>1, WriteRecordsParts
  <2> QED
    BY <2>2 DEF ms
<1> HIDE DEF g
<1>10. SNoFinished(x) /\ SNoFinished(g)
  BY <1>0, <1>1, <1>3, <1>7, <1>8, <1>9 DEF SNoFinished, Writes
<1>11. CASE hashWritePanics(h)
  <2>1. T = panic(x)
    BY <1>2, <1>11
  <2> QED
    BY <1>0, <1>1, <1>10, <2>1, SPanicEarly DEF T
<1>12. CASE ~hashWritePanics(h) /\ v # "ok"
  <2>1. T = abort(g, v)
    BY <1>2, <1>12
  <2> QED
    BY <1>1, <1>9, <1>10, <2>1, SAbortEarly DEF T
<1>13. CASE ~hashWritePanics(h) /\ v = "ok"
  <2>0. T = IF e.pc = "panic" THEN e ELSE t
    BY <1>2, <1>13
  <2>1. DOMAIN g = EndFields
    BY <1>9 DEF IsEnd
  <2>2. /\ DOMAIN p = EndFields /\ p.peer = d.state.certs /\ KeepsNames(g, p) /\ p.proto = g.proto /\ p.hash = g.hash /\ p.stage = g.stage
        /\ p.net = g.net /\ p.sendBuf = g.sendBuf /\ p.in = g.in /\ p.out = g.out /\ p.buffering = g.buffering /\ p.pc = g.pc
    BY <2>1 DEF EndFields, KeepsNames
  <2> HIDE DEF p
  <2>3. IsEnd(p) /\ Stream(p) = Stream(g)
    BY <1>9, <2>2, EndFrom DEF IsEnd, KeepsNames
  <2>4. /\ IsEnd(k) /\ Stream(k) = Stream(p) /\ k.pc = p.pc /\ KeepsChoice(p, k) /\ k.peer = p.peer
        /\ k.hash = p.hash /\ k.sendBuf = p.sendBuf /\ k.buffering = p.buffering
        /\ k.in.nextCipher = KeyOf("c", k) /\ k.out.nextCipher = KeyOf("s", k)
    BY <2>3, ServerKeysParts
  <2> HIDE DEF k
  <2>5. /\ k.sh = sh /\ k.suite = d.state.suite /\ k.ch = x.ch /\ k.vers = x.vers /\ k.gm = x.gm /\ k.proto = x.proto
        /\ k.isResume = TRUE /\ k.master = d.state.master /\ k.peer = d.state.certs /\ k.buffering = TRUE /\ k.pc = "clientHello"
        /\ k.hash = hashWrite(h, <<x.ch, sh>>)
    BY <1>6, <1>9, <2>2, <2>4 DEF KeepsChoice, KeepsNames, Keeps
  <2>6. Bound(k) /\ Shape(k.hash.sum, k)
    BY <1>5, <2>5 DEF Bound, Shape
  <2>7. Tickets(k.hash.sum, k)
    BY <1>0, <1>3, <1>5, <2>5 DEF Tickets
  <2>8. /\ IsEnd(q) /\ Keeps(k, q) /\ q.buffering = k.buffering
        /\ q.out.cipher = k.out.cipher /\ q.out.nextCipher = k.out.nextCipher
        /\ Shape(q.hash.sum, q) /\ Tickets(q.hash.sum, q)
        /\ \A r \in Stream(q) : r \in Stream(k) \/ r.msg.typ = "newSessionTicket"
    BY <2>4, <2>6, <2>7, SessionTicketParts
  <2> HIDE DEF q
  <2>9. q.pc # "panic"
    BY <2>5, <2>8 DEF Keeps
  <2>10. /\ SendsFinished(q, e) /\ e.proto = q.proto
         /\ \A r \in Stream(e) : \/ r \in Stream(q)
                                 \/ r.msg.typ = "ccs"
                                 \/ /\ e.pc # "panic" /\ r.msg.typ = "finished"
                                    /\ r.msg.verify[2] = q.master /\ r.msg.verify[3] = q.hash.sum
    BY <2>8, <2>9, ServerSendFinishedParts
  <2> HIDE DEF e
  <2>11. \A r \in Stream(e) : r.msg.typ = "finished" => /\ e.pc # "panic"
                                                        /\ r.msg.verify[2] = q.master /\ r.msg.verify[3] = q.hash.sum
    <3> SUFFICES ASSUME NEW r \in Stream(e), r.msg.typ = "finished"
                 PROVE  e.pc # "panic" /\ r.msg.verify[2] = q.master /\ r.msg.verify[3] = q.hash.sum
      OBVIOUS
    <3>1. r \notin Stream(g)
      BY <1>10 DEF SNoFinished
    <3> QED
      BY <2>3, <2>4, <2>8, <2>10, <3>1
  <2>12. IsEnd(e) /\ e.in = q.in /\ e.peer = q.peer /\ KeepsNames(q, e) /\ e.out.cipher = q.out.nextCipher
         /\ e.buffering = TRUE /\ e.sendBuf # <<>> /\ (e.pc # "panic" => Shape(e.hash.sum, e))
    BY <2>5, <2>8, <2>10 DEF SendsFinished
  <2>13. CASE e.pc = "panic"
    <3>1. Flushed(e) /\ SNoFinished(e)
      BY <2>11, <2>13 DEF Flushed, SNoFinished
    <3>2. T = e
      BY <2>0, <2>13
    <3> QED
      BY <1>1, <2>12, <2>13, <3>1, <3>2, SEndsEarly DEF T
  <2>14. CASE e.pc # "panic"
    <3>1. /\ IsEnd(f) /\ Keeps(e, f) /\ f.out = e.out /\ f.hash = e.hash /\ Writes(e, f, {}) /\ f.sendBuf = <<>>
          /\ f.buffering = FALSE
      BY <2>12, FlushParts
    <3> HIDE DEF f
    <3>2. DOMAIN f = EndFields
      BY <3>1 DEF IsEnd
    <3>3. /\ DOMAIN t = EndFields /\ t.pc = "ccs" /\ KeepsNames(f, t) /\ t.proto = f.proto /\ t.peer = f.peer /\ t.hash = f.hash
          /\ t.stage = f.stage /\ t.net = f.net /\ t.sendBuf = f.sendBuf /\ t.in = f.in /\ t.out = f.out /\ t.buffering = f.buffering
      BY <3>2 DEF EndFields, KeepsNames
    <3>4. T = t
      BY <2>0, <2>14
    <3> HIDE DEF t
    <3>5. IsEnd(t) /\ Stream(t) = Stream(f)
      BY <3>1, <3>3, EndFrom DEF IsEnd, KeepsNames
    <3>6. KeepsNames(q, t) /\ t.in = q.in /\ t.out.cipher = q.out.nextCipher /\ t.proto = q.proto /\ t.peer = q.peer
          /\ t.hash = e.hash /\ t.sendBuf = <<>> /\ t.buffering = FALSE
      BY <2>10, <2>12, <3>1, <3>3 DEF KeepsNames, Keeps
    <3>7. KeepsNames(k, t) /\ t.in = k.in /\ t.out.cipher = k.out.nextCipher /\ t.proto = x.proto /\ t.peer = d.state.certs
      BY <2>5, <2>8, <3>6 DEF KeepsNames, Keeps
    <3>8. Bound(t) /\ KeyOf("c", t) = KeyOf("c", k) /\ KeyOf("s", t) = KeyOf("s", k)
      BY <2>6, <3>7 DEF Bound, KeepsNames, KeyOf, cr, sr
    <3>9. SChosen(t, cfg)
      BY <1>3, <2>5, <3>7 DEF SChosen, Prepared, KeepsNames
    <3>10. AuthOk(cfg, t.peer)
      <4>1. cfg.auth >= VerifyClientCertIfGiven => d.state.certs # "bad"
        BY <1>13 DEF processCertsFromClient
      <4> QED
        BY <3>7, <4>1 DEF AuthOk, resumableCerts
    <3>11. Shape(t.hash.sum, t)
      BY <2>12, <2>14, <3>6 DEF Shape, KeepsNames
    <3>12. SEarly(t, cfg) /\ Flushed(t)
      BY <2>5, <3>3, <3>6, <3>7, <3>9, <3>10, <3>11 DEF SEarly, Flushed, KeepsNames
    <3>13. SLate(t)
      BY <2>4, <2>5, <3>3, <3>7, <3>8 DEF SLate, KeepsNames
    <3>14. SSent(t, cfg)
      BY <2>4, <2>5, <3>3, <3>7, <3>8, <3>9 DEF SSent, KeepsNames
    <3>15. SStream(t, cfg)
      <4> SUFFICES ASSUME NEW r \in Stream(t), r.msg.typ = "finished"
                   PROVE  FinishedOf(t, r.msg.verify) /\ Tickets(r.msg.verify[3], t)
        BY <3>14 DEF SStream
      <4>1. r \in Stream(e)
        BY <3>1, <3>5 DEF Writes
      <4>2. r.msg.verify[2] = q.master /\ r.msg.verify[3] = q.hash.sum
        BY <2>11, <4>1
      <4> QED
        BY <2>8, <3>6, <4>2 DEF FinishedOf, Shape, Tickets, TicketFor, KeepsNames
    <3> QED
      BY <1>1, <3>3, <3>4, <3>5, <3>12, <3>13, <3>15 DEF SStep, SInv, ServerPcs, T
  <2> QED
    BY <2>13, <2>14
<1> QED
  BY <1>11, <1>12, <1>13

\* What a ticket that was accepted says.
LEMMA Resumption ==
  ASSUME NEW cfg, NEW ch, HelloOk(ch), NEW vers
  PROVE  LET a == checkForResumption(cfg, keys, ch, vers)
             b == checkForResumptionGM(cfg, keys, ch, vers)
         IN  /\ a # <<>> => /\ Bound(a[1].state) /\ a[1].state.vers = vers /\ resumableCerts(cfg, a[1].state.certs)
                            /\ a[1].state.suite \in DOMAIN cipherSuites
             /\ b # <<>> => /\ Bound(b[1].state) /\ b[1].state.vers = vers /\ resumableCerts(cfg, b[1].state.certs)
                            /\ b[1].state.suite \in DOMAIN gmCipherSuites
<1> DEFINE found == decryptTicket(cfg, keys, ch.ticket)
<1>1. found # <<>> => found[1].state = ch.ticket[1].state /\ ch.ticket # <<>>
  BY DEF decryptTicket
<1>2. found # <<>> => Bound(found[1].state)
  BY <1>1 DEF HelloOk, IsTicket
<1> DEFINE a == checkForResumption(cfg, keys, ch, vers)
           b == checkForResumptionGM(cfg, keys, ch, vers)
<1>3. a # <<>> => /\ a = found /\ a[1].state.vers = vers /\ resumableCerts(cfg, a[1].state.certs)
                  /\ setCipherSuite(cfg, a[1].state.suite, configCipherSuites(cfg), vers)
  BY DEF checkForResumption
<1>4. b # <<>> => /\ b = found /\ b[1].state.vers = vers /\ resumableCerts(cfg, b[1].state.certs)
                  /\ setCipherSuiteGM(b[1].state.suite, configCipherSuites(cfg))
  BY DEF checkForResumptionGM
<1> HIDE DEF a, b, found
<1>5. a # <<>> => a[1].state.suite \in DOMAIN cipherSuites
  BY <1>3 DEF setCipherSuite
<1>6. b # <<>> => b[1].state.suite \in DOMAIN gmCipherSuites
  BY <1>4 DEF setCipherSuiteGM
<1> QED
  BY <1>2, <1>3, <1>4, <1>5, <1>6 DEF a, b

\* The handshake after the hello, in both copies.
LEMMA ServerHandshakeStep ==
  ASSUME NEW s, NEW cfg \in ServerConfigs, SInv(s, cfg), s.pc = "clientHello",
         NEW t, Prepared(s, t, cfg), t.pc = "clientHello", NEW resumed, NEW suite,
         resumed # <<>> => /\ Bound(resumed[1].state) /\ resumed[1].state.vers = t.vers
                           /\ resumableCerts(cfg, resumed[1].state.certs)
                           /\ resumed[1].state.suite \in IF t.gm THEN DOMAIN gmCipherSuites ELSE DOMAIN cipherSuites,
         resumed = <<>> => /\ suite \in IF t.gm THEN DOMAIN gmCipherSuites ELSE DOMAIN cipherSuites
                           /\ suite = IF t.gm THEN selectCipherSuiteGM(cfg, t.ch) ELSE selectCipherSuite(cfg, t.ch, t.vers)
  PROVE  SStep(s, serverHandshake(t, cfg, resumed, suite), cfg) /\ SStep(s, serverHandshakeGM(t, cfg, resumed, suite), cfg)
<1> DEFINE x == [t EXCEPT !.buffering = TRUE]
<1>1. IsEnd(t) /\ DOMAIN t = EndFields
  BY DEF Prepared, IsEnd
<1>2. /\ DOMAIN x = EndFields /\ x.buffering = TRUE /\ x.pc = t.pc /\ KeepsNames(t, x) /\ x.proto = t.proto /\ x.peer = t.peer
      /\ x.hash = t.hash /\ x.stage = t.stage /\ x.net = t.net /\ x.sendBuf = t.sendBuf /\ x.in = t.in /\ x.out = t.out
  BY <1>1 DEF EndFields, KeepsNames
<1>3. /\ serverHandshake(t, cfg, resumed, suite)
           = IF resumed # <<>> THEN doResumeHandshake(x, cfg, resumed[1]) ELSE doFullHandshake(x, cfg, suite)
      /\ serverHandshakeGM(t, cfg, resumed, suite)
           = IF resumed # <<>> THEN doResumeHandshakeGM(x, cfg, resumed[1]) ELSE doFullHandshakeGM(x, cfg, suite)
  <2>1. Then(x, LAMBDA y : IF resumed # <<>> THEN doResumeHandshake(y, cfg, resumed[1]) ELSE doFullHandshake(y, cfg, suite))
          = IF resumed # <<>> THEN doResumeHandshake(x, cfg, resumed[1]) ELSE doFullHandshake(x, cfg, suite)
    BY ThenIs
  <2>2. Then(x, LAMBDA y : IF resumed # <<>> THEN doResumeHandshakeGM(y, cfg, resumed[1]) ELSE doFullHandshakeGM(y, cfg, suite))
          = IF resumed # <<>> THEN doResumeHandshakeGM(x, cfg, resumed[1]) ELSE doFullHandshakeGM(x, cfg, suite)
    BY ThenIs
  <2> QED
    BY <2>1, <2>2 DEF serverHandshake, serverHandshakeGM
<1> HIDE DEF x
<1>4. IsEnd(x) /\ Stream(x) = Stream(t)
  BY <1>1, <1>2, EndFrom DEF IsEnd, KeepsNames
<1>5. Prepared(s, x, cfg) /\ x.gm = t.gm /\ x.vers = t.vers /\ x.ch = t.ch
  BY <1>2, <1>4 DEF Prepared, KeepsNames
<1>6. CASE resumed # <<>>
  <2>1. SStep(s, doResumeHandshake(x, cfg, resumed[1]), cfg)
    BY <1>2, <1>5, <1>6, ResumeStep
  <2> QED
    BY <1>3, <1>6, <2>1, ResumeCopies
<1>7. CASE resumed = <<>>
  <2>1. ASSUME NEW h \in {newFinishedHash(x.vers), newFinishedHashGM}, NEW n
        PROVE  SStep(s, serverFlight([x EXCEPT !.hash = h], cfg, suite, n), cfg)
    <3> DEFINE y == [x EXCEPT !.hash = h]
    <3>1. IsHash(h) /\ h.sum = <<>>
      BY NewHash
    <3>2. /\ DOMAIN y = EndFields /\ y.hash = h /\ y.buffering = TRUE /\ KeepsNames(x, y) /\ y.proto = x.proto /\ y.peer = x.peer
          /\ y.stage = x.stage /\ y.net = x.net /\ y.sendBuf = x.sendBuf /\ y.in = x.in /\ y.out = x.out
      BY <1>2 DEF EndFields, KeepsNames
    <3> HIDE DEF y
    <3>3. IsEnd(y) /\ Stream(y) = Stream(x)
      BY <1>4, <3>1, <3>2, EndFrom DEF IsEnd, KeepsNames
    <3>4. Prepared(s, y, cfg) /\ y.gm = t.gm /\ y.vers = t.vers /\ y.ch = t.ch
      BY <1>5, <3>2, <3>3 DEF Prepared, KeepsNames
    <3>5. y.hash.sum = <<>> /\ y.buffering = TRUE
      BY <3>1, <3>2
    <3>6. /\ suite \in IF y.gm THEN DOMAIN gmCipherSuites ELSE DOMAIN cipherSuites
          /\ suite = IF y.gm THEN selectCipherSuiteGM(cfg, y.ch) ELSE selectCipherSuite(cfg, y.ch, y.vers)
      BY <1>7, <3>4
    <3>7. SStep(s, serverFlight(y, cfg, suite, n), cfg)
      BY <3>4, <3>5, <3>6, ServerFlightStep
    <3> QED
      BY <3>7 DEF y
  <2>2. SStep(s, doFullHandshake(x, cfg, suite), cfg) /\ SStep(s, doFullHandshakeGM(x, cfg, suite), cfg)
    BY <2>1 DEF doFullHandshake, doFullHandshakeGM
  <2> QED
    BY <1>3, <1>7, <2>2
<1> QED
  BY <1>6, <1>7

\* readClientHello up to the choice of a suite, in both copies.
LEMMA PreparedHello ==
  ASSUME NEW s, NEW cfg, SInv(s, cfg), s.pc = "clientHello", NEW ch, ch.typ = "clientHello", HelloOk(ch), NEW n,
         NEW gm \in BOOLEAN, NEW t, DOMAIN t = EndFields, t.ch = ch,
         t.sh = serverHello(cfg, ch, mutualVersion(cfg, ch.vers), n), t.vers = mutualVersion(cfg, ch.vers),
         t.proto = t.sh.alpn, t.gm = gm, t.net = s.net, t.sendBuf = s.sendBuf, t.in = s.in, t.out = s.out,
         t.hash = s.hash, t.buffering = s.buffering, t.stage = s.stage, t.isResume = s.isResume, t.peer = s.peer
  PROVE  Prepared(s, t, cfg)
<1>1. IsEnd(s) /\ s.sendBuf = <<>> /\ s.isResume = FALSE /\ s.peer = "none"
  BY DEF SInv, Flushed, SEarly
<1>2. IsEnd(t) /\ Stream(t) = Stream(s)
  BY <1>1, EndFrom DEF IsEnd
<1>3. /\ DOMAIN t.sh = ServerHelloFields /\ t.sh.typ = "serverHello"
      /\ t.sh.npn = (ch.alpn = <<>> /\ ch.npn /\ cfg.protos # <<>>)
  BY DEF serverHello, ServerHelloFields
<1>4. t.sh.npn => ch.npn /\ ch.alpn = <<>>
  BY <1>3, Zenon
<1> QED
  BY <1>1, <1>2, <1>3, <1>4 DEF Prepared

\* The ClientHello, in both copies.
LEMMA ReadClientHelloStep ==
  ASSUME NEW s, NEW cfg \in ServerConfigs, SInv(s, cfg), s.pc = "clientHello",
         NEW ch, ch.typ = "clientHello", HelloOk(ch), NEW n
  PROVE  SStep(s, readClientHello(s, cfg, ch, n), cfg) /\ SStep(s, readClientHelloGM(s, cfg, ch, n), cfg)
<1> DEFINE vers == mutualVersion(cfg, ch.vers)
           sh == serverHello(cfg, ch, vers, n)
<1>0. IsEnd(s) /\ DOMAIN s = EndFields /\ s.gm = FALSE
  BY DEF SInv, IsEnd, SEarly
<1>1. ~SSent(s, cfg) /\ SNoFinished(s)
  BY SNotYet
<1>2. SStep(s, readClientHello(s, cfg, ch, n), cfg)
  <2> DEFINE t == [s EXCEPT !.vers = vers, !.haveVers = TRUE, !.ch = ch, !.sh = sh, !.proto = sh.alpn]
             resumed == checkForResumption(cfg, keys, ch, vers)
             suite == selectCipherSuite(cfg, ch, vers)
             T == readClientHello(s, cfg, ch, n)
  <2>1. T = CASE vers = 0 -> abort(s, "protocol_version")
              [] vers # 0 /\ ~getCertificateOk(cfg) -> abort(t, "internal_error")
              [] OTHER -> IF resumed = <<>> /\ suite = "none" THEN abort(t, "handshake_failure")
                          ELSE serverHandshake(t, cfg, resumed, suite)
    BY DEF readClientHello, runServerHandshake
  <2>2. /\ DOMAIN t = EndFields /\ t.ch = ch /\ t.sh = sh /\ t.vers = vers /\ t.proto = sh.alpn /\ t.gm = s.gm /\ t.pc = s.pc
        /\ t.net = s.net /\ t.sendBuf = s.sendBuf /\ t.in = s.in /\ t.out = s.out /\ t.hash = s.hash
        /\ t.buffering = s.buffering /\ t.stage = s.stage /\ t.isResume = s.isResume /\ t.peer = s.peer
    BY <1>0 DEF EndFields
  <2>3. resumed # <<>> => /\ Bound(resumed[1].state) /\ resumed[1].state.vers = vers
                          /\ resumableCerts(cfg, resumed[1].state.certs)
                          /\ resumed[1].state.suite \in DOMAIN cipherSuites
    BY Resumption
  <2>4. suite = "none" \/ suite \in DOMAIN cipherSuites
    BY SelectedSuite
  <2> HIDE DEF t, resumed, T
  <2>5. Prepared(s, t, cfg)
    BY <1>0, <2>2, PreparedHello
  <2>6. IsEnd(t) /\ SNoFinished(t)
    BY <1>1, <2>5 DEF Prepared, SNoFinished
  <2>7. CASE vers = 0
    <3>1. T = abort(s, "protocol_version")
      BY <2>1, <2>7
    <3> QED
      BY <3>1, SAbort DEF T
  <2>8. CASE vers # 0 /\ ~getCertificateOk(cfg)
    <3>1. T = abort(t, "internal_error")
      BY <2>1, <2>8
    <3> QED
      BY <1>1, <2>6, <3>1, SAbortEarly DEF T
  <2>9. CASE vers # 0 /\ getCertificateOk(cfg) /\ resumed = <<>> /\ suite = "none"
    <3>1. T = abort(t, "handshake_failure")
      BY <2>1, <2>9
    <3> QED
      BY <1>1, <2>6, <3>1, SAbortEarly DEF T
  <2>10. CASE vers # 0 /\ getCertificateOk(cfg) /\ ~(resumed = <<>> /\ suite = "none")
    <3>1. T = serverHandshake(t, cfg, resumed, suite)
      BY <2>1, <2>10
    <3>2. t.pc = "clientHello" /\ t.gm = FALSE /\ t.vers = vers /\ t.ch = ch
      BY <1>0, <2>2
    <3>3. resumed # <<>> => /\ Bound(resumed[1].state) /\ resumed[1].state.vers = t.vers
                            /\ resumableCerts(cfg, resumed[1].state.certs)
                            /\ resumed[1].state.suite \in IF t.gm THEN DOMAIN gmCipherSuites ELSE DOMAIN cipherSuites
      BY <2>3, <3>2
    <3>4. resumed = <<>> => /\ suite \in IF t.gm THEN DOMAIN gmCipherSuites ELSE DOMAIN cipherSuites
                            /\ suite = IF t.gm THEN selectCipherSuiteGM(cfg, t.ch) ELSE selectCipherSuite(cfg, t.ch, t.vers)
      BY <2>4, <2>10, <3>2
    <3> HIDE DEF suite
    <3>5. SStep(s, serverHandshake(t, cfg, resumed, suite), cfg)
      BY <2>5, <3>2, <3>3, <3>4, ServerHandshakeStep
    <3> QED
      BY <3>1, <3>5 DEF T
  <2> QED
    BY <2>7, <2>8, <2>9, <2>10
<1>3. SStep(s, readClientHelloGM(s, cfg, ch, n), cfg)
  <2> DEFINE t == [s EXCEPT !.vers = vers, !.haveVers = TRUE, !.gm = TRUE, !.ch = ch, !.sh = sh, !.proto = sh.alpn]
             resumed == checkForResumptionGM(cfg, keys, ch, vers)
             suite == selectCipherSuiteGM(cfg, ch)
             T == readClientHelloGM(s, cfg, ch, n)
  <2>1. T = CASE vers = 0 -> abort(s, "protocol_version")
              [] vers # 0 /\ ~certificatesGMOk(cfg) -> abort(t, "internal_error")
              [] OTHER -> IF resumed = <<>> /\ suite = "none" THEN abort(t, "handshake_failure")
                          ELSE serverHandshakeGM(t, cfg, resumed, suite)
    BY DEF readClientHelloGM, runServerHandshakeGM
  <2>2. /\ DOMAIN t = EndFields /\ t.ch = ch /\ t.sh = sh /\ t.vers = vers /\ t.proto = sh.alpn /\ t.gm = TRUE /\ t.pc = s.pc
        /\ t.net = s.net /\ t.sendBuf = s.sendBuf /\ t.in = s.in /\ t.out = s.out /\ t.hash = s.hash
        /\ t.buffering = s.buffering /\ t.stage = s.stage /\ t.isResume = s.isResume /\ t.peer = s.peer
    BY <1>0 DEF EndFields
  <2>3. resumed # <<>> => /\ Bound(resumed[1].state) /\ resumed[1].state.vers = vers
                          /\ resumableCerts(cfg, resumed[1].state.certs)
                          /\ resumed[1].state.suite \in DOMAIN gmCipherSuites
    BY Resumption
  <2>4. suite = "none" \/ suite \in DOMAIN gmCipherSuites
    BY SelectedSuite
  <2> HIDE DEF t, resumed, T
  <2>5. Prepared(s, t, cfg)
    BY <1>0, <2>2, PreparedHello
  <2>6. IsEnd(t) /\ SNoFinished(t)
    BY <1>1, <2>5 DEF Prepared, SNoFinished
  <2>7. CASE vers = 0
    <3>1. T = abort(s, "protocol_version")
      BY <2>1, <2>7
    <3> QED
      BY <3>1, SAbort DEF T
  <2>8. CASE vers # 0 /\ ~certificatesGMOk(cfg)
    <3>1. T = abort(t, "internal_error")
      BY <2>1, <2>8
    <3> QED
      BY <1>1, <2>6, <3>1, SAbortEarly DEF T
  <2>9. CASE vers # 0 /\ certificatesGMOk(cfg) /\ resumed = <<>> /\ suite = "none"
    <3>1. T = abort(t, "handshake_failure")
      BY <2>1, <2>9
    <3> QED
      BY <1>1, <2>6, <3>1, SAbortEarly DEF T
  <2>10. CASE vers # 0 /\ certificatesGMOk(cfg) /\ ~(resumed = <<>> /\ suite = "none")
    <3>1. T = serverHandshakeGM(t, cfg, resumed, suite)
      BY <2>1, <2>10
    <3>2. t.pc = "clientHello" /\ t.gm = TRUE /\ t.vers = vers /\ t.ch = ch
      BY <1>0, <2>2
    <3>3. resumed # <<>> => /\ Bound(resumed[1].state) /\ resumed[1].state.vers = t.vers
                            /\ resumableCerts(cfg, resumed[1].state.certs)
                            /\ resumed[1].state.suite \in IF t.gm THEN DOMAIN gmCipherSuites ELSE DOMAIN cipherSuites
      BY <2>3, <3>2
    <3>4. resumed = <<>> => /\ suite \in IF t.gm THEN DOMAIN gmCipherSuites ELSE DOMAIN cipherSuites
                            /\ suite = IF t.gm THEN selectCipherSuiteGM(cfg, t.ch) ELSE selectCipherSuite(cfg, t.ch, t.vers)
      BY <2>4, <2>10, <3>2
    <3> HIDE DEF suite
    <3>5. SStep(s, serverHandshakeGM(t, cfg, resumed, suite), cfg)
      BY <2>5, <3>2, <3>3, <3>4, ServerHandshakeStep
    <3> QED
      BY <3>1, <3>5 DEF T
  <2> QED
    BY <2>7, <2>8, <2>9, <2>10
<1> QED
  BY <1>2, <1>3

\* The server's first read, by mode.
LEMMA ServerStartStep ==
  ASSUME NEW s, NEW cfg \in ServerConfigs, SInv(s, cfg), s.pc = "clientHello", NEW m,
         m.typ = "clientHello" => HelloOk(m), NEW n
  PROVE  SStep(s, serverStart(s, cfg, m, n), cfg)
<1>0. cfg.mode \in {"tls", "gm", "auto"}
  BY ServerConfigKinds
<1>1. CASE m.typ # "clientHello"
  <2>1. serverStart(s, cfg, m, n) = abort(s, "unexpected_message")
    BY <1>1 DEF serverStart
  <2> QED
    BY <2>1, SAbort
<1>2. CASE m.typ = "clientHello"
  <2>1. SStep(s, readClientHello(s, cfg, m, n), cfg) /\ SStep(s, readClientHelloGM(s, cfg, m, n), cfg)
    BY <1>2, ReadClientHelloStep
  <2>2. SStep(s, abort(s, "protocol_version"), cfg)
    BY SAbort
  <2>3. serverHandshakeAutoSwitch(s, cfg, m, n)
          \in {readClientHello(s, cfg, m, n), readClientHelloGM(s, cfg, m, n), abort(s, "protocol_version")}
    <3>1. CASE m.vers = VersionGMSSL
      BY <3>1 DEF serverHandshakeAutoSwitch, processClientHelloGM, VersionGMSSL, VersionSSL30, VersionTLS12
    <3>2. CASE m.vers \in VersionSSL30..VersionTLS12
      BY <3>2 DEF serverHandshakeAutoSwitch, processClientHello, VersionGMSSL, VersionSSL30, VersionTLS12
    <3>3. CASE m.vers # VersionGMSSL /\ m.vers \notin VersionSSL30..VersionTLS12
      BY <3>3 DEF serverHandshakeAutoSwitch
    <3> QED
      BY <3>1, <3>2, <3>3
  <2>4. SStep(s, serverHandshakeAutoSwitch(s, cfg, m, n), cfg)
    BY <2>1, <2>2, <2>3
  <2>5. serverStart(s, cfg, m, n)
          \in {readClientHello(s, cfg, m, n), readClientHelloGM(s, cfg, m, n), serverHandshakeAutoSwitch(s, cfg, m, n)}
    <3>1. CASE cfg.mode = "tls"
      BY <1>2, <3>1 DEF serverStart
    <3>2. CASE cfg.mode = "gm"
      BY <1>2, <3>2 DEF serverStart
    <3>3. CASE cfg.mode = "auto"
      BY <1>2, <3>3 DEF serverStart
    <3> QED
      BY <1>0, <3>1, <3>2, <3>3
  <2> QED
    BY <2>1, <2>4, <2>5
<1> QED
  BY <1>1, <1>2

\* The server with other records on the way: what was lost or damaged.
LEMMA SDropped ==
  ASSUME NEW t, NEW cfg, SInv(t, cfg), NEW x, IsSequence(x),
         \A r \in Range(x) : IsRecord(r) /\ ((\E o \in Stream(t) : o.msg = r.msg) \/ r.msg.typ # "finished")
  PROVE  LET u == [t EXCEPT !.net = x] IN
         /\ SInv(u, cfg) /\ u.pc = t.pc /\ KeepsChoice(t, u) /\ (SSent(t, cfg) => SSent(u, cfg))
         /\ u.in = t.in /\ u.peer = t.peer /\ u.net = x
<1> DEFINE u == [t EXCEPT !.net = x]
<1>1. IsEnd(t) /\ DOMAIN t = EndFields
  BY DEF SInv, IsEnd
<1>2. /\ DOMAIN u = EndFields /\ u.net = x /\ u.sendBuf = t.sendBuf /\ u.buffering = t.buffering /\ Keeps(t, u)
      /\ u.out = t.out /\ u.hash = t.hash /\ u.stage = t.stage
  BY <1>1 DEF EndFields, Keeps
<1> HIDE DEF u
<1>3. \A r \in Stream(u) : r \in Stream(t) \/ r \in Range(x)
  BY <1>2 DEF Stream
<1>4. IsEnd(u)
  BY <1>1, <1>2, <1>3 DEF IsEnd, Keeps
<1>5. KeepsChoice(t, u) /\ KeepsNames(t, u) /\ u.pc = t.pc /\ u.proto = t.proto /\ u.out.cipher = t.out.cipher
  BY <1>2 DEF Keeps, KeepsChoice, KeepsNames
<1>6. SSent(t, cfg) => SSent(u, cfg)
  BY <1>5, SSentKept
<1>7. Flushed(u)
  BY <1>2 DEF SInv, Flushed, Keeps
<1>8. SEarly(u, cfg)
  BY <1>2 DEF SInv, SEarly, Keeps, SChosen, Shape
<1>9. SLate(u)
  BY <1>2 DEF SInv, SLate, Keeps, Bound, KeyOf, cr, sr
<1>10. SStream(u, cfg)
  <2> SUFFICES ASSUME NEW r \in Stream(u), r.msg.typ = "finished"
               PROVE  SSent(u, cfg) /\ FinishedOf(u, r.msg.verify) /\ Tickets(r.msg.verify[3], u)
    BY DEF SStream
  <2>1. PICK o \in Stream(t) : o.msg = r.msg
    BY <1>3
  <2>2. SSent(t, cfg) /\ FinishedOf(t, o.msg.verify) /\ Tickets(o.msg.verify[3], t)
    BY <2>1 DEF SInv, SStream
  <2>3. FinishedOf(t, r.msg.verify) => FinishedOf(u, r.msg.verify)
    BY <1>5 DEF FinishedOf, Shape, KeepsNames
  <2>4. Tickets(r.msg.verify[3], t) => Tickets(r.msg.verify[3], u)
    BY <1>5 DEF Tickets, TicketFor, KeepsNames
  <2> QED
    BY <1>6, <2>1, <2>2, <2>3, <2>4
<1>11. SInv(u, cfg)
  BY <1>4, <1>5, <1>7, <1>8, <1>9, <1>10 DEF SInv
<1> QED
  BY <1>2, <1>5, <1>6, <1>11 DEF u, Keeps

\* The incoming half counts a record.
LEMMA SAfterRead ==
  ASSUME NEW s, NEW cfg, SInv(s, cfg), NEW r, r.typ # "ccs"
  PROVE  LET t == afterRead(s, r) IN
         /\ SInv(t, cfg) /\ t.pc = s.pc /\ KeepsChoice(s, t) /\ (SSent(s, cfg) <=> SSent(t, cfg))
         /\ t.in.cipher = s.in.cipher /\ t.hash = s.hash /\ t.net = s.net /\ t.peer = s.peer
<1> DEFINE t == [s EXCEPT !.in.seq = @ + 1]
<1>0. IsEnd(s) /\ DOMAIN s = EndFields /\ IsHalf(s.in)
  BY DEF SInv, IsEnd
<1>1. afterRead(s, r) = t
  BY DEF afterRead
<1>2. /\ DOMAIN t = EndFields /\ IsHalf(t.in) /\ t.in.cipher = s.in.cipher /\ t.in.nextCipher = s.in.nextCipher
      /\ t.pc = s.pc /\ t.peer = s.peer /\ t.hash = s.hash /\ t.sendBuf = s.sendBuf /\ t.net = s.net
      /\ t.buffering = s.buffering /\ t.stage = s.stage /\ t.out = s.out /\ KeepsChoice(s, t)
  BY <1>0 DEF EndFields, KeepsChoice, IsHalf
<1> HIDE DEF t
<1>3. IsEnd(t) /\ Stream(t) = Stream(s)
  BY <1>0, <1>2, EndFrom DEF IsEnd, KeepsChoice
<1>4. SSent(s, cfg) <=> SSent(t, cfg)
  BY <1>2 DEF SSent, KeepsChoice, SChosen, Bound, KeyOf, cr, sr
<1>5. Flushed(t) /\ SEarly(t, cfg)
  BY <1>2 DEF SInv, Flushed, SEarly, KeepsChoice, SChosen, Shape
<1>6. SLate(t)
  BY <1>2 DEF SInv, SLate, KeepsChoice, Bound, KeyOf, cr, sr
<1>7. SStream(t, cfg)
  BY <1>2, <1>3, <1>4, SStreamKept DEF KeepsNames, KeepsChoice
<1> QED
  BY <1>1, <1>2, <1>3, <1>4, <1>5, <1>6, <1>7 DEF SInv

\* The client's ChangeCipherSpec.
LEMMA ServerCCSStep ==
  ASSUME NEW s, NEW cfg, SInv(s, cfg), s.pc = "ccs", NEW r, r.typ = "ccs"
  PROVE  SStep(s, [afterRead(s, r) EXCEPT !.pc = IF s.sh.npn THEN "nextProto" ELSE "finished"], cfg)
<1> DEFINE pc == IF s.sh.npn THEN "nextProto" ELSE "finished"
           a == [s EXCEPT !.in = changeCipherSpec(@)]
           t == [a EXCEPT !.pc = pc]
<1>0. /\ IsEnd(s) /\ DOMAIN s = EndFields /\ SEarly(s, cfg) /\ SLate(s)
      /\ s.sendBuf = <<>> /\ s.isResume \in BOOLEAN
  BY DEF SInv, IsEnd, Flushed
<1>1. afterRead(s, r) = a
  BY DEF afterRead
<1>2. DOMAIN a = EndFields
  BY <1>0 DEF EndFields
<1>3. (pc = "nextProto" /\ s.sh.npn) \/ pc = "finished"
  OBVIOUS
<1> HIDE DEF pc
<1>4. /\ DOMAIN t = EndFields /\ t.in = changeCipherSpec(s.in) /\ t.pc = pc /\ t.peer = s.peer /\ t.hash = s.hash
      /\ t.net = s.net /\ t.sendBuf = s.sendBuf /\ t.out = s.out /\ t.stage = s.stage
      /\ t.buffering = s.buffering /\ KeepsChoice(s, t) /\ KeepsNames(s, t)
  BY <1>0, <1>2 DEF EndFields, KeepsChoice, KeepsNames
<1> HIDE DEF t
<1>5. IsHalf(t.in) /\ t.in.cipher = s.in.nextCipher
  BY <1>4 DEF changeCipherSpec, IsHalf
<1>6. IsEnd(t) /\ Stream(t) = Stream(s)
  BY <1>0, <1>4, <1>5, EndFrom DEF IsEnd, KeepsChoice
<1>7. SEarly(t, cfg) /\ Flushed(t)
  BY <1>0, <1>3, <1>4 DEF SEarly, Flushed, KeepsChoice, SChosen, Shape, ServerPcs, Over
<1>8. SLate(t)
  BY <1>0, <1>3, <1>4, <1>5 DEF SLate, KeepsChoice, Bound, KeyOf, cr, sr
<1>9. SSent(s, cfg) => SSent(t, cfg)
  <2>1. CASE s.isResume = FALSE
    BY <2>1, SNotYet
  <2>2. CASE s.isResume = TRUE
    BY <1>3, <1>4, <2>2, SSentKept DEF KeepsChoice
  <2> QED
    BY <1>0, <2>1, <2>2
<1>10. SStream(t, cfg)
  BY <1>4, <1>6, <1>9, SStreamKept
<1>11. SStep(s, t, cfg)
  BY <1>3, <1>4, <1>6, <1>7, <1>8, <1>9, <1>10 DEF SStep, SInv, ServerPcs
<1> QED
  BY <1>1, <1>11 DEF t, pc

\* The protocol the client chose; only a server that announced NPN reads it.
LEMMA ReadNextProtoStep ==
  ASSUME NEW s, NEW cfg, SInv(s, cfg), s.pc = "nextProto", NEW m
  PROVE  SStep(s, readNextProto(s, m), cfg)
<1> DEFINE t == [s EXCEPT !.hash = hashWrite(@, <<m>>), !.proto = m.proto, !.pc = "finished"]
<1>0. /\ IsEnd(s) /\ DOMAIN s = EndFields /\ SEarly(s, cfg) /\ SLate(s) /\ IsHash(s.hash) /\ Shape(s.hash.sum, s)
      /\ s.sendBuf = <<>> /\ s.isResume \in BOOLEAN /\ s.sh.npn /\ SChosen(s, cfg) /\ s.buffering = FALSE
      /\ IsSequence(s.hash.sum)
  BY DEF SInv, IsEnd, Flushed, SEarly, SLate, ServerPcs, Over, IsHash
<1>1. CASE m.typ # "nextProto"
  <2>1. readNextProto(s, m) = abort(s, "unexpected_message")
    BY <1>1 DEF readNextProto
  <2> QED
    BY <2>1, SAbort
<1>2. CASE m.typ = "nextProto"
  <2>1. readNextProto(s, m) = t
    BY <1>2 DEF readNextProto
  <2>2. IsSequence(<<m>>) /\ Range(<<m>>) = {m}
    BY OneParts
  <2>3. IsHash(hashWrite(s.hash, <<m>>)) /\ hashWrite(s.hash, <<m>>).sum = s.hash.sum \o <<m>>
    BY <1>0, <2>2, HashParts
  <2>4. Shape(s.hash.sum \o <<m>>, s)
    BY <1>0, <1>2, <2>2, ShapeGrows
  <2>5. NoTickets(s.hash.sum) => NoTickets(s.hash.sum \o <<m>>)
    BY <1>0, <1>2, <2>2, TicketsGrow
  <2>6. /\ DOMAIN t = EndFields /\ t.hash = hashWrite(s.hash, <<m>>) /\ t.pc = "finished" /\ t.peer = s.peer
        /\ t.net = s.net /\ t.sendBuf = s.sendBuf /\ t.in = s.in /\ t.out = s.out /\ t.stage = s.stage
        /\ t.buffering = s.buffering /\ KeepsNames(s, t)
    BY <1>0 DEF EndFields, KeepsNames
  <2> HIDE DEF t
  <2>7. IsEnd(t) /\ Stream(t) = Stream(s)
    BY <1>0, <2>3, <2>6, EndFrom DEF IsEnd, KeepsNames
  <2>8. SChosen(t, cfg) /\ AuthOk(cfg, t.peer)
    BY <1>0, <2>6 DEF SChosen, KeepsNames, SEarly, ServerPcs, Over
  <2>9. Shape(t.hash.sum, t)
    BY <2>3, <2>4, <2>6 DEF Shape, KeepsNames
  <2>10. t.isResume = FALSE => NoTickets(t.hash.sum)
    BY <1>0, <2>3, <2>5, <2>6 DEF SEarly, ServerPcs, Over, KeepsNames
  <2>11. SEarly(t, cfg) /\ Flushed(t)
    BY <1>0, <2>6, <2>8, <2>9, <2>10 DEF SEarly, Flushed, KeepsNames
  <2>12. SLate(t)
    BY <1>0, <2>6 DEF SLate, KeepsNames, Bound, KeyOf, cr, sr
  <2>13. SSent(s, cfg) => SSent(t, cfg)
    <3>1. CASE s.isResume = FALSE
      BY <3>1, SNotYet
    <3>2. CASE s.isResume = TRUE
      BY <1>0, <2>6, <3>2, SSentKept
    <3> QED
      BY <1>0, <3>1, <3>2
  <2>14. SStream(t, cfg)
    BY <2>6, <2>7, <2>13, SStreamKept
  <2> QED
    BY <2>1, <2>6, <2>7, <2>11, <2>12, <2>13, <2>14 DEF SStep, SInv, ServerPcs
<1> QED
  BY <1>1, <1>2

\* The client's certificates, as the server's ClientAuthType wants them.
LEMMA ReadClientCertificateStep ==
  ASSUME NEW s, NEW cfg \in ServerConfigs, SInv(s, cfg), s.pc = "clientCertificate", NEW m
  PROVE  SStep(s, readClientCertificate(s, cfg, m), cfg)
<1> DEFINE v == CASE m.typ # "certificate" -> "unexpected_message"
                  [] m.typ = "certificate" /\ clientChainRequired(cfg, m.chain) -> "bad_certificate"
                  [] OTHER -> IF s.gm THEN processCertsFromClientGM(cfg, m.chain)
                              ELSE processCertsFromClient(cfg, m.chain)
           t == [s EXCEPT !.hash = hashWrite(@, <<m>>), !.peer = m.chain, !.pc = "clientKeyExchange"]
<1>0. /\ IsEnd(s) /\ DOMAIN s = EndFields /\ SEarly(s, cfg) /\ SLate(s) /\ IsHash(s.hash) /\ Shape(s.hash.sum, s)
      /\ s.sendBuf = <<>> /\ s.isResume = FALSE /\ s.buffering = FALSE /\ SChosen(s, cfg) /\ cfg.auth >= RequestClientCert
      /\ IsSequence(s.hash.sum) /\ NoTickets(s.hash.sum)
  BY DEF SInv, IsEnd, Flushed, SEarly, ServerPcs, Over, IsHash
<1>1. cfg.auth \in NoClientCert..RequireAndVerifyClientCert
  BY ServerConfigKinds
<1>2. readClientCertificate(s, cfg, m) = IF v # "ok" THEN abort(s, v) ELSE t
  BY DEF readClientCertificate
<1>3. v = "ok" => m.typ = "certificate" /\ AuthOk(cfg, m.chain)
  <2>1. CASE m.typ # "certificate"
    BY <2>1
  <2>2. CASE m.typ = "certificate" /\ clientChainRequired(cfg, m.chain)
    BY <2>2
  <2>3. CASE m.typ = "certificate" /\ ~clientChainRequired(cfg, m.chain)
    <3>1. v = processCertsFromClient(cfg, m.chain)
      BY <2>3 DEF processCertsFromClientGM
    <3> HIDE DEF v
    <3> QED
      BY <1>0, <1>1, <2>3, <3>1 DEF processCertsFromClient, clientChainRequired, AuthOk, RequestClientCert, NoClientCert,
         RequireAndVerifyClientCert, VerifyClientCertIfGiven, RequireAnyClientCert
  <2> QED
    BY <2>1, <2>2, <2>3
<1> HIDE DEF v
<1>4. CASE v # "ok"
  BY <1>2, <1>4, SAbort
<1>5. CASE v = "ok"
  <2>1. readClientCertificate(s, cfg, m) = t
    BY <1>2, <1>5
  <2>2. IsSequence(<<m>>) /\ Range(<<m>>) = {m}
    BY OneParts
  <2>3. IsHash(hashWrite(s.hash, <<m>>)) /\ hashWrite(s.hash, <<m>>).sum = s.hash.sum \o <<m>>
    BY <1>0, <2>2, HashParts
  <2>4. Shape(s.hash.sum \o <<m>>, s)
    BY <1>0, <2>2, ShapeGrows
  <2>5. NoTickets(s.hash.sum \o <<m>>)
    BY <1>0, <1>3, <1>5, <2>2, TicketsGrow
  <2>6. /\ DOMAIN t = EndFields /\ t.hash = hashWrite(s.hash, <<m>>) /\ t.pc = "clientKeyExchange" /\ t.peer = m.chain
        /\ t.net = s.net /\ t.sendBuf = s.sendBuf /\ t.in = s.in /\ t.out = s.out /\ t.stage = s.stage
        /\ t.buffering = s.buffering /\ KeepsNames(s, t) /\ t.proto = s.proto
    BY <1>0 DEF EndFields, KeepsNames
  <2> HIDE DEF t
  <2>7. IsEnd(t) /\ Stream(t) = Stream(s)
    BY <1>0, <2>3, <2>6, EndFrom DEF IsEnd, KeepsNames
  <2>8. SChosen(t, cfg) /\ AuthOk(cfg, t.peer)
    BY <1>0, <1>3, <1>5, <2>6 DEF SChosen, KeepsNames
  <2>9. Shape(t.hash.sum, t) /\ NoTickets(t.hash.sum)
    BY <2>3, <2>4, <2>5, <2>6 DEF Shape, KeepsNames
  <2>10. SEarly(t, cfg) /\ Flushed(t) /\ SLate(t)
    BY <1>0, <2>6, <2>8, <2>9 DEF SEarly, Flushed, KeepsNames, SLate
  <2>11. ~SSent(s, cfg)
    BY SNotYet
  <2>12. SStream(t, cfg)
    BY <2>6, <2>7, <2>11, SStreamKept
  <2> QED
    BY <2>1, <2>6, <2>7, <2>10, <2>11, <2>12 DEF SStep, SInv, ServerPcs
<1> QED
  BY <1>4, <1>5

\* The server has its keys and waits for the client's ChangeCipherSpec.
LEMMA ExpectFinishedStep ==
  ASSUME NEW s, NEW cfg, SInv(s, cfg), ~SSent(s, cfg), NEW b, IsEnd(b), Stream(b) = Stream(s), b.sendBuf = <<>>,
         b.isResume = FALSE, b.buffering = FALSE, Bound(b), SChosen(b, cfg), AuthOk(cfg, b.peer), Shape(b.hash.sum, b),
         NoTickets(b.hash.sum)
  PROVE  SStep(s, expectFinished(b), cfg)
<1> DEFINE k == serverEstablishKeys(b)
           t == [k EXCEPT !.pc = "ccs"]
<1>1. expectFinished(b) = t
  BY DEF expectFinished, serverEstablishKeysGM
<1>2. /\ IsEnd(k) /\ Stream(k) = Stream(b) /\ KeepsChoice(b, k) /\ k.peer = b.peer
      /\ k.hash = b.hash /\ k.sendBuf = b.sendBuf /\ k.buffering = b.buffering
      /\ k.in.nextCipher = KeyOf("c", k) /\ k.out.nextCipher = KeyOf("s", k)
  BY ServerKeysParts
<1> HIDE DEF k
<1>3. DOMAIN k = EndFields
  BY <1>2 DEF IsEnd
<1>4. /\ DOMAIN t = EndFields /\ t.hash = k.hash /\ t.pc = "ccs" /\ t.peer = k.peer
      /\ t.net = k.net /\ t.sendBuf = k.sendBuf /\ t.in = k.in /\ t.out = k.out /\ t.stage = k.stage
      /\ t.buffering = k.buffering /\ KeepsChoice(k, t)
  BY <1>3 DEF EndFields, KeepsChoice
<1> HIDE DEF t
<1>5. IsEnd(t) /\ Stream(t) = Stream(k)
  BY <1>2, <1>4, EndFrom DEF IsEnd, KeepsChoice
<1>6. SChosen(t, cfg) /\ Shape(t.hash.sum, t) /\ Bound(t) /\ t.isResume = FALSE /\ t.buffering = FALSE
  BY <1>2, <1>4 DEF KeepsChoice, SChosen, Shape, Bound
<1>7. SEarly(t, cfg) /\ Flushed(t)
  BY <1>2, <1>4, <1>6 DEF SEarly, Flushed
<1>8. SLate(t)
  BY <1>2, <1>4, <1>6 DEF SLate, KeepsChoice, KeyOf, cr, sr
<1>9. SNoFinished(s)
  BY DEF SInv, SStream, SNoFinished
<1>10. SStream(t, cfg)
  BY <1>2, <1>5, <1>9 DEF SStream, SNoFinished
<1> QED
  BY <1>1, <1>4, <1>5, <1>7, <1>8, <1>10 DEF SStep, SInv, ServerPcs

\* The client's key exchange.
LEMMA ReadClientKeyExchangeStep ==
  ASSUME NEW s, NEW cfg, SInv(s, cfg), s.pc = "clientKeyExchange", NEW m
  PROVE  SStep(s, readClientKeyExchange(s, m), cfg)
<1> DEFINE secret == processClientKeyExchange(keyAgreementOf(s.suite), sr(s), m)
           master == masterFromPreMasterSecret(s.vers, s.suite, secret, cr(s), sr(s))
           t == [s EXCEPT !.hash = hashWrite(@, <<m>>), !.master = master]
           u == [t EXCEPT !.pc = "certificateVerify"]
<1>0. /\ IsEnd(s) /\ DOMAIN s = EndFields /\ SEarly(s, cfg) /\ IsHash(s.hash) /\ Shape(s.hash.sum, s)
      /\ s.sendBuf = <<>> /\ s.isResume = FALSE /\ s.buffering = FALSE /\ SChosen(s, cfg) /\ AuthOk(cfg, s.peer)
      /\ IsSequence(s.hash.sum) /\ NoTickets(s.hash.sum)
  BY DEF SInv, IsEnd, Flushed, SEarly, ServerPcs, Over, IsHash
<1>1. ~SSent(s, cfg) /\ SNoFinished(s)
  BY SNotYet
<1>2. CASE m.typ # "clientKeyExchange"
  <2>1. readClientKeyExchange(s, m) = abort(s, "unexpected_message")
    BY <1>2 DEF readClientKeyExchange
  <2> QED
    BY <2>1, SAbort
<1>3. CASE m.typ = "clientKeyExchange"
  <2>0. readClientKeyExchange(s, m) = IF s.peer # "none" THEN u ELSE expectFinished(t)
    <3>1. Then(t, expectFinished) = expectFinished(t)
      BY ThenIs
    <3> QED
      BY <1>3, <3>1 DEF readClientKeyExchange
  <2>1. master[1] = s.vers /\ master[2] = s.suite
    BY DEF masterFromPreMasterSecret
  <2> HIDE DEF master
  <2>2. IsSequence(<<m>>) /\ Range(<<m>>) = {m}
    BY OneParts
  <2>3. IsHash(hashWrite(s.hash, <<m>>)) /\ hashWrite(s.hash, <<m>>).sum = s.hash.sum \o <<m>>
    BY <1>0, <2>2, HashParts
  <2>4. Shape(s.hash.sum \o <<m>>, s)
    BY <1>0, <2>2, ShapeGrows
  <2>5. NoTickets(s.hash.sum \o <<m>>)
    BY <1>0, <1>3, <2>2, TicketsGrow
  <2>6. /\ DOMAIN t = EndFields /\ t.hash = hashWrite(s.hash, <<m>>) /\ t.pc = s.pc /\ t.peer = s.peer
        /\ t.net = s.net /\ t.sendBuf = s.sendBuf /\ t.in = s.in /\ t.out = s.out /\ t.stage = s.stage
        /\ t.buffering = s.buffering /\ t.vers = s.vers /\ t.gm = s.gm /\ t.ch = s.ch /\ t.sh = s.sh
        /\ t.suite = s.suite /\ t.isResume = s.isResume /\ t.proto = s.proto /\ t.master = master
    BY <1>0 DEF EndFields
  <2> HIDE DEF t
  <2>7. IsEnd(t) /\ Stream(t) = Stream(s)
    BY <1>0, <2>3, <2>6, EndFrom DEF IsEnd
  <2>8. SChosen(t, cfg) /\ Bound(t) /\ AuthOk(cfg, t.peer) /\ Shape(t.hash.sum, t) /\ NoTickets(t.hash.sum)
    BY <1>0, <2>1, <2>3, <2>4, <2>5, <2>6 DEF SChosen, Bound, Shape
  <2>9. CASE s.peer = "none"
    <3>1. SStep(s, expectFinished(t), cfg)
      BY <1>0, <1>1, <2>6, <2>7, <2>8, ExpectFinishedStep
    <3> QED
      BY <2>0, <2>9, <3>1 DEF t
  <2>10. CASE s.peer # "none"
    <3>1. /\ DOMAIN u = EndFields /\ u.hash = t.hash /\ u.pc = "certificateVerify" /\ u.peer = t.peer
          /\ u.net = t.net /\ u.sendBuf = t.sendBuf /\ u.in = t.in /\ u.out = t.out /\ u.stage = t.stage
          /\ u.buffering = t.buffering /\ KeepsChoice(t, u)
      BY <2>6 DEF EndFields, KeepsChoice
    <3> HIDE DEF u
    <3>2. IsEnd(u) /\ Stream(u) = Stream(s)
      BY <2>7, <3>1, EndFrom DEF IsEnd, KeepsChoice
    <3>3. SChosen(u, cfg) /\ Bound(u) /\ AuthOk(cfg, u.peer) /\ Shape(u.hash.sum, u) /\ NoTickets(u.hash.sum)
      BY <2>8, <3>1 DEF SChosen, Bound, Shape, KeepsChoice
    <3>4. SEarly(u, cfg) /\ Flushed(u) /\ SLate(u)
      BY <1>0, <2>6, <3>1, <3>3 DEF SEarly, Flushed, SLate, KeepsChoice
    <3>5. SStream(u, cfg)
      BY <1>1, <3>2 DEF SStream, SNoFinished
    <3>6. SStep(s, u, cfg)
      BY <1>1, <3>1, <3>2, <3>4, <3>5 DEF SStep, SInv, ServerPcs
    <3> QED
      BY <2>0, <2>10, <3>6 DEF u, t
  <2> QED
    BY <2>9, <2>10
<1> QED
  BY <1>2, <1>3

\* The client's proof that it has the key of its certificate.
LEMMA ReadCertificateVerifyStep ==
  ASSUME NEW s, NEW cfg, SInv(s, cfg), s.pc = "certificateVerify", NEW m
  PROVE  SStep(s, readCertificateVerify(s, m), cfg)
<1> DEFINE t == [s EXCEPT !.hash = hashWrite(@, <<m>>)]
<1>0. /\ IsEnd(s) /\ DOMAIN s = EndFields /\ SEarly(s, cfg) /\ IsHash(s.hash) /\ Shape(s.hash.sum, s) /\ Bound(s)
      /\ s.sendBuf = <<>> /\ s.isResume = FALSE /\ s.buffering = FALSE /\ SChosen(s, cfg) /\ AuthOk(cfg, s.peer)
      /\ IsSequence(s.hash.sum) /\ NoTickets(s.hash.sum)
  BY DEF SInv, IsEnd, Flushed, SEarly, ServerPcs, Over, IsHash, SLate
<1>1. ~SSent(s, cfg) /\ SNoFinished(s)
  BY SNotYet
<1>2. CASE m.typ # "certificateVerify"
  <2>1. readCertificateVerify(s, m) = abort(s, "unexpected_message")
    BY <1>2 DEF readCertificateVerify
  <2> QED
    BY <2>1, SAbort
<1>3. CASE m.typ = "certificateVerify" /\ m.sig # s.hash.sum
  <2>1. readCertificateVerify(s, m) = abort(s, "bad_certificate")
    BY <1>3 DEF readCertificateVerify
  <2> QED
    BY <2>1, SAbort
<1>4. CASE m.typ = "certificateVerify" /\ m.sig = s.hash.sum
  <2>1. readCertificateVerify(s, m) = expectFinished(t)
    BY <1>4 DEF readCertificateVerify
  <2>2. IsSequence(<<m>>) /\ Range(<<m>>) = {m}
    BY OneParts
  <2>3. IsHash(hashWrite(s.hash, <<m>>)) /\ hashWrite(s.hash, <<m>>).sum = s.hash.sum \o <<m>>
    BY <1>0, <2>2, HashParts
  <2>4. Shape(s.hash.sum \o <<m>>, s)
    BY <1>0, <2>2, ShapeGrows
  <2>5. NoTickets(s.hash.sum \o <<m>>)
    BY <1>0, <1>4, <2>2, TicketsGrow
  <2>6. /\ DOMAIN t = EndFields /\ t.hash = hashWrite(s.hash, <<m>>) /\ t.pc = s.pc /\ t.peer = s.peer
        /\ t.net = s.net /\ t.sendBuf = s.sendBuf /\ t.in = s.in /\ t.out = s.out /\ t.stage = s.stage
        /\ t.buffering = s.buffering /\ KeepsChoice(s, t)
    BY <1>0 DEF EndFields, KeepsChoice
  <2> HIDE DEF t
  <2>7. IsEnd(t) /\ Stream(t) = Stream(s)
    BY <1>0, <2>3, <2>6, EndFrom DEF IsEnd, KeepsChoice
  <2>8. SChosen(t, cfg) /\ Bound(t) /\ AuthOk(cfg, t.peer) /\ Shape(t.hash.sum, t) /\ NoTickets(t.hash.sum)
    BY <1>0, <2>3, <2>4, <2>5, <2>6 DEF SChosen, Bound, Shape, KeepsChoice
  <2>9. t.sendBuf = <<>> /\ t.isResume = FALSE /\ t.buffering = FALSE
    BY <1>0, <2>6 DEF KeepsChoice
  <2>10. SStep(s, expectFinished(t), cfg)
    BY <1>1, <2>7, <2>8, <2>9, ExpectFinishedStep
  <2> QED
    BY <2>1, <2>10 DEF t
<1> QED
  BY <1>2, <1>3, <1>4

\* The server accepted the client's Finished m: it covers the server's transcript.
SDone(s, t, m, cfg) ==
    /\ SInv(t, cfg) /\ t.pc = "done" /\ KeepsNames(s, t)
    /\ t.in.cipher = s.in.cipher
    /\ SSent(s, cfg) => SSent(t, cfg) /\ t.out.cipher = s.out.cipher
    /\ m.typ = "finished" /\ m.verify[2] = s.master /\ m.verify[3] = s.hash.sum

\* A panic while the Finished is read.
LEMMA SPanic ==
  ASSUME NEW s, NEW cfg, SInv(s, cfg), s.pc = "finished"
  PROVE  SStep(s, panic(s), cfg)
<1> DEFINE t == panic(s)
<1>1. IsEnd(s) /\ s.isResume \in BOOLEAN
  BY DEF SInv, IsEnd
<1>2. IsEnd(t) /\ Flushed(t) /\ t.pc = "panic" /\ KeepsChoice(s, t) /\ Stream(t) = Stream(s)
  BY <1>1, PanicParts
<1> HIDE DEF t
<1>3. SEarly(t, cfg) /\ SLate(t)
  BY <1>2 DEF SEarly, SLate, Over, ServerPcs
<1>4. KeepsNames(s, t) /\ t.proto = s.proto /\ t.out.cipher = s.out.cipher
  BY <1>2 DEF KeepsNames, KeepsChoice
<1>5. SSent(s, cfg) => SSent(t, cfg)
  <2>1. CASE s.isResume = FALSE
    BY <2>1, SNotYet
  <2>2. CASE s.isResume = TRUE
    BY <1>2, <1>4, <2>2, SSentKept
  <2> QED
    BY <1>1, <2>1, <2>2
<1>6. SStream(t, cfg)
  BY <1>2, <1>4, <1>5, SStreamKept
<1>7. SStep(s, t, cfg)
  BY <1>2, <1>3, <1>4, <1>5, <1>6 DEF SStep, SInv, ServerPcs, Over
<1> QED
  BY <1>7 DEF t

\* The two copies of the end of a full handshake, step by step.
LEMMA FinishFullIs ==
  ASSUME NEW h
  PROVE  LET b == [h EXCEPT !.buffering = TRUE]
             t == complete(flush(serverSendFinished(sendSessionTicket(b))))
         IN  serverFinishFull(h) = t /\ serverFinishFullGM(h) = t
<1> DEFINE b == [h EXCEPT !.buffering = TRUE]
           q == sendSessionTicket(b)
           e == serverSendFinished(q)
           f == flush(e)
<1>1. Then(b, sendSessionTicket) = q /\ Then(b, sendSessionTicketGM) = q
  <2>1. Then(b, sendSessionTicket) = sendSessionTicket(b) /\ Then(b, sendSessionTicketGM) = sendSessionTicketGM(b)
    BY ThenIs
  <2> QED
    BY <2>1 DEF sendSessionTicketGM
<1>2. Then(q, serverSendFinished) = e /\ Then(q, serverSendFinishedGM) = e
  <2> HIDE DEF q
  <2>1. Then(q, serverSendFinished) = serverSendFinished(q) /\ Then(q, serverSendFinishedGM) = serverSendFinishedGM(q)
    BY ThenIs
  <2> QED
    BY <2>1 DEF serverSendFinishedGM
<1>3. Then(e, flush) = f
  <2> HIDE DEF e
  <2> QED
    BY ThenIs
<1>4. Then(f, complete) = complete(f)
  <2> HIDE DEF f
  <2> QED
    BY ThenIs
<1> QED
  BY <1>1, <1>2, <1>3, <1>4 DEF serverFinishFull, serverFinishFullGM

\* The client's Finished, in a resumed handshake and in a full one, where the server
\* answers with a ticket and its own Finished.
LEMMA ServerReadFinishedStep ==
  ASSUME NEW s, NEW cfg, SInv(s, cfg), s.pc = "finished", NEW m
  PROVE  SStep(s, serverOnFinished(s, m), cfg) \/ SDone(s, serverOnFinished(s, m), m, cfg)
<1> DEFINE heard == [s EXCEPT !.hash = hashWrite(@, <<m>>)]
           b == [heard EXCEPT !.buffering = TRUE]
           q == sendSessionTicket(b)
           e == serverSendFinished(q)
           f == flush(e)
           good == m.typ = "finished" /\ m.verify = verifyData("client", s.hash, s.master)
           T == serverOnFinished(s, m)
<1>0. /\ IsEnd(s) /\ DOMAIN s = EndFields /\ IsHash(s.hash) /\ SChosen(s, cfg) /\ SLate(s) /\ SEarly(s, cfg)
      /\ Shape(s.hash.sum, s) /\ s.sendBuf = <<>> /\ s.isResume \in BOOLEAN /\ s.buffering = FALSE
      /\ Bound(s) /\ AuthOk(cfg, s.peer) /\ IsSequence(s.hash.sum)
      /\ s.isResume = FALSE => NoTickets(s.hash.sum)
  BY DEF SInv, IsEnd, SEarly, SLate, ServerPcs, Over, Flushed, IsHash
<1>1. \/ \E alert : T = abort(s, alert)
      \/ T = panic(s)
      \/ good /\ T = IF s.isResume THEN complete(heard) ELSE complete(f)
  <2>1. serverFinishFull(heard) = complete(f) /\ serverFinishFullGM(heard) = complete(f)
    <3> HIDE DEF heard
    <3> QED
      BY FinishFullIs
  <2>2. CASE s.gm
    <3>1. T = IF m.typ # "finished" THEN abort(s, "unexpected_message")
              ELSE IF m.verify # verifyData("client", s.hash, s.master) THEN abort(s, "handshake_failure")
              ELSE IF s.isResume THEN complete(heard) ELSE serverFinishFullGM(heard)
      BY <2>2 DEF serverOnFinished, serverReadFinishedGM
    <3> HIDE DEF heard, f, T
    <3> QED
      BY <2>1, <3>1
  <2>3. CASE ~s.gm
    <3>1. T = CASE m.typ # "finished" -> abort(s, "unexpected_message")
                [] m.typ = "finished" /\ hashSumPanics(s.hash) -> panic(s)
                [] OTHER -> IF m.verify # verifyData("client", s.hash, s.master) THEN abort(s, "handshake_failure")
                            ELSE IF s.isResume THEN complete(heard) ELSE serverFinishFull(heard)
      BY <2>3 DEF serverOnFinished, serverReadFinished
    <3> HIDE DEF heard, f, T
    <3>3. CASE m.typ # "finished"
      BY <3>1, <3>3
    <3>4. CASE m.typ = "finished" /\ hashSumPanics(s.hash)
      BY <3>1, <3>4
    <3>5. CASE m.typ = "finished" /\ ~hashSumPanics(s.hash)
      BY <2>1, <3>1, <3>5
    <3> QED
      BY <3>3, <3>4, <3>5
  <2> QED
    BY <2>2, <2>3
<1>2. CASE \E alert : T = abort(s, alert)
  BY <1>2, SAbort
<1>3. CASE T = panic(s)
  BY <1>3, SPanic
<1>4. CASE good /\ T = IF s.isResume THEN complete(heard) ELSE complete(f)
  <2>1. m.typ = "finished" /\ m.verify[2] = s.master /\ m.verify[3] = s.hash.sum
    BY <1>4 DEF verifyData
  <2>2. IsSequence(<<m>>) /\ Range(<<m>>) = {m}
    BY OneParts
  <2>3. IsHash(hashWrite(s.hash, <<m>>)) /\ hashWrite(s.hash, <<m>>).sum = s.hash.sum \o <<m>>
    BY <1>0, <2>2, HashParts
  <2>4. Shape(s.hash.sum \o <<m>>, s)
    BY <1>0, <2>1, <2>2, ShapeGrows
  <2>5. NoTickets(s.hash.sum) => NoTickets(s.hash.sum \o <<m>>)
    BY <1>0, <2>1, <2>2, TicketsGrow
  <2>6. /\ DOMAIN heard = EndFields /\ heard.hash = hashWrite(s.hash, <<m>>) /\ heard.pc = "finished" /\ heard.peer = s.peer
        /\ heard.net = s.net /\ heard.sendBuf = s.sendBuf /\ heard.in = s.in
        /\ heard.out = s.out /\ heard.stage = s.stage /\ heard.buffering = s.buffering
        /\ KeepsNames(s, heard) /\ heard.proto = s.proto
    BY <1>0 DEF EndFields, KeepsNames
  <2> HIDE DEF heard, T
  <2>7. IsEnd(heard) /\ Stream(heard) = Stream(s)
    BY <1>0, <2>3, <2>6, EndFrom DEF IsEnd, KeepsNames
  <2>8. Shape(heard.hash.sum, heard)
    BY <2>3, <2>4, <2>6 DEF Shape, KeepsNames
  <2>9. CASE s.isResume = TRUE
    <3> DEFINE t == complete(heard)
    <3>1. /\ IsEnd(t) /\ t.pc = "done" /\ KeepsChoice(heard, t) /\ Stream(t) = Stream(heard) /\ t.peer = heard.peer
          /\ t.in = heard.in /\ t.out = heard.out /\ t.hash = heard.hash /\ t.sendBuf = heard.sendBuf /\ t.buffering = heard.buffering
      <4>1. heard.pc # "panic"
        BY <2>6
      <4> QED
        BY <2>7, <4>1, CompleteParts
    <3>2. T = t
      BY <1>4, <2>9
    <3> HIDE DEF t
    <3>3. /\ KeepsNames(s, t) /\ t.in = s.in /\ t.out = s.out /\ t.sendBuf = <<>> /\ t.peer = s.peer /\ t.proto = s.proto
          /\ t.buffering = FALSE
      BY <1>0, <2>6, <3>1 DEF KeepsChoice, KeepsNames
    <3>4. SSent(s, cfg) => SSent(t, cfg)
      BY <2>9, <3>1, <3>3, SSentKept
    <3>5. Shape(t.hash.sum, t)
      BY <2>8, <3>1 DEF Shape, KeepsChoice
    <3>6. SEarly(t, cfg) /\ Flushed(t)
      BY <1>0, <3>1, <3>3, <3>5 DEF SEarly, Flushed, KeepsNames, SChosen
    <3>7. SLate(t)
      BY <1>0, <3>1, <3>3 DEF SLate, KeepsNames, Bound, KeyOf, cr, sr
    <3>8. SStream(t, cfg)
      BY <2>7, <3>1, <3>3, <3>4, SStreamKept
    <3>9. SDone(s, T, m, cfg)
      BY <2>1, <3>1, <3>2, <3>3, <3>4, <3>6, <3>7, <3>8 DEF SDone, SInv, ServerPcs, Over
    <3> QED
      BY <3>9 DEF T
  <2>10. CASE s.isResume = FALSE
    <3>1. /\ DOMAIN b = EndFields /\ b.hash = heard.hash /\ b.pc = "finished" /\ b.peer = s.peer
          /\ b.net = heard.net /\ b.sendBuf = heard.sendBuf /\ b.in = s.in /\ b.out = s.out /\ b.stage = heard.stage
          /\ b.buffering = TRUE /\ KeepsNames(s, b) /\ b.proto = s.proto
      BY <2>6 DEF EndFields, KeepsNames
    <3> HIDE DEF b
    <3>2. IsEnd(b) /\ Stream(b) = Stream(s)
      BY <1>0, <2>6, <2>7, <3>1, EndFrom DEF IsEnd, KeepsNames
    <3>3. Shape(b.hash.sum, b) /\ Bound(b)
      BY <1>0, <2>6, <2>8, <3>1 DEF Shape, KeepsNames, Bound
    <3>4. Tickets(b.hash.sum, b)
      BY <1>0, <2>3, <2>5, <2>6, <2>10, <3>1 DEF Tickets, NoTickets
    <3>5. /\ IsEnd(q) /\ Keeps(b, q) /\ q.buffering = b.buffering
          /\ q.out.cipher = b.out.cipher /\ q.out.nextCipher = b.out.nextCipher
          /\ Shape(q.hash.sum, q) /\ Tickets(q.hash.sum, q)
          /\ \A r \in Stream(q) : r \in Stream(b) \/ r.msg.typ = "newSessionTicket"
      BY <3>2, <3>3, <3>4, SessionTicketParts
    <3> HIDE DEF q
    <3>6. q.pc = "finished" /\ q.pc # "panic" /\ KeepsNames(s, q) /\ q.proto = s.proto /\ q.peer = s.peer /\ q.in = s.in
      BY <3>1, <3>5 DEF Keeps, KeepsNames
    <3>7. /\ SendsFinished(q, e) /\ e.proto = q.proto
          /\ \A r \in Stream(e) : \/ r \in Stream(q)
                                  \/ r.msg.typ = "ccs"
                                  \/ /\ e.pc # "panic" /\ r.msg.typ = "finished"
                                     /\ r.msg.verify[2] = q.master /\ r.msg.verify[3] = q.hash.sum
      BY <3>5, <3>6, ServerSendFinishedParts
    <3> HIDE DEF e
    <3>8. /\ IsEnd(e) /\ e.pc \in {"finished", "panic"} /\ e.in = s.in /\ KeepsNames(s, e) /\ e.peer = s.peer /\ e.proto = s.proto
          /\ e.out.cipher = s.out.nextCipher /\ e.buffering = TRUE /\ e.sendBuf # <<>>
          /\ e.pc # "panic" => Shape(e.hash.sum, e)
      BY <3>1, <3>5, <3>6, <3>7 DEF SendsFinished, KeepsNames
    <3>9. /\ IsEnd(f) /\ Keeps(e, f) /\ f.out = e.out /\ f.hash = e.hash /\ Writes(e, f, {}) /\ f.sendBuf = <<>>
          /\ f.buffering = FALSE
      BY <3>8, FlushParts
    <3> HIDE DEF f
    <3>10. ~SSent(s, cfg) /\ SNoFinished(s)
      BY <2>10, SNotYet
    <3>11. \A r \in Stream(f) : r.msg.typ = "finished" =>
             f.pc # "panic" /\ r.msg.verify[2] = q.master /\ r.msg.verify[3] = q.hash.sum
      <4> SUFFICES ASSUME NEW r \in Stream(f), r.msg.typ = "finished"
                   PROVE  f.pc # "panic" /\ r.msg.verify[2] = q.master /\ r.msg.verify[3] = q.hash.sum
        OBVIOUS
      <4>1. r \in Stream(e)
        BY <3>9 DEF Writes
      <4>2. r \notin Stream(q)
        BY <3>2, <3>5, <3>10 DEF SNoFinished
      <4> QED
        BY <3>7, <3>9, <4>1, <4>2 DEF Keeps
    <3>12. CASE f.pc = "panic"
      <4>1. T = f
        BY <1>4, <2>10, <3>12 DEF complete
      <4>2. SNoFinished(f) /\ Flushed(f)
        BY <3>11, <3>12 DEF SNoFinished, Flushed
      <4>3. SStep(s, f, cfg)
        BY <3>9, <3>10, <3>12, <4>2, SEndsEarly
      <4> QED
        BY <4>1, <4>3 DEF T
    <3>13. CASE f.pc # "panic"
      <4> DEFINE t == complete(f)
      <4>1. /\ IsEnd(t) /\ t.pc = "done" /\ KeepsChoice(f, t) /\ Stream(t) = Stream(f) /\ t.peer = f.peer
            /\ t.in = f.in /\ t.out = f.out /\ t.hash = f.hash /\ t.sendBuf = f.sendBuf /\ t.buffering = f.buffering
        BY <3>9, <3>13, CompleteParts
      <4>2. T = t
        BY <1>4, <2>10
      <4> HIDE DEF t
      <4>3. /\ KeepsNames(s, t) /\ t.in = s.in /\ t.sendBuf = <<>> /\ t.peer = s.peer /\ t.buffering = FALSE
            /\ t.out.cipher = s.out.nextCipher /\ t.proto = s.proto
        BY <3>8, <3>9, <4>1 DEF KeepsChoice, KeepsNames, Keeps
      <4>4. SChosen(t, cfg) /\ Bound(t) /\ KeyOf("c", t) = KeyOf("c", s) /\ KeyOf("s", t) = KeyOf("s", s)
        BY <1>0, <4>3 DEF SChosen, Bound, KeepsNames, KeyOf, cr, sr
      <4>5. t.in.cipher = KeyOf("c", t) /\ t.out.cipher = KeyOf("s", t)
        BY <1>0, <2>10, <4>3, <4>4 DEF SLate
      <4>6. SSent(t, cfg)
        BY <2>10, <4>1, <4>3, <4>4, <4>5 DEF SSent, KeepsNames
      <4>7. Shape(t.hash.sum, t)
        BY <3>8, <3>9, <3>13, <4>1 DEF Shape, KeepsChoice, Keeps
      <4>8. SEarly(t, cfg) /\ Flushed(t)
        BY <1>0, <4>1, <4>3, <4>4, <4>7 DEF SEarly, Flushed
      <4>9. SLate(t)
        BY <4>1, <4>4, <4>5 DEF SLate
      <4>10. q.master = t.master /\ Shape(q.hash.sum, t) /\ Tickets(q.hash.sum, t)
        BY <3>5, <3>6, <4>3 DEF KeepsNames, Shape, Tickets, TicketFor
      <4>11. SStream(t, cfg)
        BY <3>11, <4>1, <4>6, <4>10 DEF SStream, FinishedOf
      <4>12. SDone(s, T, m, cfg)
        BY <2>1, <3>10, <4>1, <4>2, <4>3, <4>8, <4>9, <4>11 DEF SDone, SInv, ServerPcs, Over
      <4> QED
        BY <4>12 DEF T
    <3> QED
      BY <3>12, <3>13
  <2> QED
    BY <1>0, <2>9, <2>10
<1> QED
  BY <1>1, <1>2, <1>3, <1>4

----------------------------------------------------------------------------
(* The two ends together.  CMoves and SMoves say what the peer of an end may  *)
(* rely on when that end moves.                                             *)

CMoves(c, t, cfg) ==
    /\ CSent(c, cfg) => CSent(t, cfg) /\ KeepsChoice(c, t)
    /\ t.pc = "done" => c.pc = "done" /\ KeepsChoice(c, t) /\ t.in.cipher = c.in.cipher

SMoves(s, t, cfg) ==
    /\ SSent(s, cfg) => SSent(t, cfg) /\ KeepsNames(s, t) /\ t.out.cipher = s.out.cipher
    /\ t.pc = "done" => s.pc = "done" /\ KeepsNames(s, t) /\ t.in.cipher = s.in.cipher

\* What holds between the ends survives such moves of both.
LEMMA BothKept ==
  ASSUME NEW c, NEW s, NEW cc, NEW sc, Both(c, s, cc, sc), NEW c2, NEW s2, CMoves(c, c2, cc), SMoves(s, s2, sc)
  PROVE  Both(c2, s2, cc, sc)
<1>1. ASSUME c2.pc = "done" PROVE SSent(s2, sc) /\ Same(c2, s2) /\ c2.in.cipher = s2.out.cipher
  <2>1. c.pc = "done" /\ KeepsChoice(c, c2) /\ c2.in.cipher = c.in.cipher
    BY <1>1 DEF CMoves
  <2>2. SSent(s, sc) /\ Same(c, s) /\ c.in.cipher = s.out.cipher
    BY <2>1 DEF Both
  <2>3. SSent(s2, sc) /\ KeepsNames(s, s2) /\ s2.out.cipher = s.out.cipher
    BY <2>2 DEF SMoves
  <2> QED
    BY <2>1, <2>2, <2>3 DEF Same, KeepsChoice, KeepsNames
<1>2. ASSUME s2.pc = "done" PROVE CSent(c2, cc) /\ Same(c2, s2) /\ s2.in.cipher = c2.out.cipher
  <2>1. s.pc = "done" /\ KeepsNames(s, s2) /\ s2.in.cipher = s.in.cipher
    BY <1>2 DEF SMoves
  <2>2. CSent(c, cc) /\ Same(c, s) /\ s.in.cipher = c.out.cipher
    BY <2>1 DEF Both
  <2>3. CSent(c2, cc) /\ KeepsChoice(c, c2)
    BY <2>2 DEF CMoves
  <2> QED
    BY <2>1, <2>2, <2>3 DEF Same, KeepsChoice, KeepsNames
<1> QED
  BY <1>1, <1>2 DEF Both

\* A record r of the client's stream may become one with the same message, or
\* with one that is no Finished.
CRecordOk(c, r) ==
    /\ IsRecord(r)
    /\ \/ \E o \in Stream(c) : o.msg = r.msg
       \/ r.msg.typ # "finished" /\ (r.msg.typ = "clientHello" => HelloOk(r.msg))

SRecordOk(s, r) == IsRecord(r) /\ ((\E o \in Stream(s) : o.msg = r.msg) \/ r.msg.typ # "finished")

\* Losing or damaging what is on the way.
LEMMA NetMoves ==
  ASSUME NEW c, NEW s, NEW cc, NEW sc, Pair(c, s, cc, sc), NEW x, NEW y, IsSequence(x), IsSequence(y),
         \A r \in Range(x) : CRecordOk(c, r), \A r \in Range(y) : SRecordOk(s, r)
  PROVE  LET c2 == [c EXCEPT !.net = x]
             s2 == [s EXCEPT !.net = y]
         IN  Pair(c2, s2, cc, sc) /\ c2.net = x /\ s2.net = y /\ CMoves(c, c2, cc) /\ SMoves(s, s2, sc)
<1> DEFINE c2 == [c EXCEPT !.net = x]
           s2 == [s EXCEPT !.net = y]
<1>1. CInv(c, cc) /\ SInv(s, sc) /\ Both(c, s, cc, sc)
  BY DEF Pair
<1>2. /\ CInv(c2, cc) /\ c2.pc = c.pc /\ KeepsChoice(c, c2) /\ (CSent(c, cc) => CSent(c2, cc))
      /\ c2.in = c.in /\ c2.net = x
  <2>1. \A r \in Range(x) : /\ IsRecord(r)
                            /\ \/ \E o \in Stream(c) : o.msg = r.msg
                               \/ r.msg.typ # "finished" /\ (r.msg.typ = "clientHello" => HelloOk(r.msg))
    BY DEF CRecordOk
  <2> QED
    BY <1>1, <2>1, CDropped
<1>3. /\ SInv(s2, sc) /\ s2.pc = s.pc /\ KeepsChoice(s, s2) /\ (SSent(s, sc) => SSent(s2, sc))
      /\ s2.in = s.in /\ s2.net = y
  <2>1. \A r \in Range(y) : IsRecord(r) /\ ((\E o \in Stream(s) : o.msg = r.msg) \/ r.msg.typ # "finished")
    BY DEF SRecordOk
  <2> QED
    BY <1>1, <2>1, SDropped
<1> HIDE DEF c2, s2
<1>4. CMoves(c, c2, cc)
  BY <1>2 DEF CMoves
<1>5. SMoves(s, s2, sc)
  BY <1>3 DEF SMoves, KeepsChoice, KeepsNames
<1>6. Both(c2, s2, cc, sc)
  BY <1>1, <1>4, <1>5, BothKept
<1> QED
  BY <1>2, <1>3, <1>4, <1>5, <1>6 DEF Pair, c2, s2

\* What is on the way is part of the stream.
LEMMA NetOk ==
  ASSUME NEW c, IsEnd(c)
  PROVE  IsSequence(c.net) /\ \A r \in Range(c.net) : r \in Stream(c) /\ CRecordOk(c, r) /\ SRecordOk(c, r)
BY DEF IsEnd, Stream, CRecordOk, SRecordOk

\* A transport without records carries nothing wrong.
LEMMA NoneOk ==
  ASSUME NEW c
  PROVE  IsSequence(<<>>) /\ (\A r \in Range(<<>>) : CRecordOk(c, r)) /\ (\A r \in Range(<<>>) : SRecordOk(c, r))
BY EmptyParts

\* The rest of a stream whose first record was read.
LEMMA TailOk ==
  ASSUME NEW c, IsEnd(c), c.net # <<>>
  PROVE  /\ IsSequence(Tail(c.net)) /\ \A r \in Range(Tail(c.net)) : CRecordOk(c, r) /\ SRecordOk(c, r)
         /\ Head(c.net) \in Stream(c) /\ IsRecord(Head(c.net))
<1>1. IsSequence(c.net) /\ \A r \in Range(c.net) : r \in Stream(c) /\ CRecordOk(c, r) /\ SRecordOk(c, r)
  BY NetOk
<1>2. Head(c.net) \in Range(c.net) /\ IsSequence(Tail(c.net)) /\ Range(Tail(c.net)) \subseteq Range(c.net)
  BY <1>1, HeadTailParts
<1> QED
  BY <1>1, <1>2 DEF CRecordOk

\* What readRecord returns says what the record was.
LEMMA Verdicts ==
  ASSUME NEW s, NEW r, IsRecord(r)
  PROVE  /\ readRecord(s, r, "hs") = "ok" => r.typ # "ccs"
         /\ readRecord(s, r, "ccs") = "ok" => r.typ = "ccs"
         /\ \A want \in {"hs", "ccs"} : readRecord(s, r, want) = "skip" => r.typ # "ccs"
BY DEF readRecord, IsRecord

\* A step of the client that is not its last.
LEMMA ClientMoved ==
  ASSUME NEW c, NEW s, NEW cc, NEW sc, Pair(c, s, cc, sc), s.net # <<>>, NEW t, CStep(c, t, cc)
  PROVE  LET s2 == [s EXCEPT !.net = Tail(@)] IN Pair(t, s2, cc, sc)
<1> DEFINE y == Tail(s.net)
           c2 == [c EXCEPT !.net = c.net]
           s2 == [s EXCEPT !.net = y]
<1>1. IsEnd(c) /\ IsEnd(s) /\ Both(c, s, cc, sc)
  BY DEF Pair, CInv, SInv
<1>2. IsSequence(y) /\ \A r \in Range(y) : SRecordOk(s, r)
  BY <1>1, TailOk
<1>3. IsSequence(c.net) /\ \A r \in Range(c.net) : CRecordOk(c, r)
  BY <1>1, NetOk
<1> HIDE DEF y
<1>4. Pair(c2, s2, cc, sc) /\ SMoves(s, s2, sc)
  BY <1>2, <1>3, NetMoves
<1>5. CMoves(c, t, cc) /\ CInv(t, cc)
  BY DEF CStep, CMoves
<1> HIDE DEF s2
<1>6. Both(t, s2, cc, sc)
  BY <1>1, <1>4, <1>5, BothKept
<1> QED
  BY <1>4, <1>5, <1>6 DEF Pair, s2, y

\* The same of the server.
LEMMA ServerMoved ==
  ASSUME NEW c, NEW s, NEW cc, NEW sc, Pair(c, s, cc, sc), c.net # <<>>, NEW t, SStep(s, t, sc)
  PROVE  LET c2 == [c EXCEPT !.net = Tail(@)] IN Pair(c2, t, cc, sc)
<1> DEFINE x == Tail(c.net)
           s2 == [s EXCEPT !.net = s.net]
           c2 == [c EXCEPT !.net = x]
<1>1. IsEnd(c) /\ IsEnd(s) /\ Both(c, s, cc, sc)
  BY DEF Pair, CInv, SInv
<1>2. IsSequence(x) /\ \A r \in Range(x) : CRecordOk(c, r)
  BY <1>1, TailOk
<1>3. IsSequence(s.net) /\ \A r \in Range(s.net) : SRecordOk(s, r)
  BY <1>1, NetOk
<1> HIDE DEF x
<1>4. Pair(c2, s2, cc, sc) /\ CMoves(c, c2, cc)
  BY <1>2, <1>3, NetMoves
<1>5. SMoves(s, t, sc) /\ SInv(t, sc)
  BY DEF SStep, SMoves
<1> HIDE DEF c2
<1>6. Both(c2, t, cc, sc)
  BY <1>1, <1>4, <1>5, BothKept
<1> QED
  BY <1>4, <1>5, <1>6 DEF Pair, c2, x

\* Two ends whose transcripts and secrets are the same agree on everything: this
\* is what comparing the Finished messages is for.
LEMMA FinishedAgree ==
  ASSUME NEW c, NEW s, c.isResume \in BOOLEAN, s.isResume \in BOOLEAN, Bound(c), Bound(s), c.master = s.master,
         NEW T, Shape(T, c), Shape(T, s)
  PROVE  Same(c, s) /\ \A dir : KeyOf(dir, c) = KeyOf(dir, s)
<1>1. c.ch = s.ch /\ c.sh = s.sh /\ c.isResume = s.isResume
  BY DEF Shape
<1>2. c.vers = s.vers /\ c.suite = s.suite
  BY DEF Bound
<1> QED
  BY <1>1, <1>2 DEF Same, KeyOf, cr, sr

\* The client's last step: the Finished it accepted was the server's, so the two
\* agree, and a session it caches is one the server vouches for.
LEMMA ClientFinishes ==
  ASSUME NEW c, NEW s, NEW cc, NEW sc, Pair(c, s, cc, sc), s.net # <<>>, c.pc = "finished",
         NEW a, CInv(a, cc), a.pc = "finished", KeepsChoice(c, a), CSent(c, cc) <=> CSent(a, cc),
         NEW t, CDone(a, t, Head(s.net).msg, cc)
  PROVE  LET s2 == [s EXCEPT !.net = Tail(@)] IN
         Pair(t, s2, cc, sc) /\ (t.session # <<>> => SoundSession(t.session[1]))
<1> DEFINE y == Tail(s.net)
           c2 == [c EXCEPT !.net = c.net]
           s2 == [s EXCEPT !.net = y]
           m == Head(s.net).msg
<1>0. /\ IsEnd(c) /\ IsEnd(s) /\ IsEnd(a) /\ IsEnd(t) /\ Both(c, s, cc, sc) /\ CInv(t, cc) /\ t.pc = "done"
      /\ KeepsNames(a, t) /\ t.session = a.session /\ CLate(t) /\ CLate(a) /\ SStream(s, sc)
  BY DEF Pair, CInv, SInv, CDone
<1>1. IsSequence(y) /\ (\A r \in Range(y) : SRecordOk(s, r)) /\ Head(s.net) \in Stream(s)
  BY <1>0, TailOk
<1>2. IsSequence(c.net) /\ \A r \in Range(c.net) : CRecordOk(c, r)
  BY <1>0, NetOk
<1>3. m.typ = "finished" /\ m.verify[2] = a.master /\ m.verify[3] = a.hash.sum
  BY DEF CDone
<1>4. SSent(s, sc) /\ FinishedOf(s, m.verify) /\ Tickets(m.verify[3], s)
  BY <1>0, <1>1, <1>3 DEF SStream
<1> HIDE DEF y, m
<1>5. Pair(c2, s2, cc, sc) /\ SMoves(s, s2, sc)
  BY <1>1, <1>2, NetMoves
<1> HIDE DEF c2, s2
<1>6. a.master = s.master /\ Shape(a.hash.sum, s) /\ Tickets(a.hash.sum, s)
  BY <1>3, <1>4 DEF FinishedOf
<1>7. Shape(a.hash.sum, a) /\ Bound(a) /\ a.in.cipher = KeyOf("s", a) /\ Bound(s) /\ s.out.cipher = KeyOf("s", s)
  BY <1>0, <1>4 DEF CLate, SSent
<1>8. a.isResume \in BOOLEAN /\ s.isResume \in BOOLEAN
  BY <1>0 DEF IsEnd
<1>9. Same(a, s) /\ KeyOf("s", a) = KeyOf("s", s)
  BY <1>6, <1>7, <1>8, FinishedAgree
<1>10. SSent(s2, sc) /\ KeepsNames(s, s2) /\ s2.out.cipher = s.out.cipher
  BY <1>4, <1>5 DEF SMoves
<1>11. t.in.cipher = a.in.cipher
  BY DEF CDone
<1>12. Same(t, s2) /\ t.in.cipher = s2.out.cipher
  BY <1>0, <1>7, <1>9, <1>10, <1>11 DEF Same, KeepsNames
<1>13. ASSUME s2.pc = "done" PROVE CSent(t, cc) /\ Same(t, s2) /\ s2.in.cipher = t.out.cipher
  <2>1. s.pc = "done" /\ s2.in.cipher = s.in.cipher
    BY <1>5, <1>13 DEF SMoves
  <2>2. CSent(c, cc) /\ s.in.cipher = c.out.cipher
    BY <1>0, <2>1 DEF Both
  <2>3. CSent(t, cc) /\ KeepsChoice(a, t)
    BY <2>2 DEF CDone
  <2> QED
    BY <1>12, <2>1, <2>2, <2>3 DEF KeepsChoice
<1>14. Both(t, s2, cc, sc)
  BY <1>10, <1>12, <1>13 DEF Both
<1>15. SInv(s2, sc)
  BY <1>5 DEF Pair
<1>16. ASSUME t.session # <<>> PROVE SoundSession(t.session[1])
  <2> DEFINE x == a.session[1]
  <2>1. a.session # <<>> /\ t.session[1] = x
    BY <1>0, <1>16
  <2>2. SoundSession(x) \/ NewSession(a)
    BY <2>1 DEF CInv, CSession, ClientPcs, Over
  <2>3. CASE NewSession(a)
    <3>1. x.vers = a.vers /\ x.suite = a.suite /\ x.master = a.master
      BY <2>3 DEF NewSession
    <3>2. PICK i \in 1..Len(a.hash.sum) : a.hash.sum[i].typ = "newSessionTicket" /\ a.hash.sum[i].ticket = x.ticket
      BY <2>3 DEF NewSession
    <3>3. TicketFor(x.ticket, s)
      BY <1>6, <3>2 DEF Tickets
    <3> HIDE DEF x
    <3>4. TicketFor(x.ticket, x) /\ Bound(x)
      BY <1>7, <1>9, <3>1, <3>3 DEF TicketFor, Same, Bound
    <3> QED
      BY <2>1, <3>4 DEF SoundSession
  <2> QED
    BY <2>1, <2>2, <2>3
<1> QED
  BY <1>0, <1>14, <1>15, <1>16 DEF Pair, s2, y

\* The server's last step.
LEMMA ServerFinishes ==
  ASSUME NEW c, NEW s, NEW cc, NEW sc, Pair(c, s, cc, sc), c.net # <<>>, s.pc = "finished",
         NEW a, SInv(a, sc), a.pc = "finished", KeepsChoice(s, a), SSent(s, sc) <=> SSent(a, sc),
         NEW t, SDone(a, t, Head(c.net).msg, sc)
  PROVE  LET c2 == [c EXCEPT !.net = Tail(@)] IN Pair(c2, t, cc, sc)
<1> DEFINE x == Tail(c.net)
           s2 == [s EXCEPT !.net = s.net]
           c2 == [c EXCEPT !.net = x]
           m == Head(c.net).msg
<1>0. /\ IsEnd(c) /\ IsEnd(s) /\ IsEnd(a) /\ IsEnd(t) /\ Both(c, s, cc, sc) /\ SInv(t, sc) /\ t.pc = "done"
      /\ KeepsNames(a, t) /\ SLate(a) /\ SEarly(a, sc) /\ CStream(c, cc)
  BY DEF Pair, CInv, SInv, SDone
<1>1. IsSequence(x) /\ (\A r \in Range(x) : CRecordOk(c, r)) /\ Head(c.net) \in Stream(c)
  BY <1>0, TailOk
<1>2. IsSequence(s.net) /\ \A r \in Range(s.net) : SRecordOk(s, r)
  BY <1>0, NetOk
<1>3. m.typ = "finished" /\ m.verify[2] = a.master /\ m.verify[3] = a.hash.sum
  BY DEF SDone
<1>4. CSent(c, cc) /\ FinishedOf(c, m.verify)
  BY <1>0, <1>1, <1>3 DEF CStream
<1> HIDE DEF x, m
<1>5. Pair(c2, s2, cc, sc) /\ CMoves(c, c2, cc)
  BY <1>1, <1>2, NetMoves
<1> HIDE DEF c2, s2
<1>6. a.master = c.master /\ Shape(a.hash.sum, c)
  BY <1>3, <1>4 DEF FinishedOf
<1>7. Shape(a.hash.sum, a) /\ Bound(a) /\ a.in.cipher = KeyOf("c", a) /\ Bound(c) /\ c.out.cipher = KeyOf("c", c)
  BY <1>0, <1>4 DEF SLate, SEarly, CSent, ServerPcs, Over
<1>8. a.isResume \in BOOLEAN /\ c.isResume \in BOOLEAN
  BY <1>0 DEF IsEnd
<1>9. Same(c, a) /\ KeyOf("c", c) = KeyOf("c", a)
  BY <1>6, <1>7, <1>8, FinishedAgree
<1>10. CSent(c2, cc) /\ KeepsChoice(c, c2)
  BY <1>4, <1>5 DEF CMoves
<1>11. t.in.cipher = a.in.cipher
  BY DEF SDone
<1>12. Same(c2, t) /\ t.in.cipher = c2.out.cipher
  BY <1>0, <1>7, <1>9, <1>10, <1>11 DEF Same, KeepsNames, KeepsChoice
<1>13. ASSUME c2.pc = "done" PROVE SSent(t, sc) /\ Same(c2, t) /\ c2.in.cipher = t.out.cipher
  <2>1. c.pc = "done" /\ c2.in.cipher = c.in.cipher
    BY <1>5, <1>13 DEF CMoves
  <2>2. SSent(s, sc) /\ c.in.cipher = s.out.cipher
    BY <1>0, <2>1 DEF Both
  <2>3. SSent(t, sc) /\ t.out.cipher = a.out.cipher
    BY <2>2 DEF SDone
  <2> QED
    BY <1>12, <2>1, <2>2, <2>3 DEF KeepsChoice
<1>14. Both(c2, t, cc, sc)
  BY <1>10, <1>12, <1>13 DEF Both
<1>15. CInv(c2, cc)
  BY <1>5 DEF Pair
<1> QED
  BY <1>0, <1>14, <1>15 DEF Pair, c2, x

----------------------------------------------------------------------------
(* The actions.                                                             *)

\* The variables no read changes.
Frame == UNCHANGED <<ccfg, scfg, keys, number, rotations, faults, broken>>

\* A read happens on a connection that works.
LEMMA ClientReads ==
  ASSUME HInv, NEW pc, NEW want, NEW handled, Read("client", pc, want, handled)
  PROVE  LET c == conn["client"]
             s == conn["server"]
             r == Head(s.net)
         IN  /\ c.pc = pc /\ s.net # <<>> /\ broken = FALSE /\ Frame
             /\ DOMAIN conn' = Ends /\ conn'["server"] = [s EXCEPT !.net = Tail(@)]
             /\ \/ readRecord(c, r, want) = "ok" /\ conn'["client"] = handled
                \/ readRecord(c, r, want) = "skip" /\ conn'["client"] = afterRead(c, r)
                \/ \E alert : conn'["client"] = abort(c, alert)
<1> DEFINE c == conn["client"]
           s == conn["server"]
           r == Head(s.net)
           v == readRecord(c, r, want)
           n == CASE v = "ok" -> handled
                  [] v = "skip" -> afterRead(c, r)
                  [] OTHER -> abort(c, v)
<1>0. DOMAIN conn = Ends /\ broken \in BOOLEAN /\ (broken = TRUE => s.net = <<>>)
  BY DEF HInv, Ends
<1>1. /\ c.pc = pc /\ s.net # <<>> /\ Frame
      /\ \E t \in Then(n, Outcomes) : conn' = [conn EXCEPT !["client"] = t, !["server"].net = Tail(@)]
  BY DEF Read, Other, Incoming, Accepted, Frame
<1>2. broken = FALSE
  BY <1>0, <1>1
<1>3. Then(n, Outcomes) = Outcomes(n)
  <2> HIDE DEF n
  <2> QED
    BY ThenIs
<1>4. Outcomes(n) = {n}
  <2> HIDE DEF n
  <2> QED
    BY <1>2 DEF Outcomes
<1>5. \/ v = "ok" /\ n = handled
      \/ v = "skip" /\ n = afterRead(c, r)
      \/ n = abort(c, v)
  <2> HIDE DEF v
  <2> QED
    OBVIOUS
<1> HIDE DEF n
<1>6. conn' = [conn EXCEPT !["client"] = n, !["server"].net = Tail(@)]
  BY <1>1, <1>3, <1>4
<1>7. DOMAIN conn' = Ends /\ conn'["client"] = n /\ conn'["server"] = [s EXCEPT !.net = Tail(@)]
  BY <1>0, <1>6 DEF Ends
<1> QED
  BY <1>1, <1>2, <1>5, <1>7

\* A read of the server takes the first record the client wrote and handles it, skips
\* it, or fails.
LEMMA ServerReads ==
  ASSUME HInv, NEW pc, NEW want, NEW handled, Read("server", pc, want, handled)
  PROVE  LET c == conn["client"]
             s == conn["server"]
             r == Head(c.net)
         IN  /\ s.pc = pc /\ c.net # <<>> /\ broken = FALSE /\ Frame
             /\ DOMAIN conn' = Ends /\ conn'["client"] = [c EXCEPT !.net = Tail(@)]
             /\ \/ readRecord(s, r, want) = "ok" /\ conn'["server"] = handled
                \/ readRecord(s, r, want) = "skip" /\ conn'["server"] = afterRead(s, r)
                \/ \E alert : conn'["server"] = abort(s, alert)
<1> DEFINE c == conn["client"]
           s == conn["server"]
           r == Head(c.net)
           v == readRecord(s, r, want)
           n == CASE v = "ok" -> handled
                  [] v = "skip" -> afterRead(s, r)
                  [] OTHER -> abort(s, v)
<1>0. DOMAIN conn = Ends /\ broken \in BOOLEAN /\ (broken = TRUE => c.net = <<>>)
  BY DEF HInv, Ends
<1>1. /\ s.pc = pc /\ c.net # <<>> /\ Frame
      /\ \E t \in Then(n, Outcomes) : conn' = [conn EXCEPT !["server"] = t, !["client"].net = Tail(@)]
  BY DEF Read, Other, Incoming, Accepted, Frame
<1>2. broken = FALSE
  BY <1>0, <1>1
<1>3. Then(n, Outcomes) = Outcomes(n)
  <2> HIDE DEF n
  <2> QED
    BY ThenIs
<1>4. Outcomes(n) = {n}
  <2> HIDE DEF n
  <2> QED
    BY <1>2 DEF Outcomes
<1>5. \/ v = "ok" /\ n = handled
      \/ v = "skip" /\ n = afterRead(s, r)
      \/ n = abort(s, v)
  <2> HIDE DEF v
  <2> QED
    OBVIOUS
<1> HIDE DEF n
<1>6. conn' = [conn EXCEPT !["server"] = n, !["client"].net = Tail(@)]
  BY <1>1, <1>3, <1>4
<1>7. DOMAIN conn' = Ends /\ conn'["server"] = n /\ conn'["client"] = [c EXCEPT !.net = Tail(@)]
  BY <1>0, <1>6 DEF Ends
<1> QED
  BY <1>1, <1>2, <1>5, <1>7

\* The invariant after a step of a working connection.
LEMMA Established ==
  ASSUME HInv, Frame, broken = FALSE, DOMAIN conn' = Ends,
         Pair(conn'["client"], conn'["server"], ccfg, scfg), cache' # <<>> => SoundSession(cache'[1])
  PROVE  HInv'
<1>1. ccfg' = ccfg /\ scfg' = scfg /\ broken' = FALSE /\ scfg' \in ServerConfigs
  BY DEF Frame, HInv
<1>2. Pair(conn'["client"], conn'["server"], ccfg', scfg')
  BY <1>1
<1> QED
  BY <1>1, <1>2 DEF HInv

\* Handling a message that readRecord accepted is a step of the client that read it.
LEMMA CThrough ==
  ASSUME NEW c, NEW cfg, CInv(c, cfg), NEW r, r.typ # "ccs", NEW t, CStep(afterRead(c, r), t, cfg)
  PROVE  CStep(c, t, cfg)
<1> DEFINE a == afterRead(c, r)
<1>1. KeepsChoice(c, a) /\ (CSent(c, cfg) <=> CSent(a, cfg))
  BY CAfterRead
<1> HIDE DEF a
<1> QED
  BY <1>1 DEF CStep, KeepsChoice, a

\* A step of a server that begins with the bookkeeping of a read.
LEMMA SThrough ==
  ASSUME NEW s, NEW cfg, SInv(s, cfg), NEW r, r.typ # "ccs", NEW t, SStep(afterRead(s, r), t, cfg)
  PROVE  SStep(s, t, cfg)
<1> DEFINE a == afterRead(s, r)
<1>1. KeepsChoice(s, a) /\ (SSent(s, cfg) <=> SSent(a, cfg))
  BY SAfterRead
<1> HIDE DEF a
<1> QED
  BY <1>1 DEF SStep, KeepsChoice, KeepsNames, a

\* Reading on after a warning.
LEMMA CSkips ==
  ASSUME NEW c, NEW cfg, CInv(c, cfg), NEW r, r.typ # "ccs", c.pc # "done"
  PROVE  CStep(c, afterRead(c, r), cfg)
BY CAfterRead DEF CStep

\* A record that is read and skipped changes nothing the invariant speaks of.
LEMMA SSkips ==
  ASSUME NEW s, NEW cfg, SInv(s, cfg), NEW r, r.typ # "ccs", s.pc # "done"
  PROVE  SStep(s, afterRead(s, r), cfg)
<1> DEFINE a == afterRead(s, r)
<1>1. SInv(a, cfg) /\ a.pc = s.pc /\ KeepsChoice(s, a) /\ (SSent(s, cfg) <=> SSent(a, cfg))
  BY SAfterRead
<1> HIDE DEF a
<1> QED
  BY <1>1 DEF SStep, KeepsChoice, KeepsNames, a

\* A read of the client whose handler makes a step.
LEMMA ClientReadInv ==
  ASSUME HInv, NEW pc, pc # "done", NEW want \in {"hs", "ccs"}, NEW handled, Read("client", pc, want, handled),
         UNCHANGED cache,
         readRecord(conn["client"], Incoming("client"), want) = "ok" => CStep(conn["client"], handled, ccfg)
  PROVE  HInv'
<1> DEFINE c == conn["client"]
           s == conn["server"]
           r == Head(s.net)
<1>0. Incoming("client") = r
  BY DEF Incoming, Other
<1>1. /\ c.pc = pc /\ s.net # <<>> /\ broken = FALSE /\ Frame
      /\ DOMAIN conn' = Ends /\ conn'["server"] = [s EXCEPT !.net = Tail(@)]
      /\ \/ readRecord(c, r, want) = "ok" /\ conn'["client"] = handled
         \/ readRecord(c, r, want) = "skip" /\ conn'["client"] = afterRead(c, r)
         \/ \E alert : conn'["client"] = abort(c, alert)
  BY ClientReads
<1>2. Pair(c, s, ccfg, scfg) /\ CInv(c, ccfg) /\ IsEnd(s) /\ (cache # <<>> => SoundSession(cache[1]))
  BY DEF HInv, Pair, SInv
<1>3. IsRecord(r)
  BY <1>1, <1>2, TailOk
<1>4. CStep(c, conn'["client"], ccfg)
  <2>1. CASE readRecord(c, r, want) = "ok" /\ conn'["client"] = handled
    BY <1>0, <2>1
  <2>2. CASE readRecord(c, r, want) = "skip" /\ conn'["client"] = afterRead(c, r)
    <3>1. r.typ # "ccs"
      BY <1>3, <2>2, Verdicts
    <3> QED
      BY <1>1, <1>2, <2>2, <3>1, CSkips
  <2>3. CASE \E alert : conn'["client"] = abort(c, alert)
    BY <1>2, <2>3, CAbort
  <2> QED
    BY <1>1, <2>1, <2>2, <2>3
<1>5. Pair(conn'["client"], conn'["server"], ccfg, scfg)
  BY <1>1, <1>2, <1>4, ClientMoved
<1> QED
  BY <1>1, <1>2, <1>5, Established

\* A read of the server keeps the invariant, if handling an accepted record does.
LEMMA ServerReadInv ==
  ASSUME HInv, NEW pc, pc # "done", NEW want \in {"hs", "ccs"}, NEW handled, Read("server", pc, want, handled),
         UNCHANGED cache,
         readRecord(conn["server"], Incoming("server"), want) = "ok" => SStep(conn["server"], handled, scfg)
  PROVE  HInv'
<1> DEFINE c == conn["client"]
           s == conn["server"]
           r == Head(c.net)
<1>0. Incoming("server") = r
  BY DEF Incoming, Other
<1>1. /\ s.pc = pc /\ c.net # <<>> /\ broken = FALSE /\ Frame
      /\ DOMAIN conn' = Ends /\ conn'["client"] = [c EXCEPT !.net = Tail(@)]
      /\ \/ readRecord(s, r, want) = "ok" /\ conn'["server"] = handled
         \/ readRecord(s, r, want) = "skip" /\ conn'["server"] = afterRead(s, r)
         \/ \E alert : conn'["server"] = abort(s, alert)
  BY ServerReads
<1>2. Pair(c, s, ccfg, scfg) /\ SInv(s, scfg) /\ IsEnd(c) /\ (cache # <<>> => SoundSession(cache[1]))
  BY DEF HInv, Pair, CInv
<1>3. IsRecord(r)
  BY <1>1, <1>2, TailOk
<1>4. SStep(s, conn'["server"], scfg)
  <2>1. CASE readRecord(s, r, want) = "ok" /\ conn'["server"] = handled
    BY <1>0, <2>1
  <2>2. CASE readRecord(s, r, want) = "skip" /\ conn'["server"] = afterRead(s, r)
    <3>1. r.typ # "ccs"
      BY <1>3, <2>2, Verdicts
    <3> QED
      BY <1>1, <1>2, <2>2, <3>1, SSkips
  <2>3. CASE \E alert : conn'["server"] = abort(s, alert)
    BY <1>2, <2>3, SAbort
  <2> QED
    BY <1>1, <2>1, <2>2, <2>3
<1>5. Pair(conn'["client"], conn'["server"], ccfg, scfg)
  <2>1. c.net # <<>> /\ conn'["client"] = [c EXCEPT !.net = Tail(@)]
    BY <1>1
  <2> DEFINE d == conn'["server"]
  <2>2. SStep(s, d, scfg)
    BY <1>4
  <2> HIDE DEF c, s, d
  <2>3. LET c2 == [c EXCEPT !.net = Tail(@)] IN Pair(c2, d, ccfg, scfg)
    BY <1>2, <2>1, <2>2, ServerMoved
  <2> QED
    BY <2>1, <2>3 DEF d
<1> QED
  BY <1>1, <1>2, <1>5, Established

\* What a read that readRecord lets through starts from.
LEMMA ClientAccepts ==
  ASSUME HInv, conn["server"].net # <<>>, readRecord(conn["client"], Incoming("client"), "hs") = "ok"
  PROVE  /\ Incoming("client") = Head(conn["server"].net) /\ IsRecord(Incoming("client")) /\ Incoming("client").typ # "ccs"
         /\ Accepted("client") = afterRead(conn["client"], Incoming("client"))
         /\ CInv(conn["client"], ccfg) /\ CInv(Accepted("client"), ccfg) /\ Accepted("client").pc = conn["client"].pc
         /\ KeepsChoice(conn["client"], Accepted("client"))
         /\ CSent(conn["client"], ccfg) <=> CSent(Accepted("client"), ccfg)
<1> DEFINE c == conn["client"]
           r == Incoming("client")
<1>1. Incoming("client") = Head(conn["server"].net) /\ Accepted("client") = afterRead(c, r)
  BY DEF Incoming, Accepted, Other
<1>2. CInv(c, ccfg) /\ IsEnd(conn["server"])
  BY DEF HInv, Pair, SInv
<1>3. IsRecord(r)
  BY <1>1, <1>2, TailOk
<1>4. r.typ # "ccs"
  BY <1>3, Verdicts
<1> HIDE DEF c, r
<1>5. LET t == afterRead(c, r) IN
      CInv(t, ccfg) /\ t.pc = c.pc /\ KeepsChoice(c, t) /\ (CSent(c, ccfg) <=> CSent(t, ccfg))
  BY <1>2, <1>4, CAfterRead
<1> QED
  BY <1>1, <1>2, <1>3, <1>4, <1>5 DEF c, r

\* What an accepted handshake record is, and that the bookkeeping of the read keeps
\* the invariant.
LEMMA ServerAccepts ==
  ASSUME HInv, conn["client"].net # <<>>, readRecord(conn["server"], Incoming("server"), "hs") = "ok"
  PROVE  /\ Incoming("server") = Head(conn["client"].net) /\ IsRecord(Incoming("server")) /\ Incoming("server").typ # "ccs"
         /\ Incoming("server") \in Stream(conn["client"])
         /\ Accepted("server") = afterRead(conn["server"], Incoming("server"))
         /\ SInv(conn["server"], scfg) /\ SInv(Accepted("server"), scfg) /\ Accepted("server").pc = conn["server"].pc
         /\ KeepsChoice(conn["server"], Accepted("server"))
         /\ SSent(conn["server"], scfg) <=> SSent(Accepted("server"), scfg)
<1> DEFINE s == conn["server"]
           r == Incoming("server")
<1>1. Incoming("server") = Head(conn["client"].net) /\ Accepted("server") = afterRead(s, r)
  BY DEF Incoming, Accepted, Other
<1>2. SInv(s, scfg) /\ IsEnd(conn["client"])
  BY DEF HInv, Pair, CInv
<1>3. IsRecord(r) /\ r \in Stream(conn["client"])
  BY <1>1, <1>2, TailOk
<1>4. r.typ # "ccs"
  BY <1>3, Verdicts
<1> HIDE DEF s, r
<1>5. LET t == afterRead(s, r) IN
      SInv(t, scfg) /\ t.pc = s.pc /\ KeepsChoice(s, t) /\ (SSent(s, scfg) <=> SSent(t, scfg))
  BY <1>2, <1>4, SAfterRead
<1> QED
  BY <1>1, <1>2, <1>3, <1>4, <1>5 DEF s, r

\* The client's actions: reading the ServerHello,
LEMMA ReadServerHelloInv == HInv /\ ClientReadServerHello => HInv'
<1> SUFFICES ASSUME HInv, ClientReadServerHello PROVE HInv'
  OBVIOUS
<1> DEFINE a == Accepted("client")
           r == Incoming("client")
           t == clientOnServerHello(a, r.msg)
<1>1. Read("client", "serverHello", "hs", t) /\ UNCHANGED cache
  BY DEF ClientReadServerHello
<1>2. conn["client"].pc = "serverHello" /\ conn["server"].net # <<>>
  BY <1>1, ClientReads
<1>3. ASSUME readRecord(conn["client"], r, "hs") = "ok" PROVE CStep(conn["client"], t, ccfg)
  <2>1. /\ CInv(conn["client"], ccfg) /\ CInv(a, ccfg) /\ a.pc = "serverHello" /\ r.typ # "ccs"
        /\ a = afterRead(conn["client"], r)
    BY <1>2, <1>3, ClientAccepts
  <2> HIDE DEF a
  <2>2. CStep(a, t, ccfg)
    BY <2>1, ReadServerHelloStep
  <2> HIDE DEF t
  <2> QED
    BY <2>1, <2>2, CThrough
<1> QED
  BY <1>1, <1>3, ClientReadInv

\* the server's certificate,
LEMMA ReadCertificateInv == HInv /\ ClientReadCertificate => HInv'
<1> SUFFICES ASSUME HInv, ClientReadCertificate PROVE HInv'
  OBVIOUS
<1> DEFINE a == Accepted("client")
           r == Incoming("client")
           t == clientOnCertificate(a, r.msg)
<1>1. Read("client", "certificate", "hs", t) /\ UNCHANGED cache
  BY DEF ClientReadCertificate
<1>2. conn["client"].pc = "certificate" /\ conn["server"].net # <<>>
  BY <1>1, ClientReads
<1>3. ASSUME readRecord(conn["client"], r, "hs") = "ok" PROVE CStep(conn["client"], t, ccfg)
  <2>1. /\ CInv(conn["client"], ccfg) /\ CInv(a, ccfg) /\ a.pc = "certificate" /\ r.typ # "ccs"
        /\ a = afterRead(conn["client"], r)
    BY <1>2, <1>3, ClientAccepts
  <2> HIDE DEF a
  <2>2. CStep(a, t, ccfg)
    BY <2>1, ReadServerCertificateStep
  <2> HIDE DEF t
  <2> QED
    BY <2>1, <2>2, CThrough
<1> QED
  BY <1>1, <1>3, ClientReadInv

\* the rest of the server's flight,
LEMMA ReadFlightInv == HInv /\ ClientReadFlight => HInv'
<1> SUFFICES ASSUME HInv, ClientReadFlight PROVE HInv'
  OBVIOUS
<1> DEFINE a == Accepted("client")
           r == Incoming("client")
           t == clientOnFlight(a, r.msg)
<1>1. Read("client", "flight", "hs", t) /\ UNCHANGED cache
  BY DEF ClientReadFlight
<1>2. conn["client"].pc = "flight" /\ conn["server"].net # <<>>
  BY <1>1, ClientReads
<1>3. ASSUME readRecord(conn["client"], r, "hs") = "ok" PROVE CStep(conn["client"], t, ccfg)
  <2>1. /\ CInv(conn["client"], ccfg) /\ CInv(a, ccfg) /\ a.pc = "flight" /\ r.typ # "ccs"
        /\ a = afterRead(conn["client"], r)
    BY <1>2, <1>3, ClientAccepts
  <2> HIDE DEF a
  <2>2. CStep(a, t, ccfg)
    BY <2>1, ReadFlightStep
  <2> HIDE DEF t
  <2> QED
    BY <2>1, <2>2, CThrough
<1> QED
  BY <1>1, <1>3, ClientReadInv

\* the session ticket,
LEMMA ReadTicketInv == HInv /\ ClientReadTicket => HInv'
<1> SUFFICES ASSUME HInv, ClientReadTicket PROVE HInv'
  OBVIOUS
<1> DEFINE a == Accepted("client")
           r == Incoming("client")
           t == clientOnTicket(a, r.msg)
<1>1. Read("client", "ticket", "hs", t) /\ UNCHANGED cache
  BY DEF ClientReadTicket
<1>2. conn["client"].pc = "ticket" /\ conn["server"].net # <<>>
  BY <1>1, ClientReads
<1>3. ASSUME readRecord(conn["client"], r, "hs") = "ok" PROVE CStep(conn["client"], t, ccfg)
  <2>1. /\ CInv(conn["client"], ccfg) /\ CInv(a, ccfg) /\ a.pc = "ticket" /\ r.typ # "ccs"
        /\ a = afterRead(conn["client"], r)
    BY <1>2, <1>3, ClientAccepts
  <2> HIDE DEF a
  <2>2. CStep(a, t, ccfg)
    BY <2>1, ReadTicketStep
  <2> HIDE DEF t
  <2> QED
    BY <2>1, <2>2, CThrough
<1> QED
  BY <1>1, <1>3, ClientReadInv

\* the ChangeCipherSpec,
LEMMA ClientCCSInv == HInv /\ ClientReadCCS => HInv'
<1> SUFFICES ASSUME HInv, ClientReadCCS PROVE HInv'
  OBVIOUS
<1> DEFINE c == conn["client"]
           r == Incoming("client")
           t == [afterRead(c, r) EXCEPT !.pc = "finished"]
<1>1. Read("client", "ccs", "ccs", t) /\ UNCHANGED cache
  BY DEF ClientReadCCS, Accepted
<1>2. c.pc = "ccs" /\ conn["server"].net # <<>>
  BY <1>1, ClientReads
<1>3. CInv(c, ccfg) /\ IsEnd(conn["server"]) /\ r = Head(conn["server"].net)
  BY DEF HInv, Pair, SInv, Incoming, Other
<1>4. IsRecord(r)
  BY <1>2, <1>3, TailOk
<1>5. ASSUME readRecord(c, r, "ccs") = "ok" PROVE CStep(c, t, ccfg)
  <2>1. r.typ = "ccs"
    BY <1>4, <1>5, Verdicts
  <2> QED
    BY <1>2, <1>3, <2>1, ClientCCSStep
<1> QED
  BY <1>1, <1>5, ClientReadInv

\* and the server's Finished.
LEMMA ClientFinishedInv == HInv /\ ClientReadFinished => HInv'
<1> SUFFICES ASSUME HInv, ClientReadFinished PROVE HInv'
  OBVIOUS
<1> DEFINE c == conn["client"]
           s == conn["server"]
           a == Accepted("client")
           r == Incoming("client")
           t == clientOnFinished(a, r.msg)
           d == conn'["client"]
<1>1. /\ Read("client", "finished", "hs", t)
      /\ cache' = IF ccfg.cache /\ d.pc = "done" /\ d.session # <<>> THEN d.session ELSE cache
  BY DEF ClientReadFinished
<1>2. r = Head(s.net) /\ Pair(c, s, ccfg, scfg) /\ IsEnd(s) /\ CInv(c, ccfg) /\ (cache # <<>> => SoundSession(cache[1]))
  BY DEF HInv, Pair, SInv, Incoming, Other
<1>3. /\ c.pc = "finished" /\ s.net # <<>> /\ broken = FALSE /\ Frame
      /\ DOMAIN conn' = Ends /\ conn'["server"] = [s EXCEPT !.net = Tail(@)]
      /\ \/ readRecord(c, Head(s.net), "hs") = "ok" /\ d = t
         \/ readRecord(c, Head(s.net), "hs") = "skip" /\ d = afterRead(c, Head(s.net))
         \/ \E alert : d = abort(c, alert)
  BY <1>1, ClientReads
<1>4. IsRecord(r)
  BY <1>2, <1>3, TailOk
<1>5. ASSUME CStep(c, d, ccfg) PROVE HInv'
  <2>1. Pair(d, conn'["server"], ccfg, scfg)
    BY <1>2, <1>3, <1>5, ClientMoved
  <2>2. cache' = cache
    BY <1>1, <1>5 DEF CStep
  <2> QED
    BY <1>2, <1>3, <2>1, <2>2, Established
<1>6. CASE readRecord(c, r, "hs") = "ok" /\ d = t
  <2>1. /\ CInv(a, ccfg) /\ a.pc = "finished" /\ r.typ # "ccs" /\ a = afterRead(c, r) /\ KeepsChoice(c, a)
        /\ CSent(c, ccfg) <=> CSent(a, ccfg)
    BY <1>3, <1>6, ClientAccepts
  <2> HIDE DEF a
  <2>2. CStep(a, t, ccfg) \/ CDone(a, t, r.msg, ccfg)
    BY <2>1, ClientReadFinishedStep
  <2> HIDE DEF t, r, c, s, d
  <2>3. CASE CStep(a, t, ccfg)
    <3>1. CStep(c, t, ccfg)
      BY <1>2, <2>1, <2>3, CThrough
    <3> QED
      BY <1>5, <1>6, <3>1
  <2>4. CASE CDone(a, t, r.msg, ccfg)
    <3>1. LET s2 == [s EXCEPT !.net = Tail(@)] IN
          Pair(t, s2, ccfg, scfg) /\ (t.session # <<>> => SoundSession(t.session[1]))
      BY <1>2, <1>3, <2>1, <2>4, ClientFinishes
    <3>2. Pair(d, conn'["server"], ccfg, scfg)
      BY <1>3, <1>6, <3>1
    <3>3. cache' # <<>> => SoundSession(cache'[1])
      BY <1>1, <1>2, <1>6, <3>1
    <3> QED
      BY <1>3, <3>2, <3>3, Established DEF d
  <2> QED
    BY <2>2, <2>3, <2>4
<1>7. CASE readRecord(c, r, "hs") = "skip" /\ d = afterRead(c, r)
  <2>1. r.typ # "ccs"
    BY <1>4, <1>7, Verdicts
  <2>2. CStep(c, d, ccfg)
    BY <1>2, <1>3, <1>7, <2>1, CSkips
  <2> QED
    BY <1>5, <2>2
<1>8. CASE \E alert : d = abort(c, alert)
  <2>1. CStep(c, d, ccfg)
    BY <1>2, <1>8, CAbort
  <2> QED
    BY <1>5, <2>1
<1> QED
  BY <1>2, <1>3, <1>6, <1>7, <1>8

\* The server's actions: reading the ClientHello,
LEMMA ReadHelloInv == HInv /\ ServerReadHello => HInv'
<1> SUFFICES ASSUME HInv, ServerReadHello PROVE HInv'
  OBVIOUS
<1> DEFINE a == Accepted("server")
           r == Incoming("server")
           t == serverStart(a, scfg, r.msg, number)
<1>1. Read("server", "clientHello", "hs", t) /\ UNCHANGED cache
  BY DEF ServerReadHello
<1>2. conn["server"].pc = "clientHello" /\ conn["client"].net # <<>>
  BY <1>1, ServerReads
<1>3. ASSUME readRecord(conn["server"], r, "hs") = "ok" PROVE SStep(conn["server"], t, scfg)
  <2>1. /\ SInv(conn["server"], scfg) /\ SInv(a, scfg) /\ a.pc = "clientHello" /\ r.typ # "ccs"
        /\ a = afterRead(conn["server"], r) /\ r \in Stream(conn["client"])
    BY <1>2, <1>3, ServerAccepts
  <2>2. scfg \in ServerConfigs /\ (r.msg.typ = "clientHello" => HelloOk(r.msg))
    BY <2>1 DEF HInv, Pair, CInv, CStream
  <2> HIDE DEF a, r
  <2>3. SStep(a, t, scfg)
    BY <2>1, <2>2, ServerStartStep
  <2> HIDE DEF t
  <2> QED
    BY <2>1, <2>3, SThrough
<1> QED
  BY <1>1, <1>3, ServerReadInv

\* the client's certificate,
LEMMA ReadClientCertificateInv == HInv /\ ServerReadCertificate => HInv'
<1> SUFFICES ASSUME HInv, ServerReadCertificate PROVE HInv'
  OBVIOUS
<1> DEFINE a == Accepted("server")
           r == Incoming("server")
           t == readClientCertificate(a, scfg, r.msg)
<1>1. Read("server", "clientCertificate", "hs", t) /\ UNCHANGED cache
  BY DEF ServerReadCertificate
<1>2. conn["server"].pc = "clientCertificate" /\ conn["client"].net # <<>>
  BY <1>1, ServerReads
<1>3. ASSUME readRecord(conn["server"], r, "hs") = "ok" PROVE SStep(conn["server"], t, scfg)
  <2>1. /\ SInv(conn["server"], scfg) /\ SInv(a, scfg) /\ a.pc = "clientCertificate" /\ r.typ # "ccs"
        /\ a = afterRead(conn["server"], r)
    BY <1>2, <1>3, ServerAccepts
  <2>2. scfg \in ServerConfigs
    BY DEF HInv
  <2> HIDE DEF a, r
  <2>3. SStep(a, t, scfg)
    BY <2>1, <2>2, ReadClientCertificateStep
  <2> HIDE DEF t
  <2> QED
    BY <2>1, <2>3, SThrough
<1> QED
  BY <1>1, <1>3, ServerReadInv

\* its key exchange,
LEMMA ReadKeyExchangeInv == HInv /\ ServerReadKeyExchange => HInv'
<1> SUFFICES ASSUME HInv, ServerReadKeyExchange PROVE HInv'
  OBVIOUS
<1> DEFINE a == Accepted("server")
           r == Incoming("server")
           t == readClientKeyExchange(a, r.msg)
<1>1. Read("server", "clientKeyExchange", "hs", t) /\ UNCHANGED cache
  BY DEF ServerReadKeyExchange
<1>2. conn["server"].pc = "clientKeyExchange" /\ conn["client"].net # <<>>
  BY <1>1, ServerReads
<1>3. ASSUME readRecord(conn["server"], r, "hs") = "ok" PROVE SStep(conn["server"], t, scfg)
  <2>1. /\ SInv(conn["server"], scfg) /\ SInv(a, scfg) /\ a.pc = "clientKeyExchange" /\ r.typ # "ccs"
        /\ a = afterRead(conn["server"], r)
    BY <1>2, <1>3, ServerAccepts
  <2> HIDE DEF a, r
  <2>2. SStep(a, t, scfg)
    BY <2>1, ReadClientKeyExchangeStep
  <2> HIDE DEF t
  <2> QED
    BY <2>1, <2>2, SThrough
<1> QED
  BY <1>1, <1>3, ServerReadInv

\* its certificate verify message,
LEMMA ReadVerifyInv == HInv /\ ServerReadVerify => HInv'
<1> SUFFICES ASSUME HInv, ServerReadVerify PROVE HInv'
  OBVIOUS
<1> DEFINE a == Accepted("server")
           r == Incoming("server")
           t == readCertificateVerify(a, r.msg)
<1>1. Read("server", "certificateVerify", "hs", t) /\ UNCHANGED cache
  BY DEF ServerReadVerify
<1>2. conn["server"].pc = "certificateVerify" /\ conn["client"].net # <<>>
  BY <1>1, ServerReads
<1>3. ASSUME readRecord(conn["server"], r, "hs") = "ok" PROVE SStep(conn["server"], t, scfg)
  <2>1. /\ SInv(conn["server"], scfg) /\ SInv(a, scfg) /\ a.pc = "certificateVerify" /\ r.typ # "ccs"
        /\ a = afterRead(conn["server"], r)
    BY <1>2, <1>3, ServerAccepts
  <2> HIDE DEF a, r
  <2>2. SStep(a, t, scfg)
    BY <2>1, ReadCertificateVerifyStep
  <2> HIDE DEF t
  <2> QED
    BY <2>1, <2>2, SThrough
<1> QED
  BY <1>1, <1>3, ServerReadInv

\* its ChangeCipherSpec,
LEMMA ServerCCSInv == HInv /\ ServerReadCCS => HInv'
<1> SUFFICES ASSUME HInv, ServerReadCCS PROVE HInv'
  OBVIOUS
<1> DEFINE s == conn["server"]
           r == Incoming("server")
           t == [afterRead(s, r) EXCEPT !.pc = IF s.sh.npn THEN "nextProto" ELSE "finished"]
<1>1. Read("server", "ccs", "ccs", t) /\ UNCHANGED cache
  BY DEF ServerReadCCS, Accepted
<1>2. s.pc = "ccs" /\ conn["client"].net # <<>>
  BY <1>1, ServerReads
<1>3. SInv(s, scfg) /\ IsEnd(conn["client"]) /\ r = Head(conn["client"].net)
  BY DEF HInv, Pair, CInv, Incoming, Other
<1>4. IsRecord(r)
  BY <1>2, <1>3, TailOk
<1>5. ASSUME readRecord(s, r, "ccs") = "ok" PROVE SStep(s, t, scfg)
  <2>1. r.typ = "ccs"
    BY <1>4, <1>5, Verdicts
  <2> QED
    BY <1>2, <1>3, <2>1, ServerCCSStep
<1> QED
  BY <1>1, <1>5, ServerReadInv

\* the protocol it chose,
LEMMA ReadNextProtoInv == HInv /\ ServerReadNextProto => HInv'
<1> SUFFICES ASSUME HInv, ServerReadNextProto PROVE HInv'
  OBVIOUS
<1> DEFINE a == Accepted("server")
           r == Incoming("server")
           t == readNextProto(a, r.msg)
<1>1. Read("server", "nextProto", "hs", t) /\ UNCHANGED cache
  BY DEF ServerReadNextProto
<1>2. conn["server"].pc = "nextProto" /\ conn["client"].net # <<>>
  BY <1>1, ServerReads
<1>3. ASSUME readRecord(conn["server"], r, "hs") = "ok" PROVE SStep(conn["server"], t, scfg)
  <2>1. /\ SInv(conn["server"], scfg) /\ SInv(a, scfg) /\ a.pc = "nextProto" /\ r.typ # "ccs"
        /\ a = afterRead(conn["server"], r)
    BY <1>2, <1>3, ServerAccepts
  <2> HIDE DEF a, r
  <2>2. SStep(a, t, scfg)
    BY <2>1, ReadNextProtoStep
  <2> HIDE DEF t
  <2> QED
    BY <2>1, <2>2, SThrough
<1> QED
  BY <1>1, <1>3, ServerReadInv

\* and its Finished.
LEMMA ServerFinishedInv == HInv /\ ServerReadFinished => HInv'
<1> SUFFICES ASSUME HInv, ServerReadFinished PROVE HInv'
  OBVIOUS
<1> DEFINE c == conn["client"]
           s == conn["server"]
           a == Accepted("server")
           r == Incoming("server")
           t == serverOnFinished(a, r.msg)
           d == conn'["server"]
<1>1. Read("server", "finished", "hs", t) /\ cache' = cache
  BY DEF ServerReadFinished
<1>2. r = Head(c.net) /\ Pair(c, s, ccfg, scfg) /\ IsEnd(c) /\ SInv(s, scfg) /\ (cache # <<>> => SoundSession(cache[1]))
  BY DEF HInv, Pair, CInv, Incoming, Other
<1>3. /\ s.pc = "finished" /\ c.net # <<>> /\ broken = FALSE /\ Frame
      /\ DOMAIN conn' = Ends /\ conn'["client"] = [c EXCEPT !.net = Tail(@)]
      /\ \/ readRecord(s, Head(c.net), "hs") = "ok" /\ d = t
         \/ readRecord(s, Head(c.net), "hs") = "skip" /\ d = afterRead(s, Head(c.net))
         \/ \E alert : d = abort(s, alert)
  BY <1>1, ServerReads
<1>4. IsRecord(r)
  BY <1>2, <1>3, TailOk
<1>5. ASSUME SStep(s, d, scfg) PROVE HInv'
  <2>1. Pair(conn'["client"], d, ccfg, scfg)
    <3>1. c.net # <<>> /\ conn'["client"] = [c EXCEPT !.net = Tail(@)]
      BY <1>3
    <3> HIDE DEF c, s, d
    <3>2. LET c2 == [c EXCEPT !.net = Tail(@)] IN Pair(c2, d, ccfg, scfg)
      BY <1>2, <1>5, <3>1, ServerMoved
    <3> QED
      BY <3>1, <3>2
  <2> QED
    BY <1>1, <1>2, <1>3, <2>1, Established
<1>6. CASE readRecord(s, r, "hs") = "ok" /\ d = t
  <2>1. /\ SInv(a, scfg) /\ a.pc = "finished" /\ r.typ # "ccs" /\ a = afterRead(s, r) /\ KeepsChoice(s, a)
        /\ SSent(s, scfg) <=> SSent(a, scfg)
    BY <1>3, <1>6, ServerAccepts
  <2> HIDE DEF a
  <2>2. SStep(a, t, scfg) \/ SDone(a, t, r.msg, scfg)
    BY <2>1, ServerReadFinishedStep
  <2> HIDE DEF t, r, c, s, d
  <2>3. CASE SStep(a, t, scfg)
    <3>1. SStep(s, t, scfg)
      BY <1>2, <2>1, <2>3, SThrough
    <3> QED
      BY <1>5, <1>6, <3>1
  <2>4. CASE SDone(a, t, r.msg, scfg)
    <3>1. LET c2 == [c EXCEPT !.net = Tail(@)] IN Pair(c2, t, ccfg, scfg)
      BY <1>2, <1>3, <2>1, <2>4, ServerFinishes
    <3>2. Pair(conn'["client"], d, ccfg, scfg)
      BY <1>3, <1>6, <3>1
    <3> QED
      BY <1>1, <1>2, <1>3, <3>2, Established DEF d
  <2> QED
    BY <2>2, <2>3, <2>4
<1>7. CASE readRecord(s, r, "hs") = "skip" /\ d = afterRead(s, r)
  <2>1. r.typ # "ccs"
    BY <1>4, <1>7, Verdicts
  <2>2. SStep(s, d, scfg)
    BY <1>2, <1>3, <1>7, <2>1, SSkips
  <2> QED
    BY <1>5, <2>2
<1>8. CASE \E alert : d = abort(s, alert)
  <2>1. SStep(s, d, scfg)
    BY <1>2, <1>8, SAbort
  <2> QED
    BY <1>5, <2>1
<1> QED
  BY <1>2, <1>3, <1>6, <1>7, <1>8

\* The client starts; on a broken connection its write may fail.
LEMMA ClientHelloInv == HInv /\ ClientHello => HInv'
<1> SUFFICES ASSUME HInv, ClientHello PROVE HInv'
  OBVIOUS
<1> DEFINE c == conn["client"]
           s == conn["server"]
           t == clientHandshake(c, ccfg, cache, number)
           d == conn'["client"]
<1>0. /\ DOMAIN conn = Ends /\ scfg \in ServerConfigs /\ broken \in BOOLEAN /\ (broken = TRUE => s.net = <<>>)
      /\ Pair(c, s, ccfg, scfg) /\ CInv(c, ccfg) /\ SInv(s, scfg) /\ Both(c, s, ccfg, scfg)
      /\ cache # <<>> => SoundSession(cache[1])
  BY DEF HInv, Pair, Ends
<1>1. /\ c.pc = "idle" /\ Frame /\ cache' = cache
      /\ \E u \in Outcomes(t) : conn' = [conn EXCEPT !["client"] = u]
  BY DEF ClientHello, Frame
<1>2. CStep(c, t, ccfg) /\ t.pc = "serverHello"
  <2> HIDE DEF c
  <2> QED
    BY <1>0, <1>1, ClientHandshakeStep
<1> HIDE DEF t
<1>3. d \in Outcomes(t) /\ DOMAIN conn' = Ends /\ conn'["server"] = s
  BY <1>0, <1>1 DEF Ends
<1> HIDE DEF d
<1>4. CInv(t, ccfg)
  BY <1>2 DEF CStep
<1>5. CInv(d, ccfg) /\ d.pc # "done" /\ (broken = TRUE => d.net = <<>>)
  <2>1. CASE broken = FALSE \/ t.net = <<>>
    <3>1. d = t
      BY <1>0, <1>3, <2>1 DEF Outcomes
    <3> QED
      BY <1>2, <1>4, <2>1, <3>1
  <2>2. CASE broken = TRUE /\ t.net # <<>>
    <3>1. d = [t EXCEPT !.net = <<>>] \/ d = [t EXCEPT !.net = <<>>, !.pc = "failed"]
      BY <1>3, <2>2 DEF Outcomes
    <3>2. CASE d = [t EXCEPT !.net = <<>>]
      <4>1. LET u == [t EXCEPT !.net = <<>>] IN CInv(u, ccfg) /\ u.pc = t.pc /\ u.net = <<>>
        BY <1>4, EmptyParts, CDropped
      <4> QED
        BY <1>2, <3>2, <4>1
    <3>3. CASE d = [t EXCEPT !.net = <<>>, !.pc = "failed"]
      <4>1. LET u == [t EXCEPT !.net = <<>>, !.pc = "failed"] IN CInv(u, ccfg) /\ u.pc = "failed" /\ u.net = <<>>
        BY <1>2, <1>4, CBroken
      <4> QED
        BY <3>3, <4>1
    <3> QED
      BY <3>1, <3>2, <3>3
  <2> QED
    BY <1>0, <2>1, <2>2
<1>6. ~CSent(c, ccfg)
  BY <1>0, <1>1, CNotYet
<1>7. Both(d, s, ccfg, scfg)
  BY <1>0, <1>5, <1>6 DEF Both
<1>8. Pair(d, s, ccfg, scfg)
  BY <1>0, <1>5, <1>7 DEF Pair
<1>9. ccfg' = ccfg /\ scfg' = scfg /\ broken' = broken
  BY <1>1 DEF Frame
<1>10. Pair(conn'["client"], conn'["server"], ccfg', scfg')
  BY <1>3, <1>8, <1>9 DEF d
<1>11. \A p \in Ends : broken' => conn'[p].net = <<>>
  BY <1>0, <1>3, <1>5, <1>9 DEF d, Ends
<1> QED
  BY <1>0, <1>1, <1>3, <1>9, <1>10, <1>11 DEF HInv

\* A read that finds the connection ended.
LEMMA ClientEOFInv == HInv /\ ReadEOF("client") => HInv'
<1> SUFFICES ASSUME HInv, ReadEOF("client") PROVE HInv'
  OBVIOUS
<1> DEFINE c == conn["client"]
           s == conn["server"]
           t == abort(c, "eof")
           d == IF broken THEN [t EXCEPT !.net = <<>>] ELSE t
<1>0. /\ DOMAIN conn = Ends /\ scfg \in ServerConfigs /\ broken \in BOOLEAN /\ (broken = TRUE => s.net = <<>>)
      /\ Pair(c, s, ccfg, scfg) /\ CInv(c, ccfg) /\ SInv(s, scfg) /\ Both(c, s, ccfg, scfg)
      /\ cache # <<>> => SoundSession(cache[1])
  BY DEF HInv, Pair, Ends
<1>1. Frame /\ cache' = cache /\ conn' = [conn EXCEPT !["client"] = d]
  BY DEF ReadEOF, Frame
<1>2. CStep(c, t, ccfg)
  BY <1>0, CAbort
<1> HIDE DEF t
<1>3. CInv(t, ccfg) /\ IsEnd(t) /\ t.pc # "done"
  BY <1>2 DEF CStep, CInv
<1>4. CInv(d, ccfg) /\ d.pc = t.pc /\ KeepsChoice(t, d) /\ (CSent(t, ccfg) => CSent(d, ccfg)) /\ (broken = TRUE => d.net = <<>>)
  <2>1. CASE broken = TRUE
    <3> DEFINE u == [t EXCEPT !.net = <<>>]
    <3>1. CInv(u, ccfg) /\ u.pc = t.pc /\ KeepsChoice(t, u) /\ (CSent(t, ccfg) => CSent(u, ccfg)) /\ u.net = <<>>
      BY <1>3, EmptyParts, CDropped
    <3> QED
      BY <2>1, <3>1
  <2>2. CASE broken = FALSE
    <3>1. d = t
      BY <2>2
    <3> QED
      BY <1>3, <2>2, <3>1 DEF KeepsChoice
  <2> QED
    BY <1>0, <2>1, <2>2
<1> HIDE DEF d
<1>5. CMoves(c, d, ccfg)
  BY <1>2, <1>3, <1>4 DEF CMoves, CStep, KeepsChoice
<1>6. SMoves(s, s, scfg)
  BY DEF SMoves, KeepsNames
<1>7. Both(d, s, ccfg, scfg)
  BY <1>0, <1>5, <1>6, BothKept
<1>8. Pair(d, s, ccfg, scfg)
  BY <1>0, <1>4, <1>7 DEF Pair
<1>9. /\ ccfg' = ccfg /\ scfg' = scfg /\ broken' = broken
       /\ DOMAIN conn' = Ends /\ conn'["server"] = s /\ conn'["client"] = d
  BY <1>0, <1>1 DEF Frame, Ends
<1>10. Pair(conn'["client"], conn'["server"], ccfg', scfg')
  BY <1>8, <1>9
<1>11. \A p \in Ends : broken' => conn'[p].net = <<>>
  BY <1>0, <1>4, <1>9 DEF Ends
<1> QED
  BY <1>0, <1>1, <1>9, <1>10, <1>11 DEF HInv

\* A server whose stream has ended fails.
LEMMA ServerEOFInv == HInv /\ ReadEOF("server") => HInv'
<1> SUFFICES ASSUME HInv, ReadEOF("server") PROVE HInv'
  OBVIOUS
<1> DEFINE c == conn["client"]
           s == conn["server"]
           t == abort(s, "eof")
           d == IF broken THEN [t EXCEPT !.net = <<>>] ELSE t
<1>0. /\ DOMAIN conn = Ends /\ scfg \in ServerConfigs /\ broken \in BOOLEAN /\ (broken = TRUE => c.net = <<>>)
      /\ Pair(c, s, ccfg, scfg) /\ CInv(c, ccfg) /\ SInv(s, scfg) /\ Both(c, s, ccfg, scfg)
      /\ cache # <<>> => SoundSession(cache[1])
  BY DEF HInv, Pair, Ends
<1>1. Frame /\ cache' = cache /\ conn' = [conn EXCEPT !["server"] = d]
  BY DEF ReadEOF, Frame
<1>2. SStep(s, t, scfg)
  BY <1>0, SAbort
<1> HIDE DEF t
<1>3. SInv(t, scfg) /\ IsEnd(t) /\ t.pc # "done"
  BY <1>2 DEF SStep, SInv
<1>4. SInv(d, scfg) /\ d.pc = t.pc /\ KeepsChoice(t, d) /\ (SSent(t, scfg) => SSent(d, scfg)) /\ (broken = TRUE => d.net = <<>>)
  <2>1. CASE broken = TRUE
    <3> DEFINE u == [t EXCEPT !.net = <<>>]
    <3>1. SInv(u, scfg) /\ u.pc = t.pc /\ KeepsChoice(t, u) /\ (SSent(t, scfg) => SSent(u, scfg)) /\ u.net = <<>>
      BY <1>3, EmptyParts, SDropped
    <3> QED
      BY <2>1, <3>1
  <2>2. CASE broken = FALSE
    <3>1. d = t
      BY <2>2
    <3> QED
      BY <1>3, <2>2, <3>1 DEF KeepsChoice
  <2> QED
    BY <1>0, <2>1, <2>2
<1> HIDE DEF d
<1>5. SMoves(s, d, scfg)
  BY <1>2, <1>3, <1>4 DEF SMoves, SStep, KeepsChoice, KeepsNames
<1>6. CMoves(c, c, ccfg)
  BY DEF CMoves, KeepsChoice
<1>7. Both(c, d, ccfg, scfg)
  BY <1>0, <1>5, <1>6, BothKept
<1>8. Pair(c, d, ccfg, scfg)
  BY <1>0, <1>4, <1>7 DEF Pair
<1>9. /\ ccfg' = ccfg /\ scfg' = scfg /\ broken' = broken
       /\ DOMAIN conn' = Ends /\ conn'["client"] = c /\ conn'["server"] = d
  BY <1>0, <1>1 DEF Frame, Ends
<1>10. Pair(conn'["client"], conn'["server"], ccfg', scfg')
  BY <1>8, <1>9
<1>11. \A p \in Ends : broken' => conn'[p].net = <<>>
  BY <1>0, <1>4, <1>9 DEF Ends
<1> QED
  BY <1>0, <1>1, <1>9, <1>10, <1>11 DEF HInv

\* A damaged message is no Finished, and a damaged hello is still a hello whose
\* ticket nobody forged.
LEMMA DamagedOk ==
  ASSUME NEW m, "typ" \in DOMAIN m, NEW d \in damaged(m)
  PROVE  /\ "typ" \in DOMAIN d /\ d.typ # "finished"
         /\ (m.typ = "clientHello" => HelloOk(m)) => (d.typ = "clientHello" => HelloOk(d))
<1>1. CASE m.typ = "clientHello"
  <2>1. \/ d = [m EXCEPT !.vers = @ - 1]
        \/ d = [m EXCEPT !.alpn = <<>>]
        \/ d = [m EXCEPT !.suites = Tail(@)]
        \/ m.ticket # <<>> /\ d = [m EXCEPT !.ticket[1].intact = FALSE]
    BY <1>1 DEF damaged
  <2>2. DOMAIN d = DOMAIN m /\ d.typ = "clientHello"
    BY <1>1, <2>1
  <2>3. ASSUME HelloOk(m) PROVE HelloOk(d)
    <3>1. DOMAIN m = HelloFields /\ (m.ticket # <<>> => DOMAIN m.ticket = {1} /\ IsTicket(m.ticket[1]))
      BY <2>3 DEF HelloOk
    <3>2. CASE d.ticket = m.ticket
      BY <2>2, <3>1, <3>2 DEF HelloOk
    <3>3. CASE m.ticket # <<>> /\ d = [m EXCEPT !.ticket[1].intact = FALSE]
      <4> DEFINE k == [m.ticket[1] EXCEPT !.intact = FALSE]
      <4>1. DOMAIN d.ticket = {1} /\ d.ticket[1] = k
        BY <3>1, <3>3 DEF HelloFields
      <4>2. DOMAIN k = {"key", "state", "intact"} /\ k.state = m.ticket[1].state
        BY <3>1, <3>3 DEF IsTicket
      <4>3. IsTicket(k)
        BY <3>1, <3>3, <4>2 DEF IsTicket
      <4> QED
        BY <2>2, <3>1, <4>1, <4>3 DEF HelloOk
    <3> QED
      BY <2>1, <3>1, <3>2, <3>3 DEF HelloFields
  <2> QED
    BY <1>1, <2>2, <2>3
<1>2. CASE m.typ = "serverHello"
  <2>1. d \in {[m EXCEPT !.ticketSupported = ~@], [m EXCEPT !.sid = <<>>], [m EXCEPT !.vers = @ - 1]}
    BY <1>2 DEF damaged
  <2>2. DOMAIN d = DOMAIN m /\ d.typ = m.typ
    BY <2>1
  <2> QED
    BY <1>2, <2>2
<1>3. CASE m.typ = "newSessionTicket"
  <2>1. d = [m EXCEPT !.ticket.intact = FALSE]
    BY <1>3 DEF damaged
  <2>2. DOMAIN d = DOMAIN m /\ d.typ = m.typ
    BY <2>1
  <2> QED
    BY <1>3, <2>2
<1>4. CASE m.typ = "clientKeyExchange"
  <2>1. d = [m EXCEPT !.pub = <<"damaged">>]
    BY <1>4 DEF damaged
  <2>2. DOMAIN d = DOMAIN m /\ d.typ = m.typ
    BY <2>1
  <2> QED
    BY <1>4, <2>2
<1>5. CASE m.typ \notin {"clientHello", "serverHello", "newSessionTicket", "clientKeyExchange"}
  <2>1. d = [typ |-> "garbage"]
    BY <1>5 DEF damaged
  <2> QED
    BY <2>1
<1> QED
  BY <1>1, <1>2, <1>3, <1>4, <1>5

\* What the first record of a stream may become.
DamagedTo(r, d) ==
    \/ \E m \in damaged(r.msg) : d = [r EXCEPT !.msg = m]
    \/ d = [r EXCEPT !.seq = @ + 1]

\* A damaged record carries the message it carried, but its MAC is wrong, or another
\* message, which is no Finished; a ticket in it is damaged, not forged.
LEMMA DamagedRecord ==
  ASSUME NEW r, IsRecord(r), r.typ = "hs", NEW d, DamagedTo(r, d)
  PROVE  /\ IsRecord(d)
         /\ \/ d.msg = r.msg
            \/ /\ d.msg.typ # "finished"
               /\ (r.msg.typ = "clientHello" => HelloOk(r.msg)) => (d.msg.typ = "clientHello" => HelloOk(d.msg))
<1>0. DOMAIN r = {"typ", "vers", "key", "seq", "msg"} /\ "typ" \in DOMAIN r.msg
  BY DEF IsRecord
<1>1. CASE \E m \in damaged(r.msg) : d = [r EXCEPT !.msg = m]
  <2>1. PICK m \in damaged(r.msg) : d = [r EXCEPT !.msg = m]
    BY <1>1
  <2>2. /\ "typ" \in DOMAIN m /\ m.typ # "finished"
        /\ (r.msg.typ = "clientHello" => HelloOk(r.msg)) => (m.typ = "clientHello" => HelloOk(m))
    BY <1>0, DamagedOk
  <2>3. DOMAIN d = {"typ", "vers", "key", "seq", "msg"} /\ d.typ = "hs" /\ d.msg = m
    BY <1>0, <2>1
  <2> QED
    BY <2>2, <2>3 DEF IsRecord
<1>2. CASE d = [r EXCEPT !.seq = @ + 1]
  <2>1. DOMAIN d = {"typ", "vers", "key", "seq", "msg"} /\ d.typ = "hs" /\ d.msg = r.msg
    BY <1>0, <1>2
  <2> QED
    BY <1>0, <2>1 DEF IsRecord
<1> QED
  BY <1>1, <1>2 DEF DamagedTo

\* Damage to what the client has sent, and to what the server has sent.
LEMMA ClientDamaged ==
  ASSUME NEW c, NEW s, NEW cc, NEW sc, Pair(c, s, cc, sc), c.net # <<>>, Head(c.net).typ = "hs",
         NEW d, DamagedTo(Head(c.net), d)
  PROVE  LET c2 == [c EXCEPT !.net = [@ EXCEPT ![1] = d]] IN Pair(c2, s, cc, sc)
<1> DEFINE r == Head(c.net)
           x == [c.net EXCEPT ![1] = d]
           c2 == [c EXCEPT !.net = x]
<1>0. CInv(c, cc) /\ SInv(s, sc) /\ Both(c, s, cc, sc) /\ IsEnd(c)
  BY DEF Pair, CInv
<1>1. r \in Stream(c) /\ IsRecord(r)
  BY <1>0, TailOk
<1>2. IsSequence(c.net) /\ \A o \in Range(c.net) : CRecordOk(c, o)
  BY <1>0, NetOk
<1> HIDE DEF r
<1>3. r.msg.typ = "clientHello" => HelloOk(r.msg)
  BY <1>0, <1>1 DEF CInv, CStream
<1>4. IsRecord(d) /\ (d.msg = r.msg \/ (d.msg.typ # "finished" /\ (d.msg.typ = "clientHello" => HelloOk(d.msg))))
  <2>1. r.typ = "hs" /\ DamagedTo(r, d)
    BY DEF r
  <2> QED
    BY <1>1, <1>3, <2>1, DamagedRecord
<1>5. CRecordOk(c, d)
  BY <1>1, <1>4 DEF CRecordOk
<1>6. IsSequence(x) /\ Range(x) \subseteq Range(c.net) \union {d}
  BY <1>2, FirstReplaced
<1> HIDE DEF x
<1>7. \A o \in Range(x) : /\ IsRecord(o)
                          /\ \/ \E n \in Stream(c) : n.msg = o.msg
                             \/ o.msg.typ # "finished" /\ (o.msg.typ = "clientHello" => HelloOk(o.msg))
  BY <1>2, <1>5, <1>6 DEF CRecordOk
<1>8. CInv(c2, cc) /\ c2.pc = c.pc /\ KeepsChoice(c, c2) /\ (CSent(c, cc) => CSent(c2, cc)) /\ c2.in = c.in
  BY <1>0, <1>6, <1>7, CDropped
<1> HIDE DEF c2
<1>9. CMoves(c, c2, cc) /\ SMoves(s, s, sc)
  BY <1>8 DEF CMoves, SMoves, KeepsNames
<1>10. Both(c2, s, cc, sc)
  BY <1>0, <1>9, BothKept
<1> QED
  BY <1>0, <1>8, <1>10 DEF Pair, c2, x

\* Damage to the first record under way from the server.
LEMMA ServerDamaged ==
  ASSUME NEW c, NEW s, NEW cc, NEW sc, Pair(c, s, cc, sc), s.net # <<>>, Head(s.net).typ = "hs",
         NEW d, DamagedTo(Head(s.net), d)
  PROVE  LET s2 == [s EXCEPT !.net = [@ EXCEPT ![1] = d]] IN Pair(c, s2, cc, sc)
<1> DEFINE r == Head(s.net)
           x == [s.net EXCEPT ![1] = d]
           s2 == [s EXCEPT !.net = x]
<1>0. CInv(c, cc) /\ SInv(s, sc) /\ Both(c, s, cc, sc) /\ IsEnd(s)
  BY DEF Pair, SInv
<1>1. r \in Stream(s) /\ IsRecord(r)
  BY <1>0, TailOk
<1>2. IsSequence(s.net) /\ \A o \in Range(s.net) : SRecordOk(s, o)
  BY <1>0, NetOk
<1> HIDE DEF r
<1>3. IsRecord(d) /\ (d.msg = r.msg \/ d.msg.typ # "finished")
  <2>1. r.typ = "hs" /\ DamagedTo(r, d)
    BY DEF r
  <2> QED
    BY <1>1, <2>1, DamagedRecord
<1>4. SRecordOk(s, d)
  BY <1>1, <1>3 DEF SRecordOk
<1>5. IsSequence(x) /\ Range(x) \subseteq Range(s.net) \union {d}
  BY <1>2, FirstReplaced
<1> HIDE DEF x
<1>6. \A o \in Range(x) : IsRecord(o) /\ ((\E n \in Stream(s) : n.msg = o.msg) \/ o.msg.typ # "finished")
  BY <1>2, <1>4, <1>5 DEF SRecordOk
<1>7. SInv(s2, sc) /\ s2.pc = s.pc /\ KeepsChoice(s, s2) /\ (SSent(s, sc) => SSent(s2, sc)) /\ s2.in = s.in
  BY <1>0, <1>5, <1>6, SDropped
<1> HIDE DEF s2
<1>8. CMoves(c, c, cc) /\ SMoves(s, s2, sc)
  BY <1>7 DEF CMoves, SMoves, KeepsNames, KeepsChoice
<1>9. Both(c, s2, cc, sc)
  BY <1>0, <1>8, BothKept
<1> QED
  BY <1>0, <1>7, <1>9 DEF Pair, s2, x

\* Damage on the way keeps the invariant: a Finished cannot be made, only lost.
LEMMA DamageInv == HInv /\ (\E p \in Ends : Damage(p)) => HInv'
<1> SUFFICES ASSUME HInv, NEW p \in Ends, Damage(p) PROVE HInv'
  OBVIOUS
<1> DEFINE c == conn["client"]
           s == conn["server"]
<1>0. /\ DOMAIN conn = Ends /\ scfg \in ServerConfigs /\ broken \in BOOLEAN /\ (broken = TRUE => conn[p].net = <<>>)
      /\ Pair(c, s, ccfg, scfg) /\ (cache # <<>> => SoundSession(cache[1]))
      /\ DOMAIN c = EndFields /\ DOMAIN s = EndFields
  BY DEF HInv, Pair, CInv, SInv, IsEnd
<1>1. /\ conn[p].net # <<>> /\ Head(conn[p].net).typ = "hs"
      /\ ccfg' = ccfg /\ scfg' = scfg /\ cache' = cache /\ broken' = broken
  BY DEF Damage
<1>2. PICK d : DamagedTo(Head(conn[p].net), d) /\ conn' = [conn EXCEPT ![p].net[1] = d]
  <2> DEFINE r == Head(conn[p].net)
  <2>1. PICK d \in IF r.key = <<>> THEN {[r EXCEPT !.msg = m] : m \in damaged(r.msg)} ELSE {[r EXCEPT !.seq = @ + 1]} :
          conn' = [conn EXCEPT ![p].net[1] = d]
    BY DEF Damage
  <2> HIDE DEF r
  <2>2. DamagedTo(r, d)
    BY <2>1 DEF DamagedTo
  <2> QED
    BY <2>1, <2>2 DEF r
<1>3. broken = FALSE /\ DOMAIN conn' = Ends
  BY <1>0, <1>1, <1>2
<1>4. Pair(conn'["client"], conn'["server"], ccfg, scfg)
  <2>1. CASE p = "client"
    <3>1. LET c2 == [c EXCEPT !.net = [@ EXCEPT ![1] = d]] IN Pair(c2, s, ccfg, scfg)
      BY <1>0, <1>1, <1>2, <2>1, ClientDamaged
    <3>2. conn'["client"] = [c EXCEPT !.net = [@ EXCEPT ![1] = d]] /\ conn'["server"] = s
      BY <1>0, <1>2, <2>1 DEF Ends, EndFields
    <3> QED
      BY <3>1, <3>2
  <2>2. CASE p = "server"
    <3>1. LET s2 == [s EXCEPT !.net = [@ EXCEPT ![1] = d]] IN Pair(c, s2, ccfg, scfg)
      BY <1>0, <1>1, <1>2, <2>2, ServerDamaged
    <3>2. conn'["server"] = [s EXCEPT !.net = [@ EXCEPT ![1] = d]] /\ conn'["client"] = c
      BY <1>0, <1>2, <2>2 DEF Ends, EndFields
    <3> QED
      BY <3>1, <3>2
  <2> QED
    BY <2>1, <2>2 DEF Ends
<1>5. Pair(conn'["client"], conn'["server"], ccfg', scfg')
  BY <1>1, <1>4
<1> QED
  BY <1>0, <1>1, <1>3, <1>5 DEF HInv

\* The connection breaks: what was on the way is lost.
LEMMA BreakInv == HInv /\ Break => HInv'
<1> SUFFICES ASSUME HInv, Break PROVE HInv'
  OBVIOUS
<1> DEFINE c == conn["client"]
           s == conn["server"]
           c2 == [c EXCEPT !.net = <<>>]
           s2 == [s EXCEPT !.net = <<>>]
<1>0. scfg \in ServerConfigs /\ Pair(c, s, ccfg, scfg) /\ (cache # <<>> => SoundSession(cache[1]))
  BY DEF HInv
<1>1. /\ conn' = [p \in Ends |-> [conn[p] EXCEPT !.net = <<>>]] /\ broken' = TRUE
      /\ ccfg' = ccfg /\ scfg' = scfg /\ cache' = cache
  BY DEF Break
<1>2. IsSequence(<<>>) /\ (\A r \in Range(<<>>) : CRecordOk(c, r)) /\ (\A r \in Range(<<>>) : SRecordOk(s, r))
  BY NoneOk
<1>3. Pair(c2, s2, ccfg, scfg) /\ c2.net = <<>> /\ s2.net = <<>>
  <2> HIDE DEF c, s
  <2> QED
    BY <1>0, <1>2, NetMoves
<1>4. DOMAIN conn' = Ends /\ conn'["client"] = c2 /\ conn'["server"] = s2
  BY <1>1 DEF Ends
<1> HIDE DEF c2, s2
<1>5. Pair(conn'["client"], conn'["server"], ccfg', scfg')
  BY <1>1, <1>3, <1>4
<1>6. \A p \in Ends : conn'[p].net = <<>>
  BY <1>3, <1>4 DEF Ends
<1> QED
  BY <1>0, <1>1, <1>4, <1>5, <1>6 DEF HInv

\* Two new ends.
LEMMA NewPair ==
  ASSUME NEW cc, NEW sc
  PROVE  LET c == newConn("idle")
             s == newConn("clientHello")
         IN  Pair(c, s, cc, sc) /\ c.net = <<>> /\ s.net = <<>>
<1> DEFINE c == newConn("idle")
           s == newConn("clientHello")
<1>1. \A pc : LET e == newConn(pc) IN
        /\ DOMAIN e = EndFields /\ e.pc = pc /\ e.in = halfConn /\ e.out = halfConn /\ e.sendBuf = <<>> /\ e.net = <<>>
        /\ e.buffering = FALSE /\ e.isResume = FALSE /\ e.stage = 0 /\ e.hash = newFinishedHashGM /\ e.gm = FALSE
        /\ e.session = <<>> /\ e.proto = <<>> /\ e.peer = "none"
  BY DEF newConn, EndFields
<1>2. IsHalf(halfConn)
  BY DEF IsHalf, halfConn
<1>3. IsHash(newFinishedHashGM)
  BY NewHash
<1>4. \A pc : IsEnd(newConn(pc)) /\ Stream(newConn(pc)) = {}
  <2> TAKE pc
  <2> DEFINE e == newConn(pc)
  <2>1. /\ DOMAIN e = EndFields /\ e.in = halfConn /\ e.out = halfConn /\ e.sendBuf = <<>> /\ e.net = <<>>
        /\ e.buffering = FALSE /\ e.isResume = FALSE /\ e.stage = 0 /\ e.hash = newFinishedHashGM
    BY <1>1
  <2> HIDE DEF e
  <2>2. Stream(e) = {}
    BY <2>1, EmptyParts DEF Stream
  <2>3. IsSequence(e.net) /\ IsSequence(e.sendBuf)
    BY <2>1, EmptyParts
  <2>4. IsHalf(e.in) /\ IsHalf(e.out) /\ IsHash(e.hash)
    BY <2>1, <1>2, <1>3
  <2>5. e.buffering \in BOOLEAN /\ e.isResume \in BOOLEAN
    BY <2>1, Zenon
  <2>6. e.stage \in Nat
    BY <2>1
  <2>7. IsEnd(e)
    BY <2>1, <2>2, <2>3, <2>4, <2>5, <2>6 DEF IsEnd
  <2> QED
    BY <2>2, <2>7 DEF e
<1>5. /\ c.pc = "idle" /\ c.sendBuf = <<>> /\ c.net = <<>> /\ c.buffering = FALSE /\ c.isResume = FALSE /\ c.session = <<>>
      /\ c.proto = <<>> /\ IsEnd(c) /\ Stream(c) = {}
  BY <1>1, <1>4
<1>6. /\ s.pc = "clientHello" /\ s.sendBuf = <<>> /\ s.net = <<>> /\ s.buffering = FALSE /\ s.isResume = FALSE /\ s.gm = FALSE
      /\ s.peer = "none" /\ IsEnd(s) /\ Stream(s) = {}
  BY <1>1, <1>4
<1> HIDE DEF c, s
<1>7. CInv(c, cc)
  BY <1>5 DEF CInv, Flushed, ClientPcs, CEarly, CLate, CSession, CStream
<1>8. SInv(s, sc)
  BY <1>6 DEF SInv, Flushed, ServerPcs, SEarly, SLate, SStream
<1> QED
  BY <1>5, <1>6, <1>7, <1>8 DEF Pair, Both, c, s

\* The next connection starts afresh with other Configs; only the cache remains.
LEMMA NextConnectionInv == HInv /\ NextConnection => HInv'
<1> SUFFICES ASSUME HInv, NextConnection PROVE HInv'
  OBVIOUS
<1>1. /\ conn' = [client |-> newConn("idle"), server |-> newConn("clientHello")] /\ scfg' \in ServerConfigs /\ broken' = FALSE
      /\ cache' = cache
  BY DEF NextConnection
<1>2. /\ DOMAIN conn' = Ends /\ conn'["client"] = newConn("idle") /\ conn'["server"] = newConn("clientHello")
  BY <1>1 DEF Ends
<1>3. Pair(conn'["client"], conn'["server"], ccfg', scfg')
  BY <1>2, NewPair
<1>4. cache # <<>> => SoundSession(cache[1])
  BY DEF HInv
<1> QED
  BY <1>1, <1>2, <1>3, <1>4 DEF HInv

\* The invariant holds initially.
LEMMA HInvInit == Init => HInv
<1> SUFFICES ASSUME Init PROVE HInv
  OBVIOUS
<1>1. /\ conn = [client |-> newConn("idle"), server |-> newConn("clientHello")] /\ scfg \in ServerConfigs /\ broken = FALSE
      /\ cache = <<>>
  BY DEF Init
<1>2. DOMAIN conn = Ends /\ conn["client"] = newConn("idle") /\ conn["server"] = newConn("clientHello")
  BY <1>1 DEF Ends
<1>3. Pair(conn["client"], conn["server"], ccfg, scfg)
  BY <1>2, NewPair
<1> QED
  BY <1>1, <1>2, <1>3 DEF HInv

\* Steps that leave the connection and the cache alone.
LEMMA HInvFrame == HInv /\ UNCHANGED <<conn, ccfg, scfg, cache, broken>> => HInv'
<1> SUFFICES ASSUME HInv, UNCHANGED <<conn, ccfg, scfg, cache, broken>> PROVE HInv'
  OBVIOUS
<1>1. conn' = conn /\ ccfg' = ccfg /\ scfg' = scfg /\ cache' = cache /\ broken' = broken
  OBVIOUS
<1>2. Pair(conn'["client"], conn'["server"], ccfg', scfg')
  BY <1>1 DEF HInv
<1> QED
  BY <1>1, <1>2 DEF HInv

\* Every step keeps the invariant.
LEMMA HInvStep == HInv /\ [Next]_vars => HInv'
<1> SUFFICES ASSUME HInv, [Next]_vars PROVE HInv'
  OBVIOUS
<1>1. CASE ClientStep
  BY <1>1, ClientHelloInv, ReadServerHelloInv, ReadCertificateInv, ReadFlightInv, ReadTicketInv, ClientCCSInv,
     ClientFinishedInv, ClientEOFInv DEF ClientStep
<1>2. CASE ServerStep
  BY <1>2, ReadHelloInv, ReadClientCertificateInv, ReadKeyExchangeInv, ReadVerifyInv, ServerCCSInv, ReadNextProtoInv,
     ServerFinishedInv, ServerEOFInv DEF ServerStep
<1>3. CASE SetSessionTicketKeys
  BY <1>3, HInvFrame DEF SetSessionTicketKeys
<1>4. CASE \E p \in Ends : Damage(p)
  BY <1>4, DamageInv
<1>5. CASE Break
  BY <1>5, BreakInv
<1>6. CASE NextConnection
  BY <1>6, NextConnectionInv
<1>7. CASE Finished
  BY <1>7, HInvFrame DEF Finished, vars
<1>8. CASE UNCHANGED vars
  BY <1>8, HInvFrame DEF vars
<1> QED
  BY <1>1, <1>2, <1>3, <1>4, <1>5, <1>6, <1>7, <1>8 DEF Next

----------------------------------------------------------------------------
(* What follows from the invariant.                                         *)

\* The inductive invariant of the handshake: it holds in every reachable state,
\* whatever the Configs, the damage and the number of connections.
THEOREM HandshakeInvariant == Spec => []HInv
<1>1. Init => HInv
  BY HInvInit
<1>2. HInv /\ [Next]_vars => HInv'
  BY HInvStep
<1> QED
  BY <1>1, <1>2, PTL DEF Spec

\* No suite is both a TLS and a GM suite, so the suite two ends share says
\* which of the two handshakes they have made.
LEMMA SuitesApart == DOMAIN cipherSuites \intersect DOMAIN gmCipherSuites = {}
  BY DEF cipherSuites, gmCipherSuites

\* What the invariant says of the two ends once one of them is done.
LEMMA DoneBoth ==
  ASSUME HInv, NEW p \in Ends, conn[p].pc = "done"
  PROVE  /\ Same(conn["client"], conn["server"])
         /\ CGreeted(conn["client"], ccfg) /\ CChosen(conn["client"], ccfg)
         /\ SChosen(conn["server"], scfg)
<1> DEFINE c == conn["client"]
           s == conn["server"]
<1>1. CInv(c, ccfg) /\ SInv(s, scfg) /\ Both(c, s, ccfg, scfg)
  BY DEF HInv, Pair
<1>2. p = "client" \/ p = "server"
  BY DEF Ends
<1>3. c.pc = "done" \/ s.pc = "done"
  BY <1>2
<1> HIDE DEF c, s
<1>4. CASE c.pc = "done"
  <2>1. SSent(s, scfg) /\ Same(c, s)
    BY <1>1, <1>4 DEF Both
  <2>2. CGreeted(c, ccfg) /\ CChosen(c, ccfg)
    BY <1>1, <1>4 DEF CInv, CEarly, ClientPcs, Over
  <2> QED
    BY <2>1, <2>2 DEF SSent, c, s
<1>5. CASE s.pc = "done"
  <2>1. CSent(c, ccfg) /\ Same(c, s)
    BY <1>1, <1>5 DEF Both
  <2>2. SChosen(s, scfg)
    BY <1>1, <1>5 DEF SInv, SEarly, ServerPcs, Over
  <2> QED
    BY <2>1, <2>2 DEF CSent, c, s
<1> QED
  BY <1>3, <1>4, <1>5

\* The protocol of both ends is the one of the ServerHello: a client that does
\* NPN offers protocols by ALPN too, and then the server does not do NPN.
LEMMA SameProtocol ==
  ASSUME NEW c, NEW s, NEW cc, NEW sc, Same(c, s), CGreeted(c, cc), CChosen(c, cc), SChosen(s, sc)
  PROVE  c.proto = s.proto
<1>1. ~s.sh.npn
  <2>1. SUFFICES ASSUME s.sh.npn PROVE FALSE
    OBVIOUS
  <2>2. s.ch.npn /\ s.ch.alpn = <<>>
    BY <2>1 DEF SChosen
  <2>3. c.ch.npn /\ c.ch.alpn = <<>>
    BY <2>2 DEF Same
  <2> QED
    BY <2>3 DEF CGreeted
<1>2. ~c.sh.npn
  BY <1>1 DEF Same
<1>3. s.proto = s.sh.alpn
  BY <1>1 DEF SChosen
<1>4. c.proto = c.sh.alpn
  BY <1>2 DEF CChosen
<1> QED
  BY <1>3, <1>4 DEF Same

\* Agreement: as soon as one end of a connection reports success, both ends have
\* the same hellos, version, suite, master secret, protocol and kind of handshake,
\* and each reads under the key the other writes with.
THEOREM BothEndsAgree == Spec => []Agreement
<1>1. HInv => Agreement
  <2> SUFFICES ASSUME HInv PROVE Agreement
    OBVIOUS
  <2> DEFINE c == conn["client"]
             s == conn["server"]
  <2>1. c.pc = "done" \/ s.pc = "done" => Same(c, s) /\ c.proto = s.proto
    BY DoneBoth, SameProtocol DEF Ends
  <2>2. (c.pc = "done" => c.in.cipher = s.out.cipher) /\ (s.pc = "done" => s.in.cipher = c.out.cipher)
    BY DEF HInv, Pair, Both
  <2> QED
    BY <2>1, <2>2 DEF Agreement, Same
<1> QED
  BY <1>1, HandshakeInvariant, PTL

\* NoDowngrade: an end that succeeds has settled on the version the two Configs
\* decide and, unless it resumes, on the suite the server prefers among those the
\* client really offered, whatever was damaged on the way.
THEOREM NothingDowngraded == Spec => []NoDowngrade
<1>1. HInv => NoDowngrade
  <2> SUFFICES ASSUME HInv, NEW p \in Ends, conn[p].pc = "done"
               PROVE  /\ conn[p].vers = IF ccfg.gm THEN VersionGMSSL ELSE mutualVersion(scfg, ccfg.max)
                      /\ \/ conn[p].isResume
                         \/ conn[p].suite = IF ccfg.gm THEN selectCipherSuiteGM(scfg, conn["client"].ch)
                                            ELSE selectCipherSuite(scfg, conn["client"].ch, conn[p].vers)
    BY DEF NoDowngrade
  <2> DEFINE c == conn["client"]
             s == conn["server"]
  <2>1. Same(c, s) /\ CGreeted(c, ccfg) /\ CChosen(c, ccfg) /\ SChosen(s, scfg)
    BY DoneBoth
  <2>2. conn[p] = c \/ conn[p] = s
    BY DEF Ends
  <2> DEFINE e == conn[p]
  <2>3. e = c \/ e = s
    BY <2>2
  <2> HIDE DEF c, s, e
  <2>4. e.vers = c.vers /\ e.vers = s.vers /\ e.suite = s.suite /\ e.isResume = s.isResume
    BY <2>1, <2>3 DEF Same
  <2>5. e.vers = IF ccfg.gm THEN VersionGMSSL ELSE mutualVersion(scfg, ccfg.max)
    <3>1. CASE ccfg.gm
      BY <2>1, <2>4, <3>1 DEF CChosen
    <3>2. CASE ~ccfg.gm
      BY <2>1, <2>4, <3>2 DEF CGreeted, SChosen, Same
    <3> QED
      BY <3>1, <3>2
  <2>6. \/ s.isResume
        \/ s.suite = IF ccfg.gm THEN selectCipherSuiteGM(scfg, c.ch) ELSE selectCipherSuite(scfg, c.ch, s.vers)
    <3>1. CASE ccfg.gm
      <4>1. s.suite \in DOMAIN gmCipherSuites
        BY <2>1, <3>1 DEF CChosen, Same
      <4>2. s.gm
        BY <2>1, <4>1, SuitesApart DEF SChosen
      <4> QED
        BY <2>1, <3>1, <4>2 DEF SChosen, Same
    <3>2. CASE ~ccfg.gm
      <4>1. s.suite \in DOMAIN cipherSuites
        BY <2>1, <3>2 DEF CChosen, Same
      <4>2. ~s.gm
        BY <2>1, <4>1, SuitesApart DEF SChosen
      <4> QED
        BY <2>1, <3>2, <4>2 DEF SChosen, Same
    <3> QED
      BY <3>1, <3>2
  <2> QED
    BY <2>4, <2>5, <2>6 DEF c, s, e
<1> QED
  BY <1>1, HandshakeInvariant, PTL

\* ClientAuthHolds: a server whose Handshake succeeded has a client that satisfies
\* Config.ClientAuth, also when it resumed a session made under another policy.
THEOREM ClientAuthenticated == Spec => []ClientAuthHolds
<1>1. HInv => ClientAuthHolds
  <2> SUFFICES ASSUME HInv, conn["server"].pc = "done" PROVE AuthOk(scfg, conn["server"].peer)
    BY DEF ClientAuthHolds, AuthOk
  <2>1. SEarly(conn["server"], scfg)
    BY DEF HInv, Pair, SInv
  <2> QED
    BY <2>1 DEF SEarly, ServerPcs, Over
<1> QED
  BY <1>1, HandshakeInvariant, PTL

\* CachedSessionSound: the cached session has an intact ticket whose state says
\* the version, suite and master secret the client remembers.
THEOREM CacheSound == Spec => []CachedSessionSound
<1>1. HInv => CachedSessionSound
  BY DEF HInv, CachedSessionSound, SoundSession, TicketFor
<1> QED
  BY <1>1, HandshakeInvariant, PTL

\* NothingHeldBack: an end that has returned from Handshake has nothing left in
\* sendBuf, and after success buffering is off.
THEOREM NothingLeftBuffered == Spec => []NothingHeldBack
<1>1. HInv => NothingHeldBack
  <2> SUFFICES ASSUME HInv, NEW p \in Ends
               PROVE  /\ conn[p].pc \in {"done", "failed"} => conn[p].sendBuf = <<>>
                      /\ conn[p].pc = "done" => ~conn[p].buffering
    BY DEF NothingHeldBack
  <2>1. CInv(conn["client"], ccfg) /\ SInv(conn["server"], scfg)
    BY DEF HInv, Pair
  <2>2. CASE p = "client"
    BY <2>1, <2>2 DEF CInv, Flushed, CLate
  <2>3. CASE p = "server"
    BY <2>1, <2>3 DEF SInv, Flushed, SEarly, ServerPcs, Over
  <2> QED
    BY <2>2, <2>3 DEF Ends
<1> QED
  BY <1>1, HandshakeInvariant, PTL
=============================================================================
