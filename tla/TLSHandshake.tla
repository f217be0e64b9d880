---------------------------- MODULE TLSHandshake ----------------------------
(***************************************************************************)
(* A zgmtls client and a zgmtls server running Handshake on the two ends of *)
(* a TCP connection, MaxConnections times in a row: TLS, GM-TLS and the     *)
(* server that switches between them, full and resumed, with client         *)
(* certificates, ALPN/NPN, session tickets and their key rotation.          *)
(*                                                                          *)
(* A step of an end runs from one blocking read to the next: it takes the   *)
(* next record of the peer's stream, does what the handshake code does with *)
(* it, and stops where the code reads again.  pc names the read an end      *)
(* waits in; "done", "failed" and "panic" are the ways Handshake ends.      *)
(* The transport may damage a record or break; faults are bounded.          *)
(***************************************************************************)
EXTENDS TLSRecord

CONSTANTS
    ClientConfigs,    \* the Configs a client may have
    ServerConfigs,    \* the Configs a server may have
    MaxConnections,   \* connections made one after the other
    MaxRotations,     \* calls of SetSessionTicketKeys
    MaxFaults         \* damaged records and broken connections

ASSUME HandshakeBounds == MaxConnections \in Nat \ {0} /\ MaxRotations \in Nat /\ MaxFaults \in Nat

\* The three kinds of server, and a ClientAuthType.
ASSUME ServerConfigKinds ==
    \A cfg \in ServerConfigs : /\ cfg.mode \in {"tls", "gm", "auto"}
                               /\ cfg.auth \in NoClientCert..RequireAndVerifyClientCert

VARIABLES
    conn,       \* the two ends: record layer state and handshake state
    ccfg, scfg, \* their Configs
    cache,      \* the client's ClientSessionCache entry for this server, or <<>>
    keys,       \* the server's session ticket keys
    number,     \* connections started
    rotations, faults, broken

vars == <<conn, ccfg, scfg, cache, keys, number, rotations, faults, broken>>

Ends == {"client", "server"}
Other(p) == IF p = "client" THEN "server" ELSE "client"

Over == {"done", "failed", "panic"}
Waiting(p) == conn[p].pc \notin Over \union {"idle"}

NoMessage == [typ |-> "none"]

\* A new Conn and its handshake state.
newConn(pc) ==
    [pc |-> pc, vers |-> 0, haveVers |-> FALSE, in |-> halfConn, out |-> halfConn,
     sendBuf |-> <<>>, buffering |-> FALSE, net |-> <<>>,
     gm |-> FALSE, ch |-> NoMessage, sh |-> NoMessage, hash |-> newFinishedHashGM,
     suite |-> "none", master |-> <<>>, session |-> <<>>, isResume |-> FALSE,
     stage |-> 0, peerPub |-> <<>>, certReq |-> FALSE,
     peer |-> "none", proto |-> <<>>, didResume |-> FALSE]

----------------------------------------------------------------------------
(* How Handshake ends, and sending.                                         *)

\* Mutant: the alert of a failed step stays in the buffer.
abortUnflushed(s, alert) ==
    [IF alert \in {"remote", "eof"} THEN s ELSE sendAlert(s, alert) EXCEPT !.pc = "failed"]

\* Handshake on an error: the alert of the failed step, if it sends one, and
\* the flush of whatever is still buffered.
abort(s, alert) ==
    [Then(IF alert \in {"remote", "eof"} THEN s ELSE sendAlert(s, alert), flush) EXCEPT !.pc = "failed"]

panic(s) == [s EXCEPT !.pc = "panic"]

\* Messages written to the connection and to the transcript.
sendMessages(s, ms) ==
    [writeRecords(s, "hs", ms) EXCEPT !.hash = hashWrite(s.hash, ms)]

cr(s) == s.ch.random
sr(s) == s.sh.random

----------------------------------------------------------------------------
(* The client.                                                              *)

clientEstablishKeys(s) ==
    [s EXCEPT !.in = prepareCipherSpec(@, keysFromMasterSecret("s", s.vers, s.suite, s.master, cr(s), sr(s))),
              !.out = prepareCipherSpec(@, keysFromMasterSecret("c", s.vers, s.suite, s.master, cr(s), sr(s)))]

clientEstablishKeysGM(s) == clientEstablishKeys(s)

\* sendFinished: ChangeCipherSpec, the chosen protocol if the server does NPN
\* (the first of our own if none is mutual), Finished.
clientSendFinished(s, cfg) ==
    LET mutual == mutualProtocol(cfg.protos, s.sh.nextProtos)
        chosen == IF mutual = <<>> THEN <<cfg.protos[1]>> ELSE mutual
        np == IF s.sh.npn THEN <<[typ |-> "nextProto", proto |-> chosen]>> ELSE <<>>
        h == hashWrite(s.hash, np)
        switched == writeRecords(s, "ccs", <<[typ |-> "ccs"]>>)
    IN  IF hashSumPanics(s.hash) THEN panic(switched)
        ELSE Then([switched EXCEPT !.proto = IF s.sh.npn THEN chosen ELSE @], LAMBDA t :
                  sendMessages(t, np \o <<[typ |-> "finished", verify |-> verifyData("client", h, s.master)]>>))

clientSendFinishedGM(s, cfg) == clientSendFinished(s, cfg)

\* clientHandshake, up to the read of the ServerHello.
clientHandshake(s, cfg, cached, n) ==
    LET random == <<"c", n>>
        hello == [IF cfg.gm THEN makeClientHelloGM(cfg, random) ELSE makeClientHello(cfg, random)
                  EXCEPT !.ticketSupported = cfg.cache]
        offered == IF cfg.cache THEN candidateSession(cfg, hello, cached) ELSE <<>>
        ch == IF offered = <<>> THEN hello
              ELSE [hello EXCEPT !.ticket = <<offered[1].ticket>>, !.sid = <<"sid", n>>]
    IN  writeRecords([s EXCEPT !.pc = "serverHello", !.gm = cfg.gm, !.ch = ch, !.session = offered,
                               !.vers = IF cfg.gm THEN VersionGMSSL ELSE @],
                     "hs", <<ch>>)

\* pickTLSVersion (0: refused) and its counterpart in the GM handshake.
pickTLSVersion(cfg, sh) ==
    LET vers == mutualVersion(cfg, sh.vers) IN IF vers < VersionTLS10 THEN 0 ELSE vers

pickGMVersion(sh) == IF sh.vers = VersionGMSSL THEN VersionGMSSL ELSE 0

serverResumedSession(s, sh) == s.session # <<>> /\ s.ch.sid # <<>> /\ sh.sid = s.ch.sid

\* The checks of processServerHello: "ok" or the alert.
processServerHello(s, sh, vers) ==
    IF \/ sh.npn /\ ~s.ch.npn
       \/ sh.alpn # <<>> /\ s.ch.alpn = <<>>
       \/ sh.npn /\ sh.alpn # <<>>
       \/ serverResumedSession(s, sh) /\ (s.session[1].vers # vers \/ s.session[1].suite # sh.suite)
    THEN "handshake_failure" ELSE "ok"

processServerHelloGM(s, sh, vers) == processServerHello(s, sh, vers)

\* The read after the key exchange: the ticket if the server announced one.
expectTicketOrCCS(s) == [s EXCEPT !.pc = IF s.sh.ticketSupported THEN "ticket" ELSE "ccs"]

\* A ServerHello that passed every check: resume the session, or wait for the
\* server's flight.
acceptServerHello(s, sh, vers) ==
    LET isResume == serverResumedSession(s, sh)
        h == IF s.gm THEN newFinishedHashGM ELSE newFinishedHash(vers)
        t == [s EXCEPT !.vers = vers, !.haveVers = ~s.gm, !.suite = sh.suite, !.sh = sh,
                       !.hash = hashWrite(h, <<s.ch, sh>>), !.buffering = TRUE, !.isResume = isResume,
                       !.proto = IF sh.alpn # <<>> THEN sh.alpn ELSE @, !.pc = "certificate"]
    IN  IF ~isResume THEN t
        ELSE Then(Then([t EXCEPT !.master = s.session[1].master, !.peer = s.session[1].peer],
                       LAMBDA x : IF s.gm THEN clientEstablishKeysGM(x) ELSE clientEstablishKeys(x)),
                  expectTicketOrCCS)

readServerHello(s, cfg, m) ==
    IF m.typ # "serverHello" THEN abort(s, "unexpected_message")
    ELSE LET vers == pickTLSVersion(cfg, m)
             known == [s EXCEPT !.vers = vers, !.haveVers = TRUE]
             verdict == processServerHello(s, m, vers)
         IN  CASE vers = 0 -> abort(s, "protocol_version")
               [] vers # 0 /\ ~mutualCipherSuite(s.ch.suites, m.suite) -> abort(known, "handshake_failure")
               [] OTHER -> IF verdict # "ok" THEN abort(known, verdict) ELSE acceptServerHello(s, m, vers)

readServerHelloGM(s, cfg, m) ==
    IF m.typ # "serverHello" THEN abort(s, "unexpected_message")
    ELSE LET vers == pickGMVersion(m)
             verdict == processServerHelloGM(s, m, vers)
         IN  CASE vers = 0 -> abort(s, "protocol_version")
               [] vers # 0 /\ ~mutualCipherSuiteGM(s.ch.suites, m.suite) -> abort(s, "handshake_failure")
               [] OTHER -> IF verdict # "ok" THEN abort(s, verdict) ELSE acceptServerHello(s, m, vers)

\* doFullHandshake: the server's certificates.
readServerCertificate(s, m) ==
    LET verdict == IF m.typ # "certificate" THEN "unexpected_message" ELSE verifyServerChain(m)
    IN  IF verdict # "ok" THEN abort(s, verdict)
        ELSE [s EXCEPT !.hash = hashWrite(@, <<m>>), !.peer = "server", !.pc = "flight"]

readServerCertificateGM(s, m) ==
    LET verdict == IF m.typ # "certificate" THEN "unexpected_message" ELSE verifyServerChainGM(m)
    IN  IF verdict # "ok" THEN abort(s, verdict)
        ELSE [s EXCEPT !.hash = hashWrite(@, <<m>>), !.peer = "server", !.pc = "flight"]

\* The order of the optional messages after it.
flightOrder == [certificateStatus |-> 1, serverKeyExchange |-> 2, certificateRequest |-> 3, serverHelloDone |-> 4]

\* Answer to ServerHelloDone: certificate if requested, key exchange, proof of
\* possession, Finished, all flushed together.
clientFlight(s, cfg, chain) ==
    LET ka == keyAgreementOf(s.suite)
        kx == generateClientKeyExchange(ka, cr(s), s.peerPub)
        first == (IF s.certReq THEN <<[typ |-> "certificate", chain |-> chain]>> ELSE <<>>)
                 \o <<[typ |-> "clientKeyExchange", pub |-> kx.pub]>>
        proof == IF s.certReq /\ chain # "none"
                 THEN <<[typ |-> "certificateVerify", sig |-> s.hash.sum \o first]>> ELSE <<>>
        sent == sendMessages(s, first \o proof)
    IN  [sent EXCEPT !.master = masterFromPreMasterSecret(s.vers, s.suite, kx.secret, cr(s), sr(s))]

finishClientFlight(s) == IF s.pc = "panic" THEN s ELSE expectTicketOrCCS(flush(s))

\* One message of the server's flight.
readFlight(s, cfg, m) ==
    LET ka == keyAgreementOf(s.suite)
        heard == [s EXCEPT !.hash = hashWrite(@, <<m>>), !.stage = flightOrder[m.typ]]
    IN  CASE \/ m.typ \notin DOMAIN flightOrder
             \/ m.typ \in DOMAIN flightOrder /\ flightOrder[m.typ] <= s.stage
             \/ m.typ = "certificateStatus" /\ ~s.sh.ocsp -> abort(s, "unexpected_message")
          [] m.typ = "certificateStatus" /\ s.sh.ocsp /\ s.stage < 1 -> heard
          [] m.typ = "serverKeyExchange" /\ s.stage < 2 ->
               IF processServerKeyExchange(ka, cr(s), sr(s), m) THEN [heard EXCEPT !.peerPub = m.pub]
               ELSE abort(s, "unexpected_message")
          [] m.typ = "certificateRequest" /\ s.stage < 3 -> [heard EXCEPT !.certReq = TRUE]
          [] m.typ = "serverHelloDone" /\ s.stage < 4 ->
               IF needsServerKeyExchange(ka) /\ s.peerPub = <<>> THEN abort(heard, "internal_error")
               ELSE Then(Then(Then(Then(heard,
                        LAMBDA t : clientFlight(t, cfg, getClientCertificate(cfg))),
                        clientEstablishKeys),
                        LAMBDA t : clientSendFinished(t, cfg)),
                        finishClientFlight)

readFlightGM(s, cfg, m) ==
    LET ka == keyAgreementOf(s.suite)
        heard == [s EXCEPT !.hash = hashWrite(@, <<m>>), !.stage = flightOrder[m.typ]]
    IN  CASE \/ m.typ \notin DOMAIN flightOrder \ {"certificateStatus"}
             \/ m.typ \in DOMAIN flightOrder /\ flightOrder[m.typ] <= s.stage -> abort(s, "unexpected_message")
          [] m.typ = "serverKeyExchange" /\ s.stage < 2 ->
               IF processServerKeyExchange(ka, cr(s), sr(s), m) THEN [heard EXCEPT !.peerPub = m.pub]
               ELSE abort(s, "unexpected_message")
          [] m.typ = "certificateRequest" /\ s.stage < 3 -> [heard EXCEPT !.certReq = TRUE]
          [] m.typ = "serverHelloDone" /\ s.stage < 4 ->
               IF needsServerKeyExchange(ka) /\ s.peerPub = <<>> THEN abort(heard, "internal_error")
               ELSE Then(Then(Then(Then(heard,
                        LAMBDA t : clientFlight(t, cfg, getClientCertificateGM(cfg))),
                        clientEstablishKeysGM),
                        LAMBDA t : clientSendFinishedGM(t, cfg)),
                        finishClientFlight)

\* readSessionTicket; the session reaches the cache only when Handshake succeeds.
readSessionTicket(s, m) ==
    IF m.typ # "newSessionTicket" THEN abort(s, "unexpected_message")
    ELSE [s EXCEPT !.hash = hashWrite(@, <<m>>), !.pc = "ccs",
                   !.session = <<[ticket |-> m.ticket, vers |-> s.vers, suite |-> s.suite,
                                  master |-> s.master, peer |-> s.peer]>>]

readSessionTicketGM(s, m) == readSessionTicket(s, m)

\* handshake's last lines.
complete(s) == IF s.pc = "panic" THEN s ELSE [s EXCEPT !.pc = "done", !.didResume = s.isResume]

\* Mutant: the client does not compare the server's verify data.
clientReadFinishedUnverified(s, cfg, m) ==
    LET heard == [s EXCEPT !.hash = hashWrite(@, <<m>>)] IN
    CASE m.typ # "finished" -> abort(s, "unexpected_message")
      [] m.typ = "finished" /\ hashSumPanics(s.hash) -> panic(s)
      [] OTHER -> IF s.isResume THEN Then(Then(clientSendFinished(heard, cfg), flush), complete) ELSE complete(heard)

\* readFinished, then what is left of the handshake.
clientReadFinished(s, cfg, m) ==
    LET heard == [s EXCEPT !.hash = hashWrite(@, <<m>>)] IN
    CASE m.typ # "finished" -> abort(s, "unexpected_message")
      [] m.typ = "finished" /\ hashSumPanics(s.hash) -> panic(s)
      [] OTHER -> IF m.verify # verifyData("server", s.hash, s.master) THEN abort(s, "handshake_failure")
                  ELSE IF s.isResume THEN Then(Then(clientSendFinished(heard, cfg), flush), complete) ELSE complete(heard)

clientReadFinishedGM(s, cfg, m) ==
    LET heard == [s EXCEPT !.hash = hashWrite(@, <<m>>)] IN
    IF m.typ # "finished" THEN abort(s, "unexpected_message")
    ELSE IF m.verify # verifyData("server", s.hash, s.master) THEN abort(s, "handshake_failure")
    ELSE IF s.isResume THEN Then(Then(clientSendFinishedGM(heard, cfg), flush), complete) ELSE complete(heard)

----------------------------------------------------------------------------
(* The server.                                                              *)

serverEstablishKeys(s) ==
    [s EXCEPT !.in = prepareCipherSpec(@, keysFromMasterSecret("c", s.vers, s.suite, s.master, cr(s), sr(s))),
              !.out = prepareCipherSpec(@, keysFromMasterSecret("s", s.vers, s.suite, s.master, cr(s), sr(s)))]

serverEstablishKeysGM(s) == serverEstablishKeys(s)

sendSessionTicket(s) ==
    IF ~s.sh.ticketSupported THEN s
    ELSE sendMessages(s, <<[typ |-> "newSessionTicket",
                            ticket |-> encryptTicket(keys, [vers |-> s.vers, suite |-> s.suite,
                                                            master |-> s.master, certs |-> s.peer])]>>)

sendSessionTicketGM(s) == sendSessionTicket(s)

serverSendFinished(s) ==
    LET switched == writeRecords(s, "ccs", <<[typ |-> "ccs"]>>) IN
    IF hashSumPanics(s.hash) THEN panic(switched)
    ELSE Then(switched, LAMBDA t :
              sendMessages(t, <<[typ |-> "finished", verify |-> verifyData("server", s.hash, s.master)]>>))

serverSendFinishedGM(s) == serverSendFinished(s)

\* The ServerHello that readClientHello prepares.
serverHello(cfg, ch, vers, n) ==
    LET alpn == IF ch.alpn = <<>> THEN <<>> ELSE mutualProtocol(ch.alpn, cfg.protos) IN
    [typ |-> "serverHello", vers |-> vers, random |-> <<"s", n>>, suite |-> "none", sid |-> <<>>,
     ticketSupported |-> FALSE, ocsp |-> FALSE, alpn |-> alpn,
     npn |-> ch.alpn = <<>> /\ ch.npn /\ cfg.protos # <<>>,
     nextProtos |-> IF ch.alpn = <<>> /\ ch.npn THEN cfg.protos ELSE <<>>]

\* doResumeHandshake and the rest of the abbreviated flight; d is the decrypted
\* ticket.  The hash is newFinishedHash in the GM copy too.
resumeFlight(s, d) ==
    Then(Then(Then([s EXCEPT !.peer = d.state.certs], serverEstablishKeys), sendSessionTicket), serverSendFinished)

resumeFlightGM(s, d) ==
    Then(Then(Then([s EXCEPT !.peer = d.state.certs], serverEstablishKeysGM), sendSessionTicketGM), serverSendFinishedGM)

doResumeHandshake(s, cfg, d) ==
    LET sh == [s.sh EXCEPT !.suite = d.state.suite, !.sid = s.ch.sid, !.ticketSupported = d.usedOldKey]
        h == newFinishedHash(s.vers)
        greeted == writeRecords([s EXCEPT !.sh = sh, !.suite = sh.suite, !.master = d.state.master,
                                          !.isResume = TRUE, !.hash = hashWrite(h, <<s.ch, sh>>)],
                                "hs", <<sh>>)
        verdict == IF d.state.certs = "none" THEN "ok" ELSE processCertsFromClient(cfg, d.state.certs)
        sent == Then(greeted, LAMBDA x : resumeFlight(x, d))
    IN  CASE hashWritePanics(h) -> panic(s)
          [] ~hashWritePanics(h) /\ verdict # "ok" -> abort(greeted, verdict)
          [] OTHER -> IF sent.pc = "panic" THEN sent ELSE [Then(sent, flush) EXCEPT !.pc = "ccs"]

doResumeHandshakeGM(s, cfg, d) ==
    LET sh == [s.sh EXCEPT !.suite = d.state.suite, !.sid = s.ch.sid, !.ticketSupported = d.usedOldKey]
        h == newFinishedHash(s.vers)
        greeted == writeRecords([s EXCEPT !.sh = sh, !.suite = sh.suite, !.master = d.state.master,
                                          !.isResume = TRUE, !.hash = hashWrite(h, <<s.ch, sh>>)],
                                "hs", <<sh>>)
        verdict == IF d.state.certs = "none" THEN "ok" ELSE processCertsFromClientGM(cfg, d.state.certs)
        sent == Then(greeted, LAMBDA x : resumeFlightGM(x, d))
    IN  CASE hashWritePanics(h) -> panic(s)
          [] ~hashWritePanics(h) /\ verdict # "ok" -> abort(greeted, verdict)
          [] OTHER -> IF sent.pc = "panic" THEN sent ELSE [Then(sent, flush) EXCEPT !.pc = "ccs"]

\* doFullHandshake up to the flush after ServerHelloDone.
serverFlight(s, cfg, suite, n) ==
    LET sh == [s.sh EXCEPT !.suite = suite, !.ticketSupported = s.ch.ticketSupported /\ cfg.tickets,
                           !.ocsp = s.ch.ocsp /\ cfg.staple]
        ms == <<sh, [typ |-> "certificate", n |-> n, trusted |-> cfg.trusted]>>
              \o (IF sh.ocsp THEN <<[typ |-> "certificateStatus"]>> ELSE <<>>)
              \o generateServerKeyExchange(keyAgreementOf(suite), s.ch.random, sh.random)
              \o (IF cfg.auth >= RequestClientCert THEN <<[typ |-> "certificateRequest"]>> ELSE <<>>)
              \o <<[typ |-> "serverHelloDone"]>>
        sent == sendMessages([s EXCEPT !.sh = sh, !.suite = suite, !.hash = hashWrite(@, <<s.ch>>)], ms)
    IN  [Then(sent, flush) EXCEPT !.pc = IF cfg.auth >= RequestClientCert THEN "clientCertificate" ELSE "clientKeyExchange"]

doFullHandshake(s, cfg, suite) ==
    serverFlight([s EXCEPT !.hash = newFinishedHash(s.vers)], cfg, suite, 1)

doFullHandshakeGM(s, cfg, suite) ==
    serverFlight([s EXCEPT !.hash = newFinishedHashGM], cfg, suite, cfg.gmCerts)

\* serverHandshake after the ClientHello: resume, or the full handshake.
serverHandshake(s, cfg, resumed, suite) ==
    Then([s EXCEPT !.buffering = TRUE], LAMBDA x :
         IF resumed # <<>> THEN doResumeHandshake(x, cfg, resumed[1]) ELSE doFullHandshake(x, cfg, suite))

serverHandshakeGM(s, cfg, resumed, suite) ==
    Then([s EXCEPT !.buffering = TRUE], LAMBDA x :
         IF resumed # <<>> THEN doResumeHandshakeGM(x, cfg, resumed[1]) ELSE doFullHandshakeGM(x, cfg, suite))

\* The switching server's copies of the two.
runServerHandshake(s, cfg, resumed, suite) == serverHandshake(s, cfg, resumed, suite)

runServerHandshakeGM(s, cfg, resumed, suite) == serverHandshakeGM(s, cfg, resumed, suite)

\* readClientHello, from the message on, and the handshake that follows it.
readClientHello(s, cfg, ch, n) ==
    LET vers == mutualVersion(cfg, ch.vers)
        sh == serverHello(cfg, ch, vers, n)
        t == [s EXCEPT !.vers = vers, !.haveVers = TRUE, !.ch = ch, !.sh = sh, !.proto = sh.alpn]
        resumed == checkForResumption(cfg, keys, ch, vers)
        suite == selectCipherSuite(cfg, ch, vers)
    IN  CASE vers = 0 -> abort(s, "protocol_version")
          [] vers # 0 /\ ~getCertificateOk(cfg) -> abort(t, "internal_error")
          [] OTHER -> IF resumed = <<>> /\ suite = "none" THEN abort(t, "handshake_failure")
                      ELSE IF cfg.mode = "auto" THEN runServerHandshake(t, cfg, resumed, suite)
                      ELSE serverHandshake(t, cfg, resumed, suite)

readClientHelloGM(s, cfg, ch, n) ==
    LET vers == mutualVersion(cfg, ch.vers)
        sh == serverHello(cfg, ch, vers, n)
        t == [s EXCEPT !.vers = vers, !.haveVers = TRUE, !.gm = TRUE, !.ch = ch, !.sh = sh, !.proto = sh.alpn]
        resumed == checkForResumptionGM(cfg, keys, ch, vers)
        suite == selectCipherSuiteGM(cfg, ch)
    IN  CASE vers = 0 -> abort(s, "protocol_version")
          [] vers # 0 /\ ~certificatesGMOk(cfg) -> abort(t, "internal_error")
          [] OTHER -> IF resumed = <<>> /\ suite = "none" THEN abort(t, "handshake_failure")
                      ELSE IF cfg.mode = "auto" THEN runServerHandshakeGM(t, cfg, resumed, suite)
                      ELSE serverHandshakeGM(t, cfg, resumed, suite)

\* The switching server reads the message itself and hands it on.
processClientHello(s, cfg, ch, n) == readClientHello(s, cfg, ch, n)

processClientHelloGM(s, cfg, ch, n) == readClientHelloGM(s, cfg, ch, n)

serverHandshakeAutoSwitch(s, cfg, ch, n) ==
    CASE ch.vers = VersionGMSSL -> processClientHelloGM(s, cfg, ch, n)
      [] ch.vers \in VersionSSL30..VersionTLS12 -> processClientHello(s, cfg, ch, n)
      [] OTHER -> abort(s, "protocol_version")

\* The server's first read, by mode.
serverStart(s, cfg, m, n) ==
    CASE m.typ # "clientHello" -> abort(s, "unexpected_message")
      [] m.typ = "clientHello" /\ cfg.mode = "tls" -> readClientHello(s, cfg, m, n)
      [] m.typ = "clientHello" /\ cfg.mode = "gm" -> readClientHelloGM(s, cfg, m, n)
      [] m.typ = "clientHello" /\ cfg.mode = "auto" -> serverHandshakeAutoSwitch(s, cfg, m, n)

\* doFullHandshake: the client's certificate, key exchange, proof of possession.
readClientCertificate(s, cfg, m) ==
    LET verdict == CASE m.typ # "certificate" -> "unexpected_message"
                     [] m.typ = "certificate" /\ clientChainRequired(cfg, m.chain) -> "bad_certificate"
                     [] OTHER -> IF s.gm THEN processCertsFromClientGM(cfg, m.chain)
                                 ELSE processCertsFromClient(cfg, m.chain)
    IN  IF verdict # "ok" THEN abort(s, verdict)
        ELSE [s EXCEPT !.hash = hashWrite(@, <<m>>), !.peer = m.chain, !.pc = "clientKeyExchange"]

expectFinished(s) == [IF s.gm THEN serverEstablishKeysGM(s) ELSE serverEstablishKeys(s) EXCEPT !.pc = "ccs"]

readClientKeyExchange(s, m) ==
    IF m.typ # "clientKeyExchange" THEN abort(s, "unexpected_message")
    ELSE LET secret == processClientKeyExchange(keyAgreementOf(s.suite), sr(s), m)
             t == [s EXCEPT !.hash = hashWrite(@, <<m>>),
                            !.master = masterFromPreMasterSecret(s.vers, s.suite, secret, cr(s), sr(s))]
         IN  IF s.peer # "none" THEN [t EXCEPT !.pc = "certificateVerify"] ELSE Then(t, expectFinished)

readCertificateVerify(s, m) ==
    CASE m.typ # "certificateVerify" -> abort(s, "unexpected_message")
      [] m.typ = "certificateVerify" ->
           IF m.sig # s.hash.sum THEN abort(s, "bad_certificate")
           ELSE expectFinished([s EXCEPT !.hash = hashWrite(@, <<m>>)])

readNextProto(s, m) ==
    IF m.typ # "nextProto" THEN abort(s, "unexpected_message")
    ELSE [s EXCEPT !.hash = hashWrite(@, <<m>>), !.proto = m.proto, !.pc = "finished"]

\* readFinished, and serverHandshake from there: a full handshake still owes the
\* client its ticket and its Finished.
serverFinishFull(s) ==
    Then(Then(Then(Then([s EXCEPT !.buffering = TRUE], sendSessionTicket), serverSendFinished), flush), complete)

serverFinishFullGM(s) ==
    Then(Then(Then(Then([s EXCEPT !.buffering = TRUE], sendSessionTicketGM), serverSendFinishedGM), flush), complete)

\* Mutant: the server does not compare the client's verify data.
serverReadFinishedUnverified(s, m) ==
    LET heard == [s EXCEPT !.hash = hashWrite(@, <<m>>)] IN
    CASE m.typ # "finished" -> abort(s, "unexpected_message")
      [] m.typ = "finished" /\ hashSumPanics(s.hash) -> panic(s)
      [] OTHER -> IF s.isResume THEN complete(heard) ELSE serverFinishFull(heard)

serverReadFinished(s, m) ==
    LET heard == [s EXCEPT !.hash = hashWrite(@, <<m>>)] IN
    CASE m.typ # "finished" -> abort(s, "unexpected_message")
      [] m.typ = "finished" /\ hashSumPanics(s.hash) -> panic(s)
      [] OTHER -> IF m.verify # verifyData("client", s.hash, s.master) THEN abort(s, "handshake_failure")
                  ELSE IF s.isResume THEN complete(heard) ELSE serverFinishFull(heard)

serverReadFinishedGM(s, m) ==
    LET heard == [s EXCEPT !.hash = hashWrite(@, <<m>>)] IN
    IF m.typ # "finished" THEN abort(s, "unexpected_message")
    ELSE IF m.verify # verifyData("client", s.hash, s.master) THEN abort(s, "handshake_failure")
    ELSE IF s.isResume THEN complete(heard) ELSE serverFinishFullGM(heard)

----------------------------------------------------------------------------
(* Steps.                                                                   *)

\* On a broken connection nothing arrives, and a write may report the error.
Outcomes(s) ==
    IF ~broken \/ s.net = <<>> THEN {s}
    ELSE {[s EXCEPT !.net = <<>>], [s EXCEPT !.net = <<>>, !.pc = "failed"]}

\* The next record p reads, and p once readRecord has accepted it.
Incoming(p) == Head(conn[Other(p)].net)
Accepted(p) == afterRead(conn[p], Incoming(p))

\* p, waiting in pc for a record of type want, takes the next record; handled is
\* what the handshake code makes of it if readRecord returns it.
Read(p, pc, want, handled) ==
    LET q == Other(p)
        s == conn[p]
        verdict == readRecord(s, Incoming(p), want)
        next == CASE verdict = "ok" -> handled
                  [] verdict = "skip" -> Accepted(p)
                  [] OTHER -> abort(s, verdict)
    IN  /\ s.pc = pc
        /\ conn[q].net # <<>>
        /\ \E t \in Then(next, Outcomes) : conn' = [conn EXCEPT ![p] = t, ![q].net = Tail(@)]
        /\ UNCHANGED <<ccfg, scfg, keys, number, rotations, faults, broken>>

\* Which copy of the code runs: Config.GMSupport at the client, what the hello
\* decided at the server.
clientOnServerHello(s, m) == IF s.gm THEN readServerHelloGM(s, ccfg, m) ELSE readServerHello(s, ccfg, m)
clientOnCertificate(s, m) == IF s.gm THEN readServerCertificateGM(s, m) ELSE readServerCertificate(s, m)
clientOnFlight(s, m) == IF s.gm THEN readFlightGM(s, ccfg, m) ELSE readFlight(s, ccfg, m)
clientOnTicket(s, m) == IF s.gm THEN readSessionTicketGM(s, m) ELSE readSessionTicket(s, m)
clientOnFinished(s, m) == IF s.gm THEN clientReadFinishedGM(s, ccfg, m) ELSE clientReadFinished(s, ccfg, m)
serverOnFinished(s, m) == IF s.gm THEN serverReadFinishedGM(s, m) ELSE serverReadFinished(s, m)

ClientHello ==
    /\ conn["client"].pc = "idle"
    /\ \E t \in Outcomes(clientHandshake(conn["client"], ccfg, cache, number)) :
         conn' = [conn EXCEPT !["client"] = t]
    /\ UNCHANGED <<ccfg, scfg, cache, keys, number, rotations, faults, broken>>

ClientReadServerHello ==
    /\ Read("client", "serverHello", "hs", clientOnServerHello(Accepted("client"), Incoming("client").msg))
    /\ UNCHANGED cache

ClientReadCertificate ==
    /\ Read("client", "certificate", "hs", clientOnCertificate(Accepted("client"), Incoming("client").msg))
    /\ UNCHANGED cache

ClientReadFlight ==
    /\ Read("client", "flight", "hs", clientOnFlight(Accepted("client"), Incoming("client").msg))
    /\ UNCHANGED cache

\* Mutant: the session is cached as soon as its ticket arrives.
ClientReadTicketCaches ==
    /\ Read("client", "ticket", "hs", clientOnTicket(Accepted("client"), Incoming("client").msg))
    /\ cache' = IF ccfg.cache /\ conn'["client"].session # <<>> THEN conn'["client"].session ELSE cache

ClientReadTicket ==
    /\ Read("client", "ticket", "hs", clientOnTicket(Accepted("client"), Incoming("client").msg))
    /\ UNCHANGED cache

ClientReadCCS ==
    /\ Read("client", "ccs", "ccs", [Accepted("client") EXCEPT !.pc = "finished"])
    /\ UNCHANGED cache

\* clientHandshake caches the session once the handshake has succeeded.
ClientReadFinished ==
    /\ Read("client", "finished", "hs", clientOnFinished(Accepted("client"), Incoming("client").msg))
    /\ cache' = IF ccfg.cache /\ conn'["client"].pc = "done" /\ conn'["client"].session # <<>>
                THEN conn'["client"].session ELSE cache

ServerReadHello ==
    /\ Read("server", "clientHello", "hs", serverStart(Accepted("server"), scfg, Incoming("server").msg, number))
    /\ UNCHANGED cache

ServerReadCertificate ==
    /\ Read("server", "clientCertificate", "hs", readClientCertificate(Accepted("server"), scfg, Incoming("server").msg))
    /\ UNCHANGED cache

ServerReadKeyExchange ==
    /\ Read("server", "clientKeyExchange", "hs", readClientKeyExchange(Accepted("server"), Incoming("server").msg))
    /\ UNCHANGED cache

ServerReadVerify ==
    /\ Read("server", "certificateVerify", "hs", readCertificateVerify(Accepted("server"), Incoming("server").msg))
    /\ UNCHANGED cache

ServerReadCCS ==
    /\ Read("server", "ccs", "ccs", [Accepted("server") EXCEPT !.pc = IF conn["server"].sh.npn THEN "nextProto" ELSE "finished"])
    /\ UNCHANGED cache

ServerReadNextProto ==
    /\ Read("server", "nextProto", "hs", readNextProto(Accepted("server"), Incoming("server").msg))
    /\ UNCHANGED cache

ServerReadFinished ==
    /\ Read("server", "finished", "hs", serverOnFinished(Accepted("server"), Incoming("server").msg))
    /\ UNCHANGED cache

\* Mutant: a read is not woken by the end of the connection.
ReadEOFDeaf(p) ==
    /\ Waiting(p)
    /\ conn[Other(p)].net = <<>>
    /\ conn[Other(p)].pc \in {"failed", "panic"}
    /\ conn' = [conn EXCEPT ![p] = IF broken THEN [abort(@, "eof") EXCEPT !.net = <<>>] ELSE abort(@, "eof")]
    /\ UNCHANGED <<ccfg, scfg, cache, keys, number, rotations, faults, broken>>

\* A read finds the connection ended: broken, or closed by the peer's user after
\* its Handshake failed (or died with it).
ReadEOF(p) ==
    /\ Waiting(p)
    /\ conn[Other(p)].net = <<>>
    /\ broken \/ conn[Other(p)].pc \in {"failed", "panic"}
    /\ conn' = [conn EXCEPT ![p] = IF broken THEN [abort(@, "eof") EXCEPT !.net = <<>>] ELSE abort(@, "eof")]
    /\ UNCHANGED <<ccfg, scfg, cache, keys, number, rotations, faults, broken>>

----------------------------------------------------------------------------
(* The environment.                                                         *)

\* The operator rotates the ticket keys, keeping the old ones or not.
SetSessionTicketKeys ==
    /\ rotations < MaxRotations
    /\ rotations' = rotations + 1
    /\ \E kept \in {keys, <<>>} : keys' = <<rotations + 2>> \o kept
    /\ UNCHANGED <<conn, ccfg, scfg, cache, number, faults, broken>>

\* What a message can be read as after damage in transit.
damaged(m) ==
    CASE m.typ = "clientHello" ->
           {[m EXCEPT !.vers = @ - 1], [m EXCEPT !.alpn = <<>>]}
           \union (IF m.suites = <<>> THEN {} ELSE {[m EXCEPT !.suites = Tail(@)]})
           \union (IF m.ticket = <<>> THEN {} ELSE {[m EXCEPT !.ticket[1].intact = FALSE]})
      [] m.typ = "serverHello" ->
           {[m EXCEPT !.ticketSupported = ~@], [m EXCEPT !.sid = <<>>], [m EXCEPT !.vers = @ - 1]}
      [] m.typ = "newSessionTicket" -> {[m EXCEPT !.ticket.intact = FALSE]}
      [] m.typ = "clientKeyExchange" -> {[m EXCEPT !.pub = <<"damaged">>]}
      [] OTHER -> {[typ |-> "garbage"]}

Damage(p) ==
    /\ faults < MaxFaults
    /\ conn[p].net # <<>>
    /\ LET r == Head(conn[p].net) IN
       /\ r.typ = "hs"
       /\ \E d \in IF r.key = <<>> THEN {[r EXCEPT !.msg = m] : m \in damaged(r.msg)}
                    ELSE {[r EXCEPT !.seq = @ + 1]} :
            conn' = [conn EXCEPT ![p].net[1] = d]
    /\ faults' = faults + 1
    /\ UNCHANGED <<ccfg, scfg, cache, keys, number, rotations, broken>>

Break ==
    /\ faults < MaxFaults
    /\ \E p \in Ends : conn[p].pc \notin Over
    /\ broken' = TRUE
    /\ conn' = [p \in Ends |-> [conn[p] EXCEPT !.net = <<>>]]
    /\ faults' = faults + 1
    /\ UNCHANGED <<ccfg, scfg, cache, keys, number, rotations>>

\* The same client connects again, the server possibly reconfigured.
NextConnection ==
    /\ \A p \in Ends : conn[p].pc \in Over
    /\ number < MaxConnections
    /\ number' = number + 1
    /\ conn' = [client |-> newConn("idle"), server |-> newConn("clientHello")]
    /\ scfg' \in ServerConfigs
    /\ broken' = FALSE
    /\ UNCHANGED <<ccfg, cache, keys, rotations, faults>>

AllOver == number = MaxConnections /\ \A p \in Ends : conn[p].pc \in Over

Finished == AllOver /\ UNCHANGED vars

Init ==
    /\ conn = [client |-> newConn("idle"), server |-> newConn("clientHello")]
    /\ ccfg \in ClientConfigs
    /\ scfg \in ServerConfigs
    /\ cache = <<>>
    /\ keys = <<1>>
    /\ number = 1
    /\ rotations = 0
    /\ faults = 0
    /\ broken = FALSE

ClientStep ==
    \/ ClientHello \/ ClientReadServerHello \/ ClientReadCertificate \/ ClientReadFlight
    \/ ClientReadTicket \/ ClientReadCCS \/ ClientReadFinished \/ ReadEOF("client")

ServerStep ==
    \/ ServerReadHello \/ ServerReadCertificate \/ ServerReadKeyExchange \/ ServerReadVerify
    \/ ServerReadCCS \/ ServerReadNextProto \/ ServerReadFinished \/ ReadEOF("server")

Next ==
    \/ ClientStep \/ ServerStep
    \/ SetSessionTicketKeys \/ (\E p \in Ends : Damage(p)) \/ Break
    \/ NextConnection \/ Finished

\* Each end's goroutine keeps running while it has something to read.
Spec == Init /\ [][Next]_vars /\ WF_vars(ClientStep) /\ WF_vars(ServerStep)

----------------------------------------------------------------------------
(* Properties.                                                              *)

\* As soon as one end reports success, both ends have the same hellos, version,
\* suite, master secret, protocol and kind of handshake, and what one end sends
\* from now on is under the key the other end reads with.  This is what the
\* Finished exchange (readFinished) is for: hello messages damaged on the way
\* can only make the handshake fail.
Agreement ==
    LET c == conn["client"]
        s == conn["server"]
    IN  c.pc = "done" \/ s.pc = "done" =>
          /\ c.ch = s.ch /\ c.sh = s.sh
          /\ c.vers = s.vers /\ c.suite = s.suite /\ c.master = s.master
          /\ c.proto = s.proto /\ c.isResume = s.isResume
          /\ (c.pc = "done" => c.in.cipher = s.out.cipher)
          /\ (s.pc = "done" => s.in.cipher = c.out.cipher)

\* An end that succeeds, the server included, has settled on the highest version both Configs
\* allow and, unless it resumes, on the suite the server prefers among those
\* the client really offered: damage on the way cannot lower either.
NoDowngrade ==
    LET offered == conn["client"].ch IN
    \A p \in Ends : conn[p].pc = "done" =>
      /\ conn[p].vers = IF ccfg.gm THEN VersionGMSSL ELSE mutualVersion(scfg, ccfg.max)
      /\ conn[p].isResume \/ conn[p].suite = IF ccfg.gm THEN selectCipherSuiteGM(scfg, offered)
                                             ELSE selectCipherSuite(scfg, offered, conn[p].vers)

\* A server whose Handshake succeeded has a client that satisfies Config.ClientAuth,
\* also when the session was resumed under another policy than it was made under.
ClientAuthHolds ==
    conn["server"].pc = "done" =>
      LET chain == conn["server"].peer IN
      /\ scfg.auth \in {RequireAnyClientCert, RequireAndVerifyClientCert} => chain # "none"
      /\ scfg.auth >= VerifyClientCertIfGiven => chain # "bad"
      /\ scfg.auth = NoClientCert => chain = "none"

\* An end that has returned from Handshake has nothing left in sendBuf (an alert
\* that stayed there would never reach the peer), and after success buffering is
\* off: Write would otherwise put application data where nobody flushes it.
NothingHeldBack ==
    \A p \in Ends :
      /\ conn[p].pc \in {"done", "failed"} => conn[p].sendBuf = <<>>
      /\ conn[p].pc = "done" => ~conn[p].buffering

\* The cached session is one the server can resume to the same parameters: an
\* intact ticket that says what the client remembers.  A ticket is cached only
\* after the Finished that covers it.
CachedSessionSound ==
    cache # <<>> =>
      /\ cache[1].ticket.intact
      /\ cache[1].ticket.state.vers = cache[1].vers
      /\ cache[1].ticket.state.suite = cache[1].suite
      /\ cache[1].ticket.state.master = cache[1].master

\* Every Handshake call returns (or panics), whatever happens to the connection.
HandshakeEnds ==
    \A p \in Ends : Waiting(p) ~> conn[p].pc \in Over

\* No Handshake panics: a version or a session that the negotiation accepts is
\* one whose Finished hash can be computed.  This does NOT hold, and no run asserts
\* it: newFinishedHash leaves prf nil below TLS 1.2, and a GM server that resumes a
\* session makes the hash of TLS, whose MD5 is nil.
NoPanic == \A p \in Ends : conn[p].pc # "panic"
=============================================================================
