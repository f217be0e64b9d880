--------------------------- MODULE TLSNegotiation ---------------------------
(***************************************************************************)
(* What the two ends of a zgmtls handshake decide from their configurations *)
(* and from the messages they have read: protocol version, cipher suite,    *)
(* application protocol, certificates, session resumption, and what the key *)
(* agreements and the Finished hash compute.  No state: every operator is a *)
(* function of its arguments.                                               *)
(*                                                                          *)
(* Cryptography is ideal: a random, a public value, a signature, a ticket   *)
(* and a key are the values they are computed from, so two of them are      *)
(* equal exactly when they were computed from equal inputs.                 *)
(*                                                                          *)
(* A configuration is a record.  Client: gm (GMSupport is set), min and max *)
(* version, suites (<<>> is nil), cache (a ClientSessionCache is set and    *)
(* tickets are not disabled), cert ("none", "good", "bad": one that         *)
(* ClientCAs does not verify), protos.  Server: mode ("tls", "gm", "auto"), *)
(* min, max, suites, prefer, auth, tickets, key (of the TLS certificate, or *)
(* "none"), gmCerts (how many SM2 certificates), trusted (the client can    *)
(* verify them), staple (an OCSP staple is configured), protos.             *)
(***************************************************************************)
EXTENDS Naturals, Sequences, FiniteSets, SequencesExt

\* Protocol versions in the order of their numbers; 0 is Conn.vers unset.
VersionGMSSL == 1
VersionSSL30 == 2
VersionTLS10 == 3
VersionTLS11 == 4
VersionTLS12 == 5

\* ClientAuthType.
NoClientCert == 0
RequestClientCert == 1
RequireAnyClientCert == 2
VerifyClientCertIfGiven == 3
RequireAndVerifyClientCert == 4

----------------------------------------------------------------------------
\* Cipher suites: key agreement and flags, one suite per combination that the
\* negotiation tells apart.
cipherSuites ==
    [ECDHE_RSA_GCM   |-> [ka |-> "ecdhe", ecdsa |-> FALSE, tls12 |-> TRUE],
     ECDHE_ECDSA_GCM |-> [ka |-> "ecdhe", ecdsa |-> TRUE,  tls12 |-> TRUE],
     ECDHE_RSA_CBC   |-> [ka |-> "ecdhe", ecdsa |-> FALSE, tls12 |-> FALSE],
     RSA_CBC         |-> [ka |-> "rsa",   ecdsa |-> FALSE, tls12 |-> FALSE]]

gmCipherSuites ==
    [GM_ECC   |-> [ka |-> "eccGM"],
     GM_ECDHE |-> [ka |-> "ecdheGM"]]

\* initDefaultCipherSuites: the list used where Config.CipherSuites is nil.
defaultCipherSuites == <<"ECDHE_RSA_GCM", "ECDHE_ECDSA_GCM", "ECDHE_RSA_CBC", "RSA_CBC">>

configCipherSuites(cfg) == IF cfg.suites = <<>> THEN defaultCipherSuites ELSE cfg.suites

\* The GM code's own list.
getCipherSuites(cfg) == IF cfg.suites = <<>> THEN <<"GM_ECDHE", "GM_ECC">> ELSE cfg.suites

keyAgreementOf(suite) ==
    IF suite \in DOMAIN cipherSuites THEN cipherSuites[suite].ka ELSE gmCipherSuites[suite].ka

----------------------------------------------------------------------------
\* Config.mutualVersion; 0 stands for its FALSE result.
mutualVersion(cfg, vers) ==
    IF vers < cfg.min THEN 0 ELSE IF vers > cfg.max THEN cfg.max ELSE vers

\* mutualProtocol: the first of preference that is offered; <<>> where the
\* code falls back to protos[0] and reports the fallback.
mutualProtocol(protos, preference) ==
    LET common == SelectSeq(preference, LAMBDA p : Contains(protos, p))
    IN  IF common = <<>> THEN <<>> ELSE <<common[1]>>

mutualCipherSuite(have, want) == Contains(have, want) /\ want \in DOMAIN cipherSuites

mutualCipherSuiteGM(have, want) == Contains(have, want) /\ want \in DOMAIN gmCipherSuites

\* setCipherSuite: id is supported and usable with this certificate and version.
\* (ellipticOk always holds: every TLS client of this package sends curves.)
setCipherSuite(cfg, id, supported, vers) ==
    /\ Contains(supported, id)
    /\ id \in DOMAIN cipherSuites
    /\ LET candidate == cipherSuites[id] IN
       /\ cfg.key = IF candidate.ecdsa THEN "ecdsa" ELSE "rsa"
       /\ vers < VersionTLS12 => ~candidate.tls12

setCipherSuiteGM(id, supported) == Contains(supported, id) /\ id \in DOMAIN gmCipherSuites

\* The suite a server selects: the first usable one of the preferred list;
\* "none" where hs.suite stays nil.
FirstUsable(ids, Usable(_)) ==
    LET i == SelectInSeq(ids, Usable) IN IF i = 0 THEN "none" ELSE ids[i]

selectCipherSuite(cfg, ch, vers) ==
    IF cfg.prefer
    THEN FirstUsable(configCipherSuites(cfg), LAMBDA id : setCipherSuite(cfg, id, ch.suites, vers))
    ELSE FirstUsable(ch.suites, LAMBDA id : setCipherSuite(cfg, id, configCipherSuites(cfg), vers))

selectCipherSuiteGM(cfg, ch) ==
    IF cfg.prefer
    THEN FirstUsable(getCipherSuites(cfg), LAMBDA id : setCipherSuiteGM(id, ch.suites))
    ELSE FirstUsable(ch.suites, LAMBDA id : setCipherSuiteGM(id, getCipherSuites(cfg)))

----------------------------------------------------------------------------
\* ClientHello.  session is <<>> or one cached session, offered by its ticket
\* and a fresh session id.
makeClientHello(cfg, random) ==
    [typ |-> "clientHello", vers |-> cfg.max, random |-> random,
     suites |-> SelectSeq(configCipherSuites(cfg), LAMBDA id :
                    /\ id \in DOMAIN cipherSuites
                    /\ cfg.max < VersionTLS12 => ~cipherSuites[id].tls12),
     ocsp |-> TRUE, alpn |-> cfg.protos, npn |-> cfg.protos # <<>>,
     ticketSupported |-> FALSE, ticket |-> <<>>, sid |-> <<>>]

makeClientHelloGM(cfg, random) ==
    [typ |-> "clientHello", vers |-> VersionGMSSL, random |-> random,
     suites |-> SelectSeq(getCipherSuites(cfg), LAMBDA id : id \in DOMAIN gmCipherSuites),
     ocsp |-> FALSE, alpn |-> <<>>, npn |-> FALSE,
     ticketSupported |-> FALSE, ticket |-> <<>>, sid |-> <<>>]

\* clientHandshake: the session of the cache that the hello may offer, or <<>>.
candidateSession(cfg, hello, cached) ==
    IF /\ cached # <<>>
       /\ Contains(hello.suites, cached[1].suite)
       /\ cfg.min <= cached[1].vers /\ cached[1].vers <= cfg.max
    THEN cached ELSE <<>>

----------------------------------------------------------------------------
\* Certificates.  Config.getCertificate fails without one; the GM servers need
\* a signing and an encryption certificate.
getCertificateOk(cfg) == cfg.key # "none"

\* In auto mode the second one comes from GetKECertificate, called without a check
\* for nil (auto_handshake_server.go:162): gmCerts = 2 stands for a server that has
\* set it; one that has two Certificates and no such function would panic there.
certificatesGMOk(cfg) == cfg.gmCerts >= 2

\* The alert the client answers the server's chain with, "ok" if it accepts.
verifyServerChain(cert) ==
    CASE cert.n = 0 -> "unexpected_message"
      [] ~cert.trusted -> "bad_certificate"
      [] OTHER -> "ok"

verifyServerChainGM(cert) ==
    CASE cert.n = 0 -> "unexpected_message"
      [] cert.n < 2 -> "insufficient_security"
      [] ~cert.trusted -> "bad_certificate"
      [] OTHER -> "ok"

\* Client's getCertificate: "none" is the empty chain.
getClientCertificate(cfg) == cfg.cert

getClientCertificateGM(cfg) == cfg.cert

\* The server on the client's chain: an empty one where one is required, and
\* processCertsFromClient, verification.
clientChainRequired(cfg, chain) ==
    chain = "none" /\ cfg.auth \in {RequireAnyClientCert, RequireAndVerifyClientCert}

processCertsFromClient(cfg, chain) ==
    IF cfg.auth >= VerifyClientCertIfGiven /\ chain = "bad" THEN "bad_certificate" ELSE "ok"

processCertsFromClientGM(cfg, chain) == processCertsFromClient(cfg, chain)

----------------------------------------------------------------------------
\* Session tickets.  keys[1] encrypts, every key decrypts.
encryptTicket(keys, state) == [key |-> keys[1], state |-> state, intact |-> TRUE]

\* <<>> if the ticket is not accepted, else the state and usedOldKey.
decryptTicket(cfg, keys, ticket) ==
    IF /\ cfg.tickets
       /\ ticket # <<>>
       /\ Contains(keys, ticket[1].key)
       /\ ticket[1].intact
    THEN <<[state |-> ticket[1].state, usedOldKey |-> keys[1] # ticket[1].key]>>
    ELSE <<>>

\* Mutant: the policy is not looked at again when a session is resumed.
resumableCertsAny(cfg, certs) == cfg.auth \in Nat /\ certs \in STRING

\* Which sessions the client-certificate policy lets a server resume.
resumableCerts(cfg, certs) ==
    /\ cfg.auth \in {RequireAnyClientCert, RequireAndVerifyClientCert} => certs # "none"
    /\ certs # "none" => cfg.auth # NoClientCert

\* checkForResumption: the session to resume, or <<>>.
checkForResumption(cfg, keys, ch, vers) ==
    LET found == decryptTicket(cfg, keys, ch.ticket)
        state == found[1].state
    IN  IF /\ found # <<>>
           /\ state.vers = vers
           /\ Contains(ch.suites, state.suite)
           /\ setCipherSuite(cfg, state.suite, configCipherSuites(cfg), vers)
           /\ resumableCerts(cfg, state.certs)
        THEN found ELSE <<>>

\* The GM copy asks Config.cipherSuites, whose nil case is the TLS list.
checkForResumptionGM(cfg, keys, ch, vers) ==
    LET found == decryptTicket(cfg, keys, ch.ticket)
        state == found[1].state
    IN  IF /\ found # <<>>
           /\ state.vers = vers
           /\ Contains(ch.suites, state.suite)
           /\ setCipherSuiteGM(state.suite, configCipherSuites(cfg))
           /\ resumableCerts(cfg, state.certs)
        THEN found ELSE <<>>

----------------------------------------------------------------------------
\* Key agreement.  A server key exchange is the server's public value and a
\* signature over both randoms and that value; the pre-master secret is made
\* of the public values, or is the secret the client encrypted.
Signature(cr, sr, what) == <<cr, sr, what>>

ecdheGenerateServerKeyExchange(cr, sr) ==
    LET pub == <<"spub", sr>> IN
    <<[typ |-> "serverKeyExchange", pub |-> pub, sig |-> Signature(cr, sr, pub)]>>

ecdheProcessServerKeyExchange(cr, sr, skx) == skx.sig = Signature(cr, sr, skx.pub)

ecdheGenerateClientKeyExchange(cr, peer) ==
    [pub |-> <<"cpub", cr>>, secret |-> <<peer, <<"cpub", cr>>>>]

ecdheProcessClientKeyExchange(sr, ckx) == <<<<"spub", sr>>, ckx.pub>>

ecdheGMGenerateServerKeyExchange(cr, sr) == ecdheGenerateServerKeyExchange(cr, sr)

ecdheGMProcessServerKeyExchange(cr, sr, skx) == ecdheProcessServerKeyExchange(cr, sr, skx)

ecdheGMGenerateClientKeyExchange(cr, peer) == ecdheGenerateClientKeyExchange(cr, peer)

ecdheGMProcessClientKeyExchange(sr, ckx) == ecdheProcessClientKeyExchange(sr, ckx)

\* ECC_SM2: the signature covers the encryption certificate, and the client
\* encrypts the pre-master secret to that certificate.
eccGMGenerateServerKeyExchange(cr, sr) ==
    <<[typ |-> "serverKeyExchange", pub |-> <<"encCert">>, sig |-> Signature(cr, sr, <<"encCert">>)]>>

eccGMProcessServerKeyExchange(cr, sr, skx) == skx.sig = Signature(cr, sr, <<"encCert">>)

eccGMGenerateClientKeyExchange(cr) == [pub |-> <<"pms", cr>>, secret |-> <<<<"pms", cr>>>>]

eccGMProcessClientKeyExchange(ckx) == <<ckx.pub>>

rsaGenerateClientKeyExchange(cr) == [pub |-> <<"pms", cr>>, secret |-> <<<<"pms", cr>>>>]

rsaProcessClientKeyExchange(ckx) == <<ckx.pub>>

\* The four agreements behind the keyAgreement interface.  The RSA one sends
\* no server key exchange and refuses to be sent one.
generateServerKeyExchange(ka, cr, sr) ==
    CASE ka = "rsa" -> <<>>
      [] ka = "ecdhe" -> ecdheGenerateServerKeyExchange(cr, sr)
      [] ka = "ecdheGM" -> ecdheGMGenerateServerKeyExchange(cr, sr)
      [] ka = "eccGM" -> eccGMGenerateServerKeyExchange(cr, sr)

processServerKeyExchange(ka, cr, sr, skx) ==
    CASE ka = "rsa" -> FALSE
      [] ka = "ecdhe" -> ecdheProcessServerKeyExchange(cr, sr, skx)
      [] ka = "ecdheGM" -> ecdheGMProcessServerKeyExchange(cr, sr, skx)
      [] ka = "eccGM" -> eccGMProcessServerKeyExchange(cr, sr, skx)

\* peer is <<>> or the public value of the server key exchange: without one the
\* ephemeral agreements have no client key exchange to send.
needsServerKeyExchange(ka) == ka \in {"ecdhe", "ecdheGM"}

generateClientKeyExchange(ka, cr, peer) ==
    CASE ka = "rsa" -> rsaGenerateClientKeyExchange(cr)
      [] ka = "ecdhe" -> ecdheGenerateClientKeyExchange(cr, peer)
      [] ka = "ecdheGM" -> ecdheGMGenerateClientKeyExchange(cr, peer)
      [] ka = "eccGM" -> eccGMGenerateClientKeyExchange(cr)

processClientKeyExchange(ka, sr, ckx) ==
    CASE ka = "rsa" -> rsaProcessClientKeyExchange(ckx)
      [] ka = "ecdhe" -> ecdheProcessClientKeyExchange(sr, ckx)
      [] ka = "ecdheGM" -> ecdheGMProcessClientKeyExchange(sr, ckx)
      [] ka = "eccGM" -> eccGMProcessClientKeyExchange(ckx)

----------------------------------------------------------------------------
\* Secrets, and the Finished hash: a transcript, whether it has a PRF and
\* whether it has the MD5 hashes.
masterFromPreMasterSecret(vers, suite, secret, cr, sr) == <<vers, suite, secret, cr, sr>>

\* dir "c" is the client's writing key, "s" the server's.
keysFromMasterSecret(dir, vers, suite, master, cr, sr) == <<dir, vers, suite, master, cr, sr>>

\* newFinishedHash.  The PRF assigned inside the second branch is a variable of
\* that block: the value built after it, for SSL 3.0 to TLS 1.1, has none.
newFinishedHash(vers) ==
    CASE vers = VersionGMSSL -> [version |-> vers, prf |-> TRUE,  md5 |-> FALSE, sum |-> <<>>]
      [] vers = VersionTLS12 -> [version |-> vers, prf |-> TRUE,  md5 |-> FALSE, sum |-> <<>>]
      [] OTHER               -> [version |-> vers, prf |-> FALSE, md5 |-> TRUE,  sum |-> <<>>]

newFinishedHashGM == [version |-> VersionGMSSL, prf |-> TRUE, md5 |-> TRUE, sum |-> <<>>]

\* finishedHash.Write below TLS 1.2 also writes to the MD5 hashes; Sum calls
\* the PRF.  Either one that is absent is a nil dereference.
hashWritePanics(h) == h.version < VersionTLS12 /\ ~h.md5
hashSumPanics(h) == h.version # VersionSSL30 /\ ~h.prf

hashWrite(h, ms) == [h EXCEPT !.sum = @ \o ms]

\* clientSum and serverSum.
verifyData(label, h, master) == <<label, master, h.sum>>
=============================================================================
