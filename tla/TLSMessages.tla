---------------------------- MODULE TLSMessages ----------------------------
(***************************************************************************)
(* The handshake messages of zgmtls on the wire: marshal and unmarshal of  *)
(* handshake_messages.go and gm_handshake_messages.go, the session state   *)
(* of ticket.go, and the dispatch of Conn.readHandshake.  One message is   *)
(* made, marshalled, possibly damaged in one byte, and decoded.            *)
(*                                                                         *)
(* Each marshal computes the message's length by a formula of its own and  *)
(* then writes the fields into a slice of that length; the model keeps the *)
(* two apart (framed), for they have to agree.  Each unmarshal is a chain  *)
(* of early returns (Require) and of slice expressions, which panic when   *)
(* they reach past the data (Take).                                        *)
(*                                                                         *)
(* A byte has ByteBase values instead of 256, a random RandomLen bytes     *)
(* instead of 32, a session id at most MaxSessionId instead of 32; the     *)
(* block the next-protocol padding fills up is PadBlock instead of 32, and *)
(* MaxHandshake stands for maxHandshake.  Type and extension numbers too   *)
(* large for the scaled bytes have small distinct stand-ins.               *)
(***************************************************************************)
EXTENDS Integers, Sequences, SequencesExt

CONSTANTS
  Messages,      \* the messages the two ends make
  ByteBase, RandomLen, MaxSessionId, PadBlock, MaxHandshake

ASSUME ScaleAssumption ==
  /\ ByteBase >= 16 /\ RandomLen \in 1 .. ByteBase - 1
  /\ MaxSessionId \in 1 .. ByteBase - 1 /\ PadBlock \in 1 .. ByteBase - 1

VARIABLES
  msg,       \* the message made
  tls12, gm, \* c.vers >= VersionTLS12, c.config.GMSupport != nil
  wire,      \* the bytes of the message
  damaged,   \* one byte was changed on the way
  got        \* the fate of the message at the other end

vars == <<msg, tls12, gm, wire, damaged, got>>

typeHelloRequest == 0
typeClientHello == 1
typeServerHello == 2
typeClientKeyExchange == 3
typeNewSessionTicket == 4
typeFinished == 5
typeCertificateStatus == 6
typeNextProtocol == 7
typeCertificate == 11
typeServerKeyExchange == 12
typeCertificateRequest == 13
typeServerHelloDone == 14
typeCertificateVerify == 15
sessionState == 16    \* no handshake message: the plaintext of a ticket

extensionServerName == 0
extensionStatusRequest == 5
extensionSupportedCurves == 10
extensionSupportedPoints == 11
extensionSignatureAlgorithms == 13
extensionALPN == 16
extensionSCT == 18
extensionSessionTicket == 35
extensionNextProtoNeg == 52
extensionRenegotiationInfo == 241
statusTypeOCSP == 1
scsvRenegotiation == 15

-----------------------------------------------------------------------------
(* Numbers and lists of the wire format *)

\* n in w big-endian bytes, the higher ones cut off.
bytes(n, w) == [i \in 1 .. w |-> (n \div ByteBase ^ (w - i)) % ByteBase]

number(b) == FoldLeft(LAMBDA acc, x : acc * ByteBase + x, 0, b)

uint16s(ns) == FlattenSeq([i \in DOMAIN ns |-> bytes(ns[i], 2)])

\* The list, each item behind its length in w bytes.
prefixed(items, w) == FlattenSeq([i \in DOMAIN items |-> bytes(Len(items[i]), w) \o items[i]])

total(items) == Len(FlattenSeq(items))
sum(ns) == FoldLeft(LAMBDA acc, n : acc + n, 0, ns)

When(b, s) == IF b THEN s ELSE <<>>
Zeros(n) == [i \in 1 .. n |-> 0]

(***************************************************************************)
(* A slice of the computed length filled with the body: what the body does *)
(* not reach stays zero, and a body that does not fit panics (<<>>).       *)
(***************************************************************************)
filled(length, body) ==
  IF Len(body) > length THEN <<>> ELSE body \o Zeros(length - Len(body))

framed(type, length, body) ==
  IF Len(body) > length THEN <<>> ELSE <<type>> \o bytes(length, 3) \o filled(length, body)

extension(id, length, body) == bytes(id, 2) \o bytes(length, 2) \o body

-----------------------------------------------------------------------------
(* marshal *)

\* What a client hello counts for each extension it carries.
clientExtensionLengths(m) ==
  When(m.nextProtoNeg, <<0>>)
  \o When(m.ocspStapling, <<1 + 2 + 2>>)
  \o When(m.serverName # <<>>, <<5 + Len(m.serverName)>>)
  \o When(m.supportedCurves # <<>>, <<2 + 2 * Len(m.supportedCurves)>>)
  \o When(m.supportedPoints # <<>>, <<1 + Len(m.supportedPoints)>>)
  \o When(m.ticketSupported, <<Len(m.sessionTicket)>>)
  \o When(m.supportedSignatureAlgorithms # <<>>, <<2 + 2 * Len(m.supportedSignatureAlgorithms)>>)
  \o When(m.secureRenegotiationSupported, <<1 + Len(m.secureRenegotiation)>>)
  \o When(m.alpnProtocols # <<>>, <<2 + Len(m.alpnProtocols) + total(m.alpnProtocols)>>)
  \o When(m.scts, <<0>>)

serverExtensionLengths(m) ==
  When(m.nextProtoNeg, <<total(m.nextProtos) + Len(m.nextProtos)>>)
  \o When(m.ocspStapling, <<0>>)
  \o When(m.ticketSupported, <<0>>)
  \o When(m.secureRenegotiationSupported, <<1 + Len(m.secureRenegotiation)>>)
  \o When(m.alpnProtocol # <<>>, <<2 + 1 + Len(m.alpnProtocol)>>)
  \o When(m.scts # <<>>, <<2 + total(m.scts) + 2 * Len(m.scts)>>)

extensionsLength(lengths) == sum(lengths) + 4 * Len(lengths)

\* A hello: its fixed part, and the extensions behind their length if it has any.
hello(m, length, fixed, lengths, extensions) ==
  framed(m.type, length + (IF lengths = <<>> THEN 0 ELSE 2 + extensionsLength(lengths)),
    bytes(m.vers, 2) \o m.random \o bytes(Len(m.sessionId), 1) \o m.sessionId \o fixed
    \o When(lengths # <<>>, bytes(extensionsLength(lengths), 2)) \o extensions)

renegotiationExtension(m) ==
  When(m.secureRenegotiationSupported,
    extension(extensionRenegotiationInfo, Len(m.secureRenegotiation) + 1,
      bytes(Len(m.secureRenegotiation), 1) \o m.secureRenegotiation))

clientExtensions(m) ==
  When(m.nextProtoNeg, extension(extensionNextProtoNeg, 0, <<>>))
  \o When(m.serverName # <<>>,
       extension(extensionServerName, Len(m.serverName) + 5,
         bytes(Len(m.serverName) + 3, 2) \o <<0>> \o bytes(Len(m.serverName), 2) \o m.serverName))
  \o When(m.ocspStapling, extension(extensionStatusRequest, 5, <<statusTypeOCSP, 0, 0, 0, 0>>))
  \o When(m.supportedCurves # <<>>,
       LET l == 2 + 2 * Len(m.supportedCurves) IN
       extension(extensionSupportedCurves, l, bytes(l - 2, 2) \o uint16s(m.supportedCurves)))
  \o When(m.supportedPoints # <<>>,
       LET l == 1 + Len(m.supportedPoints) IN
       extension(extensionSupportedPoints, l, bytes(l - 1, 1) \o m.supportedPoints))
  \o When(m.ticketSupported,
       extension(extensionSessionTicket, Len(m.sessionTicket), m.sessionTicket))
  \o When(m.supportedSignatureAlgorithms # <<>>,
       LET l == 2 + 2 * Len(m.supportedSignatureAlgorithms) IN
       extension(extensionSignatureAlgorithms, l,
         bytes(l - 2, 2) \o uint16s(m.supportedSignatureAlgorithms)))
  \o renegotiationExtension(m)
  \o When(m.alpnProtocols # <<>>,
       LET names == prefixed(m.alpnProtocols, 1) IN
       extension(extensionALPN, Len(names) + 2, bytes(Len(names), 2) \o names))
  \o When(m.scts, extension(extensionSCT, 0, <<>>))

\* An empty protocol name, or one too long for its length byte, panics.
clientHelloMarshal(m) ==
  IF \E i \in DOMAIN m.alpnProtocols : Len(m.alpnProtocols[i]) \notin 1 .. ByteBase - 1 THEN <<>>
  ELSE hello(m, 2 + RandomLen + 1 + Len(m.sessionId) + 2 + Len(m.cipherSuites) * 2 + 1
             + Len(m.compressionMethods),
    bytes(2 * Len(m.cipherSuites), 2) \o uint16s(m.cipherSuites)
    \o bytes(Len(m.compressionMethods), 1) \o m.compressionMethods,
    clientExtensionLengths(m), clientExtensions(m))

serverExtensions(m) ==
  When(m.nextProtoNeg,
       extension(extensionNextProtoNeg, total(m.nextProtos) + Len(m.nextProtos),
         prefixed([i \in DOMAIN m.nextProtos |->
                     SubSeq(m.nextProtos[i], 1, Min({Len(m.nextProtos[i]), ByteBase - 1}))], 1)))
  \o When(m.ocspStapling, extension(extensionStatusRequest, 0, <<>>))
  \o When(m.ticketSupported, extension(extensionSessionTicket, 0, <<>>))
  \o renegotiationExtension(m)
  \o When(m.alpnProtocol # <<>>,
       LET l == 2 + 1 + Len(m.alpnProtocol) IN
       extension(extensionALPN, l, bytes(l - 2, 2) \o bytes(l - 3, 1) \o m.alpnProtocol))
  \o When(m.scts # <<>>,
       LET sctLen == total(m.scts) + 2 * Len(m.scts) IN
       extension(extensionSCT, sctLen + 2, bytes(sctLen, 2) \o prefixed(m.scts, 2)))

serverHelloMarshal(m) ==
  IF Len(m.alpnProtocol) >= ByteBase THEN <<>>
  ELSE hello(m, 6 + RandomLen + Len(m.sessionId), bytes(m.cipherSuite, 2) \o <<m.compressionMethod>>,
    serverExtensionLengths(m), serverExtensions(m))

\* Mutant: the length in front of each certificate is not counted.
certificateLengthBare(m) == 3 + total(m.certificates)

certificateLength(m) == 3 + 3 * Len(m.certificates) + total(m.certificates)

certificateMarshal(m) ==
  framed(m.type, certificateLength(m),
    bytes(certificateLength(m) - 3, 3) \o prefixed(m.certificates, 3))

serverKeyExchangeMarshal(m) == framed(m.type, Len(m.key), m.key)

certificateStatusMarshal(m) ==
  IF m.statusType # statusTypeOCSP THEN framed(m.type, 1, <<m.statusType>>)
  ELSE framed(m.type, Len(m.response) + 4,
         <<statusTypeOCSP>> \o bytes(Len(m.response), 3) \o m.response)

serverHelloDoneMarshal(m) == framed(m.type, 0, <<>>)

clientKeyExchangeMarshal(m) == framed(m.type, Len(m.ciphertext), m.ciphertext)

\* Only the lowest byte of the length is written.
finishedMarshal(m) == <<m.type, 0, 0>> \o bytes(Len(m.verifyData), 1) \o m.verifyData

nextProtoMarshal(m) ==
  LET l == Min({Len(m.proto), ByteBase - 1})
      padding == PadBlock - ((l + 2) % PadBlock)
  IN  framed(m.type, l + padding + 2,
        bytes(l, 1) \o SubSeq(m.proto, 1, l) \o bytes(padding, 1))

casMarshal(m) ==
  LET cas == prefixed(m.certificateAuthorities, 2) IN bytes(Len(cas), 2) \o cas

\* The GM message, and the one of TLS without signature algorithms.
certificateRequestGMMarshal(m) ==
  framed(m.type, 1 + Len(m.certificateTypes) + 2
                 + total(m.certificateAuthorities) + 2 * Len(m.certificateAuthorities),
    bytes(Len(m.certificateTypes), 1) \o m.certificateTypes \o casMarshal(m))

certificateRequestMarshal(m) ==
  IF ~m.hasSignatureAndHash THEN certificateRequestGMMarshal(m)
  ELSE framed(m.type, 1 + Len(m.certificateTypes) + 2
                      + total(m.certificateAuthorities) + 2 * Len(m.certificateAuthorities)
                      + 2 + 2 * Len(m.supportedSignatureAlgorithms),
         bytes(Len(m.certificateTypes), 1) \o m.certificateTypes
         \o bytes(2 * Len(m.supportedSignatureAlgorithms), 2)
         \o uint16s(m.supportedSignatureAlgorithms) \o casMarshal(m))

certificateVerifyMarshal(m) ==
  framed(m.type, 2 + Len(m.signature) + (IF m.hasSignatureAndHash THEN 2 ELSE 0),
    When(m.hasSignatureAndHash, bytes(m.signatureAlgorithm, 2))
    \o bytes(Len(m.signature), 2) \o m.signature)

newSessionTicketMarshal(m) ==
  framed(m.type, 2 + 4 + Len(m.ticket), Zeros(4) \o bytes(Len(m.ticket), 2) \o m.ticket)

helloRequestMarshal(m) == framed(m.type, 0, <<>>)

sessionStateMarshal(m) ==
  filled(2 + 2 + 2 + Len(m.masterSecret) + 2 + total(m.certificates) + 4 * Len(m.certificates),
    bytes(m.vers, 2) \o bytes(m.cipherSuite, 2) \o bytes(Len(m.masterSecret), 2)
    \o m.masterSecret \o bytes(Len(m.certificates), 2) \o prefixed(m.certificates, 4))

marshal(m) ==
  CASE m.type = typeHelloRequest -> helloRequestMarshal(m)
    [] m.type = typeClientHello -> clientHelloMarshal(m)
    [] m.type = typeServerHello -> serverHelloMarshal(m)
    [] m.type = typeNewSessionTicket -> newSessionTicketMarshal(m)
    [] m.type = typeCertificate -> certificateMarshal(m)
    [] m.type = typeCertificateRequest -> certificateRequestMarshal(m)
    [] m.type = typeCertificateStatus -> certificateStatusMarshal(m)
    [] m.type = typeServerKeyExchange -> serverKeyExchangeMarshal(m)
    [] m.type = typeServerHelloDone -> serverHelloDoneMarshal(m)
    [] m.type = typeClientKeyExchange -> clientKeyExchangeMarshal(m)
    [] m.type = typeCertificateVerify -> certificateVerifyMarshal(m)
    [] m.type = typeNextProtocol -> nextProtoMarshal(m)
    [] m.type = typeFinished -> finishedMarshal(m)
    [] m.type = sessionState -> sessionStateMarshal(m)

-----------------------------------------------------------------------------
(* The fate of a message, and the ways an unmarshal reads its data *)

None == [fate |-> "none"]
Waiting == [fate |-> "waiting"]      \* readHandshake reads on for the rest
Refused == [fate |-> "refused"]      \* return false: unexpected_message
Panic == [fate |-> "panic"]          \* a slice expression out of range
Decoded(m) == [fate |-> "decoded", msg |-> m]

Require(b, then) == IF b THEN then ELSE Refused

\* d[:n] and d[n:]
Take(d, n, then(_, _)) ==
  IF n > Len(d) THEN Panic ELSE then(SubSeq(d, 1, n), SubSeq(d, n + 1, Len(d)))

\* The number in the first w bytes, and the rest.
Number(d, w, then(_, _)) == Take(d, w, LAMBDA b, tail : then(number(b), tail))

Then(r, then(_)) == IF r.fate = "decoded" THEN then(r.msg) ELSE r

\* A vector that fills d: its length in w bytes, and exactly that many bytes.
Whole(d, w, then(_)) ==
  Require(Len(d) >= w, Number(d, w, LAMBDA l, vec : Require(Len(vec) = l, then(vec))))

\* The uint16s of an even number of bytes.
Evenly(d, then(_)) ==
  Require(Len(d) % 2 = 0,
    then([i \in 1 .. Len(d) \div 2 |-> number(SubSeq(d, 2 * i - 1, 2 * i))]))

\* Mutant: an item's length is not compared with what is left.
fitsAny(l, atLeast, tail) == l >= atLeast

\* Whether a list item of length l is accepted, tail being what is left.
fits(l, atLeast, tail) == l >= atLeast /\ l <= Len(tail)

\* The items of a list: each behind its length in w bytes, which is read when at
\* least need bytes are left.
RECURSIVE Items(_, _, _, _)
Items(d, w, need, atLeast) ==
  IF d = <<>> THEN Decoded(<<>>)
  ELSE Require(Len(d) >= need, Number(d, w, LAMBDA l, tail :
       Require(fits(l, atLeast, tail), Take(tail, l, LAMBDA item, more :
       Then(Items(more, w, need, atLeast), LAMBDA list : Decoded(<<item>> \o list))))))

-----------------------------------------------------------------------------
(* unmarshal *)

\* The first host_name of a server name list; names of other types are skipped.
RECURSIVE serverNames(_, _)
serverNames(m, d) ==
  IF d = <<>> THEN Decoded(m)
  ELSE Require(Len(d) >= 3, Number(d, 1, LAMBDA nameType, d1 : Number(d1, 2, LAMBDA nameLen, d2 :
       Require(Len(d2) >= nameLen, Take(d2, nameLen, LAMBDA name, more :
         IF nameType = 0 THEN Decoded([m EXCEPT !.serverName = name])
         ELSE serverNames(m, more))))))

clientExtension(m, id, e) ==
  CASE id = extensionServerName -> Whole(e, 2, LAMBDA d : serverNames(m, d))
    [] id = extensionNextProtoNeg ->
         Require(e = <<>>, Decoded([m EXCEPT !.nextProtoNeg = TRUE]))
    [] id = extensionStatusRequest ->
         Decoded([m EXCEPT !.ocspStapling = e # <<>> /\ Head(e) = statusTypeOCSP])
    [] id = extensionSupportedCurves ->
         Whole(e, 2, LAMBDA d : Evenly(d, LAMBDA ids : Decoded([m EXCEPT !.supportedCurves = ids])))
    [] id = extensionSupportedPoints ->
         Whole(e, 1, LAMBDA d : Decoded([m EXCEPT !.supportedPoints = d]))
    [] id = extensionSessionTicket ->
         Decoded([m EXCEPT !.ticketSupported = TRUE, !.sessionTicket = e])
    [] id = extensionSignatureAlgorithms ->
         Whole(e, 2, LAMBDA d : Evenly(d, LAMBDA ids :
           Decoded([m EXCEPT !.supportedSignatureAlgorithms = ids])))
    [] id = extensionRenegotiationInfo ->
         Whole(e, 1, LAMBDA d :
           Decoded([m EXCEPT !.secureRenegotiation = d, !.secureRenegotiationSupported = TRUE]))
    [] id = extensionALPN ->
         Whole(e, 2, LAMBDA d : Then(Items(d, 1, 1, 1), LAMBDA list :
           Decoded([m EXCEPT !.alpnProtocols = @ \o list])))
    [] id = extensionSCT -> Require(e = <<>>, Decoded([m EXCEPT !.scts = TRUE]))
    [] OTHER -> Decoded(m)

serverExtension(m, id, e) ==
  CASE id = extensionNextProtoNeg ->
         Then(Items(e, 1, 1, 1), LAMBDA list :
           Decoded([m EXCEPT !.nextProtoNeg = TRUE, !.nextProtos = @ \o list]))
    [] id = extensionStatusRequest ->
         Require(e = <<>>, Decoded([m EXCEPT !.ocspStapling = TRUE]))
    [] id = extensionSessionTicket ->
         Require(e = <<>>, Decoded([m EXCEPT !.ticketSupported = TRUE]))
    [] id = extensionRenegotiationInfo ->
         Whole(e, 1, LAMBDA d :
           Decoded([m EXCEPT !.secureRenegotiation = d, !.secureRenegotiationSupported = TRUE]))
    [] id = extensionALPN ->
         Require(Len(e) >= 3, Whole(e, 2, LAMBDA d : Whole(d, 1, LAMBDA name :
           Require(name # <<>>, Decoded([m EXCEPT !.alpnProtocol = name])))))
    [] id = extensionSCT ->
         Whole(e, 2, LAMBDA d : Require(d # <<>>, Then(Items(d, 2, 2, 1), LAMBDA list :
           Decoded([m EXCEPT !.scts = list]))))
    [] OTHER -> Decoded(m)

\* The extensions one after the other, into m.
RECURSIVE Extensions(_, _)
Extensions(m, data) ==
  IF data = <<>> THEN Decoded(m)
  ELSE Require(Len(data) >= 4, Number(data, 2, LAMBDA id, d1 : Number(d1, 2, LAMBDA length, d2 :
       Require(Len(d2) >= length, Take(d2, length, LAMBDA e, more :
         Then(IF m.type = typeClientHello THEN clientExtension(m, id, e)
              ELSE serverExtension(m, id, e),
           LAMBDA m2 : Extensions(m2, more)))))))

\* What follows the fixed part of a hello: nothing, or the extensions.
optionalExtensions(m, data) ==
  IF data = <<>> THEN Decoded(m) ELSE Whole(data, 2, LAMBDA d : Extensions(m, d))

\* The start both hellos share: version, random and session id.
helloStart(data, then(_, _, _, _)) ==
  Require(Len(data) >= 10 + RandomLen,
    Take(data, 4, LAMBDA header, d1 : Number(d1, 2, LAMBDA vers, d2 :
    Take(d2, RandomLen, LAMBDA random, d3 : Number(d3, 1, LAMBDA sessionIdLen, d4 :
    Require(sessionIdLen <= MaxSessionId /\ Len(d4) >= sessionIdLen,
      Take(d4, sessionIdLen, LAMBDA sessionId, d5 : then(vers, random, sessionId, d5))))))))

clientHelloUnmarshal(data) ==
  helloStart(data, LAMBDA vers, random, sessionId, d :
    Require(Len(d) >= 2, Number(d, 2, LAMBDA cipherSuiteLen, ds :
    Require(cipherSuiteLen % 2 = 0 /\ Len(ds) >= cipherSuiteLen,
    Take(ds, cipherSuiteLen, LAMBDA ids, dc : Evenly(ids, LAMBDA suites :
    Require(Len(dc) >= 1, Number(dc, 1, LAMBDA compressionMethodsLen, dm :
    Require(Len(dm) >= compressionMethodsLen,
    Take(dm, compressionMethodsLen, LAMBDA methods, de :
      optionalExtensions(
        [type |-> typeClientHello, vers |-> vers, random |-> random, sessionId |-> sessionId,
         cipherSuites |-> suites, compressionMethods |-> methods, nextProtoNeg |-> FALSE,
         serverName |-> <<>>, ocspStapling |-> FALSE, supportedCurves |-> <<>>,
         supportedPoints |-> <<>>, ticketSupported |-> FALSE, sessionTicket |-> <<>>,
         supportedSignatureAlgorithms |-> <<>>, secureRenegotiation |-> <<>>,
         secureRenegotiationSupported |-> \E i \in DOMAIN suites : suites[i] = scsvRenegotiation,
         alpnProtocols |-> <<>>, scts |-> FALSE], de)))))))))))

serverHelloUnmarshal(data) ==
  helloStart(data, LAMBDA vers, random, sessionId, d :
    Require(Len(d) >= 3, Number(d, 2, LAMBDA suite, dc : Number(dc, 1, LAMBDA method, de :
      optionalExtensions(
        [type |-> typeServerHello, vers |-> vers, random |-> random, sessionId |-> sessionId,
         cipherSuite |-> suite, compressionMethod |-> method, nextProtoNeg |-> FALSE,
         nextProtos |-> <<>>, ocspStapling |-> FALSE, scts |-> <<>>, ticketSupported |-> FALSE,
         secureRenegotiation |-> <<>>, secureRenegotiationSupported |-> FALSE,
         alpnProtocol |-> <<>>], de)))))

certificateUnmarshal(data) ==
  Require(Len(data) >= 7, Take(data, 4, LAMBDA header, d : Whole(d, 3, LAMBDA certs :
    Then(Items(certs, 3, 4, 0), LAMBDA list :
      Decoded([type |-> typeCertificate, certificates |-> list])))))

serverKeyExchangeUnmarshal(data) ==
  Require(Len(data) >= 4, Take(data, 4, LAMBDA header, d :
    Decoded([type |-> typeServerKeyExchange, key |-> d])))

\* A status of another type than OCSP is accepted with no response.
certificateStatusUnmarshal(data) ==
  Require(Len(data) >= 5, Take(data, 4, LAMBDA header, d : Number(d, 1, LAMBDA statusType, dr :
    IF statusType # statusTypeOCSP
    THEN Decoded([type |-> typeCertificateStatus, statusType |-> statusType, response |-> <<>>])
    ELSE Require(Len(data) >= 8, Whole(dr, 3, LAMBDA response :
           Decoded([type |-> typeCertificateStatus, statusType |-> statusType,
                    response |-> response]))))))

serverHelloDoneUnmarshal(data) ==
  Require(Len(data) = 4, Decoded([type |-> typeServerHelloDone]))

clientKeyExchangeUnmarshal(data) ==
  Require(Len(data) >= 4, Take(data, 1, LAMBDA type, d : Whole(d, 3, LAMBDA ciphertext :
    Decoded([type |-> typeClientKeyExchange, ciphertext |-> ciphertext]))))

finishedUnmarshal(data) ==
  Require(Len(data) >= 4, Take(data, 4, LAMBDA header, d :
    Decoded([type |-> typeFinished, verifyData |-> d])))

nextProtoUnmarshal(data) ==
  Require(Len(data) >= 5, Take(data, 4, LAMBDA header, d : Number(d, 1, LAMBDA protoLen, d1 :
    Require(Len(d1) >= protoLen, Take(d1, protoLen, LAMBDA proto, d2 :
      Whole(d2, 1, LAMBDA padding :
        Decoded([type |-> typeNextProtocol, proto |-> proto])))))))

\* The certificate authorities end a certificate request.
casUnmarshal(m, d) ==
  Require(Len(d) >= 2, Number(d, 2, LAMBDA casLength, dc :
    Require(Len(dc) >= casLength, Take(dc, casLength, LAMBDA cas, more :
      Then(Items(cas, 2, 2, 0), LAMBDA list :
        Require(more = <<>>, Decoded([m EXCEPT !.certificateAuthorities = list])))))))

\* The start of a certificate request, up to the certificate types.
certificateTypesUnmarshal(data, then(_, _)) ==
  Require(Len(data) >= 5, Take(data, 1, LAMBDA type, d : Whole(d, 3, LAMBDA b :
    Number(b, 1, LAMBDA numCertTypes, d1 :
    Require(numCertTypes # 0 /\ Len(d1) > numCertTypes,
      Take(d1, numCertTypes, LAMBDA types, d2 :
        then([type |-> typeCertificateRequest, hasSignatureAndHash |-> FALSE,
              certificateTypes |-> types, supportedSignatureAlgorithms |-> <<>>,
              certificateAuthorities |-> <<>>], d2)))))))

certificateRequestGMUnmarshal(data) ==
  certificateTypesUnmarshal(data, LAMBDA m, d : casUnmarshal(m, d))

certificateRequestUnmarshal(data, hasSignatureAndHash) ==
  IF ~hasSignatureAndHash THEN certificateRequestGMUnmarshal(data)
  ELSE certificateTypesUnmarshal(data, LAMBDA m, d :
    Require(Len(d) >= 2, Number(d, 2, LAMBDA sigAndHashLen, ds :
    Require(sigAndHashLen % 2 = 0 /\ Len(ds) >= sigAndHashLen,
    Take(ds, sigAndHashLen, LAMBDA sigs, dc : Evenly(sigs, LAMBDA ids :
      casUnmarshal([m EXCEPT !.hasSignatureAndHash = TRUE,
                             !.supportedSignatureAlgorithms = ids], dc)))))))

certificateVerifyUnmarshal(data, hasSignatureAndHash) ==
  Require(Len(data) >= 6, Take(data, 1, LAMBDA type, d : Whole(d, 3, LAMBDA b :
    Number(b, IF hasSignatureAndHash THEN 2 ELSE 0, LAMBDA alg, d1 :
    Whole(d1, 2, LAMBDA signature :
      Decoded([type |-> typeCertificateVerify, hasSignatureAndHash |-> hasSignatureAndHash,
               signatureAlgorithm |-> alg, signature |-> signature]))))))

newSessionTicketUnmarshal(data) ==
  Require(Len(data) >= 10, Take(data, 1, LAMBDA type, d : Whole(d, 3, LAMBDA b :
    Take(b, 4, LAMBDA lifetime, d1 : Whole(d1, 2, LAMBDA ticket :
      Decoded([type |-> typeNewSessionTicket, ticket |-> ticket]))))))

helloRequestUnmarshal(data) ==
  Require(Len(data) = 4, Decoded([type |-> typeHelloRequest]))

\* The n certificates of a session state, to the end of the data.
RECURSIVE ticketCertificates(_, _)
ticketCertificates(n, data) ==
  IF n = 0 THEN Require(data = <<>>, Decoded(<<>>))
  ELSE Require(Len(data) >= 4, Number(data, 4, LAMBDA certLen, d :
       Require(Len(d) >= certLen, Take(d, certLen, LAMBDA cert, more :
       Then(ticketCertificates(n - 1, more), LAMBDA list : Decoded(<<cert>> \o list))))))

sessionStateUnmarshal(data) ==
  Require(Len(data) >= 8, Number(data, 2, LAMBDA vers, d1 : Number(d1, 2, LAMBDA suite, d2 :
    Number(d2, 2, LAMBDA masterSecretLen, d3 :
    Require(Len(d3) >= masterSecretLen, Take(d3, masterSecretLen, LAMBDA secret, d4 :
    Require(Len(d4) >= 2, Number(d4, 2, LAMBDA numCerts, d5 :
    Then(ticketCertificates(numCerts, d5), LAMBDA list :
      Decoded([type |-> sessionState, vers |-> vers, cipherSuite |-> suite,
               masterSecret |-> secret, certificates |-> list]))))))))))

unmarshal(data) ==
  LET type == data[1] IN
  CASE type = typeHelloRequest -> helloRequestUnmarshal(data)
    [] type = typeClientHello -> clientHelloUnmarshal(data)
    [] type = typeServerHello -> serverHelloUnmarshal(data)
    [] type = typeNewSessionTicket -> newSessionTicketUnmarshal(data)
    [] type = typeCertificate -> certificateUnmarshal(data)
    [] type = typeCertificateRequest ->
         IF gm THEN certificateRequestGMUnmarshal(data)
         ELSE certificateRequestUnmarshal(data, tls12)
    [] type = typeCertificateStatus -> certificateStatusUnmarshal(data)
    [] type = typeServerKeyExchange -> serverKeyExchangeUnmarshal(data)
    [] type = typeServerHelloDone -> serverHelloDoneUnmarshal(data)
    [] type = typeClientKeyExchange -> clientKeyExchangeUnmarshal(data)
    [] type = typeCertificateVerify -> certificateVerifyUnmarshal(data, tls12)
    [] type = typeNextProtocol -> nextProtoUnmarshal(data)
    [] type = typeFinished -> finishedUnmarshal(data)
    [] OTHER -> Refused

\* The bytes of one message, when the buffered handshake data holds all of them.
readHandshake(data) ==
  LET n == number(SubSeq(data, 2, 4)) IN
  CASE n > MaxHandshake -> Refused
    [] n <= MaxHandshake /\ Len(data) < 4 + n -> Waiting
    [] OTHER -> unmarshal(SubSeq(data, 1, 4 + n))

-----------------------------------------------------------------------------
(* One message from one end to the other *)

\* GM connections have a version below TLS 1.2, and the two messages whose form
\* depends on the version are made for the version of the connection.
Init ==
  /\ msg \in Messages
  /\ tls12 \in BOOLEAN /\ gm \in BOOLEAN /\ ~(tls12 /\ gm)
  /\ msg.type \in {typeCertificateRequest, typeCertificateVerify} =>
       msg.hasSignatureAndHash = tls12
  /\ wire = <<>> /\ damaged = FALSE /\ got = None

Marshal ==
  /\ wire = <<>> /\ got = None
  /\ wire' = marshal(msg)
  /\ got' = IF wire' = <<>> THEN Panic ELSE None
  /\ UNCHANGED <<msg, tls12, gm, damaged>>

\* Handshake records are sent in the clear until the keys change; a ticket's
\* plaintext is authenticated and comes back unchanged or not at all.
Damage ==
  /\ wire # <<>> /\ got = None /\ ~damaged /\ msg.type # sessionState
  /\ \E i \in DOMAIN wire, b \in 0 .. ByteBase - 1 :
       /\ b # wire[i]
       /\ wire' = [wire EXCEPT ![i] = b]
  /\ damaged' = TRUE
  /\ UNCHANGED <<msg, tls12, gm, got>>

ReadHandshake ==
  /\ wire # <<>> /\ got = None /\ msg.type # sessionState
  /\ got' = readHandshake(wire)
  /\ UNCHANGED <<msg, tls12, gm, wire, damaged>>

DecryptTicket ==
  /\ wire # <<>> /\ got = None /\ msg.type = sessionState
  /\ got' = sessionStateUnmarshal(wire)
  /\ UNCHANGED <<msg, tls12, gm, wire, damaged>>

Next == Marshal \/ Damage \/ ReadHandshake \/ DecryptTicket

Spec == Init /\ [][Next]_vars

-----------------------------------------------------------------------------
(***************************************************************************)
(* A message that arrives as it was sent is decoded to the message that    *)
(* was made: every marshal's length formula fits what it writes, and every *)
(* unmarshal finds each field where the marshal put it, whichever          *)
(* extensions are present.                                                 *)
(***************************************************************************)
RoundTrip ==
  ~damaged /\ got # None => got = Decoded(msg)

(***************************************************************************)
(* No unmarshal reads past its data, whatever one byte of the message says *)
(* after the damage: its type, a length of any depth, a count or a padding *)
(* (the Fuzz tests of fuzz_test.go state this for five of the decoders).   *)
(***************************************************************************)
DecodeNeverPanics == got # Panic

=============================================================================
