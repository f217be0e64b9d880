--------------------------- MODULE MCTLSMessages ---------------------------
EXTENDS TLSMessages

Rnd == <<9, 9>>

\* The hellos of makeClientHello, with and without a session to resume, and the
\* one of the GM client, which has no extension but the session ticket.
ClientHellos ==
  {[type |-> typeClientHello, vers |-> 51, random |-> Rnd, sessionId |-> s[1],
    cipherSuites |-> suites, compressionMethods |-> <<0>>, nextProtoNeg |-> protos # <<>>,
    serverName |-> name, ocspStapling |-> TRUE, supportedCurves |-> <<23, 29>>,
    supportedPoints |-> <<0>>, ticketSupported |-> s[2], sessionTicket |-> s[3],
    supportedSignatureAlgorithms |-> sigs, secureRenegotiation |-> finished,
    secureRenegotiationSupported |-> TRUE, alpnProtocols |-> protos, scts |-> TRUE] :
      s \in {<<<<>>, FALSE, <<>>>>, <<<<>>, TRUE, <<>>>>, <<<<7>>, TRUE, <<8, 8>>>>},
      suites \in {<<47, 53>>}, name \in {<<>>, <<1, 2>>}, protos \in {<<>>, <<<<3>>, <<4, 5>>>>},
      sigs \in {<<>>, <<67, 81>>}, finished \in {<<>>, <<6, 6>>}}

GMClientHellos ==
  {[type |-> typeClientHello, vers |-> 17, random |-> Rnd, sessionId |-> s[1],
    cipherSuites |-> suites, compressionMethods |-> <<0>>, nextProtoNeg |-> FALSE,
    serverName |-> <<>>, ocspStapling |-> FALSE, supportedCurves |-> <<>>,
    supportedPoints |-> <<>>, ticketSupported |-> s[2], sessionTicket |-> s[3],
    supportedSignatureAlgorithms |-> <<>>, secureRenegotiation |-> <<>>,
    secureRenegotiationSupported |-> FALSE, alpnProtocols |-> <<>>, scts |-> FALSE] :
      s \in {<<<<>>, FALSE, <<>>>>, <<<<>>, TRUE, <<>>>>, <<<<7>>, TRUE, <<8, 8>>>>},
      suites \in {<<>>, <<19>>, <<19, 83>>}}

ServerHellos ==
  {[type |-> typeServerHello, vers |-> 51, random |-> Rnd, sessionId |-> id,
    cipherSuite |-> 47, compressionMethod |-> 0, nextProtoNeg |-> npn # <<>>,
    nextProtos |-> npn, ocspStapling |-> ocsp, scts |-> scts, ticketSupported |-> ticket,
    secureRenegotiation |-> finished, secureRenegotiationSupported |-> reneg,
    alpnProtocol |-> alpn] :
      id \in {<<>>, <<7>>}, npn \in {<<>>, <<<<3>>, <<4, 5>>>>}, ocsp \in BOOLEAN,
      scts \in {<<>>, <<<<2>>, <<1, 1>>>>}, ticket \in BOOLEAN,
      finished \in {<<>>}, reneg \in BOOLEAN, alpn \in {<<>>, <<4, 5>>}}

\* A server answers ALPN or NPN, not both.
MadeServerHellos == {m \in ServerHellos : m.nextProtoNeg => m.alpnProtocol = <<>>}

Lists == {<<>>, <<<<1>>>>, <<<<1, 2, 3>>, <<4>>>>}

Others ==
  {[type |-> typeHelloRequest], [type |-> typeServerHelloDone]}
  \cup {[type |-> typeCertificate, certificates |-> l] : l \in Lists}
  \cup {[type |-> typeServerKeyExchange, key |-> <<5, 0, 7>>]}
  \cup {[type |-> typeCertificateStatus, statusType |-> statusTypeOCSP, response |-> <<3, 1>>]}
  \cup {[type |-> typeClientKeyExchange, ciphertext |-> c] : c \in {<<>>, <<1, 2>>}}
  \cup {[type |-> typeFinished, verifyData |-> Zeros(12)]}
  \cup {[type |-> typeNextProtocol, proto |-> Zeros(n)] : n \in 1 .. 5}
  \cup {[type |-> typeCertificateRequest, hasSignatureAndHash |-> sigs # <<>>,
         certificateTypes |-> <<1, 2>>, supportedSignatureAlgorithms |-> sigs,
         certificateAuthorities |-> l] : sigs \in {<<>>, <<67, 81>>}, l \in Lists}
  \cup {[type |-> typeCertificateVerify, hasSignatureAndHash |-> alg # 0,
         signatureAlgorithm |-> alg, signature |-> <<9, 8, 7>>] : alg \in {0, 67}}
  \cup {[type |-> typeNewSessionTicket, ticket |-> t] : t \in {<<>>, <<1, 2, 3>>}}
  \cup {[type |-> sessionState, vers |-> 51, cipherSuite |-> 47, masterSecret |-> <<5, 5, 5>>,
         certificates |-> l] : l \in Lists}

MCMessages == ClientHellos \cup GMClientHellos \cup MadeServerHellos \cup Others

=============================================================================
