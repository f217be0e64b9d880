--------------------------- MODULE MCTLSHandshake ---------------------------
EXTENDS TLSHandshake

client == [gm |-> FALSE, min |-> VersionGMSSL, max |-> VersionTLS12, suites |-> <<>>,
           cache |-> TRUE, cert |-> "none", protos |-> <<>>]

server == [mode |-> "tls", min |-> VersionGMSSL, max |-> VersionTLS12, suites |-> <<>>, prefer |-> FALSE,
           auth |-> NoClientCert, tickets |-> TRUE, key |-> "rsa", gmCerts |-> 0, trusted |-> TRUE,
           staple |-> FALSE, protos |-> <<>>]

\* TLS and GM clients, with and without certificate, cache and protocols; one
\* capped at TLS 1.0; one whose GM suites are listed explicitly.
MCClients ==
    {[client EXCEPT !.protos = <<"h2", "http">>],
     [client EXCEPT !.cert = "good"],
     [client EXCEPT !.cert = "bad", !.suites = <<"RSA_CBC", "ECDHE_RSA_GCM">>],
     [client EXCEPT !.max = VersionTLS10, !.cache = FALSE],
     [client EXCEPT !.gm = TRUE, !.cert = "good"],
     [client EXCEPT !.gm = TRUE, !.suites = <<"GM_ECC">>]}

\* Servers of the three modes and the client certificate policies; an ECDSA
\* server, one with its own suite order, one nobody trusts, one without tickets.
MCServers ==
    {[server EXCEPT !.protos = <<"http">>, !.staple = TRUE],
     [server EXCEPT !.auth = RequireAndVerifyClientCert],
     [server EXCEPT !.auth = RequestClientCert, !.prefer = TRUE, !.suites = <<"RSA_CBC", "ECDHE_RSA_GCM">>],
     [server EXCEPT !.key = "ecdsa", !.min = VersionTLS12, !.tickets = FALSE],
     [server EXCEPT !.mode = "gm", !.gmCerts = 2, !.key = "none", !.auth = RequireAnyClientCert],
     [server EXCEPT !.mode = "gm", !.gmCerts = 1, !.key = "none"],
     [server EXCEPT !.mode = "auto", !.gmCerts = 2, !.auth = VerifyClientCertIfGiven],
     [server EXCEPT !.mode = "auto", !.gmCerts = 2, !.trusted = FALSE, !.suites = <<"GM_ECC", "RSA_CBC">>]}
=============================================================================
