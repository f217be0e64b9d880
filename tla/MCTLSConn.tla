----------------------------- MODULE MCTLSConn -----------------------------
EXTENDS TLSConn

MCConfigs == {[isClient |-> TRUE,  renegotiation |-> "once"], [isClient |-> FALSE, renegotiation |-> "never"]}
=============================================================================
