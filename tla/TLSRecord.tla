----------------------------- MODULE TLSRecord -----------------------------
(***************************************************************************)
(* The record layer of a zgmtls connection during a handshake, as functions *)
(* of one end's state s (a record with at least the fields below):          *)
(*   vers, haveVers   Conn.vers (0 while unset) and Conn.haveVers           *)
(*   in, out          the two half connections                              *)
(*   sendBuf, buffering   handshake output held back until flush            *)
(*   net              records handed to the TCP connection, not yet read    *)
(*                    by the peer: the stream in this direction             *)
(* One handshake message is one record; fragments are not modelled.         *)
(***************************************************************************)
EXTENDS TLSNegotiation

\* F applied to the value of s: steps of a handler written one after the other.
\* (The choice from a singleton makes TLC evaluate s once, however often F uses it.)
Then(s, F(_)) == CHOOSE t \in {F(x) : x \in {s}} : TRUE

\* A half connection with no cipher (<<>>) and sequence number 0.
halfConn == [cipher |-> <<>>, nextCipher |-> <<>>, seq |-> 0]

prepareCipherSpec(hc, key) == [hc EXCEPT !.nextCipher = key]

changeCipherSpec(hc) == [cipher |-> hc.nextCipher, nextCipher |-> <<>>, seq |-> 0]

\* encrypt seals a record under the cipher and the sequence number, and counts;
\* decrypt accepts it under the same two.  Without a cipher anything passes.
encrypt(hc, typ, vers, ms) ==
    [i \in 1..Len(ms) |-> [typ |-> typ, vers |-> vers, key |-> hc.cipher,
                           seq |-> hc.seq + i - 1, msg |-> ms[i]]]

decryptOk(hc, r) == hc.cipher # <<>> => r.key = hc.cipher /\ r.seq = hc.seq

\* Conn.write and Conn.flush.
write(s, rs) ==
    IF s.buffering THEN [s EXCEPT !.sendBuf = @ \o rs] ELSE [s EXCEPT !.net = @ \o rs]

flush(s) ==
    IF s.sendBuf = <<>> THEN s
    ELSE [s EXCEPT !.net = @ \o s.sendBuf, !.sendBuf = <<>>, !.buffering = FALSE]

\* writeRecord for a sequence of messages of one type; a ChangeCipherSpec also
\* switches the cipher of the outgoing half.
writeRecords(s, typ, ms) ==
    LET vers == IF s.vers = 0 THEN VersionTLS10 ELSE s.vers
        sent == write([s EXCEPT !.out.seq = @ + Len(ms)], encrypt(s.out, typ, vers, ms))
    IN  IF typ = "ccs" THEN [sent EXCEPT !.out = changeCipherSpec(s.out)] ELSE sent

\* sendAlert; no_renegotiation is the only warning this layer answers with.
sendAlert(s, alert) ==
    writeRecords(s, "alert",
        <<[typ |-> "alert", level |-> IF alert = "no_renegotiation" THEN "warning" ELSE "fatal",
           desc |-> alert]>>)

\* What readRecord makes of the next record r when the caller wants a record of
\* type want: "ok", "skip" (a warning, read on), "remote" (the peer's fatal
\* alert: nothing is answered), or the alert to send.
readRecord(s, r, want) ==
    CASE s.haveVers /\ r.vers # s.vers -> "protocol_version"
      [] ~s.haveVers /\ r.typ \notin {"alert", want} -> "unexpected_message"
      [] ~decryptOk(s.in, r) -> "bad_record_mac"
      [] r.typ = "alert" /\ r.msg.level = "warning" -> "skip"
      [] r.typ = "alert" /\ r.msg.level = "fatal" -> "remote"
      [] r.typ = "ccs" /\ want # "ccs" -> "unexpected_message"
      [] r.typ = "ccs" /\ s.in.nextCipher = <<>> -> "internal_error"
      [] r.typ = "hs" /\ want # "hs" -> "no_renegotiation"
      [] OTHER -> "ok"

\* The incoming half after a record that was accepted.
afterRead(s, r) ==
    IF r.typ = "ccs" THEN [s EXCEPT !.in = changeCipherSpec(@)] ELSE [s EXCEPT !.in.seq = @ + 1]
=============================================================================
