------------------------------ MODULE ReadPath ------------------------------
(***************************************************************************)
(* From the bytes of a connection to the messages of the read callback:    *)
(*   "start"    the read goroutine of a BaseChannel (Start, read),         *)
(*   "reactor"  zreactor's event loop (handleConnRead, writeConnBytes,     *)
(*              WriteToReadBuffer, ParseAndDispatch),                      *)
(*   "client"   the read goroutine of an asynchronous BaseClient,          *)
(* each with BaseSocket.ParseFromRingBuffer on a RingBuffer from the pool. *)
(*                                                                         *)
(* A byte of the stream is a record that says which frame it belongs to    *)
(* (frame, at) and what it says when it is read as a header field (val).   *)
(* The header is scaled down: one cell for the version (protocol version 1 *)
(* and later), one for msgId and seqId, one for dataLen.  The transport    *)
(* hands out any number of the bytes that have arrived.                    *)
(***************************************************************************)
EXTENDS RingBuffer

CONSTANTS SocketConfigs,   \* [maxData, maxMsgId, version, dropBad]
          ReadBufSize,     \* the reactor's read buffer of a connection
          MaxFrames        \* bound: frames the peer sends

ASSUME ReadPathAssumption ==
    /\ \A c \in SocketConfigs : c.maxData \in Nat /\ c.maxMsgId \in Nat /\ c.version \in {0, 1}
    /\ ReadBufSize \in Nat \ {0} /\ MaxFrames \in Nat

Modes == {"start", "reactor", "client"}

VARIABLES
    cfg, mode,   \* the connection's SocketConfig and who reads it
    waits,       \* does the peer wait for the answer to a frame before it sends the next
    rb,          \* readBuffer
    pc,          \* where the reading goroutine is
    got,         \* WriteFromReader: bytes read into the first slice, not yet part of the data
    chunk,       \* reactor: bytes read from the socket and not yet in the ring
    drained,     \* reactor: writeConnBytes has parsed once without room for a byte
    msg,         \* parseData.Message of the frame being handled
    wire,        \* the bytes on the way
    sent,        \* the frames sent, complete or not
    peer,        \* "open", "closed", "cut" (closed in the middle of a frame)
    handled,     \* what the read callback was given
    isClose,     \* the callback closed the channel
    why          \* why the read loop ended

vars == <<cfg, mode, waits, rb, pc, got, chunk, drained, msg, wire, sent, peer, handled, isClose, why>>
env  == <<cfg, mode, waits>>
net  == <<wire, sent, peer>>

----------------------------------------------------------------------------
(* The wire format.                                                         *)

headerSizeV0 == 2
headerSizeV1 == 3

HeaderLen(c) == IF c.version >= 1 THEN headerSizeV1 ELSE headerSizeV0

\* Mutant: the header is forgotten.
RingBufferMaxSizeForData(c) == c.maxData

RingBufferMaxSizeForSocket(c) == c.maxData + HeaderLen(c)

\* msgId is four bytes on the wire and an int32 in the program; the model's
\* words have three bits.
WordSize == 8
uint32(n) == n % WordSize
int32(w)  == IF w >= WordSize \div 2 THEN w - WordSize ELSE w

\* The default of maxMsgId, and the largest value that means anything, is the
\* largest int32.
ASSUME MsgIdAssumption == \A c \in SocketConfigs : c.maxMsgId < WordSize \div 2

\* RingBuffer.Write counts on a ring that can take a whole read of the reactor
\* next to an incomplete frame, unless it cannot grow at all: Grow would
\* otherwise report success without making enough room.  The defaults (frames
\* of 1 MB, reads of 4 KB, a limit of 2 MB) satisfy it.
ASSUME SlackAssumption ==
    \A c \in SocketConfigs :
      LET max == normalizeRingBufferMaxSize(RingBufferMaxSizeForSocket(c)) IN
      max <= defaultRingBufferSize \/ RingBufferMaxSizeForSocket(c) - 1 + ReadBufSize <= max

\* The bytes of frame k: PreparePacketFromWire's header, then the body.
PreparePacketFromWire(k, f) ==
    LET fields == (IF f.version >= 1 THEN <<f.version>> ELSE <<>>) \o <<uint32(f.msgId), f.len>>
    IN  [i \in 1..Len(fields) + f.len |->
           [frame |-> k, at |-> i, val |-> IF i <= Len(fields) THEN fields[i] ELSE 0]]

\* What ParseFromRingBuffer finds at the front of the ring.
parseHeader(c, r) ==
    LET off    == IF c.version >= 1 THEN 1 ELSE 0
        header == PeekHeader12(r, off)
        msgId  == int32(header[1].val)
        length == header[2].val
    IN  IF DataLen(r) < HeaderLen(c) THEN [res |-> "more"]
        ELSE IF \/ off = 1 /\ PeekByte(r, 0).val # c.version
                \/ msgId < -c.maxMsgId \/ msgId > c.maxMsgId
                \/ length > c.maxData
             THEN [res |-> "error"]
        ELSE IF DataLen(r) < HeaderLen(c) + length THEN [res |-> "more"]
        ELSE [res |-> "parsed", msgId |-> msgId, length |-> length]

\* The message: its data is a view of the ring, or a copy when the body wraps.
parseBody(c, r, h) ==
    LET view == PeekTwoSlices(r, HeaderLen(c), h.length)
        copy == slice(r, view[1][1], view[1][2]) \o slice(r, view[2][1], view[2][2])
    IN  IF h.length = 0 THEN [msgId |-> h.msgId, view |-> <<>>, owned |-> <<>>]
        ELSE IF Len(view) = 1 THEN [msgId |-> h.msgId, view |-> view[1], owned |-> <<>>]
        ELSE [msgId |-> h.msgId, view |-> <<>>, owned |-> copy]

NoMessage == [msgId |-> 0, view |-> <<>>, owned |-> <<>>]

\* The data the callback sees when it looks.
messageData(m) == IF m.view = <<>> THEN m.owned ELSE slice(rb, m.view[1], m.view[2])

----------------------------------------------------------------------------
(* The peer and the transport.                                              *)

\* Frames as a peer's PreparePacket makes them, with its own configuration.
\* good: the body can be decrypted.
LegalFrames(c) == [msgId : {1}, version : {c.version}, len : 0..c.maxData, good : {TRUE}]

OtherFrames(c) ==
    {[msgId |-> 1, version |-> c.version, len |-> 1, good |-> FALSE],
     [msgId |-> 1, version |-> c.version, len |-> c.maxData + 1, good |-> TRUE],
     [msgId |-> -(c.maxMsgId + 1), version |-> c.version, len |-> 0, good |-> TRUE]}
    \union {f \in {[msgId |-> 1, version |-> c.version + 1, len |-> 0, good |-> TRUE]} : c.version >= 1}

Legal(f) == f.version = cfg.version /\ f.len <= cfg.maxData /\ f.msgId \in -cfg.maxMsgId..cfg.maxMsgId

PeerSends(f) ==
    /\ peer = "open" /\ Len(sent) < MaxFrames
    /\ waits => Len(handled) = Len(sent)
    /\ sent' = Append(sent, f)
    /\ wire' = wire \o PreparePacketFromWire(Len(sent) + 1, f)
    /\ UNCHANGED <<env, rb, pc, got, chunk, drained, msg, peer, handled, isClose, why>>

PeerCloses ==
    /\ peer = "open"
    /\ waits => Len(handled) = Len(sent)
    /\ peer' = "closed"
    /\ UNCHANGED <<env, rb, pc, got, chunk, drained, msg, wire, sent, handled, isClose, why>>

\* The peer dies within a frame: the rest of it never comes.
PeerCut ==
    /\ peer = "open" /\ wire # <<>>
    /\ Len(wire) <= Len(PreparePacketFromWire(1, sent[Len(sent)]))
    /\ \E k \in 0..Len(wire) - 1 : wire' = SubSeq(wire, 1, k)
    /\ peer' = "cut"
    /\ UNCHANGED <<env, rb, pc, got, chunk, drained, msg, sent, handled, isClose, why>>

arrived(n) == SubSeq(wire, 1, n)
left(n)    == SubSeq(wire, n + 1, Len(wire))

----------------------------------------------------------------------------
(* Filling the ring: BaseChannel.read and BaseClient.read.                  *)

end(reason) == pc' = "closed" /\ why' = reason

\* A full ring has to grow; at its limit the goroutine goes on to parse what
\* is there instead of reading.
roomToRead(r) == IF makeRoom(r).ok THEN makeRoom(r) ELSE Grow(r, readRingGrowStepBytes)

\* The first conn.Read of WriteFromReader.  If it fills the end of the array
\* and there is free space at the start, there will be a second one; until
\* that returns the bytes read are not data.
ReadFirst ==
    /\ pc = "read" /\ mode # "reactor" /\ ~isClose
    /\ wire # <<>>
    /\ LET room   == roomToRead(rb)
           slices == readSlices(room.rb)
       IN  IF ~room.ok THEN pc' = "parse" /\ UNCHANGED <<rb, got, wire>>
           ELSE \E n \in 1..slices[1] :
                  LET again == n = slices[1] /\ Len(slices) = 2 IN
                  /\ n <= Len(wire)
                  /\ wire' = left(n)
                  /\ rb' = [room.rb EXCEPT !.buf = stored(room.rb, arrived(n)),
                                           !.write = IF again THEN @ ELSE @ + n]
                  /\ got' = IF again THEN n ELSE 0
                  /\ pc' = IF again THEN "second" ELSE "parse"
    /\ UNCHANGED <<env, chunk, drained, msg, sent, peer, handled, isClose, why>>

\* Mutant: the second slice is filled like io.ReadFull would.
ReadSecondFills ==
    /\ pc = "second"
    /\ LET n == readSlices(rb)[2] IN
         /\ n <= Len(wire)
         /\ wire' = left(n)
         /\ rb' = [rb EXCEPT !.buf = stored([rb EXCEPT !.write = @ + got], arrived(n)),
                             !.write = @ + got + n]
    /\ got' = 0
    /\ pc' = "parse"
    /\ UNCHANGED <<env, chunk, drained, msg, sent, peer, handled, isClose, why>>

\* The second one blocks like the first.
ReadSecond ==
    /\ pc = "second" /\ wire # <<>>
    /\ \E n \in 1..readSlices(rb)[2] :
         /\ n <= Len(wire)
         /\ wire' = left(n)
         /\ rb' = [rb EXCEPT !.buf = stored([rb EXCEPT !.write = @ + got], arrived(n)),
                             !.write = @ + got + n]
    /\ got' = 0
    /\ pc' = "parse"
    /\ UNCHANGED <<env, chunk, drained, msg, sent, peer, handled, isClose, why>>

\* The end of the stream at the second Read: the bytes of the first come first.
SecondEOF ==
    /\ pc = "second" /\ wire = <<>> /\ peer # "open"
    /\ rb' = [rb EXCEPT !.write = @ + got]
    /\ got' = 0
    /\ pc' = "parse"
    /\ UNCHANGED <<env, chunk, drained, msg, net, handled, isClose, why>>

ReadEOF ==
    /\ pc = "read" /\ wire = <<>> /\ peer # "open" /\ ~isClose
    /\ end("eof")
    /\ UNCHANGED <<env, rb, got, chunk, drained, msg, net, handled, isClose>>

\* The read deadline that a BaseChannel sets for its heartbeat; the bytes of
\* an unfinished WriteFromReader are dropped with the connection.
ReadTimeout ==
    /\ mode = "start" /\ pc \in {"read", "second"}
    /\ wire = <<>> /\ peer = "open"
    /\ end("timeout")
    /\ UNCHANGED <<env, rb, got, chunk, drained, msg, net, handled, isClose>>

\* The callback closed the channel and with it the connection.
ReadClosed ==
    /\ pc \in {"read", "second"} /\ isClose
    /\ end("closed")
    /\ UNCHANGED <<env, rb, got, chunk, drained, msg, net, handled, isClose>>

ReadReset ==
    /\ pc \in {"read", "second"} /\ ~isClose
    /\ end("reset")
    /\ UNCHANGED <<env, rb, got, chunk, drained, msg, net, handled, isClose>>

----------------------------------------------------------------------------
(* Filling the ring: the reactor.                                           *)

\* syscall.Read of a readable connection into the connection's own buffer.
ReactorReads ==
    /\ pc = "read" /\ mode = "reactor" /\ ~isClose
    /\ \E n \in 1..ReadBufSize :
         /\ n <= Len(wire)
         /\ chunk' = arrived(n)
         /\ wire' = left(n)
    /\ drained' = FALSE
    /\ pc' = "ingest"
    /\ UNCHANGED <<env, rb, got, msg, sent, peer, handled, isClose, why>>

\* Its loop goes round again after a short write, but then the ring is full
\* and Grow has just refused, so one Write is all it does.
WriteToReadBuffer(r, p) == Write(r, p)

\* One round of writeConnBytes: without progress it parses once to make room
\* and then gives up.
Ingest ==
    /\ pc = "ingest" /\ ~isClose
    /\ \E w \in {WriteToReadBuffer(rb, chunk)} :
       /\ rb' = w.rb
       /\ chunk' = SubSeq(chunk, w.n + 1, Len(chunk))
       /\ drained' = (w.n = 0)
       /\ IF w.n = 0 /\ drained THEN end("ingest")
          ELSE pc' = (IF w.n = 0 \/ chunk' = <<>> THEN "parse" ELSE "ingest") /\ UNCHANGED why
    /\ UNCHANGED <<env, got, msg, net, handled, isClose>>

\* WriteToReadBuffer and ParseAndDispatch refuse a closed channel.
IngestClosed ==
    /\ pc = "ingest" /\ isClose
    /\ end("closed")
    /\ UNCHANGED <<env, rb, got, chunk, drained, msg, net, handled, isClose>>

----------------------------------------------------------------------------
(* Parsing.                                                                 *)

\* A frame is not complete: a full ring has to grow for the rest of it.
incomplete(back) ==
    LET g == Grow(rb, readRingGrowStepBytes) IN
    /\ pc = "parse" /\ parseHeader(cfg, rb).res = "more"
    /\ IF IsFull(rb) /\ ~g.ok THEN end("capacity") /\ UNCHANGED rb
       ELSE rb' = (IF IsFull(rb) THEN g.rb ELSE rb) /\ pc' = back /\ UNCHANGED why
    /\ UNCHANGED <<env, got, chunk, drained, msg, net, handled, isClose>>

ReadIncomplete     == mode = "start" /\ incomplete("read")
ClientIncomplete   == mode = "client" /\ incomplete("read")
DispatchIncomplete == mode = "reactor" /\ incomplete(IF chunk = <<>> THEN "read" ELSE "ingest")

ParseError ==
    /\ pc = "parse" /\ parseHeader(cfg, rb).res = "error"
    /\ end("protocol")
    /\ UNCHANGED <<env, rb, got, chunk, drained, msg, net, handled, isClose>>

\* A complete frame: the message is set and the frame is consumed, although
\* the message may still refer to its cells.
ParseFromRingBuffer ==
    LET h == parseHeader(cfg, rb) IN
    /\ pc = "parse" /\ h.res = "parsed"
    /\ msg' = parseBody(cfg, rb, h)
    /\ rb' = Discard(rb, HeaderLen(cfg) + h.length)
    /\ pc' = "handle"
    /\ UNCHANGED <<env, got, chunk, drained, net, handled, isClose, why>>

decrypts(data) == \A i \in DOMAIN data : data[i].frame \in DOMAIN sent => sent[data[i].frame].good

\* handleParsedMessage: the callback, unless decryption fails; the callback
\* may close the channel, which ends no loop here.
HandleParsedMessage ==
    LET data == messageData(msg) IN
    /\ pc = "handle" /\ mode # "client"
    /\ msg' = NoMessage
    /\ \/ /\ decrypts(data)
          /\ handled' = Append(handled, [msgId |-> msg.msgId, data |-> data])
          /\ isClose' \in {isClose, TRUE}
          /\ pc' = "parse"
          /\ UNCHANGED why
       \/ /\ ~decrypts(data)
          /\ IF cfg.dropBad THEN pc' = "parse" /\ UNCHANGED why ELSE end("decrypt")
          /\ UNCHANGED <<handled, isClose>>
    /\ UNCHANGED <<env, rb, got, chunk, drained, net>>

\* The client skips what it cannot decrypt.
ClientHandles ==
    LET data == messageData(msg) IN
    /\ pc = "handle" /\ mode = "client"
    /\ msg' = NoMessage
    /\ handled' = IF decrypts(data) THEN Append(handled, [msgId |-> msg.msgId, data |-> data]) ELSE handled
    /\ pc' = "parse"
    /\ UNCHANGED <<env, rb, got, chunk, drained, net, isClose, why>>

----------------------------------------------------------------------------
(* The specification.                                                       *)

\* A ring as an earlier connection left it: any positions, its bytes in it.
usedRing(k) == [NewRingBuffer(defaultRingBufferSize, 0) EXCEPT
                  !.read = k, !.write = k + 1,
                  !.buf = [i \in 0..defaultRingBufferSize - 1 |-> [frame |-> 0, at |-> 0, val |-> 1]]]

Init ==
    /\ cfg \in SocketConfigs /\ mode \in Modes /\ waits \in BOOLEAN
    /\ \E k \in 0..defaultRingBufferSize :
         /\ PutRingBufferKeeps(usedRing(k))
         /\ rb = GetRingBuffer(usedRing(k), RingBufferMaxSizeForSocket(cfg))
    /\ pc = "read" /\ got = 0 /\ chunk = <<>> /\ drained = FALSE
    /\ msg = NoMessage
    /\ wire = <<>> /\ sent = <<>> /\ peer = "open"
    /\ handled = <<>> /\ isClose = FALSE /\ why = "none"

ReaderStep ==
    \/ ReadFirst \/ ReadSecond \/ SecondEOF \/ ReadEOF \/ ReadClosed
    \/ ReactorReads \/ Ingest \/ IngestClosed
    \/ ReadIncomplete \/ ClientIncomplete \/ DispatchIncomplete
    \/ ParseError \/ ParseFromRingBuffer \/ HandleParsedMessage \/ ClientHandles

Next ==
    \/ ReaderStep
    \/ ReadTimeout \/ ReadReset
    \/ (\E f \in LegalFrames(cfg) \union OtherFrames(cfg) : PeerSends(f))
    \/ PeerCloses \/ PeerCut

Spec == Init /\ [][Next]_vars

\* The reading goroutine runs while it has something to do, and a peer that
\* is not waiting for an answer closes the connection in the end.
FairSpec == Spec /\ WF_vars(ReaderStep) /\ WF_vars(PeerCloses)

----------------------------------------------------------------------------
(* Properties.                                                              *)

\* How many of the first n frames the callback should see.
readable(n) == Cardinality({k \in 1..n : sent[k].good})

body(k) == SubSeq(PreparePacketFromWire(k, sent[k]), HeaderLen(cfg) + 1, HeaderLen(cfg) + sent[k].len)

\* The callback sees the messages that were sent: in order, none twice, none
\* skipped, each with its own bytes at the moment it looks at them, however
\* the stream was cut into reads and wherever the ring wrapped or grew; and
\* nothing of the connection that had the pooled ring before.
StreamIntact ==
    \A i \in DOMAIN handled :
      \E k \in DOMAIN sent :
        /\ sent[k].good /\ readable(k) = i
        /\ handled[i] = [msgId |-> sent[k].msgId, data |-> body(k)]

\* The read loop ends for a reason the peer gave: a legal frame is never too
\* large for the ring, an error is reported only for a frame that is not
\* legal, and at the end of the stream every complete frame has been handled.
ClosedForCause ==
    pc = "closed" =>
      /\ why \notin {"capacity", "ingest"}
      /\ why = "protocol" => \E k \in DOMAIN sent : ~Legal(sent[k])
      /\ why = "eof" => Len(handled) >= readable(IF peer = "cut" THEN Len(sent) - 1 ELSE Len(sent))

caughtUp == Len(handled) >= readable(Len(sent))

\* The callback catches up with every frame that was sent, or the connection
\* ends: in the reactor whatever the peer waits for, in the two read goroutines
\* with a peer that does not wait for answers.
FramesArrive == (mode = "reactor" \/ ~waits) => []<>(pc = "closed" \/ caughtUp)

\* The same of every peer.  It does not hold: the second conn.Read of
\* WriteFromReader waits for bytes that a peer which waits for an answer will
\* not send, while the frame it asks about is already in the ring.
EveryFrameArrives == []<>(pc = "closed" \/ caughtUp)
=============================================================================
