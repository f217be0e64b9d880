# TLA+ specifications of zhenyi-base

zhenyi-base is a Go library for network servers: lock-free queues (`zqueue`),
connections, servers and shared write workers (`znet`), an epoll/kqueue reactor
(`zreactor`), protocol packages (`ztcp`, `zws`, `zkcp`), an application server
(`zserver`), a TLS stack with the Chinese national suites (`zgmtls`) and utilities.
This directory models the concurrent core of it, the way of a frame from the network
to the read callback, and the TLS stack; it checks the models with TLC and proves
with TLAPS what eight of them do in instances of every size: the three queues, the
channel in both modes, the server's tables, the TLS handshake and the TLS connection.
`PROJECT.json` ties every definition to the lines it models and lists runs,
mutants, findings, hazards and theorems.

## 1. Inventory

| part | state | operations | hard behaviour | what makes it correct |
|---|---|---|---|---|
| `zqueue.MPSCQueue` | ring of slots with sequence numbers, `head`, `tail`, `closed` | `Enqueue`, `EnqueueBatch`, `Try*`, `Dequeue`, `DequeueBatch`, `Close` | many producers claim ranges by CAS, one consumer, wrap-around, close race | never more than Cap items, FIFO in claim order, no two goroutines on one slot, nothing after close |
| `zqueue.UnboundedMPSC` | linked nodes, recycled nodes, `enqueueStopped` | `Enqueue`, `EnqueueBatch`, `TryEnqueue`, `Dequeue`, `DequeueBatch`, `Shrink`, `StopEnqueue`, `Close` | swap and link are two steps; nodes are reused | FIFO, one owner per node, stop is final, everything accepted is delivered |
| `zqueue.SPSCQueue` | ring, `head`, `tail`, cached copies, `closed` | blocking and `Try*` batches, `Close` | decisions on stale counters, spinning | FIFO with bounded room, a blocked side gets out |
| `zqueue.Queue`, `DoubleQueue`, `PriorityQueue`, `UnboundedSPSC` | slices under a mutex, two swapped buffers, a heap, segments | enqueue, dequeue, resize, swap | swap while a batch is out, resize | FIFO or heap order, capacity |
| `znet.BaseChannel` | mailbox, flags, `closeOnce`, wait groups, ring buffer | `Send`, `runSend`, `Start`/`read`, `Close` | close from anywhere (also from the read callback) against sends, writes and reads | every message released once, order on the wire, buffer given back after its last use, close completes |
| shared write workers | per channel pending mark, shard queues, acknowledgements | `Send`+hook, `flushChannel`, drain, `CloseFromReactor`, `BeginReactorRead`/`EndReactorRead` | lost wake-ups, close by the reactor, timeouts, panics | no message without an owner, the reactor does not wait for the worker |
| `znet.BaseServer` | `channels`, `authChannels`, `connCount` | `HandleAccept`, `AddChannel`, `RemoveChannel`, `SetChannelAuth`, `BaseClose` | a goroutine per connection, check-then-act on two maps and a counter | the count is exact, `maxConn` holds, shutdown closes all it finds, ids map to live channels |
| `znet.RingBuffer`, `BaseSocket` | ring with growth, frame parser, limits | `Write`, `WriteFromReader`, `PeekTwoSlices`, `Discard`, `Grow`, `ParseFromRingBuffer` | wrap, growth, zero-copy views, limits, frames cut into reads anywhere | every message arrives whole, once, in order; only a peer that breaks the format is disconnected; a complete frame is handled |
| `znet.BaseClient` | mailbox, ring buffer, wait groups | `SendMsg`, `Request`, `Read`, `Close` | the same read path; close from the read callback | the same; close completes |
| `zreactor` | fd map, poller, heartbeat | accept, read, heartbeat scan, shutdown | fd reuse, close while reading, a buffer between socket and ring | every fd closed once, no byte dropped |
| `zserver` | connection cache, worker pool | `Start`, `Stop`, dispatch | callbacks before registration | cache follows connections |
| `zgmtls` handshake | negotiated parameters, transcript hash, keys, tickets, session cache | client and server in TLS, GM and switching variants, full and resumed | long message sequences, reconfiguration between connections, damaged or cut streams | both ends agree on the best both support, client policy holds, nobody waits for ever |
| `zgmtls.Conn` | two half connections, three mutexes, `handshakeStatus`, `activeCall` | `Handshake`, `Read`, `Write`, `Close`, `CloseWrite`, renegotiation | calls of several goroutines, lock order, look-ahead, a peer that sends anything | data only in a session, no accepted byte lost, silence after `Close`, every call returns |
| `zgmtls` messages | - | `marshal`, `unmarshal` of every message | lengths computed apart from the fields, lengths written by the peer | decoding inverts encoding, no slice out of range |
| `zlog`, `zbatch`, `zcoll`, `zpub`, `zgrace`, ... | see `components` in `PROJECT.json` | | | |

How the parts interact: `ztcp` accepts a connection, calls `HandleAccept` (which
calls the application's `OnAccept`), `AddChannel` and `RunChannel`; the channel's
`Close` calls back `RemoveChannel`; `Send` goes through an `UnboundedMPSC` to
`runSend` or, under the reactor, to a shared worker; the reactor reads into the
channel's ring buffer and calls `OnRead` on its own thread, otherwise the channel's
read goroutine does both. With TLS the connection the channel reads and writes is a
`zgmtls.Conn`: its first `Read` or `Write` runs the handshake.

## 2. Modules

| module | models | composition |
|---|---|---|
| `MPSCQueue` (`MCMPSCQueue`) | `zqueue/mpsc.go`, one action per atomic access | - |
| `MPSCQueueProofs` | proofs about it | extends it |
| `UnboundedMPSC` | `zqueue/unboundedmpsc.go` | implements `Mailbox` |
| `UnboundedMPSCProofs` | proofs about it, the refinement included | extends it |
| `Mailbox` | abstract two-step mailbox with its stop: who was admitted before the stop may still enter | used by `Channel` and `SharedSend` as their idea of the queue |
| `SPSCQueue` | `zqueue/spsc.go` | implements `BoundedFIFO` |
| `SPSCQueueProofs` | proofs about it, the refinement included | extends it |
| `BoundedFIFO` | abstract bounded FIFO with whole batches and its end: a blocking call reports it of a closed and empty queue, a Try call of one it found empty before it found it closed | - |
| `Channel` | `znet/channel.go` with its own goroutines | uses the mailbox in the two steps of `Mailbox` |
| `ChannelProofs` | proofs about it | extends it |
| `SharedSend` (`MCSharedSend`) | the same channel under the reactor with `znet/shared_send_workers.go` | same |
| `SharedSendProofs` | proofs about it | extends it |
| `Server` (`MCServer`) | `znet/server.go` tables, `ztcp/tserver.go` connection goroutine | a channel's inside is `Channel` |
| `RingBuffer` | `znet/ringbuffer.go` as operators on a ring | used by `ReadPath` |
| `ReadPath` (`MCReadPath`) | `znet/socket.go`, the read loops of `znet/channel.go`, `znet/client.go` and `zreactor/reactor_linux.go` | extends `RingBuffer` |
| `ConnectionProofs` | proofs about `Server`, `RingBuffer` and `ReadPath` | extends `Server` and `ReadPath`, which share nothing |
| `TLSNegotiation` | what the two ends of a handshake decide and compute (`zgmtls/common.go`, `cipher_suites.go`, `key_agreement.go`, `prf.go`, ...), stateless | used by `TLSRecord` |
| `TLSRecord` | the record layer during a handshake (`zgmtls/conn.go`), as operators on one end's state | extends `TLSNegotiation` |
| `TLSHandshake` (`MCTLSHandshake`) | `handshake_client.go`, `handshake_server.go`, the GM double-certificate variants and `auto_handshake_server.go` | extends `TLSRecord` |
| `TLSHandshakeProofs` | proofs about it | extends it |
| `TLSConn` (`MCTLSConn`) | the calls of several goroutines on one `zgmtls.Conn` | the handshake inside is a script; `TLSHandshake` has its contents |
| `TLSConnProofs` | proofs about it | extends it |
| `TLSMessages` (`MCTLSMessages`) | `handshake_messages.go`, `gm_handshake_messages.go`, the ticket's session state, `readHandshake`'s dispatch | the bytes of what `TLSHandshake` exchanges as records |

Correspondence. A variable has the name of the field it stands for (`head`, `seq`,
`enqueueStopped`, `isClose`, `deferRel` for `deferReadBufferRelease`, `connCount`,
`authChannels`, ...); variables called `pc`, `cpc`, `xpc`, ... hold the step of a
goroutine inside an operation. An action is the code between two accesses to shared
state, so everything another goroutine can see in between is a state. Messages,
channels, nodes and connections are model values or small numbers; payloads,
headers, logs, metrics and counters that nothing reads (`queuedMsgs` without a shared
worker) are left out, encryption and writes are operations that
may fail. Operators named `...Mutant`, or after the fault (`SendRefusedForgets`),
are faulty variants of the definition below them; nothing uses them except the
mutant list of `PROJECT.json`. Nine definitions state something that does not hold
(section 5); their comments say so and no run asserts them.

- `MPSCQueue`: the loads of `closed`, `head` and of the first and last sequence of a
  range (`BatchClosed`, `BatchHead`, `BatchLast`, `BatchFirst`; `Enqueue...` for the
  single item), the CAS, the write and the publication of each slot are separate
  actions of a producer; the consumer reads published slots (`ReadSeq`, `ReadData`),
  stores `tail` and then releases slot by slot, as the
  code does. Sequences are unbounded integers; the code's are 64 bits wide and
  are compared by the sign of their difference, which is the same as long as
  fewer than 2^63 positions separate them.
- `UnboundedMPSC`: a node carries its value and `next`; a node returned to the pool
  may be handed out again at once, which is the worst case of `sync.Pool`.
- `SPSCQueue`: both cached counters are variables of their own.
- `Channel`: `Senders`, `Closers`, the connection's goroutine (which may close in
  `AddChannel` before it starts the loops, becomes the reader, and may call `Close` in
  `OnRead`), `runSend`, and the goroutine that finishes a close from the callback.
  Others may close at any time, before the loops are started too. The constant
  `CtxCancel` allows the context to be cancelled. `RunPanics` is a panic in `Encrypt` or
  a message that `runSend`'s deferred `Recover` catches; one in `OnRead` ends the read
  loop through its deferred functions, as `ParseEnds` does.
- `SharedSend`: senders, closers, the reactor thread and one worker; the shard's
  queue is the number of times it holds the channel. `Leave` is the worker's `ctx.Done`,
  taken with nothing left in its queue: `drainShardQueue` is the same pass over it that a
  wakeup begins. What is sent afterwards stays in the mailbox until
  a close and its timeouts.
- `Server`: per connection the goroutine of `ztcp`'s `listen`, per channel the steps
  of its one `RemoveChannel`, users in `SetChannelAuth`, and `BaseClose`. `early` and
  `raced` are history variables: the channels closed before they were stored, and the
  ids for which two `SetChannelAuth` calls overlapped or whose mapping `RemoveChannel`
  deleted after it had gone to another channel. `sync.Map.Range` visits what is there all the time and may or
  may not visit what is stored meanwhile.
- `RingBuffer`, `ReadPath`: a cell of the ring holds a byte that knows its frame and
  its place in it, so a cell read at the wrong place is told from the right one. The
  three readers share the parser and differ in how bytes get into the ring: the two
  goroutines through `WriteFromReader`, whose reads block, the reactor through its own
  buffer and `Write`. Frames may be legal, too long, of a wrong version or message id,
  empty, and cut anywhere, also by the end of the connection. The header is scaled to
  one cell per field.
- `TLSHandshake`: a step of an end runs from one blocking read to the next. Both ends
  choose any of the given configurations anew for every connection, the client keeps
  its session cache and the server its ticket keys, so a session meets a server that
  has been reconfigured. Cryptography is ideal: a key, a signature or a hash is the
  value it is computed from. One message is one record.
- `TLSConn`: each goroutine makes its calls at the granularity of lock operations,
  atomics and record reads or writes, as `conn.go` has them; the peer is arbitrary, sends
  what it likes and takes bytes when it likes: a `Write` may hang with `out` locked, the
  other writes (alerts, close_notify, flights) hang before they take it. One handshake
  message is in hand at a time. `out.err` is set by failures and alerts and cleared by a
  `Write` that succeeds, as the code does; `erased` is a history variable that remembers it.
- `TLSMessages`: a byte has 16 values instead of 256, a random two bytes, an id at
  most two, and type numbers too large for that have small stand-ins; the shape of
  every message, every length formula and every early return of the decoders is kept.
  It declares RECURSIVE operators, and nothing is proved about it.

## 3. Runs

| run | instance | states | shows |
|---|---|---|---|
| `mpsc` | 2 producers, 2 slots, batches of 1 and 2 that wrap | 795,108 | capacity, FIFO, no slot race, drained when empty, reported counts, close is final |
| `umpsc` | 2 producers, 4 nodes, a recycle list of 1 | 187,951 | refinement of `Mailbox` (order, values, half-linked places, what a stop admits), delivery |
| `spsc` | 4 slots, 6 items, batches up to 3 | 88,627 | slot ownership, refinement of `BoundedFIFO` with what each kind of call reports as the end, a blocked producer returns |
| `channel` | 1 sender with 2 messages, closer at any time, reader, failing writes and encryption, a panic in `runSend`, cancelled context | 280,508 | a message is released exactly by who has it, wire order, buffer lifetime; close completes from every place; an accepted message is handled unless `runSend` has panicked |
| `shared_send` | 2 senders, closer, reactor, worker with quota 2 that may be stopped, limit 1 | 3,894,082 | one fate per message, no lost wake-up while the worker is there, no buffer put back during a read, no wait for the worker begins on or under the reactor |
| `reader_without_buffer` | 1 sender with 2 messages, 2 reads | - | violated: a read begins on a buffer that the read before it gave back |
| `server` | 2 connections, `maxConn` 0, 1, 2, two goroutines in `SetChannelAuth`, one `BaseClose` | 5,422,919 | exact count, limit, nothing left over, complete shutdown, who carries an id is found by it |
| `read_path` | 3 frames, legal or not, a ring of 4 cells that grows to 8, all three readers | 270,972 | the callback gets every message whole and once, in order; a legal peer is never disconnected; frames are handled |
| `read_stall` | the same | - | violated: a complete frame waits in the ring for a peer that waits for its answer |
| `tls_handshake` | 6 client and 8 server configurations, 2 connections in a row, 1 ticket key rotation, 1 damaged record or cut | 48,847 | agreement, no downgrade, client authentication also by resumption, what may be cached, no output left in the buffer, every handshake ends |
| `tls_conn` | 2 readers, a writer, a `Close`, a `CloseWrite`, a client that allows one renegotiation or a server, 2 arbitrary records | 1,207,337 | data only in a session, no accepted byte lost, silence after `Close`, every call returns after it |
| `tls_messages` | every kind of message with the extensions that occur together, intact or with one byte changed | 653,433 | an intact message decodes to itself; no decoder reads out of range |

Bounds. Two producers are the smallest number that interferes; items and batches are
chosen so that a ring is filled, wraps, and a batch straddles its end. The channel
needs two messages for order, and one closer beside the reader's own close; two
senders share nothing but the mailbox, which `umpsc` and the proofs cover. In
`Server`, one connection more than the limit is what overshoots, and two connections
are what compete for an id; a limit of 2 lets them be stored together. A ring of 4
cells takes one frame of the first configuration and must grow for one of the second;
three frames pass its end, alone and two at a time, and one of them can be illegal.
Two TLS connections are what resumption needs; the configurations are chosen so that
each branch of the negotiation is taken by some pair (equal and different versions,
both key types, each client policy, each server mode, protocols that match or do not).
`MaxWarn` and `MaxEmpty` of 1 make both limits of the record layer reachable with two
records. In `MCTLSMessages` every list is empty, has one element and has two, of
different lengths. Every mutant
in `PROJECT.json` is found within these bounds, one for each property of each run.
Deadlock is not checked where the system may stop (closed channels, finished
connections); it is checked in the queue runs.

Fairness. `SPSCQueue` and `UnboundedMPSC`: weak fairness of each side's steps, since
goroutines are scheduled (preemptively, so a spinning one does not starve the other),
and of the consumer calling again, which is its loop in `runSend` and in the workers.
`Channel`: weak fairness of each goroutine's steps; no fairness of starting a `Send`
or a `Close`, nor of the peer, except that a write on a closed connection returns.
`AcceptedHandled` assumes in its own statement that the peer reads.
`ReadPath`: weak fairness of the reading goroutine or loop, and of a peer that hangs up
when it has nothing more to send and waits for nothing (TCP reports that as EOF).
`TLSHandshake`: weak fairness of each end, whose read returns when there is a record or
the stream has ended. `TLSConn`: weak fairness of each call; a call that waits for the
peer, to read or to write, has to go on only after `Close` closed the connection.

## 4. Proofs

Every theorem is about its module's specification without fairness and holds for all
values of the constants that satisfy the assumptions named with it: any number of
goroutines, messages, nodes and slots, and runs of any length. None of the properties is
inductive as it stands; what follows says what had to be added, and why.

`MPSCQueueProofs` proves `CapacityRespected`, `FirstInFirstOut`, `NoDataRace`,
`DrainIsComplete`, `CloseHolds` and `TypeCorrect` from one inductive invariant `IInv`
(`InvariantHolds`), for every capacity of at least 2. What an
enqueue may do depends on what the sequence of a slot tells. `IInv` says that every
slot of the window of `Cap` positions after the last released one holds the position
(free) or the position plus one (published), that the claims of producers in flight
are disjoint and lie between `tail` and `head`, and that a producer past its checks
still sees what it checked if its CAS can succeed. `SeqTells` uses `Cap >= 2`: with
one slot, `pos + 1` and `pos + Cap` coincide, the invariant fails, and so does the
queue (section 5). `ReportsHold` (`ReportedExactly`) adds `ReportInv`: the items of a
producer that have positions are those its calls reported and those its call under way
has claimed so far.
The facts on remainders that the slot index needs come first in the module.

`UnboundedMPSCProofs` proves `Refinement` (`ImplementsMailbox`), `InOrder` (`FIFO`,
which no run asserts) and `Types`, for finite sets of producers and nodes. The invariant says that there is a list
of different nodes from the sentinel to `head` (`Shape`), none of which is spare or in a
chain under construction (`Apart`, `Loose`), each linked to the next or about to be by
exactly one producer (`Linked`); the values taken and those of the list are `order`. It
is what makes recycling safe: the node that a producer between its two atomics holds as
`prev` is in the list, so the consumer cannot pass and recycle it. The mapping walks the
nodes with a recursive function; that it walks the list is shown with the smallest
index at which it would leave it (`Smallest`, `WalkOfList`). Three actions change the
list (`SwapSteps`, `LinkSteps`, `TakeSteps`); the others leave it alone (`QuietKeeps`).

`SPSCQueueProofs` proves `SidesDisjoint` (`NoOverlap`) and `RingImplementsFIFO`
(`ImplementsFIFO`) for every capacity of at least 2. `Counters` orders the four counters
(`tailCache <= tail <= headCache <= head <= tailCache + Cap`), so a decision on a stale
counter is a cautious one; `Calls` and `Contents` say what is copied and not yet
published. The mapping calls an element taken when it is copied out, before `tail`
moves (`First`); `Ends` is what makes the report of the end right: a blocking call
reports it of a queue that is closed and empty. `TryDequeueBatch` looks at `head` before
`closed`, and the abstract queue says so (section 5, `TryEndIsTheEnd`).

`ChannelProofs`. `BufferHolds` (`BufferSafe`): the buffer goes back at most once, and is
there while the read loop has bytes in it or can still get some, whoever closes and
whenever, before `Start` included. Who waits for the loop or leaves the buffer to it has
closed the connection before (`ClosedFirst`); behind `readWg.Wait` the loop is over or has
not begun (`WaitedFor`), and one that begins then gets no byte (`GivenBack`). That a
running loop always has its buffer is not true (section 5, `ReaderHasBuffer`).
`ReleasesHold` (`ReleasedExactly`): `Places` says that a message is in at most one of
the sender's hands, the mailbox and the batch, once in each, and `Fates` that what is in
none was released once. `WireOrderHolds` (`WireOrder`): the invariant carries an
increasing map from the wire into what was taken, and the batch as the end of it.

`SharedSendProofs`. `CloseInv` relates `reactorReadDepth`, `deferRel` and the place of every
closer; from it follow `ReactorStartsNoWait` (`NoWaitUnderReactor`: the reactor asks for the
asynchronous drain before it can come to a wait, and a closer that looks while the reactor
stands in `closeOnce` finds that it did; a wait that began before the read can still hold
a `Close` in `OnRead`, section 5) and `BufferStays` (`NoPutDuringRead`: a
closer past its look at the depth has left a buffer in use to the reactor).
`EveryMessageHasOneFate` (`OneFate`) is as in `Channel`, with the messages that a panic
drops. `WakeupsArrive` (`NoLostWakeup`) needs `Links` (an unlinked message belongs to a
sender that will mark the channel afterwards) and `WakeInv`: a marked channel is in the
queue or at the worker, and a message in an unmarked one will be noticed by its sender or
by the worker's second look.

`ConnectionProofs`, part 1, proves `ConnCountExact`, `LimitHolds`, `NothingLeftOver`,
`ShutdownIsComplete` and `ServerTypeCorrect` for any finite set of connections and
any users, closers, ids and limits. `MaxConnRespected` is not inductive: a connection
that passed `AddChannel`'s check and has not stored itself holds a place, so
`PlacesHeld` counts those as well, and `CountExact` links the places with `connCount`.
`ClosedLeaves` carries the order of close and store to `NoLeftover`, `ShutdownCloses`
the visits of `Range` to `BaseCloseCloses`. `CarriersAreFound` (`CarrierIsFound`) has an
invariant of its own, `AuthInv`: what a call of `SetChannelAuth` found out still holds as
long as no second call for the id overlapped (`CallHolds`). Assumptions: `Conns` is
finite, limits are natural numbers, 0 is not an authentication id.

`ConnectionProofs`, part 2, proves `StreamArrivesIntact` (`StreamIntact`) and
`LoopEndsForCause` (`ClosedForCause`) for any ring size that is a power of two, any growth
steps, configurations and read sizes, and any number of frames, legal or not. The invariant
(`ReadPathInvariant`) lays the frames that were sent end to end on a stream, frame `k` at
offset `b[k]`, and says that `K` of them are consumed and that the rest of the stream is,
byte for byte, what the ring, the bytes of an unfinished `WriteFromReader`, the reactor's
buffer and the wire hold (`Holds`; `pending` is the i-th of those bytes). Reading only moves
bytes from one place to the next and so keeps it; the parser goes from `K` to `K + 1`.
`FrontIs` connects the two: at a frame boundary the header the parser peeks at is the header
of frame `K + 1`, so its answer is that frame's. `Given` says that the message being handled
shows the body of frame `K` although its cells are already discarded: nothing is written
between the parse and the callback. `Room` carries what makes an incomplete legal frame never
stuck: the limit is at least the largest frame (`LimitIs`), a full ring below the limit grows
(`GrowIs`), and the reactor gives up only on a full ring it has just parsed. The lemmas about
the ring hold for any positions: a copy that wraps (`StoredIs`), both views that wrap
(`PeekAllIs`, `MessageIs`), and the move to a larger array (`MovedKeeps`). `PowerExists` and
`NextPower` show that `nextPowerOfTwo64` finds a power of two that is large enough.
Assumptions: the ring sizes and growth steps are positive, `maxMsgId` fits the signed word of
the wire, and `SlackAssumption` (section 5).

`TLSConnProofs` proves `DataInSession` (`DataOnlyInSession`), `NothingLost`
(`NothingLostBeforeError`) and `CloseIsQuiet` (`QuietAfterClose`) for any finite number of
goroutines in `Read`, `Write`, `Close` and `CloseWrite`, client or server, and any peer.
`Control` says who is where with which mutex and in which phase of the session; `Output`
counts flights on the wire and in `sendBuf` against the script of the handshake, for data
could slip between two flights only if a `Write` held `out` meanwhile; `Interlock` reads
`activeCall` as twice the writes in flight plus `Close`'s bit; `InputKept` follows the
bytes from the record layer to the callers.

`TLSHandshakeProofs` proves `BothEndsAgree` (`Agreement`), `NothingDowngraded`
(`NoDowngrade`), `ClientAuthenticated` (`ClientAuthHolds`), `CacheSound`
(`CachedSessionSound`) and `NothingLeftBuffered` (`NothingHeldBack`) for any sets of client
and server configurations and any number of connections, key rotations and faults, from one
invariant `HInv` (`HandshakeInvariant`). None of the properties can be proved of one end
alone or from the others, since what makes the two agree is the Finished, and an end relies
on it long after it was sent. `HInv` follows that argument. Of each end alone it says what it
has chosen as a function of its hellos (`CChosen`, `SChosen`); that the master secret names
the version and suite it is for (`Bound`) and the transcript begins with the hellos and shows
whether the handshake resumes (`Shape`); which keys are in use or in wait; and that a Finished
of it that is still on the way is its own, over its own transcript, sent after the choices
were final (`CStream`, `SStream`). Of the two together it says only that an end that is done
agrees with its peer (`Both`). `FinishedAgree` establishes that: equal verify data means equal
secrets and transcripts, hence equal hellos, the same kind of handshake, and with `Bound` the
same version and suite; damage cannot make a Finished (`DamagedRecord`). The hardest parts are the
sessions and what survives a handshake: a session the client would cache has its
ticket in the transcript (`NewSession`), so the server's Finished vouches for it
(`Tickets`), and a ticket in a hello may be damaged but not forged (`HelloOk`).
Damage to the NPN fields cannot make the protocols differ since a client that does NPN
offers ALPN too (`SameProtocol`). The proof has a lemma for each step of an end, for the TLS
and the GM copy of the code, whatever the other end does, and one for each action.
Assumptions: a server's mode is one of the three and its `ClientAuth` one of the five
constants. Cryptography is ideal, as in the model: the theorems are about the control flow
and the data the handshake code authenticates, not about ciphers.

Two attempts failed for a good reason. The proof that the reactor always finds a buffer
stopped at an overflow close between two reads: TLC then found the violation that
`reader_without_buffer` shows, and `NoPutDuringRead` is what does hold. The proof that an
id has one owner stopped at two `SetChannelAuth` calls for one id: both can evict the old
owner and then set themselves; `CarrierIsFound` states what holds, and `raced` says
exactly when it does not.

Only model-checked. Liveness (`AllDelivered`, `ProducerReturns`, `CloseCompletes`,
`AcceptedHandled`, `CallsReturn`, `HandshakeEnds`, `FramesArrive`): fairness is beyond the
proof system. `TLSMessages` (`RoundTrip`, `DecodeNeverPanics`): it declares RECURSIVE
operators, and what it says is induction over the bytes of a message.

## 5. Findings

`reader_without_buffer`: `CloseFromReactor` stores `deferReadBufferRelease` before `doClose`
sets `isClose`. A `Send` over the queue limit calls it on its own goroutine: when that
happens during a read, the read's `EndReactorRead` gives the buffer back while the channel
is still open, and the next read writes into a nil buffer. The comment of
`CloseFromReactor` assumes that it runs on the event loop's thread.

`read_stall`: `WriteFromReader` makes a second `conn.Read` when the first one filled the
array up to its end, before `write` advances. On a blocking connection (`BaseChannel.Start`
and `BaseClient.Read`; the reactor does not use it) a peer that sent a whole frame and
waits for the answer never gets one: the frame lies in the ring but is not yet data.
The comment above the second read calls it one attempt that avoids blocking.

Disagreements between code and its own words that the models show without a run of
their own. Each is reproduced by adding the named invariant or property to the named cfg.

| what | invariant, cfg | code | says otherwise |
|---|---|---|---|
| `NewMPSCQueue(1)` has one slot and overwrites unread items | `NeverOverCapacity` with `Cap = 1`, `MPSCQueue.cfg` | `zqueue/mpsc.go:71` | `zqueue/mpsc.go:130` |
| a `Send` racing `Close` can enqueue after the last drain; its message is never released | `AllReleased`, `Channel.cfg` | `znet/channel.go:1165` | `znet/channel.go:815`, `:646` |
| `TryDequeueBatch` reports the end of a closed queue that is not empty | `TryEndIsTheEnd` (as PROPERTY), `SPSCQueue.cfg` | `zqueue/spsc.go:286-289` | `zqueue/spsc.go:274` |
| the read loop of a channel that was closed before `Start`, above `maxConn` for one, reads into a buffer that is gone | `ReaderHasBuffer`, `Channel.cfg` | `ztcp/tserver.go:91`, `znet/server.go:307` | `znet/channel.go:671` |
| `Close` in `OnRead` under the reactor waits in `closeOnce` behind another goroutine's wait for the worker, up to two timeouts | `ReactorNotHeld`, `SharedSend.cfg` | `znet/channel.go:637`, `:961` | `znet/channel.go:586` |
| `EndReactorRead` and the close tail can both return the ring buffer to the pool | `PutOnce`, `SharedSend.cfg` | `znet/channel.go:624` | `znet/channel.go:98` |
| a channel closed before `AddChannel` stays in the map and keeps its place in `maxConn` | `NoGhost`, `Server.cfg` | `znet/server.go:319` | `ztcp/tserver.go:90` |
| `RemoveChannel` can delete the mapping of a connection that has just taken over the id | `SurvivorKeepsMapping`, `Server.cfg` | `znet/server.go:390` | `znet/regression_test.go:80` |
| a handshake of TLS 1.0 or 1.1, or a GM session that is resumed, panics on a nil function or hash | `NoPanic`, `TLSHandshake.cfg` | `zgmtls/prf.go:238`, `gm_handshake_server_double.go:305` | `zgmtls/prf.go:244`, `common.go:508` |
| a `Write` that succeeds erases the error an alert stored in `out.err` | `OutErrPermanent` (as PROPERTY), `TLSConn.cfg` | `zgmtls/conn.go:1096` | `zgmtls/conn.go:156` |

Facts a maintainer should know that no invariant states:

- `Grow` cuts the new size to `maxSize` and reports success all the same. A reactor read
  that does not fit beside an incomplete frame would overwrite it. `SlackAssumption` of
  `ReadPath` excludes it, and the default sizes (1 MB frames, 4 KB reads, 2 MB limit)
  satisfy it.
- `BaseClient.Close` in the read callback, or the deferred one after the callback
  panicked, waits for its own goroutine (`znet/client.go:268`).
- `Request` of a synchronous client leaves the stream misaligned after a bad header.
- `readHandshake` calls `sendAlertLocked` without the lock of the outgoing half, and
  `flush` takes no lock; `TLSConn` has both, and lets a `Write` in progress overwrite the
  alert's error in `out.err`. After that the code may go on writing.
- `zlog.Recover` calls `Logger.Recover`, whose comment demands to be deferred directly
  (`zlog/logger.go:730`): with a default logger set, `recover` is called one frame too deep
  (`zlog/format.go:99`) and a panic in `runSend` or in the read loop ends the process.
- Without a default logger a panic in `Encrypt` or a message ends `runSend` and leaves the
  channel open: its batch is released by nobody and its mailbox is taken out by nobody
  (`znet/channel.go:1074`; `RunPanics`).
- `sendAlert(no_renegotiation)` sets `out.err`, so refusing a renegotiation also ends
  writing; a failed renegotiation does not flush its alert as `Handshake` does.
- The server does not validate `NextProtos`: an empty name, or one of more than 255
  bytes, would not survive `marshal` and `unmarshal` of its hello. The inputs of
  `tls_messages` exclude it.

## 6. Plan

No safety invariant that a run checks is left without a theorem but the two of
`TLSMessages`.

Modules that would come next: the accept path, the fd map, heartbeat and shutdown of
the reactor; `BaseClient`'s `Close`; `zserver` on top of `Server`; `Queue` and
`DoubleQueue` as implementations of `BoundedFIFO`, `UnboundedSPSC`, `PriorityQueue`;
`zlog`'s asynchronous writer (a `Write` that enqueues behind the last drain of `Close`,
`zlog/asyncwriter.go:94`, is lost although it reported success).

## 7. Not modelled

- Metrics, logging, formats, dialling and kcp-go.
- `BaseChannel` in synchronous mode, which has no queue and keeps no state.
- Panics of callbacks other than those named in section 2, and panics that end the
  process (section 5).
- In automatic mode the server calls `GetKECertificate` without a check
  (`zgmtls/auto_handshake_server.go:162`): a server that has none would panic; the
  model's configurations have it. Only `NoPanic`, which no run asserts, is about that.
- A peer of `TLSHandshake` that is silent without a deadline: a broken connection gives a
  waiting read EOF.
- Who should win when two goroutines call `SetChannelAuth` for one id: the calls are
  modelled, but no document says what they leave; the id is in `raced` then.
- A connection that is accepted before shutdown and calls `AddChannel` after
  `BaseClose`'s `Range`: it stays open; noted with the hazard of `BaseClose`.
- Methods of `RingBuffer` and `BaseSocket` that nothing in the repository calls on a
  connection's ring (`Peek`, `Read`, `ReadByte`, `ReadFull`, the bufio parsers).
- Of `zgmtls`: the arithmetic of ciphers, MACs, curves and hashes (ideal), X.509, record
  padding and sizes, handshake messages that span records, `TLS_FALLBACK_SCSV`, SCTs in
  the handshake, `GetConfigForClient`, `KeyLogWriter`, deadlines. The two files for the
  build tag `single_cert` (`gm_handshake_client.go`, `gm_handshake_server.go`) are
  not compiled: the double-certificate client has no tag, so that build would define
  its functions twice.
- The parts of section 1 without a module, with the reasons in `PROJECT.json`:
  `zencrypt` and `zbatch` are arithmetic; the other utilities are one lock or wrap a
  library.
