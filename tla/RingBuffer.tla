----------------------------- MODULE RingBuffer -----------------------------
(***************************************************************************)
(* znet.RingBuffer, the read buffer of a connection: a ring whose size is  *)
(* a power of two, with a read and a write position that only grow, taken  *)
(* modulo the size.  The methods are operators on a ring record            *)
(*     [buf, size, read, write, max]                                       *)
(* of which the code's mask is size - 1; a method that also returns a      *)
(* result gives a record with the new ring as its field rb.  The byte and  *)
(* operation counters kept for monitoring are left out.  The contents of a *)
(* cell are whatever the user of the module puts there.                    *)
(***************************************************************************)
EXTENDS Integers, Sequences, FiniteSetsExt

CONSTANTS Blank,                  \* the contents of a cleared cell
          defaultRingBufferSize,  \* the size of the pool's rings
          readRingGrowStepBytes,  \* what the read path asks of Grow
          fillStepBytes           \* what WriteFromReader asks of Grow (4096)

\* A power of two is a number whose only odd divisor is 1.
IsPowerOfTwo(n) == n > 0 /\ \A d \in 2..n : n % d = 0 => d % 2 = 0

\* The least power of two that is at least n; the code smears bits to get it.
nextPowerOfTwo64(n) == Min({m \in n..2 * n + 1 : IsPowerOfTwo(m)})

ASSUME SizeAssumption ==
    /\ defaultRingBufferSize \in Nat /\ IsPowerOfTwo(defaultRingBufferSize)
    /\ readRingGrowStepBytes \in Nat \ {0} /\ fillStepBytes \in Nat \ {0}

normalizeRingBufferMaxSize(max) == IF max <= 0 THEN 0 ELSE nextPowerOfTwo64(max)

NewRingBuffer(size, max) ==
    LET n == nextPowerOfTwo64(size) IN
    [buf |-> [i \in 0..n - 1 |-> Blank], size |-> n, read |-> 0, write |-> 0,
     max |-> normalizeRingBufferMaxSize(max)]

DataLen(rb) == rb.write - rb.read
Free(rb) == rb.size - DataLen(rb)
IsEmpty(rb) == rb.read = rb.write
IsFull(rb) == DataLen(rb) = rb.size

Reset(rb) == [rb EXCEPT !.read = 0, !.write = 0, !.buf = [i \in 0..rb.size - 1 |-> Blank]]

SetMaxSize(rb, max) == [rb EXCEPT !.max = normalizeRingBufferMaxSize(max)]

\* The ring taken from the pool: one that PutRingBuffer kept, or a new one.
GetRingBuffer(pooled, max) == SetMaxSize(Reset(pooled), max)

\* PutRingBuffer keeps a ring only if it never grew.
PutRingBufferKeeps(rb) == rb.size = defaultRingBufferSize

----------------------------------------------------------------------------
(* Zero-copy views.                                                         *)

\* The cells from lo to hi - 1.
slice(rb, lo, hi) == [i \in 1..hi - lo |-> rb.buf[lo + i - 1]]

PeekAll(rb) ==
    LET readPos  == rb.read % rb.size
        writePos == rb.write % rb.size
    IN  IF IsEmpty(rb) THEN [first |-> <<>>, second |-> <<>>]
        ELSE IF writePos > readPos THEN [first |-> slice(rb, readPos, writePos), second |-> <<>>]
        ELSE [first |-> slice(rb, readPos, rb.size), second |-> slice(rb, 0, writePos)]

PeekByte(rb, offset) == rb.buf[(rb.read + offset) % rb.size]

\* The two fields of the header that are modelled, as cells.
PeekHeader12(rb, offset) == <<PeekByte(rb, offset), PeekByte(rb, offset + 1)>>

\* A view of length cells from offset: the bounds of one or two slices of the ring.
PeekTwoSlices(rb, offset, length) ==
    LET pos    == (rb.read + offset) % rb.size
        endPos == pos + length
    IN  IF endPos <= rb.size THEN <<<<pos, endPos>>>>
        ELSE <<<<pos, rb.size>>, <<0, length - (rb.size - pos)>>>>

Discard(rb, n) == [rb EXCEPT !.read = @ + n]

----------------------------------------------------------------------------
(* Growing and writing.                                                     *)

\* Mutant: the data is copied from the start of the old array.
movedFromStart(rb, newSize) ==
    [rb EXCEPT !.buf = [i \in 0..newSize - 1 |-> IF i < DataLen(rb) THEN rb.buf[i % rb.size] ELSE Blank],
               !.size = newSize, !.read = 0, !.write = DataLen(rb)]

\* The ring of newSize cells with the unread data at its start.
moved(rb, newSize) ==
    LET all  == PeekAll(rb)
        data == all.first \o all.second
    IN  [rb EXCEPT !.buf = [i \in 0..newSize - 1 |-> IF i < Len(data) THEN data[i + 1] ELSE Blank],
                   !.size = newSize, !.read = 0, !.write = DataLen(rb)]

\* Room for n more.  The size asked for is cut down to the limit, and the
\* answer is then TRUE whether or not n fits.
Grow(rb, n) ==
    LET needed  == nextPowerOfTwo64(DataLen(rb) + n)
        asked   == IF needed > 2 * rb.size THEN needed ELSE 2 * rb.size
        limited == rb.max > 0 /\ asked > rb.max
    IN  IF Free(rb) >= n THEN [ok |-> TRUE, rb |-> rb]
        ELSE IF limited /\ rb.max <= rb.size THEN [ok |-> FALSE, rb |-> rb]
        ELSE [ok |-> TRUE, rb |-> moved(rb, IF limited THEN rb.max ELSE asked)]

\* The cells of rb with p copied in at the write position, its tail at the
\* start of the array.  A p that is longer than the free space overwrites
\* what was not read yet.
stored(rb, p) ==
    LET writePos == rb.write % rb.size
        wrapped  == writePos + Len(p) - rb.size   \* how much of p starts again at 0
    IN  [i \in 0..rb.size - 1 |->
           IF i < wrapped THEN p[Len(p) - wrapped + i + 1]
           ELSE IF i >= writePos /\ i - writePos < Len(p) THEN p[i - writePos + 1]
           ELSE rb.buf[i]]

\* n: how much of p was written; 0 with an unfilled p is ErrBufferFull, less
\* than all of it io.ErrShortWrite.
Write(rb, p) ==
    LET g  == IF Free(rb) < Len(p) THEN Grow(rb, Len(p)) ELSE [ok |-> TRUE, rb |-> rb]
        q  == IF g.ok THEN p ELSE SubSeq(p, 1, Free(rb))
    IN  [n |-> Len(q), rb |-> [g.rb EXCEPT !.buf = stored(g.rb, q), !.write = @ + Len(q)]]

\* What WriteFromReader does before it reads: a full ring has to grow.
makeRoom(rb) == IF IsFull(rb) THEN Grow(rb, fillStepBytes) ELSE [ok |-> TRUE, rb |-> rb]

\* The lengths of the slices WriteFromReader offers to r.Read, the second only
\* when the free space wraps.
readSlices(rb) ==
    LET free     == Free(rb)
        writePos == rb.write % rb.size
    IN  IF writePos + free <= rb.size THEN <<free>>
        ELSE <<rb.size - writePos, free - (rb.size - writePos)>>
=============================================================================
