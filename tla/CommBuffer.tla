------------------------------ MODULE CommBuffer ------------------------------
(***************************************************************************)
(* One direction of a plcontainer connection (src/src/common/              *)
(* comm_connectivity.c): the output buffer of the writing process, the     *)
(* socket, and the input buffer of the reading process.  The query         *)
(* executor and the client in the container each own one such direction.   *)
(*                                                                         *)
(* The bytes a process appends are numbered 1, 2, 3, ... so that a lost,   *)
(* repeated, reordered or uninitialised byte is visible in a state.        *)
(***************************************************************************)
EXTENDS Integers, Sequences

CONSTANTS
    PLC_BUFFER_SIZE,      \* initial size of a buffer
    PLC_BUFFER_MIN_FREE,  \* free bytes a resize leaves behind the data
    MaxChunk,             \* largest number of bytes in one append or read
    Chunks,               \* the sizes appends and reads use
    Parts,                \* the byte counts after which a send or recv stops
    MaxBytes              \* bound: how many bytes are ever appended

ASSUME BufferAssumption ==
    /\ PLC_BUFFER_SIZE \in Nat \ {0}
    /\ PLC_BUFFER_MIN_FREE \in Nat \ {0}
    /\ PLC_BUFFER_MIN_FREE < PLC_BUFFER_SIZE
    /\ MaxChunk \in Nat \ {0}
    /\ Chunks \subseteq 1 .. MaxChunk
    /\ Parts \subseteq Nat
    /\ MaxBytes \in Nat

VARIABLES
    out,       \* plcBuffer of the writer (PLC_OUTPUT_BUFFER)
    wire,      \* bytes the kernel holds between the two sockets
    inp,       \* plcBuffer of the reader (PLC_INPUT_BUFFER)
    want,      \* nBytes of the read in progress, 0 when there is none
    appended,  \* how many bytes the writer has appended
    consumed   \* how many bytes the reader has taken out

vars == <<out, wire, inp, want, appended, consumed>>

Junk == 0  \* a byte outside pStart .. pEnd - 1: nobody may use its value

Used(b) == b.pEnd - b.pStart

-----------------------------------------------------------------------------
(* The buffer operations, as functions from a buffer to a buffer. *)

Buffer(bufSize, pStart, pEnd, data) ==
    [bufSize |-> bufSize, pStart |-> pStart, pEnd |-> pEnd, data |-> data]

EmptyBuffer ==
    Buffer(PLC_BUFFER_SIZE, 0, 0, [i \in 0 .. PLC_BUFFER_SIZE - 1 |-> Junk])

\* Variant: the data is moved although it overlaps the front.
ResetMovesEarly(b) == b.pStart # b.pEnd /\ b.pStart > b.bufSize \div 4

\* The data is moved to the front once its start is past the middle.
ResetMoves(b) == b.pStart # b.pEnd /\ b.pStart > b.bufSize \div 2

plcBufferMaybeReset(b) ==
    IF b.pStart = b.pEnd
    THEN Buffer(b.bufSize, 0, 0, b.data)
    ELSE IF ResetMoves(b)
    THEN Buffer(b.bufSize, 0, Used(b),
                [i \in 0 .. b.bufSize - 1 |->
                   IF i < Used(b) THEN b.data[b.pStart + i] ELSE Junk])
    ELSE b

\* Variant: the copy starts at data instead of data + pStart.
ReallocatedFromFront(b, newSize) ==
    Buffer(newSize, 0, Used(b),
           [i \in 0 .. newSize - 1 |-> IF i < Used(b) THEN b.data[i] ELSE Junk])

\* A fresh allocation of newSize bytes that starts with the data of b.
Reallocated(b, newSize) ==
    Buffer(newSize, 0, Used(b),
           [i \in 0 .. newSize - 1 |->
              IF i < Used(b) THEN b.data[b.pStart + i] ELSE Junk])

RoundUp(n) == (n \div PLC_BUFFER_SIZE + 1) * PLC_BUFFER_SIZE

\* Variant: the buffer is never enlarged.
ResizeNeverGrows(b, bufAppend) == b

\* Variant: the new size is added to the old one.
ResizeAdds(b, bufAppend) ==
    LET dataSize == Used(b) + bufAppend + PLC_BUFFER_MIN_FREE
    IN  IF b.pEnd + bufAppend > b.bufSize - PLC_BUFFER_MIN_FREE
        THEN Reallocated(b, b.bufSize + RoundUp(dataSize))
        ELSE b

plcBufferMaybeResize(b, bufAppend) ==
    LET dataSize == Used(b) + bufAppend + PLC_BUFFER_MIN_FREE
    IN  IF dataSize < b.bufSize \div 5 /\ b.bufSize > PLC_BUFFER_SIZE
        THEN Reallocated(b, RoundUp(dataSize * 2))
        ELSE IF b.pEnd + bufAppend > b.bufSize - PLC_BUFFER_MIN_FREE
        THEN Reallocated(b, RoundUp(dataSize))
        ELSE b

\* memcpy, or recv(), of some bytes behind the data of b.
Filled(b, bytes) ==
    Buffer(b.bufSize, b.pStart, b.pEnd + Len(bytes),
           [i \in 0 .. b.bufSize - 1 |->
              IF i \in b.pEnd .. b.pEnd + Len(bytes) - 1
              THEN bytes[i - b.pEnd + 1] ELSE b.data[i]])

\* The next n bytes of the stream.
NextBytes(n) == [i \in 1 .. n |-> appended + i]

\* The first k bytes of the data have been sent, or copied out.
Dropped(b, k) ==
    Buffer(b.bufSize, b.pStart + k, b.pEnd,
           [i \in 0 .. b.bufSize - 1 |->
              IF i < b.pStart + k THEN Junk ELSE b.data[i]])

SentBytes(b, k) == [i \in 1 .. k |-> b.data[b.pStart + i - 1]]

FlushDue(b, isForse) ==
    \/ b.bufSize - b.pEnd < PLC_BUFFER_MIN_FREE
    \/ Used(b) > PLC_BUFFER_SIZE
    \/ isForse

\* plcBufferMaybeFlush when every send() succeeds.
plcBufferMaybeFlush(b, isForse) ==
    IF FlushDue(b, isForse) THEN plcBufferMaybeReset(Dropped(b, Used(b))) ELSE b

\* What a successful plcBufferMaybeFlush puts on the wire.
FlushedBytes(b, isForse) ==
    IF FlushDue(b, isForse) THEN SentBytes(b, Used(b)) ELSE <<>>

-----------------------------------------------------------------------------
Init ==
    /\ out = EmptyBuffer
    /\ inp = EmptyBuffer
    /\ wire = <<>>
    /\ want = 0
    /\ appended = 0
    /\ consumed = 0

NoRoom(b, n) == b.bufSize - b.pEnd < n

\* plcBufferAppend(n) when the sends it may make succeed.
plcBufferAppend(n) ==
    /\ appended + n <= MaxBytes
    /\ IF NoRoom(out, n)
       THEN LET r == plcBufferMaybeReset(out)
                f == plcBufferMaybeFlush(r, FALSE)
            IN  /\ out' = Filled(plcBufferMaybeResize(f, n), NextBytes(n))
                /\ wire' = wire \o FlushedBytes(r, FALSE)
       ELSE /\ out' = Filled(out, NextBytes(n))
            /\ wire' = wire
    /\ appended' = appended + n
    /\ UNCHANGED <<inp, want, consumed>>

\* plcBufferAppend(n) whose flush fails after k bytes: send() returned an
\* error, or raised the interrupt it found pending.  Nothing is appended.
plcBufferAppendFails(n, k) ==
    LET r == plcBufferMaybeReset(out)
    IN  /\ NoRoom(out, n)
        /\ FlushDue(r, FALSE)
        /\ k < Used(r)
        /\ out' = Dropped(r, k)
        /\ wire' = wire \o SentBytes(r, k)
        /\ UNCHANGED <<inp, want, appended, consumed>>

\* plcBufferFlush, at the end of every message.
plcBufferFlush ==
    /\ out' = plcBufferMaybeFlush(out, TRUE)
    /\ wire' = wire \o FlushedBytes(out, TRUE)
    /\ UNCHANGED <<inp, want, appended, consumed>>

plcBufferFlushFails(k) ==
    /\ k < Used(out)
    /\ out' = Dropped(out, k)
    /\ wire' = wire \o SentBytes(out, k)
    /\ UNCHANGED <<inp, want, appended, consumed>>

\* Variant: the input buffer is reset but not enlarged.
ReceiveWithoutResize(n) ==
    /\ want = 0
    /\ want' = n
    /\ inp' = IF Used(inp) < n THEN plcBufferMaybeReset(inp) ELSE inp
    /\ UNCHANGED <<out, wire, appended, consumed>>

\* plcBufferRead(n) enters plcBufferReceive(n).
plcBufferReceive(n) ==
    /\ want = 0
    /\ want' = n
    /\ inp' = IF Used(inp) < n
              THEN plcBufferMaybeResize(plcBufferMaybeReset(inp), n)
              ELSE inp
    /\ UNCHANGED <<out, wire, appended, consumed>>

\* One recv() of the receive loop: the kernel hands over any k bytes it has,
\* at most as many as the call asked for.
RecvRoom == inp.bufSize - inp.pEnd

RecvAll == IF Len(wire) <= RecvRoom THEN Len(wire) ELSE RecvRoom

plcSocketRecv(k) ==
    /\ want > 0
    /\ Used(inp) < want
    /\ k \in 1 .. RecvAll
    /\ inp' = Filled(inp, SubSeq(wire, 1, k))
    /\ wire' = SubSeq(wire, k + 1, Len(wire))
    /\ UNCHANGED <<out, want, appended, consumed>>

\* recv() fails, times out, raises an interrupt or finds the peer gone: the
\* read is given up and what has been received stays in the buffer.
plcBufferReceiveFails ==
    /\ want > 0
    /\ Used(inp) < want
    /\ want' = 0
    /\ UNCHANGED <<out, wire, inp, appended, consumed>>

\* plcBufferRead copies its bytes out.
plcBufferRead ==
    /\ want > 0
    /\ Used(inp) >= want
    /\ inp' = Dropped(inp, want)
    /\ consumed' = consumed + want
    /\ want' = 0
    /\ UNCHANGED <<out, wire, appended>>

Next ==
    \/ \E n \in Chunks : plcBufferAppend(n)
    \/ \E n \in Chunks, k \in Parts : plcBufferAppendFails(n, k)
    \/ plcBufferFlush
    \/ \E k \in Parts : plcBufferFlushFails(k)
    \/ \E n \in Chunks : plcBufferReceive(n)
    \/ \E k \in Parts \cup {RecvAll} : plcSocketRecv(k)
    \/ plcBufferReceiveFails
    \/ plcBufferRead

Spec == Init /\ [][Next]_vars

-----------------------------------------------------------------------------
IsBuffer(b) ==
    /\ b = Buffer(b.bufSize, b.pStart, b.pEnd, b.data)
    /\ b.bufSize \in Nat
    /\ b.pStart \in Nat
    /\ b.pEnd \in Nat
    /\ b.data \in [0 .. b.bufSize - 1 -> Nat]

\* Every variable has its type; a buffer's data is exactly as long as bufSize
\* says (the allocations of plcConnInit and plcBufferMaybeResize).
TypeOK ==
    /\ IsBuffer(out)
    /\ IsBuffer(inp)
    /\ wire \in Seq(Nat)
    /\ want \in Nat
    /\ appended \in Nat
    /\ consumed \in Nat

\* The bytes between the two pointers lie inside the allocation: what the
\* asserts at the end of plcBufferAppend and of plcBufferReceive say, for
\* every sequence of appends, flushes, failures and partial sends.
InBounds(b) == b.pStart <= b.pEnd /\ b.pEnd <= b.bufSize

BoundsOK == InBounds(out) /\ InBounds(inp)

\* The memcpy of plcBufferMaybeReset never has overlapping operands: whenever
\* the data is moved to the front, it is no longer than the space before it
\* (the comment there says "here memcpy is safe").
MoveIsDisjoint ==
    \A b \in {out, inp} : ResetMoves(b) => Used(b) <= b.pStart

\* recv() is always asked for at least as many bytes as the read still needs,
\* so a length of 0, whose answer of 0 bytes would be taken for the peer's
\* shutdown, never happens.
RecvHasRoom ==
    want > Used(inp) => RecvRoom >= want - Used(inp)

\* What is in the input buffer, on the wire and in the output buffer is, in
\* this order, exactly the bytes appended and not yet read: none is lost,
\* repeated, reordered or uninitialised, whatever resets, resizes, partial
\* sends and failures happened on the way.
InputIntact ==
    \A i \in 0 .. Used(inp) - 1 : inp.data[inp.pStart + i] = consumed + i + 1

WireIntact ==
    \A i \in 1 .. Len(wire) : wire[i] = consumed + Used(inp) + i

OutputIntact ==
    \A i \in 0 .. Used(out) - 1 :
        out.data[out.pStart + i] = consumed + Used(inp) + Len(wire) + i + 1

StreamIntact ==
    /\ appended = consumed + Used(inp) + Len(wire) + Used(out)
    /\ InputIntact
    /\ WireIntact
    /\ OutputIntact

\* The buffers do not grow with the stream: one message part of MaxChunk
\* bytes, the data that was waiting and the rounding bound their size.
SizeBounded ==
    /\ out.bufSize <= 2 * PLC_BUFFER_SIZE + MaxChunk + PLC_BUFFER_MIN_FREE
    /\ inp.bufSize <= PLC_BUFFER_SIZE + 2 * MaxChunk + PLC_BUFFER_MIN_FREE

=============================================================================
