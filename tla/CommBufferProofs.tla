--------------------------- MODULE CommBufferProofs ---------------------------
(***************************************************************************)
(* Proofs about CommBuffer, for every size of the buffers and every chunk  *)
(* and part: the pointers stay inside the allocation, the move in          *)
(* plcBufferMaybeReset never overlaps, recv() always has room, and no byte *)
(* of the stream is lost, repeated, reordered or uninitialised.            *)
(***************************************************************************)
EXTENDS CommBuffer, SequenceTheorems, TLAPS

\* A buffer whose data is the bytes that follow number base of the stream.
Holds(b, base) ==
    \A i \in 0 .. Used(b) - 1 : b.data[b.pStart + i] = base + i + 1

\* A sequence of the bytes that follow number base of the stream.
Consecutive(s, base) == \A i \in 1 .. Len(s) : s[i] = base + i

WellFormed(b) == IsBuffer(b) /\ InBounds(b)

-----------------------------------------------------------------------------
(* The buffer operations. *)

\* The rounding of plcBufferMaybeResize yields more than it is given.
LEMMA RoundUpExceeds ==
    ASSUME NEW n \in Nat
    PROVE  RoundUp(n) \in Nat /\ RoundUp(n) > n
<1>1. n \div PLC_BUFFER_SIZE \in Nat
  BY BufferAssumption
<1>2. (n \div PLC_BUFFER_SIZE + 1) * PLC_BUFFER_SIZE > n
  BY BufferAssumption
<1>3. (n \div PLC_BUFFER_SIZE + 1) * PLC_BUFFER_SIZE \in Nat
  BY <1>1, BufferAssumption
<1> QED
  BY <1>2, <1>3 DEF RoundUp

\* The operands of the memcpy in plcBufferMaybeReset do not overlap.
LEMMA ResetIsDisjoint ==
    ASSUME NEW b, WellFormed(b), ResetMoves(b)
    PROVE  Used(b) <= b.pStart
BY DEF WellFormed, IsBuffer, Buffer, InBounds, ResetMoves, Used

\* The amount of data in a buffer, pEnd - pStart, is a number within bufSize.
LEMMA UsedType ==
    ASSUME NEW b, WellFormed(b)
    PROVE  Used(b) \in Nat
BY DEF WellFormed, IsBuffer, Buffer, InBounds, Used

\* plcBufferMaybeReset changes where the data is, not what it is.
LEMMA ResetKeepsData ==
    ASSUME NEW b, WellFormed(b), NEW base \in Nat, Holds(b, base)
    PROVE  /\ WellFormed(plcBufferMaybeReset(b))
           /\ Used(plcBufferMaybeReset(b)) = Used(b)
           /\ Holds(plcBufferMaybeReset(b), base)
<1> DEFINE r == plcBufferMaybeReset(b)
<1>1. CASE b.pStart = b.pEnd
  <2>1. r = [bufSize |-> b.bufSize, pStart |-> 0, pEnd |-> 0, data |-> b.data]
    BY <1>1 DEF WellFormed, IsBuffer, Buffer, plcBufferMaybeReset
  <2> QED
    BY <1>1, <2>1 DEF WellFormed, IsBuffer, Buffer, InBounds, Used, Holds
<1>2. CASE ResetMoves(b)
  <2> DEFINE d == [i \in 0 .. b.bufSize - 1 |->
                     IF i < Used(b) THEN b.data[b.pStart + i] ELSE Junk]
  <2>1. r = [bufSize |-> b.bufSize, pStart |-> 0, pEnd |-> Used(b), data |-> d]
    BY <1>2 DEF WellFormed, IsBuffer, Buffer, plcBufferMaybeReset, ResetMoves
  <2>2. d \in [0 .. b.bufSize - 1 -> Nat]
    BY DEF WellFormed, IsBuffer, Buffer, InBounds, Used, Junk
  <2>3. \A i \in 0 .. Used(b) - 1 : d[i] = base + i + 1
    BY DEF WellFormed, IsBuffer, Buffer, InBounds, Used, Holds
  <2> HIDE DEF d, r
  <2> QED
    BY <2>1, <2>2, <2>3 DEF WellFormed, IsBuffer, Buffer, InBounds, Used, Holds, r
<1>3. CASE ~(b.pStart = b.pEnd) /\ ~ResetMoves(b)
  BY <1>3 DEF plcBufferMaybeReset
<1> QED
  BY <1>1, <1>2, <1>3

\* So does a reallocation that is large enough.
LEMMA ReallocatedKeepsData ==
    ASSUME NEW b, WellFormed(b), NEW base \in Nat, Holds(b, base),
           NEW newSize \in Nat, newSize >= Used(b)
    PROVE  /\ WellFormed(Reallocated(b, newSize))
           /\ Used(Reallocated(b, newSize)) = Used(b)
           /\ Holds(Reallocated(b, newSize), base)
<1> DEFINE d == [i \in 0 .. newSize - 1 |->
                   IF i < Used(b) THEN b.data[b.pStart + i] ELSE Junk]
<1>1. Reallocated(b, newSize)
        = [bufSize |-> newSize, pStart |-> 0, pEnd |-> Used(b), data |-> d]
  BY DEF Reallocated, Buffer
<1>2. d \in [0 .. newSize - 1 -> Nat]
  BY DEF WellFormed, IsBuffer, Buffer, InBounds, Used, Junk
<1>3. \A i \in 0 .. Used(b) - 1 : d[i] = base + i + 1
  BY DEF WellFormed, IsBuffer, Buffer, InBounds, Used, Holds
<1> HIDE DEF d
<1>4. Used(b) \in Nat
  BY UsedType
<1> DEFINE r == Reallocated(b, newSize)
<1>5. r.bufSize = newSize /\ r.pStart = 0 /\ r.pEnd = Used(b) /\ r.data = d
  BY <1>1
<1>6. r = Buffer(r.bufSize, r.pStart, r.pEnd, r.data)
  BY <1>1, <1>5 DEF Buffer
<1> HIDE DEF r
<1>7. IsBuffer(r) /\ InBounds(r)
  BY <1>2, <1>4, <1>5, <1>6 DEF IsBuffer, InBounds
<1>8. r.pEnd - r.pStart = Used(b)
  BY <1>4, <1>5
<1>9. Used(r) = Used(b)
  BY <1>8 DEF Used
<1>10. \A i \in 0 .. Used(b) - 1 : r.data[r.pStart + i] = base + i + 1
  BY <1>3, <1>4, <1>5
<1>11. Holds(r, base)
  BY <1>9, <1>10, Zenon DEF Holds
<1> QED
  BY <1>7, <1>9, <1>11 DEF WellFormed, r

\* plcBufferMaybeResize keeps the data and makes room for n more bytes.
LEMMA ResizeMakesRoom ==
    ASSUME NEW b, WellFormed(b), NEW base \in Nat, Holds(b, base), NEW n \in Nat
    PROVE  LET r == plcBufferMaybeResize(b, n)
           IN  /\ WellFormed(r)
               /\ Used(r) = Used(b)
               /\ Holds(r, base)
               /\ r.pEnd + n <= r.bufSize
<1> DEFINE dataSize == Used(b) + n + PLC_BUFFER_MIN_FREE
<1>1. dataSize \in Nat /\ dataSize >= Used(b) + n /\ Used(b) \in Nat
  BY UsedType, BufferAssumption
<1>2. ASSUME NEW s \in Nat, s > dataSize
      PROVE  /\ WellFormed(Reallocated(b, s))
             /\ Used(Reallocated(b, s)) = Used(b)
             /\ Holds(Reallocated(b, s), base)
             /\ Reallocated(b, s).pEnd + n <= Reallocated(b, s).bufSize
  <2>1. s >= Used(b)
    BY <1>1, <1>2
  <2>2. Reallocated(b, s).pEnd = Used(b) /\ Reallocated(b, s).bufSize = s
    BY DEF Reallocated, Buffer
  <2> QED
    BY <2>1, <2>2, <1>1, <1>2, ReallocatedKeepsData
<1>3. RoundUp(dataSize) \in Nat /\ RoundUp(dataSize) > dataSize
  BY <1>1, RoundUpExceeds
<1>4. RoundUp(dataSize * 2) \in Nat /\ RoundUp(dataSize * 2) > dataSize
  <2>1. dataSize * 2 \in Nat /\ dataSize * 2 >= dataSize
    BY <1>1
  <2> HIDE DEF dataSize
  <2>2. RoundUp(dataSize * 2) \in Nat /\ RoundUp(dataSize * 2) > dataSize * 2
    BY <2>1, RoundUpExceeds
  <2> QED
    BY <1>1, <2>1, <2>2
<1>5. CASE plcBufferMaybeResize(b, n) = Reallocated(b, RoundUp(dataSize * 2))
  BY <1>2, <1>4, <1>5
<1>6. CASE plcBufferMaybeResize(b, n) = Reallocated(b, RoundUp(dataSize))
  BY <1>2, <1>3, <1>6
<1>7. CASE plcBufferMaybeResize(b, n) = b /\ ~(b.pEnd + n > b.bufSize - PLC_BUFFER_MIN_FREE)
  BY <1>7, BufferAssumption DEF WellFormed, IsBuffer, Buffer
<1> QED
  BY <1>5, <1>6, <1>7 DEF plcBufferMaybeResize

\* Bytes copied behind the data continue the stream.
LEMMA FilledExtends ==
    ASSUME NEW b, WellFormed(b), NEW base \in Nat, Holds(b, base),
           NEW s \in Seq(Nat), Consecutive(s, base + Used(b)),
           b.pEnd + Len(s) <= b.bufSize
    PROVE  /\ WellFormed(Filled(b, s))
           /\ Used(Filled(b, s)) = Used(b) + Len(s)
           /\ Holds(Filled(b, s), base)
           /\ Filled(b, s).bufSize = b.bufSize
           /\ Filled(b, s).pEnd = b.pEnd + Len(s)
<1>1. PICK sz \in Nat, p \in Nat, q \in Nat, n \in Nat :
        /\ b.bufSize = sz /\ b.pStart = p /\ b.pEnd = q /\ n = Len(s)
        /\ b.data \in [0 .. sz - 1 -> Nat]
        /\ p <= q /\ q <= sz
  <2>1. b.bufSize \in Nat /\ b.pStart \in Nat /\ b.pEnd \in Nat
    BY DEF WellFormed, IsBuffer
  <2>2. b.data \in [0 .. b.bufSize - 1 -> Nat]
    BY DEF WellFormed, IsBuffer
  <2>3. b.pStart <= b.pEnd /\ b.pEnd <= b.bufSize
    BY DEF WellFormed, InBounds
  <2>4. Len(s) \in Nat
    OBVIOUS
  <2> QED
    BY <2>1, <2>2, <2>3, <2>4, Zenon
<1> DEFINE d == [i \in 0 .. sz - 1 |->
                   IF i \in q .. q + n - 1 THEN s[i - q + 1] ELSE b.data[i]]
<1>2. Filled(b, s) = [bufSize |-> sz, pStart |-> p, pEnd |-> q + n, data |-> d]
  BY <1>1 DEF Filled, Buffer
<1>3. p <= q /\ q + n <= sz /\ Used(b) = q - p
  BY <1>1 DEF Used
<1>4. \A i \in 1 .. n : s[i] = base + (q - p) + i /\ s[i] \in Nat
  <2>1. \A i \in 1 .. Len(s) : s[i] = base + Used(b) + i
    BY DEF Consecutive
  <2>2. \A i \in 1 .. n : s[i] = base + (q - p) + i
    BY <1>1, <1>3, <2>1
  <2>3. \A i \in 1 .. n : s[i] \in Nat
    BY <1>1
  <2> QED
    BY <2>2, <2>3
<1>5. \A i \in 0 .. (q - p) - 1 : b.data[p + i] = base + i + 1
  BY <1>1, <1>3 DEF Holds
<1>6. d \in [0 .. sz - 1 -> Nat]
  <2> SUFFICES ASSUME NEW i \in 0 .. sz - 1
               PROVE  (IF i \in q .. q + n - 1 THEN s[i - q + 1] ELSE b.data[i]) \in Nat
    OBVIOUS
  <2>1. CASE i \in q .. q + n - 1
    <3>1. i - q + 1 \in 1 .. n
      BY <2>1
    <3> QED
      BY <1>4, <2>1, <3>1
  <2>2. CASE i \notin q .. q + n - 1
    BY <1>1, <2>2
  <2> QED
    BY <2>1, <2>2
<1>7. \A i \in 0 .. (q + n - p) - 1 : d[p + i] = base + i + 1
  <2> SUFFICES ASSUME NEW i \in 0 .. (q + n - p) - 1
               PROVE  d[p + i] = base + i + 1
    OBVIOUS
  <2>1. p + i \in 0 .. sz - 1
    <3> HIDE DEF d
    <3>1. i <= (q + n - p) - 1
      OBVIOUS
    <3>2. p + i <= sz - 1
      BY <1>3, <3>1
    <3> QED
      BY <3>2
  <2>2. CASE i < q - p
    <3>1. p + i \notin q .. q + n - 1 /\ i \in 0 .. (q - p) - 1
      BY <2>2
    <3> QED
      BY <1>5, <2>1, <3>1
  <2>3. CASE ~(i < q - p)
    <3>1. p + i \in q .. q + n - 1
      BY <2>3
    <3>2. d[p + i] = s[(p + i) - q + 1]
      BY <2>1, <3>1
    <3> HIDE DEF d
    <3>3. (p + i) - q + 1 \in 1 .. n /\ base + (q - p) + ((p + i) - q + 1) = base + i + 1
      BY <3>1
    <3> QED
      BY <1>4, <3>2, <3>3
  <2> QED
    BY <2>2, <2>3
<1> HIDE DEF d
<1>8. Used(Filled(b, s)) = q + n - p
  BY <1>2 DEF Used
<1>9. WellFormed(Filled(b, s))
  <2> DEFINE r == Filled(b, s)
  <2>1. r.bufSize = sz /\ r.pStart = p /\ r.pEnd = q + n /\ r.data = d
    BY <1>2
  <2>2. r = Buffer(r.bufSize, r.pStart, r.pEnd, r.data)
    BY <1>2, <2>1 DEF Buffer
  <2>3. q + n \in Nat /\ p <= q + n
    BY <1>3
  <2> HIDE DEF r
  <2>4. IsBuffer(r)
    BY <1>6, <2>1, <2>2, <2>3 DEF IsBuffer
  <2>5. InBounds(r)
    BY <1>3, <2>1, <2>3 DEF InBounds
  <2> QED
    BY <2>4, <2>5 DEF WellFormed, r
<1>10. Holds(Filled(b, s), base)
  <2>1. Filled(b, s).data = d /\ Filled(b, s).pStart = p
    BY <1>2
  <2> QED
    BY <1>7, <1>8, <2>1 DEF Holds
<1> QED
  BY <1>1, <1>2, <1>3, <1>8, <1>9, <1>10

\* The bytes plcBufferAppend is given are the next ones of the stream.
LEMMA NextBytesExtend ==
    ASSUME NEW n \in Nat, appended \in Nat
    PROVE  /\ NextBytes(n) \in Seq(Nat)
           /\ Len(NextBytes(n)) = n
           /\ Consecutive(NextBytes(n), appended)
<1>1. NextBytes(n) \in [1 .. n -> Nat]
  BY DEF NextBytes
<1>2. NextBytes(n) \in Seq(Nat) /\ Len(NextBytes(n)) = n
  BY <1>1
<1> QED
  BY <1>2 DEF NextBytes, Consecutive

\* Dropping k bytes leaves the data that follows them.
LEMMA DroppedKeepsRest ==
    ASSUME NEW b, WellFormed(b), NEW base \in Nat, Holds(b, base),
           NEW k \in Nat, k <= Used(b)
    PROVE  /\ WellFormed(Dropped(b, k))
           /\ Used(Dropped(b, k)) = Used(b) - k
           /\ Holds(Dropped(b, k), base + k)
           /\ Dropped(b, k).bufSize = b.bufSize
<1> DEFINE d == [i \in 0 .. b.bufSize - 1 |->
                   IF i < b.pStart + k THEN Junk ELSE b.data[i]]
<1>1. Dropped(b, k) = [bufSize |-> b.bufSize, pStart |-> b.pStart + k, pEnd |-> b.pEnd,
                       data |-> d]
  BY DEF WellFormed, IsBuffer, Buffer, Dropped
<1>2. d \in [0 .. b.bufSize - 1 -> Nat]
  BY DEF WellFormed, IsBuffer, Buffer, InBounds, Used, Junk
<1>3. \A i \in 0 .. (b.pEnd - (b.pStart + k)) - 1 :
        d[(b.pStart + k) + i] = (base + k) + i + 1
  <2> SUFFICES ASSUME NEW i \in 0 .. (b.pEnd - (b.pStart + k)) - 1
               PROVE  d[(b.pStart + k) + i] = (base + k) + i + 1
    OBVIOUS
  <2>1. k + i \in 0 .. Used(b) - 1 /\ b.pStart + (k + i) = (b.pStart + k) + i
    BY DEF WellFormed, IsBuffer, Buffer, InBounds, Used
  <2>2. b.data[(b.pStart + k) + i] = base + (k + i) + 1
    BY <2>1 DEF Holds
  <2>3. d[(b.pStart + k) + i] = b.data[(b.pStart + k) + i]
    <3>1. /\ b.pStart \in Nat /\ b.pEnd \in Nat /\ b.bufSize \in Nat
          /\ b.pEnd <= b.bufSize
      BY DEF WellFormed, IsBuffer, InBounds
    <3>2. (b.pStart + k) + i \in 0 .. b.bufSize - 1 /\ ~((b.pStart + k) + i < b.pStart + k)
      <4> HIDE DEF d
      <4> QED
        BY <3>1
    <3> QED
      BY <3>2
  <2> QED
    BY <2>2, <2>3
<1> HIDE DEF d
<1> QED
  BY <1>1, <1>2, <1>3 DEF WellFormed, IsBuffer, Buffer, InBounds, Used, Holds

\* What send() takes from the buffer is the next k bytes of the stream.
LEMMA SentIsStream ==
    ASSUME NEW b, WellFormed(b), NEW base \in Nat, Holds(b, base),
           NEW k \in Nat, k <= Used(b)
    PROVE  /\ SentBytes(b, k) \in Seq(Nat)
           /\ Len(SentBytes(b, k)) = k
           /\ \A i \in 1 .. k : SentBytes(b, k)[i] = base + i
<1>1. \A i \in 1 .. k : b.data[b.pStart + i - 1] = base + i
  <2> SUFFICES ASSUME NEW i \in 1 .. k
               PROVE  b.data[b.pStart + i - 1] = base + i
    OBVIOUS
  <2>1. i - 1 \in 0 .. Used(b) - 1 /\ b.pStart + (i - 1) = b.pStart + i - 1
    BY DEF WellFormed, IsBuffer, Buffer, InBounds, Used
  <2> QED
    BY <2>1 DEF Holds
<1>2. \A i \in 1 .. k : base + i \in Nat
  OBVIOUS
<1> QED
  BY <1>1, <1>2 DEF SentBytes

\* A flush puts the front of the buffer on the wire and keeps the rest.
LEMMA FlushMovesData ==
    ASSUME NEW b, WellFormed(b), NEW base \in Nat, Holds(b, base),
           NEW isForse \in BOOLEAN
    PROVE  LET f == plcBufferMaybeFlush(b, isForse)
               s == FlushedBytes(b, isForse)
           IN  /\ WellFormed(f)
               /\ s \in Seq(Nat)
               /\ Used(f) \in Nat
               /\ Used(f) + Len(s) = Used(b)
               /\ Holds(f, base + Len(s))
               /\ \A i \in 1 .. Len(s) : s[i] = base + i
<1>1. Used(b) \in Nat
  BY UsedType
<1>2. CASE FlushDue(b, isForse)
  <2> DEFINE d == Dropped(b, Used(b))
  <2>1. WellFormed(d) /\ Used(d) = 0 /\ Holds(d, base + Used(b))
    BY <1>1, DroppedKeepsRest
  <2>2. base + Used(b) \in Nat
    BY <1>1
  <2> HIDE DEF d
  <2>3. /\ WellFormed(plcBufferMaybeReset(d))
        /\ Used(plcBufferMaybeReset(d)) = 0
        /\ Holds(plcBufferMaybeReset(d), base + Used(b))
    BY <2>1, <2>2, ResetKeepsData
  <2>4. plcBufferMaybeFlush(b, isForse) = plcBufferMaybeReset(d)
    BY <1>2 DEF plcBufferMaybeFlush, d
  <2>5. FlushedBytes(b, isForse) = SentBytes(b, Used(b))
    BY <1>2 DEF FlushedBytes
  <2>6. /\ SentBytes(b, Used(b)) \in Seq(Nat)
        /\ Len(SentBytes(b, Used(b))) = Used(b)
        /\ \A i \in 1 .. Used(b) : SentBytes(b, Used(b))[i] = base + i
    <3>1. Used(b) <= Used(b)
      BY <1>1
    <3> QED
      BY <1>1, <3>1, SentIsStream, Zenon
  <2> QED
    BY <1>1, <2>3, <2>4, <2>5, <2>6
<1>3. CASE ~FlushDue(b, isForse)
  BY <1>1, <1>3 DEF plcBufferMaybeFlush, FlushedBytes
<1> QED
  BY <1>2, <1>3

-----------------------------------------------------------------------------
(* The wire. *)

\* Two adjacent pieces of the stream are one piece: what is on the wire and
\* what send() adds to it.
LEMMA ConcatIsConsecutive ==
    ASSUME NEW w \in Seq(Nat), NEW s \in Seq(Nat), NEW base \in Nat,
           Consecutive(w, base), Consecutive(s, base + Len(w))
    PROVE  /\ w \o s \in Seq(Nat)
           /\ Len(w \o s) = Len(w) + Len(s)
           /\ Consecutive(w \o s, base)
<1>1. w \o s \in Seq(Nat) /\ Len(w \o s) = Len(w) + Len(s)
  BY ConcatProperties
<1>2. \A i \in 1 .. Len(w) + Len(s) :
        (w \o s)[i] = IF i <= Len(w) THEN w[i] ELSE s[i - Len(w)]
  BY ConcatProperties
<1>3. ASSUME NEW i \in 1 .. Len(w) + Len(s)
      PROVE  (w \o s)[i] = base + i
  <2>1. CASE i <= Len(w)
    BY <1>2, <2>1 DEF Consecutive
  <2>2. CASE ~(i <= Len(w))
    <3>1. i - Len(w) \in 1 .. Len(s)
      BY <2>2
    <3>2. s[i - Len(w)] = (base + Len(w)) + (i - Len(w))
      BY <3>1 DEF Consecutive
    <3> QED
      BY <1>2, <2>2, <3>2
  <2> QED
    BY <2>1, <2>2
<1> QED
  BY <1>1, <1>3 DEF Consecutive

\* What recv() leaves on the wire is still a piece of the stream.
LEMMA RestIsConsecutive ==
    ASSUME NEW w \in Seq(Nat), NEW base \in Nat, Consecutive(w, base),
           NEW k \in Nat, k <= Len(w)
    PROVE  LET r == SubSeq(w, k + 1, Len(w))
           IN  r \in Seq(Nat) /\ Len(r) = Len(w) - k /\ Consecutive(r, base + k)
<1> DEFINE r == SubSeq(w, k + 1, Len(w))
<1>1. r \in Seq(Nat) /\ Len(r) = Len(w) - k
  BY SubSeqProperties
<1>2. \A i \in 1 .. Len(w) - k : r[i] = w[k + i]
  BY SubSeqProperties
<1>3. ASSUME NEW i \in 1 .. Len(w) - k
      PROVE  r[i] = (base + k) + i
  <2>1. k + i \in 1 .. Len(w)
    OBVIOUS
  <2>2. w[k + i] = base + (k + i)
    BY <2>1 DEF Consecutive
  <2> QED
    BY <1>2, <2>2
<1> QED
  BY <1>1, <1>3, SMTT(20) DEF Consecutive

-----------------------------------------------------------------------------
(* The inductive invariant. *)

IInv ==
    /\ WellFormed(out)
    /\ WellFormed(inp)
    /\ wire \in Seq(Nat)
    /\ want \in Nat
    /\ consumed \in Nat
    /\ appended = consumed + Used(inp) + Len(wire) + Used(out)
    /\ Holds(inp, consumed)
    /\ Consecutive(wire, consumed + Used(inp))
    /\ Holds(out, consumed + Used(inp) + Len(wire))
    /\ RecvHasRoom

\* plcConnInit: empty buffers satisfy the inductive invariant.
LEMMA InitEstablishes == Init => IInv
<1> SUFFICES ASSUME Init PROVE IInv
  OBVIOUS
<1>1. WellFormed(EmptyBuffer) /\ Used(EmptyBuffer) = 0
  BY BufferAssumption DEF EmptyBuffer, WellFormed, IsBuffer, Buffer, InBounds, Used, Junk
<1>2. \A base : Holds(EmptyBuffer, base)
  BY <1>1 DEF Holds
<1>3. wire \in Seq(Nat) /\ Len(wire) = 0
  BY DEF Init
<1>4. Consecutive(wire, consumed + Used(inp))
  BY <1>3 DEF Consecutive
<1> QED
  BY <1>1, <1>2, <1>3, <1>4 DEF Init, IInv, RecvHasRoom

\* The writer's steps: the data of the buffer and of the wire taken together
\* stay the same, or n bytes are appended to them.
LEMMA WriterStep ==
    ASSUME IInv, NEW s \in Seq(Nat),
           WellFormed(out'), wire' = wire \o s,
           Consecutive(s, consumed + Used(inp) + Len(wire)),
           Holds(out', consumed + Used(inp) + Len(wire) + Len(s)),
           appended' = consumed + Used(inp) + Len(wire) + Len(s) + Used(out'),
           UNCHANGED <<inp, want, consumed>>
    PROVE  IInv'
<1> DEFINE base == consumed + Used(inp)
<1>1. base \in Nat /\ Used(inp) \in Nat
  BY UsedType DEF IInv
<1>2. /\ wire' \in Seq(Nat)
      /\ Len(wire') = Len(wire) + Len(s)
      /\ Consecutive(wire', base)
  BY <1>1, ConcatIsConsecutive DEF IInv
<1>3. consumed + Used(inp) + Len(wire') = consumed + Used(inp) + Len(wire) + Len(s)
  BY <1>1, <1>2 DEF IInv
<1>4. /\ Holds(out', consumed + Used(inp) + Len(wire'))
      /\ appended' = consumed + Used(inp) + Len(wire') + Used(out')
  BY <1>3
<1> QED
  BY <1>2, <1>4
  DEF IInv, Holds, Consecutive, WellFormed, IsBuffer, InBounds, RecvHasRoom, RecvRoom, Used

\* A flush that fails after k bytes has put exactly these on the wire.
LEMMA PartlySent ==
    ASSUME IInv, NEW b, WellFormed(b), Used(b) = Used(out),
           Holds(b, consumed + Used(inp) + Len(wire)),
           NEW k \in Parts, k < Used(b),
           out' = Dropped(b, k), wire' = wire \o SentBytes(b, k),
           UNCHANGED <<inp, want, appended, consumed>>
    PROVE  IInv'
<1> DEFINE base == consumed + Used(inp) + Len(wire)
           s == SentBytes(b, k)
<1>1. base \in Nat /\ Used(out) \in Nat /\ k \in Nat /\ k <= Used(b)
      /\ appended = base + Used(out) /\ Holds(b, base)
  BY UsedType, BufferAssumption DEF IInv
<1> HIDE DEF base
<1>2. s \in Seq(Nat) /\ Len(s) = k /\ \A i \in 1 .. k : s[i] = base + i
  BY <1>1, SentIsStream
<1>3. WellFormed(out') /\ Used(out') = Used(b) - k /\ Holds(out', base + k)
  BY <1>1, DroppedKeepsRest
<1> HIDE DEF s
<1>4. appended' = base + Len(s) + Used(out')
  BY <1>1, <1>2, <1>3
<1> QED
  BY <1>2, <1>3, <1>4, WriterStep DEF base, s, Consecutive

\* A recv() of k bytes moves them from the wire into the input buffer.
LEMMA RecvStep ==
    ASSUME IInv, NEW k, plcSocketRecv(k)
    PROVE  IInv'
<1> DEFINE s == SubSeq(wire, 1, k)
<1>1. /\ WellFormed(inp) /\ Holds(inp, consumed)
      /\ inp.bufSize \in Nat /\ inp.pEnd \in Nat /\ Used(inp) \in Nat
      /\ wire \in Seq(Nat) /\ Len(wire) \in Nat /\ consumed \in Nat /\ want \in Nat
      /\ consumed + Used(inp) \in Nat
      /\ Consecutive(wire, consumed + Used(inp))
  <2>1. /\ WellFormed(inp) /\ Holds(inp, consumed) /\ wire \in Seq(Nat)
        /\ consumed \in Nat /\ want \in Nat /\ Consecutive(wire, consumed + Used(inp))
    BY DEF IInv
  <2>2. inp.bufSize \in Nat /\ inp.pEnd \in Nat
    BY <2>1 DEF WellFormed, IsBuffer
  <2> QED
    BY <2>1, <2>2, UsedType
<1>2. k \in Nat /\ k <= Len(wire) /\ inp.pEnd + k <= inp.bufSize
  <2>1. k \in 1 .. RecvAll
    BY DEF plcSocketRecv
  <2>2. /\ RecvAll \in Int /\ RecvAll <= Len(wire) /\ RecvAll <= inp.bufSize - inp.pEnd
    BY <1>1 DEF RecvAll, RecvRoom
  <2>3. k \in Nat /\ k <= RecvAll
    BY <2>1, <2>2
  <2>4. k <= Len(wire)
    BY <1>1, <2>2, <2>3
  <2>5. inp.pEnd + k <= inp.bufSize
    BY <1>1, <2>2, <2>3
  <2> QED
    BY <2>3, <2>4, <2>5
<1>3. /\ inp' = Filled(inp, s)
      /\ wire' = SubSeq(wire, k + 1, Len(wire))
      /\ UNCHANGED <<out, want, appended, consumed>>
  BY DEF plcSocketRecv
<1>4. s \in Seq(Nat) /\ Len(s) = k /\ \A i \in 1 .. k : s[i] = wire[i]
  BY <1>1, <1>2, SubSeqProperties, SMTT(20)
<1>5. Consecutive(s, consumed + Used(inp))
  BY <1>1, <1>2, <1>4 DEF Consecutive
<1> HIDE DEF s
<1>6. /\ WellFormed(inp') /\ Used(inp') = Used(inp) + k /\ Holds(inp', consumed)
      /\ inp'.bufSize = inp.bufSize /\ inp'.pEnd = inp.pEnd + k
  BY <1>1, <1>2, <1>3, <1>4, <1>5, FilledExtends
<1>7. /\ wire' \in Seq(Nat) /\ Len(wire') = Len(wire) - k
      /\ Consecutive(wire', (consumed + Used(inp)) + k)
  BY <1>1, <1>2, <1>3, RestIsConsecutive
<1>8. /\ consumed + Used(inp') = (consumed + Used(inp)) + k
      /\ consumed + Used(inp') + Len(wire') = consumed + Used(inp) + Len(wire)
  <2>1. /\ Used(inp) \in Nat /\ Len(wire) \in Nat /\ consumed \in Nat /\ k \in Nat
        /\ Used(inp') = Used(inp) + k /\ Len(wire') = Len(wire) - k
    BY <1>1, <1>2, <1>6, <1>7
  <2>2. consumed + Used(inp') = (consumed + Used(inp)) + k
    BY <2>1
  <2> QED
    BY <2>1, <2>2
<1>9. want > Used(inp') => inp'.bufSize - inp'.pEnd >= want - Used(inp')
  <2>1. want > Used(inp) => inp.bufSize - inp.pEnd >= want - Used(inp)
    BY DEF IInv, RecvHasRoom, RecvRoom
  <2>2. /\ inp'.bufSize - inp'.pEnd = (inp.bufSize - inp.pEnd) - k
        /\ want - Used(inp') = (want - Used(inp)) - k
    BY <1>1, <1>2, <1>6, SMTT(20)
  <2>3. want > Used(inp') => want > Used(inp)
    BY <1>1, <1>2, <1>6
  <2> HIDE DEF s
  <2> QED
    BY <1>1, <1>2, <2>1, <2>2, <2>3
<1>10. RecvHasRoom'
  BY <1>3, <1>9 DEF RecvHasRoom, RecvRoom, Used
<1>11. WellFormed(out)' /\ Holds(out, consumed + Used(inp) + Len(wire))'
  BY <1>3, <1>8 DEF IInv, WellFormed, IsBuffer, InBounds, Holds, Used
<1> QED
  BY <1>3, <1>6, <1>7, <1>8, <1>10, <1>11
  DEF IInv, Used, WellFormed, IsBuffer, InBounds, Holds, Consecutive

\* Every operation on the buffers keeps the inductive invariant.
LEMMA NextPreserves == IInv /\ [Next]_vars => IInv'
<1> SUFFICES ASSUME IInv, [Next]_vars PROVE IInv'
  OBVIOUS
<1> DEFINE base == consumed + Used(inp) + Len(wire)
<1>0. /\ WellFormed(out) /\ WellFormed(inp) /\ wire \in Seq(Nat) /\ want \in Nat
      /\ consumed \in Nat /\ Used(inp) \in Nat /\ Used(out) \in Nat
      /\ consumed + Used(inp) \in Nat /\ base \in Nat
      /\ Holds(inp, consumed) /\ Holds(out, base)
      /\ Consecutive(wire, consumed + Used(inp))
      /\ appended = base + Used(out)
  BY UsedType DEF IInv
<1>e. /\ <<>> \in Seq(Nat) /\ Len(<<>>) = 0 /\ wire \o <<>> = wire
      /\ \A b : Consecutive(<<>>, b)
  BY <1>0, ConcatEmptySeq DEF Consecutive
<1> HIDE DEF base
<1>1. ASSUME NEW n \in Chunks, plcBufferAppend(n) PROVE IInv'
  <2>0. /\ n \in Nat /\ NextBytes(n) \in Seq(Nat) /\ Len(NextBytes(n)) = n
        /\ Consecutive(NextBytes(n), appended)
    <3>1. n \in Nat /\ appended \in Nat
      BY <1>0, BufferAssumption
    <3> QED
      BY <3>1, NextBytesExtend
  <2>1. CASE NoRoom(out, n)
    <3> DEFINE r == plcBufferMaybeReset(out)
               f == plcBufferMaybeFlush(r, FALSE)
               s == FlushedBytes(r, FALSE)
               z == plcBufferMaybeResize(f, n)
    <3>1. WellFormed(r) /\ Used(r) = Used(out) /\ Holds(r, base)
      BY <1>0, ResetKeepsData
    <3>2. out' = Filled(z, NextBytes(n)) /\ wire' = wire \o s
      BY <1>1, <2>1 DEF plcBufferAppend
    <3>3. appended' = appended + n /\ UNCHANGED <<inp, want, consumed>>
      BY <1>1 DEF plcBufferAppend
    <3> HIDE DEF r
    <3>4. /\ WellFormed(f) /\ s \in Seq(Nat) /\ Used(f) \in Nat
          /\ Used(f) + Len(s) = Used(r)
          /\ Holds(f, base + Len(s)) /\ \A i \in 1 .. Len(s) : s[i] = base + i
      BY <1>0, <3>1, FlushMovesData
    <3> HIDE DEF f, s
    <3>5. base + Len(s) \in Nat
      BY <1>0, <3>4
    <3>6. /\ WellFormed(z) /\ Used(z) = Used(f) /\ Holds(z, base + Len(s))
          /\ z.pEnd + n <= z.bufSize
      BY <2>0, <3>4, <3>5, ResizeMakesRoom
    <3> HIDE DEF z
    <3>7. appended = (base + Len(s)) + Used(z)
      BY <1>0, <3>1, <3>4, <3>6
    <3>8. /\ WellFormed(out') /\ Used(out') = Used(z) + n
          /\ Holds(out', base + Len(s))
      BY <2>0, <3>2, <3>5, <3>6, <3>7, FilledExtends
    <3>9. appended' = base + Len(s) + Used(out')
      BY <2>0, <3>3, <3>4, <3>5, <3>6, <3>7, <3>8
    <3> QED
      BY <3>2, <3>3, <3>4, <3>8, <3>9, WriterStep DEF base, Consecutive
  <2>2. CASE ~NoRoom(out, n)
    <3>1. /\ out' = Filled(out, NextBytes(n)) /\ wire' = wire \o <<>>
          /\ appended' = appended + n /\ UNCHANGED <<inp, want, consumed>>
      BY <1>1, <2>2, <1>e DEF plcBufferAppend
    <3>2. out.pEnd + n <= out.bufSize
      <4>1. out.pEnd \in Nat /\ out.bufSize \in Nat
        BY <1>0 DEF WellFormed, IsBuffer
      <4> QED
        BY <2>0, <2>2, <4>1 DEF NoRoom
    <3>3. /\ WellFormed(out') /\ Used(out') = Used(out) + n /\ Holds(out', base)
      BY <1>0, <2>0, <3>1, <3>2, FilledExtends
    <3>4. base + Len(<<>>) = base
      BY <1>0, <1>e
    <3>5. appended' = base + Len(<<>>) + Used(out')
      BY <1>0, <2>0, <3>1, <3>3, <3>4
    <3> QED
      BY <1>e, <3>1, <3>3, <3>4, <3>5, WriterStep DEF base
  <2> QED
    BY <2>1, <2>2
<1>2. ASSUME NEW n \in Chunks, NEW k \in Parts, plcBufferAppendFails(n, k)
      PROVE  IInv'
  <2> DEFINE r == plcBufferMaybeReset(out)
  <2>1. WellFormed(r) /\ Used(r) = Used(out) /\ Holds(r, base)
    BY <1>0, ResetKeepsData
  <2>2. /\ k < Used(r) /\ out' = Dropped(r, k) /\ wire' = wire \o SentBytes(r, k)
        /\ UNCHANGED <<inp, want, appended, consumed>>
    BY <1>2 DEF plcBufferAppendFails
  <2> HIDE DEF r
  <2> QED
    BY <1>0, <1>2, <2>1, <2>2, PartlySent DEF base
<1>3. ASSUME plcBufferFlush PROVE IInv'
  <2> DEFINE s == FlushedBytes(out, TRUE)
  <2>1. /\ WellFormed(out') /\ s \in Seq(Nat) /\ Used(out') \in Nat
        /\ Used(out') + Len(s) = Used(out)
        /\ Holds(out', base + Len(s)) /\ \A i \in 1 .. Len(s) : s[i] = base + i
    BY <1>0, <1>3, FlushMovesData DEF plcBufferFlush
  <2>2. wire' = wire \o s /\ UNCHANGED <<inp, want, appended, consumed>>
    BY <1>3 DEF plcBufferFlush
  <2> HIDE DEF s
  <2>3. appended' = base + Len(s) + Used(out')
    BY <1>0, <2>1, <2>2
  <2> QED
    BY <2>1, <2>2, <2>3, WriterStep DEF base, Consecutive
<1>4. ASSUME NEW k \in Parts, plcBufferFlushFails(k) PROVE IInv'
  BY <1>0, <1>4, PartlySent DEF base, plcBufferFlushFails
<1>5. ASSUME NEW n \in Chunks, plcBufferReceive(n) PROVE IInv'
  <2>0. n \in Nat
    BY BufferAssumption
  <2>1. UNCHANGED <<out, wire, appended, consumed>> /\ want' = n
    BY <1>5 DEF plcBufferReceive
  <2>2. CASE Used(inp) < n
    <3> DEFINE r == plcBufferMaybeReset(inp)
    <3>1. WellFormed(r) /\ Used(r) = Used(inp) /\ Holds(r, consumed)
      BY <1>0, ResetKeepsData
    <3>2. inp' = plcBufferMaybeResize(r, n)
      BY <1>5, <2>2 DEF plcBufferReceive
    <3> HIDE DEF r
    <3>3. /\ WellFormed(inp') /\ Used(inp') = Used(inp) /\ Holds(inp', consumed)
          /\ inp'.pEnd + n <= inp'.bufSize
      BY <1>0, <2>0, <3>1, <3>2, ResizeMakesRoom
    <3>4. want' > Used(inp') => inp'.bufSize - inp'.pEnd >= want' - Used(inp')
      <4>1. inp'.pEnd \in Nat /\ inp'.bufSize \in Nat
        BY <3>3 DEF WellFormed, IsBuffer
      <4>2. want' = n /\ Used(inp') \in Nat /\ inp'.pEnd + n <= inp'.bufSize
        BY <1>0, <2>1, <3>3
      <4>3. inp'.bufSize - inp'.pEnd >= n - Used(inp')
        BY <2>0, <4>1, <4>2
      <4> QED
        BY <4>2, <4>3
    <3>5. RecvHasRoom'
      BY <3>4 DEF RecvHasRoom, RecvRoom, Used
    <3> QED
      BY <2>0, <2>1, <3>3, <3>5
      DEF IInv, Used, WellFormed, IsBuffer, InBounds, Holds, Consecutive
  <2>3. CASE ~(Used(inp) < n)
    <3>1. inp' = inp
      BY <1>5, <2>3 DEF plcBufferReceive
    <3>2. ~(want' > Used(inp'))
      BY <1>0, <2>0, <2>1, <2>3, <3>1
    <3> QED
      BY <2>0, <2>1, <3>1, <3>2
      DEF IInv, RecvHasRoom, RecvRoom, Used, WellFormed, IsBuffer, InBounds, Holds, Consecutive
  <2> QED
    BY <2>2, <2>3
<1>6. ASSUME NEW k \in Parts \cup {RecvAll}, plcSocketRecv(k) PROVE IInv'
  BY <1>6, RecvStep
<1>7. ASSUME plcBufferReceiveFails PROVE IInv'
  <2>1. want' = 0 /\ UNCHANGED <<out, wire, inp, appended, consumed>>
    BY <1>7 DEF plcBufferReceiveFails
  <2>2. ~(want' > Used(inp'))
    BY <1>0, <2>1
  <2> QED
    BY <2>1, <2>2
    DEF IInv, RecvHasRoom, RecvRoom, Used, WellFormed, IsBuffer, InBounds, Holds, Consecutive
<1>8. ASSUME plcBufferRead PROVE IInv'
  <2>1. /\ want <= Used(inp) /\ inp' = Dropped(inp, want)
        /\ consumed' = consumed + want /\ want' = 0 /\ UNCHANGED <<out, wire, appended>>
    BY <1>0, <1>8 DEF plcBufferRead
  <2>2. /\ WellFormed(inp') /\ Used(inp') = Used(inp) - want
        /\ Holds(inp', consumed + want)
    BY <1>0, <2>1, DroppedKeepsRest
  <2>3. consumed' + Used(inp') = consumed + Used(inp) /\ consumed' \in Nat
    BY <1>0, <2>1, <2>2
  <2>4. ~(want' > Used(inp'))
    BY <1>0, <2>1, <2>2
  <2> QED
    BY <2>1, <2>2, <2>3, <2>4
    DEF IInv, RecvHasRoom, RecvRoom, Used, WellFormed, IsBuffer, InBounds, Holds, Consecutive
<1>9. CASE UNCHANGED vars
  BY <1>9, SMTT(20)
  DEF IInv, vars, RecvHasRoom, RecvRoom, Used, WellFormed, IsBuffer, InBounds, Holds, Consecutive
<1> QED
  BY <1>1, <1>2, <1>3, <1>4, <1>5, <1>6, <1>7, <1>8, <1>9 DEF Next

-----------------------------------------------------------------------------
(* The theorems. *)

\* The inductive invariant of the two buffers and the socket between them
\* holds in every reachable state, whatever the sizes are.
THEOREM InductiveInvariant == Spec => []IInv
<1> QED
  BY InitEstablishes, NextPreserves, PTL DEF Spec

\* The buffers of both processes always have their type; in particular data is
\* as long as bufSize says.
THEOREM TypeCorrect == Spec => []TypeOK
<1>1. IInv => TypeOK
  <2> SUFFICES ASSUME IInv PROVE TypeOK
    OBVIOUS
  <2>1. /\ IsBuffer(out) /\ IsBuffer(inp) /\ wire \in Seq(Nat) /\ want \in Nat
        /\ consumed \in Nat /\ Used(inp) \in Nat /\ Used(out) \in Nat
        /\ appended = consumed + Used(inp) + Len(wire) + Used(out)
    BY UsedType DEF IInv, WellFormed
  <2>2. appended \in Nat
    BY <2>1
  <2> QED
    BY <2>1, <2>2 DEF TypeOK
<1> QED
  BY InductiveInvariant, <1>1, PTL

\* The asserts of plcBufferAppend and plcBufferReceive never fail: no sequence
\* of operations, failures and partial transfers moves a pointer out of the
\* allocation, whatever the sizes are.
THEOREM BoundsCorrect == Spec => []BoundsOK
<1>1. IInv => BoundsOK
  BY DEF IInv, BoundsOK, WellFormed
<1> QED
  BY InductiveInvariant, <1>1, PTL

\* The memcpy of plcBufferMaybeReset is safe, as its comment claims.
THEOREM MoveCorrect == Spec => []MoveIsDisjoint
<1>1. IInv => MoveIsDisjoint
  BY ResetIsDisjoint DEF IInv, MoveIsDisjoint
<1> QED
  BY InductiveInvariant, <1>1, PTL

\* plcBufferReceive never calls recv() with too small a buffer.
THEOREM RecvCorrect == Spec => []RecvHasRoom
<1>1. IInv => RecvHasRoom
  BY DEF IInv
<1> QED
  BY InductiveInvariant, <1>1, PTL

\* The connection delivers the bytes that were appended, in order, each once.
THEOREM StreamCorrect == Spec => []StreamIntact
<1>1. IInv => StreamIntact
  BY DEF IInv, StreamIntact, InputIntact, WireIntact, OutputIntact, Holds, Consecutive
<1> QED
  BY InductiveInvariant, <1>1, PTL

-----------------------------------------------------------------------------
(* The size of the buffers. *)

\* The rounding of plcBufferMaybeResize adds at most one PLC_BUFFER_SIZE.
LEMMA RoundUpBounds ==
    ASSUME NEW n \in Nat
    PROVE  /\ RoundUp(n) <= n + PLC_BUFFER_SIZE
           /\ RoundUp(n) = PLC_BUFFER_SIZE \/ RoundUp(n) >= 2 * PLC_BUFFER_SIZE
<1> DEFINE S == PLC_BUFFER_SIZE
           q == n \div S
<1>1. S \in Nat \ {0} /\ q \in Nat /\ q * S <= n
  BY BufferAssumption
<1>2. RoundUp(n) = (q + 1) * S
  BY DEF RoundUp
<1> HIDE DEF S, q
<1>3. (q + 1) * S = q * S + S
  BY <1>1
<1>4. q = 0 => q * S = 0
  BY <1>1
<1>5. q >= 1 => q * S >= S
  BY <1>1
<1>6. q * S \in Nat
  BY <1>1
<1> QED
  BY <1>1, <1>2, <1>3, <1>4, <1>5, <1>6 DEF S

\* A size that resizing with at most m waiting bytes can lead to: within the
\* bound, and either the initial size or at least twice as large.
SizeOK(b, m) ==
    /\ b.bufSize <= PLC_BUFFER_SIZE + m + MaxChunk + PLC_BUFFER_MIN_FREE
    /\ b.bufSize = PLC_BUFFER_SIZE \/ b.bufSize >= 2 * PLC_BUFFER_SIZE

\* plcBufferMaybeResize asks for no more than the data and the request explain.
LEMMA ResizeIsBounded ==
    ASSUME NEW b, WellFormed(b), NEW n \in Chunks, NEW m \in Nat, Used(b) <= m,
           SizeOK(b, m)
    PROVE  SizeOK(plcBufferMaybeResize(b, n), m)
<1> DEFINE S == PLC_BUFFER_SIZE
           F == PLC_BUFFER_MIN_FREE
           r == plcBufferMaybeResize(b, n)
<1>1. PICK sz \in Nat, d \in Nat :
        sz = b.bufSize /\ d = Used(b) + n + F /\ d <= m + MaxChunk + F
  <2>1. b.bufSize \in Nat
    BY DEF WellFormed, IsBuffer
  <2>2. Used(b) \in Nat /\ n \in Nat /\ n <= MaxChunk /\ F \in Nat /\ MaxChunk \in Nat
    BY UsedType, BufferAssumption
  <2> QED
    BY <2>1, <2>2
<1>2. S \in Nat \ {0} /\ F \in Nat /\ MaxChunk \in Nat /\ 2 * d \in Nat /\ d * 2 = 2 * d
  BY BufferAssumption
<1>3. CASE r = Reallocated(b, RoundUp(d))
  <2>1. r.bufSize = RoundUp(d)
    BY <1>3 DEF Reallocated, Buffer
  <2>2. RoundUp(d) \in Nat
    BY RoundUpExceeds
  <2>3. RoundUp(d) <= d + S /\ (RoundUp(d) = S \/ RoundUp(d) >= 2 * S)
    BY RoundUpBounds
  <2>4. RoundUp(d) <= S + m + MaxChunk + F
    BY <1>1, <1>2, <2>2, <2>3
  <2> QED
    BY <2>1, <2>3, <2>4 DEF SizeOK
<1>4. CASE /\ r = Reallocated(b, RoundUp(d * 2))
           /\ d < sz \div 5 /\ sz > S
  <2>1. r.bufSize = RoundUp(2 * d)
    BY <1>2, <1>4 DEF Reallocated, Buffer
  <2>2. RoundUp(2 * d) \in Nat
    BY <1>2, RoundUpExceeds
  <2>3. RoundUp(2 * d) <= 2 * d + S /\ (RoundUp(2 * d) = S \/ RoundUp(2 * d) >= 2 * S)
    BY <1>2, RoundUpBounds
  <2>4. sz <= S + m + MaxChunk + F /\ sz >= 2 * S
    BY <1>1, <1>2, <1>4 DEF SizeOK
  <2>5. 5 * d < sz
    BY <1>4
  <2>6. 2 * d + S <= sz
    BY <1>2, <2>4, <2>5
  <2>7. RoundUp(2 * d) <= S + m + MaxChunk + F
    BY <1>2, <2>2, <2>3, <2>4, <2>6
  <2> QED
    BY <2>1, <2>3, <2>7 DEF SizeOK
<1>5. CASE r = b
  BY <1>5
<1> QED
  BY <1>1, <1>3, <1>4, <1>5 DEF plcBufferMaybeResize

\* plcBufferMaybeReset allocates nothing.
LEMMA ResetKeepsSize ==
    ASSUME NEW b
    PROVE  plcBufferMaybeReset(b).bufSize = b.bufSize
BY DEF plcBufferMaybeReset, Buffer

\* plcBufferRead allocates nothing.
LEMMA DroppedKeepsSize ==
    ASSUME NEW b, NEW k
    PROVE  Dropped(b, k).bufSize = b.bufSize
BY DEF Dropped, Buffer

\* Copying bytes into a buffer allocates nothing.
LEMMA FilledKeepsSize ==
    ASSUME NEW b, NEW s
    PROVE  Filled(b, s).bufSize = b.bufSize
BY DEF Filled, Buffer

\* plcBufferMaybeFlush allocates nothing.
LEMMA FlushKeepsSize ==
    ASSUME NEW b, NEW isForse
    PROVE  plcBufferMaybeFlush(b, isForse).bufSize = b.bufSize
<1>1. plcBufferMaybeReset(Dropped(b, Used(b))).bufSize = b.bufSize
  BY ResetKeepsSize, DroppedKeepsSize
<1> QED
  BY <1>1 DEF plcBufferMaybeFlush

\* After a flush that is not forced at most PLC_BUFFER_SIZE bytes wait.
LEMMA FlushLeavesLittle ==
    ASSUME NEW b, WellFormed(b), NEW base \in Nat, Holds(b, base)
    PROVE  Used(plcBufferMaybeFlush(b, FALSE)) <= PLC_BUFFER_SIZE
<1>1. Used(b) \in Nat /\ PLC_BUFFER_SIZE \in Nat
  BY UsedType, BufferAssumption
<1>2. CASE FlushDue(b, FALSE)
  <2>1. /\ WellFormed(Dropped(b, Used(b))) /\ Used(Dropped(b, Used(b))) = 0
        /\ Holds(Dropped(b, Used(b)), base + Used(b))
    BY <1>1, DroppedKeepsRest
  <2>2. Used(plcBufferMaybeReset(Dropped(b, Used(b)))) = 0
    BY <1>1, <2>1, ResetKeepsData
  <2> QED
    BY <1>1, <1>2, <2>2 DEF plcBufferMaybeFlush
<1>3. CASE ~FlushDue(b, FALSE)
  BY <1>1, <1>3 DEF plcBufferMaybeFlush, FlushDue
<1> QED
  BY <1>2, <1>3

SizeInv == SizeOK(out, PLC_BUFFER_SIZE) /\ SizeOK(inp, MaxChunk)

\* Every operation keeps the bounds on bufSize (plcBufferMaybeResize, called
\* after plcBufferMaybeFlush and plcBufferMaybeReset).
LEMMA SizePreserved == IInv /\ SizeInv /\ [Next]_vars => SizeInv'
<1> SUFFICES ASSUME IInv, SizeInv, [Next]_vars PROVE SizeInv'
  OBVIOUS
<1> DEFINE base == consumed + Used(inp) + Len(wire)
<1>0. /\ WellFormed(out) /\ WellFormed(inp) /\ base \in Nat /\ consumed \in Nat
      /\ Holds(out, base) /\ Holds(inp, consumed)
  BY UsedType DEF IInv
<1>s. ASSUME out'.bufSize = out.bufSize, inp'.bufSize = inp.bufSize
      PROVE  SizeInv'
  BY <1>s DEF SizeInv, SizeOK
<1>1. ASSUME NEW n \in Chunks, plcBufferAppend(n) PROVE SizeInv'
  <2>0. inp' = inp
    BY <1>1 DEF plcBufferAppend
  <2>1. CASE NoRoom(out, n)
    <3> DEFINE r == plcBufferMaybeReset(out)
               f == plcBufferMaybeFlush(r, FALSE)
               z == plcBufferMaybeResize(f, n)
    <3>1. WellFormed(r) /\ Holds(r, base) /\ r.bufSize = out.bufSize
      BY <1>0, ResetKeepsData, ResetKeepsSize
    <3>2. out' = Filled(z, NextBytes(n))
      BY <1>1, <2>1 DEF plcBufferAppend
    <3> HIDE DEF r, base
    <3>3. WellFormed(f) /\ Used(f) <= PLC_BUFFER_SIZE /\ f.bufSize = out.bufSize
      BY <1>0, <3>1, FlushMovesData, FlushKeepsSize, FlushLeavesLittle
    <3>4. SizeOK(f, PLC_BUFFER_SIZE)
      BY <3>3 DEF SizeInv, SizeOK
    <3> HIDE DEF f
    <3>5. SizeOK(z, PLC_BUFFER_SIZE)
      BY <3>3, <3>4, ResizeIsBounded, BufferAssumption
    <3> HIDE DEF z
    <3>6. out'.bufSize = z.bufSize
      BY <3>2, FilledKeepsSize
    <3> QED
      BY <2>0, <3>5, <3>6 DEF SizeInv, SizeOK
  <2>2. CASE ~NoRoom(out, n)
    <3>1. out' = Filled(out, NextBytes(n))
      BY <1>1, <2>2 DEF plcBufferAppend
    <3> QED
      BY <1>s, <2>0, <3>1, FilledKeepsSize
  <2> QED
    BY <2>1, <2>2
<1>2. ASSUME NEW n \in Chunks, NEW k \in Parts, plcBufferAppendFails(n, k)
      PROVE  SizeInv'
  <2>1. out' = Dropped(plcBufferMaybeReset(out), k) /\ inp' = inp
    BY <1>2 DEF plcBufferAppendFails
  <2> QED
    BY <1>s, <2>1, DroppedKeepsSize, ResetKeepsSize
<1>3. ASSUME plcBufferFlush PROVE SizeInv'
  <2>1. out' = plcBufferMaybeFlush(out, TRUE) /\ inp' = inp
    BY <1>3 DEF plcBufferFlush
  <2> QED
    BY <1>s, <2>1, FlushKeepsSize
<1>4. ASSUME NEW k \in Parts, plcBufferFlushFails(k) PROVE SizeInv'
  BY <1>s, <1>4, DroppedKeepsSize DEF plcBufferFlushFails
<1>5. ASSUME NEW n \in Chunks, plcBufferReceive(n) PROVE SizeInv'
  <2>0. out' = out
    BY <1>5 DEF plcBufferReceive
  <2>1. CASE Used(inp) < n
    <3> DEFINE r == plcBufferMaybeReset(inp)
    <3>1. WellFormed(r) /\ Used(r) = Used(inp) /\ r.bufSize = inp.bufSize
      BY <1>0, ResetKeepsData, ResetKeepsSize
    <3>2. inp' = plcBufferMaybeResize(r, n)
      BY <1>5, <2>1 DEF plcBufferReceive
    <3>3. SizeOK(r, MaxChunk)
      BY <3>1 DEF SizeInv, SizeOK
    <3> HIDE DEF r
    <3>4. Used(r) <= MaxChunk /\ MaxChunk \in Nat
      <4>1. Used(inp) \in Nat
        BY <1>0, UsedType
      <4> QED
        BY <2>1, <3>1, <4>1, BufferAssumption
    <3>5. SizeOK(inp', MaxChunk)
      BY <3>1, <3>2, <3>3, <3>4, ResizeIsBounded
    <3> QED
      BY <2>0, <3>5 DEF SizeInv, SizeOK
  <2>2. CASE ~(Used(inp) < n)
    BY <1>s, <1>5, <2>0, <2>2 DEF plcBufferReceive
  <2> QED
    BY <2>1, <2>2
<1>6. ASSUME NEW k, plcSocketRecv(k) PROVE SizeInv'
  <2>1. inp' = Filled(inp, SubSeq(wire, 1, k)) /\ out' = out
    BY <1>6 DEF plcSocketRecv
  <2> QED
    BY <1>s, <2>1, FilledKeepsSize
<1>7. ASSUME plcBufferReceiveFails PROVE SizeInv'
  BY <1>s, <1>7 DEF plcBufferReceiveFails
<1>8. ASSUME plcBufferRead PROVE SizeInv'
  BY <1>s, <1>8, DroppedKeepsSize DEF plcBufferRead
<1>9. CASE UNCHANGED vars
  BY <1>s, <1>9 DEF vars
<1> QED
  BY <1>1, <1>2, <1>3, <1>4, <1>5, <1>6, <1>7, <1>8, <1>9 DEF Next

\* The buffers do not grow with the stream.
THEOREM SizeCorrect == Spec => []SizeBounded
<1>1. Init => SizeInv
  BY BufferAssumption DEF Init, EmptyBuffer, Buffer, SizeInv, SizeOK
<1>2. IInv /\ SizeInv => SizeBounded
  <2> SUFFICES ASSUME IInv, SizeInv PROVE SizeBounded
    OBVIOUS
  <2>1. out.bufSize \in Nat /\ inp.bufSize \in Nat
    BY DEF IInv, WellFormed, IsBuffer
  <2> QED
    BY <2>1, BufferAssumption DEF SizeInv, SizeOK, SizeBounded
<1> QED
  BY InductiveInvariant, SizePreserved, <1>1, <1>2, PTL DEF Spec

=============================================================================
