------------------------------ MODULE NbbioProof ------------------------------
(***************************************************************************)
(* Proofs about the line buffer of Nbbio.tla, for an array and a line of   *)
(* any length, any bytes and reads and writes of any size.                 *)
(*                                                                         *)
(* Every method moves bytes in at most two pieces, neither of which wraps. *)
(* StoreOne and TakeOne are about one piece; each action applies one of    *)
(* them once or twice.                                                     *)
(***************************************************************************)
EXTENDS Nbbio, SequenceTheorems, FiniteSetTheorems, TLAPS

Indices == 0..(BUFLEN - 1)
Buffers == [Indices -> Bytes \cup {NUL}]

\* The bytes of buf from get to put are what of in is not in out.
Queue(buf, get, put, in, out) ==
    /\ Len(in) = Len(out) + Masked(put - get)
    /\ \A i \in 1..Len(out) : out[i] = in[i]
    /\ \A i \in 0..(Masked(put - get) - 1) : buf[Masked(get + i)] = in[Len(out) + 1 + i]

\* An index, past a piece that may reach the end of the array.
Past(i) == IF i = BUFLEN THEN 0 ELSE i

------------------------------------------------------------------------------
\* As many bytes as contigBytesFree says fit behind m_putTo, and then they are
\* all there.
LEMMA Room ==
  ASSUME NEW get \in Indices, NEW put \in Indices, NEW n \in Nat,
         n <= FreeFromTo(get, put)
  PROVE  /\ Masked(put - get) \in Nat
         /\ Past(put + n) \in Indices
         /\ put + n <= BUFLEN
         /\ Masked(Past(put + n) - get) = Masked(put - get) + n
  <1> USE NbbioAssumption DEF Indices, FreeFromTo
  <1>1. Masked(put - get) \in Nat
    BY DEF Masked
  <1>2. put + n <= BUFLEN
    OBVIOUS
  <1>3. Past(put + n) \in Indices
    BY <1>2 DEF Past
  <1>4. Masked(Past(put + n) - get) = Masked(put - get) + n
    <2>1. CASE put + n = BUFLEN
      BY <2>1 DEF Past, Masked
    <2>2. CASE put + n # BUFLEN
      BY <1>2, <2>2 DEF Past, Masked
    <2> QED BY <2>1, <2>2
  <1> QED BY <1>1, <1>2, <1>3, <1>4

\* A piece that ends at the end of the array, or before.
LEMMA StoreOne ==
  ASSUME NEW buf \in Buffers, NEW get \in Indices, NEW put \in Indices,
         NEW in \in Seq(Bytes), NEW out \in Seq(Bytes), NEW p \in Seq(Bytes),
         Len(p) <= FreeFromTo(get, put), Queue(buf, get, put, in, out)
  PROVE  /\ CopyTo(buf, put, p) \in Buffers
         /\ Past(put + Len(p)) \in Indices
         /\ in \o p \in Seq(Bytes)
         /\ Queue(CopyTo(buf, put, p), get, Past(put + Len(p)), in \o p, out)
  <1> DEFINE new == Past(put + Len(p))
             n == Len(p)
             used == Masked(put - get)
             buf2 == CopyTo(buf, put, p)
             in2 == in \o p
  <1>1. /\ n \in Nat /\ Len(in) \in Nat /\ Len(out) \in Nat
        /\ \A i \in 1..n : p[i] \in Bytes
    OBVIOUS
  <1>2. /\ used \in Nat
        /\ new \in Indices
        /\ put + n <= BUFLEN
        /\ Masked(new - get) = used + n
    BY <1>1, Room
  <1>3. /\ buf2 \in Buffers
        /\ \A i \in Indices :
              buf2[i] = IF i \in put..(put + n - 1) THEN p[i - put + 1] ELSE buf[i]
    BY <1>1 DEF CopyTo, Buffers, Indices
  <1>4. \A i \in 0..(used - 1) :
           Masked(get + i) \in Indices \ (put..(put + n - 1))
    BY <1>1, NbbioAssumption DEF Indices, Masked, FreeFromTo
  <1>5. \A i \in used..(used + n - 1) : Masked(get + i) = put + (i - used)
    BY <1>1, NbbioAssumption DEF Indices, Masked, FreeFromTo
  <1>6. /\ in2 \in Seq(Bytes)
        /\ Len(in2) = Len(in) + n
        /\ \A i \in 1..Len(in) : in2[i] = in[i]
        /\ \A i \in 1..n : in2[Len(in) + i] = p[i]
    BY <1>1, ConcatProperties
  <1>7. /\ Len(in) = Len(out) + used
        /\ \A i \in 1..Len(out) : out[i] = in[i]
        /\ \A i \in 0..(used - 1) : buf[Masked(get + i)] = in[Len(out) + 1 + i]
    BY DEF Queue
  <1>8. put \in Nat /\ get \in Nat /\ BUFLEN \in Nat /\ Indices = 0..(BUFLEN - 1)
    BY NbbioAssumption DEF Indices
  <1> HIDE DEF new, n, used, buf2, in2
  <1>9. \A i \in 0..(used + n - 1) : buf2[Masked(get + i)] = in2[Len(out) + 1 + i]
    <2> SUFFICES ASSUME NEW i \in 0..(used + n - 1)
                 PROVE  buf2[Masked(get + i)] = in2[Len(out) + 1 + i]
      OBVIOUS
    <2>1. CASE i < used
      <3>1. i \in 0..(used - 1) /\ Len(out) + 1 + i \in 1..Len(in)
        BY <1>1, <1>2, <1>7, <2>1
      <3> QED BY <1>3, <1>4, <1>6, <1>7, <3>1
    <2>2. CASE i >= used
      <3> DEFINE k == i - used
      <3>1. k \in 0..(n - 1) /\ put + k \in Indices /\ Masked(get + i) = put + k
        BY <1>1, <1>2, <1>5, <1>8, <2>2
      <3>2. buf2[put + k] = p[k + 1]
        BY <1>1, <1>3, <1>8, <3>1
      <3>3. Len(out) + 1 + i = Len(in) + (k + 1) /\ k + 1 \in 1..n
        BY <1>1, <1>2, <1>7, <3>1
      <3> QED BY <1>6, <3>1, <3>2, <3>3
    <2> QED BY <1>1, <1>2, <2>1, <2>2
  <1>10. \A i \in 1..Len(out) : out[i] = in2[i]
    BY <1>1, <1>2, <1>6, <1>7
  <1>11. Queue(buf2, get, new, in2, out)
    BY <1>1, <1>2, <1>6, <1>7, <1>9, <1>10 DEF Queue
  <1> QED
    BY <1>2, <1>3, <1>6, <1>11 DEF new, buf2, in2, n

\* As many bytes as contigBytesUsed says lie behind m_getFrom, and then they
\* are gone.
LEMMA Stock ==
  ASSUME NEW get \in Indices, NEW put \in Indices, NEW n \in Nat,
         n <= (IF put >= get THEN put ELSE BUFLEN) - get
  PROVE  /\ Past(get + n) \in Indices
         /\ get + n <= BUFLEN
         /\ n <= Masked(put - get)
         /\ Masked(put - get) \in Nat
         /\ Masked(put - Past(get + n)) = Masked(put - get) - n
         /\ \A i \in 0..(n - 1) : Masked(get + i) = get + i
         /\ \A i \in 0..(Masked(put - get) - n - 1) :
               Masked(Past(get + n) + i) = Masked(get + (n + i))
  <1> USE NbbioAssumption DEF Indices
  <1>1. get + n <= BUFLEN /\ Past(get + n) \in Indices
    BY DEF Past
  <1>2. Masked(put - get) \in Nat /\ n <= Masked(put - get)
    BY DEF Masked
  <1>3. \A i \in 0..(n - 1) : Masked(get + i) = get + i
    BY <1>1 DEF Masked
  <1>4. CASE get + n = BUFLEN
    BY <1>1, <1>2, <1>3, <1>4 DEF Past, Masked
  <1>5. CASE get + n # BUFLEN
    BY <1>1, <1>2, <1>3, <1>5 DEF Past, Masked
  <1> QED BY <1>4, <1>5

\* A piece of n bytes is taken out.
LEMMA TakeOne ==
  ASSUME NEW buf \in Buffers, NEW get \in Indices, NEW put \in Indices,
         NEW in \in Seq(Bytes), NEW out \in Seq(Bytes), NEW n \in Nat,
         n <= (IF put >= get THEN put ELSE BUFLEN) - get,
         Queue(buf, get, put, in, out)
  PROVE  /\ Past(get + n) \in Indices
         /\ out \o CopyFrom(buf, get, n) \in Seq(Bytes)
         /\ Queue(buf, Past(get + n), put, in, out \o CopyFrom(buf, get, n))
  <1> DEFINE used == Masked(put - get)
             piece == CopyFrom(buf, get, n)
             out2 == out \o piece
             new == Past(get + n)
  <1>1. /\ new \in Indices /\ used \in Nat /\ n <= used
        /\ Masked(put - new) = used - n
        /\ \A i \in 0..(n - 1) : Masked(get + i) = get + i
        /\ \A i \in 0..(used - n - 1) : Masked(new + i) = Masked(get + (n + i))
    BY Stock
  <1>2. /\ Len(in) = Len(out) + used
        /\ \A i \in 1..Len(out) : out[i] = in[i]
        /\ \A i \in 0..(used - 1) : buf[Masked(get + i)] = in[Len(out) + 1 + i]
        /\ Len(in) \in Nat /\ Len(out) \in Nat
        /\ \A i \in 1..Len(in) : in[i] \in Bytes
    BY DEF Queue
  <1>3. get \in Nat
    BY NbbioAssumption DEF Indices
  <1> HIDE DEF used, new
  <1>4. \A i \in 1..n : buf[get + i - 1] = in[Len(out) + i]
    <2> SUFFICES ASSUME NEW i \in 1..n PROVE buf[get + i - 1] = in[Len(out) + i]
      OBVIOUS
    <2> DEFINE k == i - 1
    <2>1. k \in 0..(n - 1) /\ k \in 0..(used - 1) /\ get + i - 1 = get + k
          /\ Len(out) + i = Len(out) + 1 + k
      BY <1>1, <1>2, <1>3
    <2> HIDE DEF k
    <2> QED BY <1>1, <1>2, <2>1
  <1>5. /\ piece \in Seq(Bytes)
        /\ Len(piece) = n
        /\ \A i \in 1..n : piece[i] = in[Len(out) + i]
    <2>1. piece = [i \in 1..n |-> buf[get + i - 1]]
      BY DEF CopyFrom
    <2>2. \A i \in 1..n : buf[get + i - 1] \in Bytes
      BY <1>1, <1>2, <1>4
    <2> HIDE DEF piece
    <2> QED BY <1>4, <2>1, <2>2
  <1> HIDE DEF piece
  <1>6. /\ out2 \in Seq(Bytes)
        /\ Len(out2) = Len(out) + n
        /\ \A i \in 1..Len(out) : out2[i] = out[i]
        /\ \A i \in 1..n : out2[Len(out) + i] = piece[i]
    <2>1. /\ out \o piece \in Seq(Bytes)
          /\ Len(out \o piece) = Len(out) + Len(piece)
          /\ \A i \in 1..(Len(out) + Len(piece)) : (out \o piece)[i] =
                IF i <= Len(out) THEN out[i] ELSE piece[i - Len(out)]
      BY <1>5, ConcatProperties
    <2> HIDE DEF out2
    <2>2. out2 = out \o piece
      BY DEF out2
    <2> QED BY <1>2, <1>5, <2>1, <2>2
  <1> HIDE DEF out2
  <1>7. \A i \in 1..(Len(out) + n) : out2[i] = in[i]
    <2> SUFFICES ASSUME NEW i \in 1..(Len(out) + n) PROVE out2[i] = in[i]
      OBVIOUS
    <2>1. CASE i <= Len(out)
      BY <1>2, <1>6, <2>1
    <2>2. CASE i > Len(out)
      <3> DEFINE k == i - Len(out)
      <3>1. k \in 1..n /\ i = Len(out) + k
        BY <1>2, <2>2
      <3> HIDE DEF k
      <3> QED BY <1>5, <1>6, <3>1
    <2> QED BY <1>2, <2>1, <2>2
  <1>8. \A i \in 0..(used - n - 1) : buf[Masked(new + i)] = in[Len(out) + n + 1 + i]
    <2> SUFFICES ASSUME NEW i \in 0..(used - n - 1)
                 PROVE  buf[Masked(new + i)] = in[Len(out) + n + 1 + i]
      OBVIOUS
    <2> DEFINE k == n + i
    <2>1. k \in 0..(used - 1) /\ Len(out) + n + 1 + i = Len(out) + 1 + k
      BY <1>1, <1>2
    <2>2. Masked(new + i) = Masked(get + k)
      BY <1>1
    <2> HIDE DEF k
    <2> QED BY <1>2, <2>1, <2>2
  <1>9. Len(in) = Len(out2) + Masked(put - new)
    BY <1>1, <1>2, <1>6
  <1>10. Queue(buf, new, put, in, out2)
    BY <1>1, <1>2, <1>6, <1>7, <1>8, <1>9 DEF Queue
  <1> QED BY <1>1, <1>6, <1>10 DEF new, out2, piece

------------------------------------------------------------------------------
\* The inductive invariant: the bytes in the array are the ones that went in,
\* so what comes out is bytes again and not what the array was filled with.
IInv == TypeOK /\ Fifo

\* Fifo says of the variables what Queue says of its arguments.
LEMMA FifoIsQueue ==
  Fifo <=> Queue(m_buf, m_getFrom, m_putTo, accepted, delivered)
  BY DEF Fifo, Queue, bytesUsed

\* Chunks are nonempty sequences of bytes.
LEMMA ChunkIsSeq ==
  ASSUME NEW n \in Int, NEW p \in Chunks(n)
  PROVE  p \in Seq(Bytes) /\ Len(p) \in 1..n
  <1>1. PICK k \in 1..n : p \in [1..k -> Bytes]
    BY DEF Chunks
  <1>2. p \in Seq(Bytes) /\ Len(p) = k
    BY <1>1
  <1> QED BY <1>2

\* An empty buffer is a queue of nothing.
LEMMA InitIInv == Init => IInv
  <1> SUFFICES ASSUME Init PROVE IInv
    OBVIOUS
  <1>1. TypeOK
    BY NbbioAssumption DEF Init, TypeOK
  <1>2. Fifo
    BY NbbioAssumption DEF Init, Fifo, bytesUsed, Masked
  <1> QED BY <1>1, <1>2 DEF IInv

\* What the actions that store or flush need, and what suffices for them.
LEMMA BufferStep ==
  ASSUME IInv, UNCHANGED <<role, lineVars>>,
         m_buf' \in Buffers, m_getFrom' \in Indices, m_putTo' \in Indices,
         accepted' \in Seq(Bytes), delivered' \in Seq(Bytes),
         Queue(m_buf', m_getFrom', m_putTo', accepted', delivered')
  PROVE  IInv'
  <1>1. TypeOK'
    BY DEF IInv, TypeOK, lineVars, Buffers, Indices
  <1>2. Fifo'
    BY DEF Fifo, Queue, bytesUsed
  <1> QED BY <1>1, <1>2 DEF IInv

\* put(): one piece, or two.
LEMMA PutInv ==
  ASSUME IInv, NEW p \in Chunks(BUFLEN - 1), Put(p)
  PROVE  IInv'
  <1> DEFINE first == IF Len(p) > contigBytesFree THEN contigBytesFree ELSE Len(p)
             s == SubSeq(p, 1, first)
             rest == SubSeq(p, first + 1, Len(p))
             end == m_putTo + first
             buf1 == CopyTo(m_buf, m_putTo, s)
  <1>1. /\ m_buf \in Buffers /\ m_getFrom \in Indices /\ m_putTo \in Indices
        /\ accepted \in Seq(Bytes) /\ delivered \in Seq(Bytes)
        /\ Queue(m_buf, m_getFrom, m_putTo, accepted, delivered)
    BY FifoIsQueue DEF IInv, TypeOK, Buffers, Indices
  <1>2. p \in Seq(Bytes) /\ Len(p) \in Nat
    BY ChunkIsSeq, NbbioAssumption
  <1>3. contigBytesFree \in Nat
    BY <1>1, NbbioAssumption DEF contigBytesFree, FreeFromTo, Indices
  <1>4. first \in 0..Len(p) /\ first <= FreeFromTo(m_getFrom, m_putTo)
    BY <1>2, <1>3 DEF contigBytesFree
  <1>5. /\ m_buf' = CopyTo(buf1, 0, rest)
        /\ m_putTo' = IF end = BUFLEN THEN Len(rest) ELSE end
        /\ accepted' = accepted \o p
        /\ m_getFrom' = m_getFrom /\ delivered' = delivered
        /\ UNCHANGED <<role, lineVars>>
        /\ bytesFree >= Len(p)
    BY DEF Put, Stored
  <1> HIDE DEF first
  <1>6. s \in Seq(Bytes) /\ Len(s) = first
    BY <1>2, <1>4, SubSeqProperties
  <1>7. rest \in Seq(Bytes) /\ Len(rest) = Len(p) - first
    BY <1>2, <1>4, SubSeqProperties
  <1>8. s \o rest = p
    <2>1. /\ 1 \in 1..(Len(p) + 1) /\ first \in (1 - 1)..Len(p)
          /\ Len(p) \in first..Len(p)
      BY <1>2, <1>4
    <2>2. SubSeq(p, 1, first) \o SubSeq(p, first + 1, Len(p)) = SubSeq(p, 1, Len(p))
      BY <1>2, <2>1, ConcatAdjacentSubSeq
    <2> QED BY <1>2, <2>2, SubSeqFull
  <1> HIDE DEF s, rest, buf1
  <1>9. /\ buf1 \in Buffers /\ Past(end) \in Indices
        /\ accepted \o s \in Seq(Bytes)
        /\ Queue(buf1, m_getFrom, Past(end), accepted \o s, delivered)
    <2>1. Len(s) <= FreeFromTo(m_getFrom, m_putTo)
      BY <1>4, <1>6
    <2>2. /\ CopyTo(m_buf, m_putTo, s) \in Buffers
          /\ Past(m_putTo + Len(s)) \in Indices
          /\ accepted \o s \in Seq(Bytes)
          /\ Queue(CopyTo(m_buf, m_putTo, s), m_getFrom, Past(m_putTo + Len(s)),
                   accepted \o s, delivered)
      BY <1>1, <1>6, <2>1, StoreOne
    <2> QED BY <1>6, <2>2 DEF buf1
  <1>10. (accepted \o s) \o rest = accepted \o p
    <2>1. ASSUME NEW a \in Seq(Bytes), NEW b \in Seq(Bytes), NEW c \in Seq(Bytes)
          PROVE  (a \o b) \o c = a \o (b \o c)
      BY ConcatAssociative
    <2>2. (accepted \o s) \o rest = accepted \o (s \o rest)
      BY <1>1, <1>6, <1>7, <2>1, Zenon
    <2> QED BY <1>8, <2>2, Zenon
  <1>11. CASE first = Len(p)
    <2>1. Len(rest) = 0 /\ rest = <<>>
      BY <1>2, <1>7, <1>11, EmptySeq
    <2>2. m_buf' = buf1 /\ m_putTo' = Past(end)
      <3>1. \A at \in Indices : CopyTo(buf1, at, <<>>) = buf1
        BY <1>9 DEF CopyTo, Buffers, Indices
      <3> QED BY <1>5, <1>9, <2>1, <3>1, NbbioAssumption DEF Past, Indices
    <2>3. accepted' = accepted \o s
      BY <1>5, <1>8, <1>6, <2>1, ConcatEmptySeq
    <2> QED BY <1>1, <1>5, <1>9, <2>2, <2>3, BufferStep
  <1>12. CASE first # Len(p)
    <2>1. first = FreeFromTo(m_getFrom, m_putTo) /\ Len(p) > first
      BY <1>2, <1>3, <1>12 DEF first, contigBytesFree
    <2>2. end = BUFLEN /\ Len(rest) <= FreeFromTo(m_getFrom, 0)
      BY <1>1, <1>2, <1>5, <1>7, <2>1, NbbioAssumption
      DEF FreeFromTo, bytesFree, bytesUsed, Masked, Indices
    <2>3. Past(end) = 0 /\ 0 \in Indices
      BY <2>2, NbbioAssumption DEF Past, Indices
    <2>4. /\ CopyTo(buf1, 0, rest) \in Buffers /\ Past(0 + Len(rest)) \in Indices
          /\ (accepted \o s) \o rest \in Seq(Bytes)
          /\ Queue(CopyTo(buf1, 0, rest), m_getFrom, Past(0 + Len(rest)),
                   (accepted \o s) \o rest, delivered)
      BY <1>1, <1>7, <1>9, <2>2, <2>3, StoreOne
    <2>5. m_putTo' = Past(0 + Len(rest))
      BY <1>1, <1>5, <1>7, <2>2, NbbioAssumption DEF Past, FreeFromTo, Indices
    <2> QED BY <1>1, <1>5, <1>10, <2>4, <2>5, BufferStep
  <1> QED BY <1>11, <1>12

\* fillFrom(), one read.
LEMMA FillFromInv ==
  ASSUME IInv, NEW s \in Chunks(contigBytesFree), FillFrom(s)
  PROVE  IInv'
  <1>1. /\ m_buf \in Buffers /\ m_getFrom \in Indices /\ m_putTo \in Indices
        /\ accepted \in Seq(Bytes) /\ delivered \in Seq(Bytes)
        /\ Queue(m_buf, m_getFrom, m_putTo, accepted, delivered)
    BY FifoIsQueue DEF IInv, TypeOK, Buffers, Indices
  <1>2. contigBytesFree \in Int
    BY <1>1, NbbioAssumption DEF contigBytesFree, FreeFromTo, Indices
  <1>3. s \in Seq(Bytes)
    BY <1>2, ChunkIsSeq
  <1>4. Len(s) <= FreeFromTo(m_getFrom, m_putTo)
    BY DEF FillFrom, contigBytesFree
  <1>5. /\ CopyTo(m_buf, m_putTo, s) \in Buffers
        /\ Past(m_putTo + Len(s)) \in Indices
        /\ accepted \o s \in Seq(Bytes)
        /\ Queue(CopyTo(m_buf, m_putTo, s), m_getFrom, Past(m_putTo + Len(s)),
                 accepted \o s, delivered)
    BY <1>1, <1>3, <1>4, StoreOne
  <1>6. /\ m_buf' = CopyTo(m_buf, m_putTo, s)
        /\ m_putTo' = Past(m_putTo + Len(s))
        /\ accepted' = accepted \o s
        /\ m_getFrom' = m_getFrom /\ delivered' = delivered
        /\ UNCHANGED <<role, lineVars>>
    BY DEF FillFrom, Past
  <1> QED BY <1>1, <1>5, <1>6, BufferStep

\* fillFrom(), a second read after the first one filled the array to its end.
LEMMA FillFromWrappingInv ==
  ASSUME IInv, NEW s \in Chunks(contigBytesFree),
         NEW t \in Chunks(BUFLEN - 1) \cup {<<>>}, FillFromWrapping(s, t)
  PROVE  IInv'
  <1>1. /\ m_buf \in Buffers /\ m_getFrom \in Indices /\ m_putTo \in Indices
        /\ accepted \in Seq(Bytes) /\ delivered \in Seq(Bytes)
        /\ Queue(m_buf, m_getFrom, m_putTo, accepted, delivered)
    BY FifoIsQueue DEF IInv, TypeOK, Buffers, Indices
  <1>2. contigBytesFree \in Int
    BY <1>1, NbbioAssumption DEF contigBytesFree, FreeFromTo, Indices
  <1>3. s \in Seq(Bytes) /\ t \in Seq(Bytes)
    <2>1. s \in Seq(Bytes)
      BY <1>2, ChunkIsSeq
    <2>2. CASE t \in Chunks(BUFLEN - 1)
      BY <2>1, <2>2, ChunkIsSeq, NbbioAssumption
    <2>3. CASE t = <<>>
      BY <2>1, <2>3, EmptySeq
    <2> QED BY <2>1, <2>2, <2>3
  <1>4. /\ Len(s) <= FreeFromTo(m_getFrom, m_putTo)
        /\ m_putTo + Len(s) = BUFLEN
        /\ Len(t) <= FreeFromTo(m_getFrom, 0)
    BY <1>2, <1>3 DEF FillFromWrapping, contigBytesFree
  <1> DEFINE buf1 == CopyTo(m_buf, m_putTo, s)
             in1 == accepted \o s
  <1>5. /\ buf1 \in Buffers /\ in1 \in Seq(Bytes)
        /\ Queue(buf1, m_getFrom, Past(m_putTo + Len(s)), in1, delivered)
    BY <1>1, <1>3, <1>4, StoreOne
  <1>6. Past(m_putTo + Len(s)) = 0 /\ 0 \in Indices
    BY <1>4, NbbioAssumption DEF Past, Indices
  <1>7. /\ m_buf' = CopyTo(buf1, 0, t)
        /\ m_putTo' = Len(t)
        /\ accepted' = in1 \o t
        /\ m_getFrom' = m_getFrom /\ delivered' = delivered
        /\ UNCHANGED <<role, lineVars>>
    BY DEF FillFromWrapping
  <1> HIDE DEF buf1, in1
  <1>8. /\ CopyTo(buf1, 0, t) \in Buffers
        /\ Past(0 + Len(t)) \in Indices
        /\ in1 \o t \in Seq(Bytes)
        /\ Queue(CopyTo(buf1, 0, t), m_getFrom, Past(0 + Len(t)), in1 \o t, delivered)
    BY <1>1, <1>3, <1>4, <1>5, <1>6, StoreOne
  <1>9. Past(0 + Len(t)) = Len(t)
    BY <1>1, <1>3, <1>4, NbbioAssumption DEF Past, FreeFromTo, Indices
  <1> QED BY <1>1, <1>7, <1>8, <1>9, BufferStep

\* flushTo(), one write.
LEMMA FlushToInv ==
  ASSUME IInv, NEW n \in 1..contigBytesUsed, FlushTo(n)
  PROVE  IInv'
  <1>1. /\ m_buf \in Buffers /\ m_getFrom \in Indices /\ m_putTo \in Indices
        /\ accepted \in Seq(Bytes) /\ delivered \in Seq(Bytes)
        /\ Queue(m_buf, m_getFrom, m_putTo, accepted, delivered)
    BY FifoIsQueue DEF IInv, TypeOK, Buffers, Indices
  <1>2. n \in Nat /\ n <= (IF m_putTo >= m_getFrom THEN m_putTo ELSE BUFLEN) - m_getFrom
    BY <1>1, NbbioAssumption DEF contigBytesUsed, Indices
  <1>3. /\ Past(m_getFrom + n) \in Indices
        /\ delivered \o CopyFrom(m_buf, m_getFrom, n) \in Seq(Bytes)
        /\ Queue(m_buf, Past(m_getFrom + n), m_putTo, accepted,
                 delivered \o CopyFrom(m_buf, m_getFrom, n))
    BY <1>1, <1>2, TakeOne
  <1>4. /\ m_getFrom' = Past(m_getFrom + n)
        /\ delivered' = delivered \o CopyFrom(m_buf, m_getFrom, n)
        /\ m_buf' = m_buf /\ m_putTo' = m_putTo /\ accepted' = accepted
        /\ UNCHANGED <<role, lineVars>>
    BY DEF FlushTo, Past
  <1> QED BY <1>1, <1>3, <1>4, BufferStep

\* flushTo(), a second write after the first one emptied the array to its end.
LEMMA FlushToWrappingInv ==
  ASSUME IInv, NEW n \in 0..m_putTo, FlushToWrapping(n)
  PROVE  IInv'
  <1> DEFINE k == contigBytesUsed
             out1 == delivered \o CopyFrom(m_buf, m_getFrom, k)
  <1>1. /\ m_buf \in Buffers /\ m_getFrom \in Indices /\ m_putTo \in Indices
        /\ accepted \in Seq(Bytes) /\ delivered \in Seq(Bytes)
        /\ Queue(m_buf, m_getFrom, m_putTo, accepted, delivered)
    BY FifoIsQueue DEF IInv, TypeOK, Buffers, Indices
  <1>2. /\ k \in Nat
        /\ k <= (IF m_putTo >= m_getFrom THEN m_putTo ELSE BUFLEN) - m_getFrom
        /\ m_getFrom + k = BUFLEN
    BY <1>1, NbbioAssumption DEF contigBytesUsed, Indices, FlushToWrapping
  <1>3. /\ m_getFrom' = n
        /\ delivered' = out1 \o CopyFrom(m_buf, 0, n)
        /\ m_buf' = m_buf /\ m_putTo' = m_putTo /\ accepted' = accepted
        /\ UNCHANGED <<role, lineVars>>
    BY DEF FlushToWrapping
  <1> HIDE DEF k
  <1>4. /\ out1 \in Seq(Bytes)
        /\ Queue(m_buf, Past(m_getFrom + k), m_putTo, accepted, out1)
    BY <1>1, <1>2, TakeOne
  <1>5. Past(m_getFrom + k) = 0 /\ 0 \in Indices
    BY <1>2, NbbioAssumption DEF Past, Indices
  <1> HIDE DEF out1
  <1>6. /\ n \in Nat /\ n <= (IF m_putTo >= 0 THEN m_putTo ELSE BUFLEN) - 0
        /\ Past(0 + n) = n
    BY <1>1, NbbioAssumption DEF Indices, Past
  <1>7. /\ Past(0 + n) \in Indices
        /\ out1 \o CopyFrom(m_buf, 0, n) \in Seq(Bytes)
        /\ Queue(m_buf, Past(0 + n), m_putTo, accepted, out1 \o CopyFrom(m_buf, 0, n))
    BY <1>1, <1>4, <1>5, <1>6, TakeOne
  <1> QED BY <1>1, <1>3, <1>6, <1>7, BufferStep

\* readc() takes out one byte, which is one that went in.
LEMMA ConsumeStep ==
  ASSUME IInv, ~isEmpty, Consume
  PROVE  /\ readc \in Bytes
         /\ m_getFrom' \in Indices
         /\ delivered' \in Seq(Bytes)
         /\ Fifo'
  <1>1. /\ m_buf \in Buffers /\ m_getFrom \in Indices /\ m_putTo \in Indices
        /\ accepted \in Seq(Bytes) /\ delivered \in Seq(Bytes)
        /\ Queue(m_buf, m_getFrom, m_putTo, accepted, delivered)
    BY FifoIsQueue DEF IInv, TypeOK, Buffers, Indices
  <1>2. 1 <= (IF m_putTo >= m_getFrom THEN m_putTo ELSE BUFLEN) - m_getFrom
    BY <1>1, NbbioAssumption DEF isEmpty, Indices
  <1>3. /\ Past(m_getFrom + 1) \in Indices
        /\ delivered \o CopyFrom(m_buf, m_getFrom, 1) \in Seq(Bytes)
        /\ Queue(m_buf, Past(m_getFrom + 1), m_putTo, accepted,
                 delivered \o CopyFrom(m_buf, m_getFrom, 1))
    BY <1>1, <1>2, TakeOne
  <1>4. Past(m_getFrom + 1) = Masked(m_getFrom + 1)
    BY <1>1, NbbioAssumption DEF Past, Masked, Indices
  <1>5. readc \in Bytes
    <2>1. Len(accepted) = Len(delivered) + Masked(m_putTo - m_getFrom)
      BY <1>1 DEF Queue
    <2>2. Masked(m_getFrom + 0) = m_getFrom /\ 1 <= Masked(m_putTo - m_getFrom)
          /\ Masked(m_putTo - m_getFrom) \in Nat
      BY <1>1, <1>2, NbbioAssumption DEF Masked, Indices
    <2>3. m_buf[Masked(m_getFrom + 0)] = accepted[Len(delivered) + 1 + 0]
      BY <1>1, <2>2 DEF Queue
    <2>4. Len(delivered) + 1 + 0 \in 1..Len(accepted)
      BY <1>1, <2>1, <2>2
    <2> QED BY <1>1, <2>2, <2>3, <2>4 DEF readc
  <1>6. delivered \o CopyFrom(m_buf, m_getFrom, 1) = Append(delivered, readc)
    <2>1. m_getFrom + 1 - 1 = m_getFrom
      BY <1>1, NbbioAssumption DEF Indices
    <2>2. CopyFrom(m_buf, m_getFrom, 1) = <<readc>>
      BY <2>1 DEF CopyFrom, readc
    <2>3. Append(delivered, readc) = delivered \o <<readc>>
      BY <1>1, <1>5, AppendIsConcat
    <2> QED BY <2>2, <2>3
  <1>7. Queue(m_buf', m_getFrom', m_putTo', accepted', delivered')
    BY <1>3, <1>4, <1>6 DEF Consume
  <1>8. Fifo'
    BY <1>7 DEF Fifo, Queue, bytesUsed
  <1> QED BY <1>3, <1>4, <1>5, <1>6, <1>8 DEF Consume

\* readline() ends a line, whose bytes stay inside the caller's buffer.
LEMMA ReturnLineInv ==
  ASSUME IInv, InLoop, Consume, NEW c \in {CR, LF}, ReturnLine(c)
  PROVE  IInv'
  <1>1. ~isEmpty
    BY DEF InLoop
  <1>2. m_getFrom' \in Indices /\ delivered' \in Seq(Bytes) /\ Fifo'
    BY <1>1, ConsumeStep
  <1>3. m_linelen \in Nat /\ m_linelen < MAXLEN
    BY NbbioAssumption DEF InLoop, IInv, TypeOK
  <1>4. CopyFrom(linebuf, 0, m_linelen) \in Seq(Bytes \cup {NUL})
    <2>1. \A i \in 1..m_linelen : linebuf[0 + i - 1] \in Bytes \cup {NUL}
      BY <1>3, NbbioAssumption DEF IInv, TypeOK
    <2> QED BY <1>3, <2>1 DEF CopyFrom
  <1>5. lines' \in Seq(Seq(Bytes \cup {NUL}))
    BY <1>4, AppendProperties DEF IInv, TypeOK, ReturnLine
  <1>6. /\ linebuf' \in [0..(MAXLEN - 1) -> Bytes \cup {NUL}]
        /\ m_linelen' \in 0..MAXLEN
        /\ m_lastchar' \in Bytes \cup {NUL}
        /\ pc' \in {"idle", "readline"}
    BY <1>3, NbbioAssumption DEF IInv, TypeOK, ReturnLine
  <1>7. TypeOK'
    BY <1>2, <1>5, <1>6 DEF IInv, TypeOK, Consume, Indices
  <1> QED BY <1>2, <1>7 DEF IInv

\* readline() takes over a character, or ignores an LF.
LEMMA ReadCharInv ==
  ASSUME IInv, ReadChar \/ SkipLF
  PROVE  IInv'
  <1>1. ~isEmpty /\ Consume /\ m_linelen < MAXLEN
    BY DEF ReadChar, SkipLF, InLoop
  <1>2. /\ readc \in Bytes /\ m_getFrom' \in Indices
        /\ delivered' \in Seq(Bytes) /\ Fifo'
    BY <1>1, ConsumeStep
  <1>3. m_linelen \in 0..(MAXLEN - 1)
    BY <1>1, NbbioAssumption DEF IInv, TypeOK
  <1>4. CASE ReadChar
    <2>1. /\ linebuf' \in [0..(MAXLEN - 1) -> Bytes \cup {NUL}]
          /\ m_linelen' \in 0..MAXLEN
          /\ m_lastchar' \in Bytes \cup {NUL}
          /\ pc' = pc /\ lines' = lines
      BY <1>2, <1>3, <1>4, NbbioAssumption DEF IInv, TypeOK, ReadChar
    <2> QED BY <1>1, <1>2, <2>1 DEF IInv, TypeOK, Consume, Indices
  <1>5. CASE SkipLF
    BY <1>1, <1>2, <1>5 DEF IInv, TypeOK, Consume, Indices, SkipLF, lineVars
  <1> QED BY <1>4, <1>5

\* Every step keeps the invariant.
LEMMA NextIInv == IInv /\ [Next]_vars => IInv'
  <1> SUFFICES ASSUME IInv, [Next]_vars PROVE IInv'
    OBVIOUS
  <1>1. CASE \E p \in Chunks(BUFLEN - 1) : Put(p)
    BY <1>1, PutInv
  <1>2. CASE \E s \in Chunks(contigBytesFree) : FillFrom(s)
    BY <1>2, FillFromInv
  <1>3. CASE \E s \in Chunks(contigBytesFree), t \in Chunks(BUFLEN - 1) \cup {<<>>} :
                FillFromWrapping(s, t)
    BY <1>3, FillFromWrappingInv
  <1>4. CASE \E n \in 1..contigBytesUsed : FlushTo(n)
    BY <1>4, FlushToInv
  <1>5. CASE \E n \in 0..m_putTo : FlushToWrapping(n)
    BY <1>5, FlushToWrappingInv
  <1>6. CASE ReadChar \/ SkipLF
    BY <1>6, ReadCharInv
  <1>7. CASE ReadCR
    BY <1>7, ReturnLineInv DEF ReadCR
  <1>8. CASE ReadLF
    BY <1>8, ReturnLineInv DEF ReadLF
  <1>9. CASE Readline \/ ReadlineGivesUp \/ UNCHANGED vars
    BY <1>9 DEF Readline, ReadlineGivesUp, vars, bufVars, lineVars, IInv, TypeOK,
       Fifo, bytesUsed
  <1> QED
    BY <1>1, <1>2, <1>3, <1>4, <1>5, <1>6, <1>7, <1>8, <1>9 DEF Next

\* put, fillFrom, flushTo, readline and readc keep the indices inside the array
\* and the line inside the caller's buffer, and the bytes in their order, for
\* every nbbio_BUFLEN and maxlen.
THEOREM BufferIsAQueue == Spec => [](TypeOK /\ Fifo)
  <1>1. Spec => []IInv
    BY InitIInv, NextIInv, PTL DEF Spec
  <1> QED BY <1>1, PTL DEF IInv

(***************************************************************************)
(* The indices stay inside the arrays, whatever their lengths: m_getFrom   *)
(* and m_putTo are masked on every path (put, fillFrom, flushTo, readc),   *)
(* and readline's m_linelen stops short of maxlen.                         *)
(***************************************************************************)
THEOREM IndicesInRange == Spec => []TypeOK
  <1> QED BY BufferIsAQueue, PTL

------------------------------------------------------------------------------
\* No I/O with a length of zero while there is something to do: fillFrom asks
\* read() for no bytes, which it would take for the end of the connection,
\* only if the buffer is full, and flushTo returns without a write only if it
\* is empty (contigBytesFree, contigBytesUsed).
THEOREM NeverStalls == Spec => []NoStall
  <1>1. TypeOK => NoStall
    BY NbbioAssumption DEF TypeOK, NoStall, contigBytesFree, FreeFromTo,
       contigBytesUsed, bytesFree, bytesUsed, Masked, isEmpty
  <1> QED BY <1>1, BufferIsAQueue, PTL

------------------------------------------------------------------------------
(***************************************************************************)
(* readline. The unfinished line is the text at the end of what has come   *)
(* out, and m_lastchar is CR if only LFs came after the last CR.           *)
(***************************************************************************)
\* A CR, and after it nothing but LFs.
AfterCR(s) == \E j \in 1..Len(s) : s[j] = CR /\ \A k \in (j + 1)..Len(s) : s[k] = LF

\* The text before position e begins at i.
Starts(s, i, e) ==
    /\ i = 1 \/ ~IsText(s[i - 1])
    /\ \A j \in i..(e - 1) : IsText(s[j])

\* The text at the end of s is the first n characters of line.
Unfinished(s, line, n) ==
    /\ n \in 0..Len(s)
    /\ Starts(s, Len(s) - n + 1, Len(s) + 1)
    /\ \A i \in 1..n : s[Len(s) - n + i] = line[i - 1]

\* Where readline ends a line: at every CR, and at every LF but those that
\* follow a CR with nothing but LFs between them.
Found(s) ==
    {i \in DOMAIN s :
        \/ s[i] = CR
        \/ /\ s[i] = LF
           /\ ~ \E j \in 1..(i - 1) : s[j] = CR /\ \A k \in (j + 1)..(i - 1) : s[k] = LF}

\* ls are the lines of s.
AreLines(s, ls) ==
    /\ Len(ls) = Cardinality(Found(s))
    /\ \A e \in Found(s) :
          \E i \in 1..e : Starts(s, i, e) /\ ls[LineNo(Found(s), e)] = SubSeq(s, i, e - 1)

LineInv ==
    role = "input" =>
        /\ AreLines(delivered, lines)
        /\ Unfinished(delivered, linebuf, m_linelen)
        /\ m_lastchar = CR <=> AfterCR(delivered)

\* Text before a position begins at one place only.
LEMMA StartsOnce ==
  ASSUME NEW s, NEW e \in Nat, NEW i \in 1..e, NEW j \in 1..e, Starts(s, i, e), Starts(s, j, e)
  PROVE  i = j
  <1>1. ASSUME NEW a \in 1..e, NEW b \in 1..e, Starts(s, a, e), Starts(s, b, e), a < b
        PROVE  FALSE
    <2>1. b # 1 /\ b - 1 \in a..(e - 1)
      BY <1>1
    <2> QED BY <1>1, <2>1 DEF Starts
  <1> QED BY <1>1

\* So the lines found are those that LineEndingAt speaks of.
LEMMA AreLinesOf ==
  ASSUME NEW s \in Seq(Bytes), NEW ls, AreLines(s, ls), NEW e \in Found(s)
  PROVE  ls[LineNo(Found(s), e)] = LineEndingAt(s, e)
  <1>1. e \in Nat
    BY DEF Found
  <1>2. PICK i \in 1..e : Starts(s, i, e) /\ ls[LineNo(Found(s), e)] = SubSeq(s, i, e - 1)
    BY DEF AreLines
  <1> DEFINE first == CHOOSE k \in 1..e : Starts(s, k, e)
  <1>3. first \in 1..e /\ Starts(s, first, e)
    BY <1>2
  <1>4. LineEndingAt(s, e) = SubSeq(s, first, e - 1)
    BY DEF LineEndingAt, Starts
  <1> HIDE DEF first
  <1>5. first = i
    BY <1>1, <1>2, <1>3, StartsOnce
  <1> QED BY <1>2, <1>4, <1>5

\* One more character.
LEMMA AppendOne ==
  ASSUME NEW s \in Seq(Bytes), NEW c \in Bytes, NEW t, t = Append(s, c)
  PROVE  /\ t \in Seq(Bytes) /\ Len(s) \in Nat /\ Len(t) = Len(s) + 1 /\ t[Len(s) + 1] = c
         /\ \A i \in 1..Len(s) : t[i] = s[i]
  BY AppendProperties

\* The last CR and the LFs after it, with one more character.
LEMMA AfterAppend ==
  ASSUME NEW s \in Seq(Bytes), NEW c \in Bytes
  PROVE  AfterCR(Append(s, c)) <=> c = CR \/ (c = LF /\ AfterCR(s))
  <1> DEFINE t == Append(s, c)
  <1>0. /\ Len(s) \in Nat /\ Len(t) = Len(s) + 1 /\ t[Len(s) + 1] = c
        /\ \A i \in 1..Len(s) : t[i] = s[i]
    BY AppendOne
  <1> HIDE DEF t
  <1>1. ASSUME AfterCR(t) PROVE c = CR \/ (c = LF /\ AfterCR(s))
    <2>1. PICK j \in 1..Len(t) : t[j] = CR /\ \A k \in (j + 1)..Len(t) : t[k] = LF
      BY <1>1 DEF AfterCR
    <2>2. CASE j = Len(t)
      BY <1>0, <2>1, <2>2
    <2>3. CASE j # Len(t)
      <3>1. j \in 1..Len(s) /\ c = LF
        BY <1>0, <2>1, <2>3
      <3>2. s[j] = CR /\ \A k \in (j + 1)..Len(s) : s[k] = LF
        BY <1>0, <2>1, <3>1
      <3> QED BY <3>1, <3>2 DEF AfterCR
    <2> QED BY <2>2, <2>3
  <1>2. ASSUME c = CR PROVE AfterCR(t)
    <2>1. Len(t) \in 1..Len(t) /\ t[Len(t)] = CR /\ \A k \in (Len(t) + 1)..Len(t) : t[k] = LF
      BY <1>0, <1>2
    <2> QED BY <2>1 DEF AfterCR
  <1>3. ASSUME c = LF, AfterCR(s) PROVE AfterCR(t)
    <2>1. PICK j \in 1..Len(s) : s[j] = CR /\ \A k \in (j + 1)..Len(s) : s[k] = LF
      BY <1>3 DEF AfterCR
    <2>2. j \in 1..Len(t) /\ t[j] = CR /\ \A k \in (j + 1)..Len(t) : t[k] = LF
      BY <1>0, <1>3, <2>1
    <2> QED BY <2>2 DEF AfterCR
  <1> QED BY <1>1, <1>2, <1>3 DEF t

\* Whether a position is an end depends on what comes before it.
LEMMA FoundAppend ==
  ASSUME NEW s \in Seq(Bytes), NEW c \in Bytes
  PROVE  Found(Append(s, c)) = Found(s) \cup (IF c = CR \/ (c = LF /\ ~AfterCR(s))
                                            THEN {Len(s) + 1} ELSE {})
  <1> DEFINE t == Append(s, c)
             Broken(u, i) == \E j \in 1..(i - 1) :
                                u[j] = CR /\ \A k \in (j + 1)..(i - 1) : u[k] = LF
             More == IF c = CR \/ (c = LF /\ ~AfterCR(s)) THEN {Len(s) + 1} ELSE {}
  <1>0. /\ Len(s) \in Nat /\ Len(t) = Len(s) + 1 /\ t[Len(s) + 1] = c
        /\ \A i \in 1..Len(s) : t[i] = s[i]
        /\ DOMAIN s = 1..Len(s) /\ DOMAIN t = 1..Len(t)
    BY AppendOne, LenProperties
  <1>1. /\ \A i : i \in Found(s) <=> i \in 1..Len(s) /\ (s[i] = CR \/ (s[i] = LF /\ ~Broken(s, i)))
        /\ \A i : i \in Found(t) <=> i \in 1..Len(t) /\ (t[i] = CR \/ (t[i] = LF /\ ~Broken(t, i)))
    BY <1>0 DEF Found
  <1> HIDE DEF t
  <1>2. \A i \in 1..Len(s) : Broken(s, i) <=> Broken(t, i)
    BY <1>0
  <1>3. Broken(t, Len(s) + 1) <=> AfterCR(s)
    BY <1>0 DEF AfterCR
  <1> HIDE DEF Broken
  <1>4. \A i \in 1..Len(s) : i \in Found(t) <=> i \in Found(s)
    BY <1>0, <1>1, <1>2
  <1>5. Len(s) + 1 \in Found(t) <=> c = CR \/ (c = LF /\ ~AfterCR(s))
    BY <1>0, <1>1, <1>3
  <1>6. Found(s) \subseteq 1..Len(s) /\ Found(t) \subseteq 1..(Len(s) + 1)
    BY <1>0, <1>1
  <1>7. \A i : i \in Found(t) <=> i \in Found(s) \cup More
    BY <1>0, <1>4, <1>5, <1>6
  <1>8. Found(t) = Found(s) \cup More
    BY <1>7
  <1> QED BY <1>8 DEF t

\* The ends are finitely many, and numbered.
LEMMA FoundCount ==
  ASSUME NEW s \in Seq(Bytes)
  PROVE  /\ Found(s) \subseteq 1..Len(s) /\ Len(s) \in Nat
         /\ IsFiniteSet(Found(s)) /\ Cardinality(Found(s)) \in Nat
         /\ \A e \in Found(s) : LineNo(Found(s), e) \in 1..Cardinality(Found(s))
  <1>1. Found(s) \subseteq 1..Len(s) /\ Len(s) \in Nat
    BY LenProperties DEF Found
  <1>2. IsFiniteSet(Found(s)) /\ Cardinality(Found(s)) \in Nat
    <2>1. IsFiniteSet(1..Len(s))
      BY <1>1, FS_Interval
    <2> QED BY <1>1, <2>1, FS_Subset, FS_CardinalityType
  <1>3. ASSUME NEW e \in Found(s) PROVE LineNo(Found(s), e) \in 1..Cardinality(Found(s))
    <2> DEFINE B == {d \in Found(s) : d < e}
               E == Found(s) \ {e}
    <2>1. IsFiniteSet(E) /\ Cardinality(E) = Cardinality(Found(s)) - 1
      BY <1>2, FS_RemoveElement
    <2>2. B \subseteq E
      BY <1>1
    <2>3. IsFiniteSet(B) /\ Cardinality(B) <= Cardinality(E) /\ Cardinality(B) \in Nat
      BY <2>1, <2>2, FS_Subset, FS_CardinalityType
    <2> QED BY <1>2, <2>1, <2>3 DEF LineNo
  <1> QED BY <1>1, <1>2, <1>3

\* Where text begins depends on what comes before it.
LEMMA StartsAppend ==
  ASSUME NEW s \in Seq(Bytes), NEW c \in Bytes, NEW e \in 1..(Len(s) + 1), NEW i \in 1..e
  PROVE  /\ Starts(Append(s, c), i, e) <=> Starts(s, i, e)
         /\ SubSeq(Append(s, c), i, e - 1) = SubSeq(s, i, e - 1)
  <1> DEFINE t == Append(s, c)
  <1>0. /\ t \in Seq(Bytes) /\ Len(s) \in Nat /\ Len(t) = Len(s) + 1
        /\ \A k \in 1..Len(s) : t[k] = s[k]
    BY AppendOne
  <1> HIDE DEF t
  <1>a. /\ e \in Nat /\ i \in Nat /\ i >= 1 /\ e <= Len(s) + 1
        /\ i # 1 => i - 1 \in 1..Len(s)
        /\ \A j \in i..(e - 1) : j \in 1..Len(s)
    BY <1>0
  <1>1. Starts(t, i, e) <=> Starts(s, i, e)
    <2>1. i = 1 \/ t[i - 1] = s[i - 1]
      BY <1>0, <1>a
    <2>2. \A j \in i..(e - 1) : t[j] = s[j]
      BY <1>0, <1>a
    <2> QED BY <2>1, <2>2 DEF Starts
  <1>2. SubSeq(t, i, e - 1) = SubSeq(s, i, e - 1)
    <2>1. \A k \in 1..(e - i) : i + k - 1 \in 1..Len(s)
      BY <1>0, <1>a
    <2> QED BY <1>0, <1>a, <2>1
  <1> QED BY <1>1, <1>2 DEF t

\* A character that ends no line leaves the lines as they are.
LEMMA NoEnd ==
  ASSUME NEW s \in Seq(Bytes), NEW c \in Bytes, NEW ls, AreLines(s, ls),
         Found(Append(s, c)) = Found(s)
  PROVE  AreLines(Append(s, c), ls)
  <1> DEFINE t == Append(s, c)
             E == Found(s)
  <1>1. E \subseteq 1..Len(s) /\ Len(s) \in Nat
    BY FoundCount
  <1>2. ASSUME NEW e \in E
        PROVE  \E i \in 1..e : Starts(t, i, e) /\ ls[LineNo(E, e)] = SubSeq(t, i, e - 1)
    <2>1. e \in 1..(Len(s) + 1)
      BY <1>1
    <2>2. PICK i \in 1..e : Starts(s, i, e) /\ ls[LineNo(E, e)] = SubSeq(s, i, e - 1)
      BY DEF AreLines
    <2>3. Starts(t, i, e) /\ SubSeq(t, i, e - 1) = SubSeq(s, i, e - 1)
      BY <2>1, <2>2, StartsAppend
    <2> QED BY <2>2, <2>3
  <1>3. Found(t) = E /\ Len(ls) = Cardinality(E)
    BY DEF AreLines
  <1> HIDE DEF t, E
  <1>4. AreLines(t, ls)
    BY <1>2, <1>3 DEF AreLines
  <1> QED BY <1>4 DEF t

\* A character that ends a line adds the unfinished one.
LEMMA OneMoreEnd ==
  ASSUME NEW s \in Seq(Bytes), NEW c \in Bytes, NEW X, NEW ls \in Seq(X), NEW line \in X,
         AreLines(s, ls), Found(Append(s, c)) = Found(s) \cup {Len(s) + 1},
         NEW n \in 0..Len(s), Starts(s, Len(s) - n + 1, Len(s) + 1),
         line = SubSeq(s, Len(s) - n + 1, Len(s))
  PROVE  AreLines(Append(s, c), Append(ls, line))
  <1> DEFINE t == Append(s, c)
             E == Found(s)
             F == Found(t)
             m == Len(s) + 1
             ms == Append(ls, line)
  <1>1. /\ E \subseteq 1..Len(s) /\ Len(s) \in Nat
        /\ IsFiniteSet(E) /\ Cardinality(E) \in Nat
        /\ \A e \in E : LineNo(E, e) \in 1..Cardinality(E)
    BY FoundCount
  <1>2. F = E \cup {m}
    OBVIOUS
  <1>3. m \notin E
    BY <1>1
  <1>4. Cardinality(F) = Cardinality(E) + 1
    BY <1>1, <1>2, <1>3, FS_AddElement
  <1>5. /\ Len(ls) = Cardinality(E) /\ Len(ms) = Len(ls) + 1 /\ ms[Len(ls) + 1] = line
        /\ \A k \in 1..Len(ls) : ms[k] = ls[k]
    BY AppendProperties DEF AreLines
  <1>6. ASSUME NEW e \in E
        PROVE  \E i \in 1..e : Starts(t, i, e) /\ ms[LineNo(F, e)] = SubSeq(t, i, e - 1)
    <2>1. e \in 1..(Len(s) + 1) /\ e \in 1..Len(s)
      BY <1>1
    <2>2. PICK i \in 1..e : Starts(s, i, e) /\ ls[LineNo(E, e)] = SubSeq(s, i, e - 1)
      BY DEF AreLines
    <2>3. Starts(t, i, e) /\ SubSeq(t, i, e - 1) = SubSeq(s, i, e - 1)
      BY <2>1, <2>2, StartsAppend
    <2>4. {d \in F : d < e} = {d \in E : d < e}
      BY <1>1, <1>2, <2>1
    <2>5. LineNo(F, e) = LineNo(E, e)
      BY <2>4 DEF LineNo
    <2>6. ms[LineNo(F, e)] = ls[LineNo(E, e)]
      BY <1>1, <1>5, <2>5
    <2> QED BY <2>2, <2>3, <2>6
  <1>7. \E i \in 1..m : Starts(t, i, m) /\ ms[LineNo(F, m)] = SubSeq(t, i, m - 1)
    <2> DEFINE i == Len(s) - n + 1
    <2>1. i \in 1..m /\ m \in 1..(Len(s) + 1) /\ m - 1 = Len(s)
      BY <1>1
    <2>2. Starts(t, i, m) /\ SubSeq(t, i, m - 1) = SubSeq(s, i, m - 1)
      BY <2>1, StartsAppend
    <2>3. {d \in F : d < m} = E
      BY <1>1, <1>2
    <2>4. ms[LineNo(F, m)] = line
      BY <1>5, <2>3 DEF LineNo
    <2> QED BY <2>1, <2>2, <2>4
  <1> HIDE DEF t, E, ms, m
  <1>8. \A e \in F : \E i \in 1..e : Starts(t, i, e) /\ ms[LineNo(F, e)] = SubSeq(t, i, e - 1)
    BY <1>2, <1>6, <1>7
  <1>9. AreLines(t, ms)
    BY <1>4, <1>5, <1>8 DEF AreLines
  <1> QED BY <1>9 DEF t, ms

\* The lines at the start.
LEMMA InitLineInv == Init => LineInv
  <1> SUFFICES ASSUME Init PROVE LineInv
    OBVIOUS
  <1>1. delivered = <<>> /\ lines = <<>> /\ m_linelen = 0 /\ m_lastchar = NUL
    BY DEF Init
  <1>2. Len(delivered) = 0 /\ Len(lines) = 0
    BY <1>1
  <1>3. Found(delivered) = {}
    BY <1>1 DEF Found
  <1>4. AreLines(delivered, lines)
    BY <1>2, <1>3, FS_EmptySet DEF AreLines
  <1>5. Unfinished(delivered, linebuf, m_linelen)
    BY <1>1, <1>2 DEF Unfinished, Starts
  <1>6. m_lastchar # CR /\ ~AfterCR(delivered)
    BY <1>1, <1>2, NbbioAssumption DEF AfterCR
  <1> QED BY <1>4, <1>5, <1>6 DEF LineInv

\* A character of the text.
LEMMA ReadCharLines ==
  ASSUME IInv, LineInv, ReadChar, role = "input"
  PROVE  LineInv'
  <1> DEFINE s == delivered
             c == readc
             t == Append(s, c)
             n == m_linelen
  <1>1. /\ c \notin {CR, LF} /\ ~isEmpty /\ Consume
        /\ linebuf' = [linebuf EXCEPT ![n] = c] /\ m_linelen' = n + 1 /\ m_lastchar' = c
        /\ lines' = lines /\ n < MAXLEN
    BY DEF ReadChar, InLoop
  <1>2. c \in Bytes /\ s \in Seq(Bytes) /\ n \in 0..(MAXLEN - 1)
        /\ linebuf \in [0..(MAXLEN - 1) -> Bytes \cup {NUL}]
    BY <1>1, ConsumeStep, NbbioAssumption DEF IInv, TypeOK
  <1>3. delivered' = t /\ role' = role
    BY <1>1 DEF Consume
  <1>4. AreLines(s, lines) /\ Unfinished(s, linebuf, n)
    BY DEF LineInv
  <1>5. /\ t \in Seq(Bytes) /\ Len(s) \in Nat /\ Len(t) = Len(s) + 1 /\ t[Len(s) + 1] = c
        /\ \A i \in 1..Len(s) : t[i] = s[i]
    BY <1>2, AppendOne
  <1>6. AreLines(t, lines)
    <2>1. Found(t) = Found(s)
      BY <1>1, <1>2, FoundAppend
    <2> QED BY <1>2, <1>4, <2>1, NoEnd
  <1>7. ~AfterCR(t)
    BY <1>1, <1>2, AfterAppend
  <1> HIDE DEF s, c, t, n
  <1>8. Unfinished(t, linebuf', n + 1)
    <2>1. n + 1 \in 0..Len(t) /\ Len(t) - (n + 1) + 1 = Len(s) - n + 1 /\ n \in 0..Len(s)
      BY <1>2, <1>4, <1>5 DEF Unfinished
    <2>2. Starts(t, Len(s) - n + 1, Len(t) + 1)
      <3> DEFINE i == Len(s) - n + 1
      <3>1. i \in 1..(Len(s) + 1) /\ i \in Nat
        BY <1>5, <2>1
      <3>2. i = 1 \/ ~IsText(t[i - 1])
        BY <1>4, <1>5, <3>1 DEF Unfinished, Starts
      <3>3. \A j \in i..Len(s) : j \in 1..Len(s) /\ IsText(s[j])
        BY <1>4, <1>5, <3>1 DEF Unfinished, Starts
      <3>4. ASSUME NEW j \in i..Len(t) PROVE IsText(t[j])
        <4>1. CASE j = Len(s) + 1
          BY <1>1, <1>5, <4>1 DEF IsText
        <4>2. CASE j # Len(s) + 1
          <5>1. j \in i..Len(s)
            BY <1>5, <3>1, <4>2
          <5> QED BY <1>5, <3>3, <5>1
        <4> QED BY <4>1, <4>2
      <3> QED BY <1>5, <3>2, <3>4 DEF Starts
    <2>3. ASSUME NEW i \in 1..(n + 1) PROVE t[Len(t) - (n + 1) + i] = linebuf'[i - 1]
      <3>1. CASE i = n + 1
        BY <1>1, <1>2, <1>5, <3>1
      <3>2. CASE i # n + 1
        <4>1. i \in 1..n /\ Len(t) - (n + 1) + i = Len(s) - n + i /\ Len(s) - n + i \in 1..Len(s)
          BY <1>2, <1>5, <2>1, <3>2
        <4>2. s[Len(s) - n + i] = linebuf[i - 1]
          BY <1>4, <4>1 DEF Unfinished
        <4>3. linebuf'[i - 1] = linebuf[i - 1]
          BY <1>1, <1>2, <4>1
        <4> QED BY <1>5, <4>1, <4>2, <4>3
      <3> QED BY <3>1, <3>2
    <2> QED BY <2>1, <2>2, <2>3 DEF Unfinished
  <1>9. m_lastchar' # CR
    BY <1>1
  <1> QED BY <1>1, <1>3, <1>6, <1>7, <1>8, <1>9 DEF LineInv

\* A CR, or an LF that ends a line.
LEMMA ReturnLineLines ==
  ASSUME IInv, LineInv, ReadCR \/ ReadLF, role = "input"
  PROVE  LineInv'
  <1> DEFINE s == delivered
             c == readc
             t == Append(s, c)
             n == m_linelen
             line == CopyFrom(linebuf, 0, n)
             X == Seq(Bytes \cup {NUL})
  <1>1. /\ c = CR \/ (c = LF /\ m_lastchar # CR)
        /\ ~isEmpty /\ Consume
        /\ lines' = Append(lines, line) /\ m_linelen' = 0 /\ m_lastchar' = c
        /\ n < MAXLEN
    BY DEF ReadCR, ReadLF, InLoop, ReturnLine
  <1>2. /\ c \in Bytes /\ s \in Seq(Bytes) /\ n \in 0..(MAXLEN - 1)
        /\ linebuf \in [0..(MAXLEN - 1) -> Bytes \cup {NUL}] /\ lines \in Seq(X)
    BY <1>1, ConsumeStep, NbbioAssumption DEF IInv, TypeOK
  <1>3. delivered' = t /\ role' = role
    BY <1>1 DEF Consume
  <1>4. AreLines(s, lines) /\ Unfinished(s, linebuf, n) /\ (m_lastchar = CR <=> AfterCR(s))
    BY DEF LineInv
  <1>5. /\ t \in Seq(Bytes) /\ Len(s) \in Nat /\ Len(t) = Len(s) + 1 /\ t[Len(s) + 1] = c
    BY <1>2, AppendOne
  <1>6. line \in X
    <2>1. \A i \in 1..n : linebuf[0 + i - 1] \in Bytes \cup {NUL}
      BY <1>2, NbbioAssumption
    <2> QED BY <1>2, <2>1 DEF CopyFrom
  <1>7. Found(t) = Found(s) \cup {Len(s) + 1}
    BY <1>1, <1>2, <1>4, FoundAppend
  <1>8. AfterCR(t) <=> c = CR
    BY <1>1, <1>2, <1>4, AfterAppend
  <1>9. line = SubSeq(s, Len(s) - n + 1, Len(s))
    <2>1. /\ n \in 0..Len(s) /\ n \in Nat
          /\ \A i \in 1..n : s[Len(s) - n + i] = linebuf[i - 1]
      BY <1>2, <1>4, <1>5 DEF Unfinished
    <2>2. SubSeq(s, Len(s) - n + 1, Len(s)) = [i \in 1..n |-> s[Len(s) - n + i]]
      BY <1>2, <1>5, <2>1
    <2>3. line = [i \in 1..n |-> linebuf[i - 1]]
      BY <2>1 DEF CopyFrom
    <2> QED BY <2>1, <2>2, <2>3
  <1> HIDE DEF s, c, t, n, line, X
  <1>10. AreLines(t, Append(lines, line))
    BY <1>2, <1>4, <1>6, <1>7, <1>9, OneMoreEnd DEF t, Unfinished
  <1>11. Unfinished(t, linebuf', 0)
    BY <1>1, <1>5 DEF Unfinished, Starts, IsText
  <1> QED BY <1>1, <1>3, <1>8, <1>10, <1>11 DEF LineInv

\* The LF of a CR LF.
LEMMA SkipLFLines ==
  ASSUME IInv, LineInv, SkipLF, role = "input"
  PROVE  LineInv'
  <1> DEFINE s == delivered
             c == readc
             t == Append(s, c)
             n == m_linelen
  <1>1. /\ c = LF /\ m_lastchar = CR /\ ~isEmpty /\ Consume
        /\ UNCHANGED <<linebuf, m_linelen, m_lastchar, lines>>
    BY DEF SkipLF, InLoop, lineVars
  <1>2. c \in Bytes /\ s \in Seq(Bytes)
    BY <1>1, ConsumeStep DEF IInv, TypeOK
  <1>3. delivered' = t /\ role' = role
    BY <1>1 DEF Consume
  <1>4. AreLines(s, lines) /\ Unfinished(s, linebuf, n) /\ AfterCR(s)
    BY <1>1 DEF LineInv
  <1>5. /\ t \in Seq(Bytes) /\ Len(s) \in Nat /\ Len(t) = Len(s) + 1 /\ t[Len(s) + 1] = c
    BY <1>2, AppendOne
  <1>6. AreLines(t, lines)
    <2>1. Found(t) = Found(s)
      BY <1>1, <1>2, <1>4, NbbioAssumption, FoundAppend
    <2> QED BY <1>2, <1>4, <2>1, NoEnd
  <1>7. AfterCR(t)
    BY <1>1, <1>2, <1>4, AfterAppend
  <1> HIDE DEF s, c, t, n
  <1>8. n = 0
    <2>1. PICK j \in 1..Len(s) : s[j] = CR /\ \A k \in (j + 1)..Len(s) : s[k] = LF
      BY <1>4 DEF AfterCR
    <2>2. s[Len(s)] \in {CR, LF}
      BY <1>5, <2>1
    <2>3. n \in 0..Len(s) /\ \A k \in (Len(s) - n + 1)..Len(s) : IsText(s[k])
      BY <1>4, <1>5 DEF Unfinished, Starts
    <2> QED BY <1>5, <2>2, <2>3 DEF IsText
  <1>9. Unfinished(t, linebuf, 0)
    BY <1>1, <1>5 DEF Unfinished, Starts, IsText
  <1> QED BY <1>1, <1>3, <1>6, <1>7, <1>8, <1>9 DEF LineInv, n

\* Every step keeps the lines.
LEMMA NextLineInv == IInv /\ LineInv /\ [Next]_vars => LineInv'
  <1> SUFFICES ASSUME IInv, LineInv, [Next]_vars, role' = "input" PROVE LineInv'
    BY DEF LineInv
  <1>1. CASE ReadChar \/ ReadCR \/ ReadLF \/ SkipLF
    <2>1. role = "input"
      BY <1>1 DEF ReadChar, ReadCR, ReadLF, SkipLF, Consume
    <2> QED BY <1>1, <2>1, ReadCharLines, ReturnLineLines, SkipLFLines
  <1>2. CASE UNCHANGED <<role, delivered, lines, linebuf, m_linelen, m_lastchar>>
    BY <1>2 DEF LineInv
  <1>3. CASE (\E n \in 1..contigBytesUsed : FlushTo(n)) \/ (\E n \in 0..m_putTo : FlushToWrapping(n))
    BY <1>3 DEF FlushTo, FlushToWrapping
  <1>4. CASE \E p \in Chunks(BUFLEN - 1) : Put(p)
    BY <1>2, <1>4 DEF Put, lineVars
  <1>5. CASE \E s \in Chunks(contigBytesFree) : FillFrom(s)
    BY <1>2, <1>5 DEF FillFrom, lineVars
  <1>6. CASE \E s \in Chunks(contigBytesFree), t \in Chunks(BUFLEN - 1) \cup {<<>>} :
                FillFromWrapping(s, t)
    BY <1>2, <1>6 DEF FillFromWrapping, lineVars
  <1>7. CASE Readline \/ ReadlineGivesUp \/ UNCHANGED vars
    BY <1>2, <1>7 DEF Readline, ReadlineGivesUp, vars, lineVars
  <1> QED BY <1>1, <1>3, <1>4, <1>5, <1>6, <1>7 DEF Next

\* Those are ends of lines, and the others end lines without text: the LF that
\* readline ignores although no CR is right before it comes after an LF.
LEMMA FoundAreEnds ==
  ASSUME NEW s \in Seq(Bytes)
  PROVE  /\ Found(s) \subseteq Ends(s)
         /\ \A e \in Ends(s) \ Found(s) : e > 1 /\ s[e] = LF /\ s[e - 1] = LF
         /\ LonelyLFs(s) => Found(s) = Ends(s)
  <1> USE NbbioAssumption
  <1>0. Len(s) \in Nat /\ DOMAIN s = 1..Len(s)
    BY LenProperties
  <1> DEFINE Broken(i) == \E j \in 1..(i - 1) : s[j] = CR /\ \A k \in (j + 1)..(i - 1) : s[k] = LF
  <1>1. /\ \A i : i \in Found(s) <=> i \in 1..Len(s) /\ (s[i] = CR \/ (s[i] = LF /\ ~Broken(i)))
        /\ \A i : i \in Ends(s)
                    <=> i \in 1..Len(s)
                        /\ (s[i] = CR \/ (s[i] = LF /\ ~ (i > 1 /\ s[i - 1] = CR)))
    BY <1>0 DEF Found, Ends
  <1>2. ASSUME NEW i \in 1..Len(s), i > 1, s[i - 1] = CR PROVE Broken(i)
    <2> DEFINE j == i - 1
    <2>1. j \in 1..(i - 1) /\ i - 1 = j /\ j \in Nat
      BY <1>2
    <2>2. \A k \in (j + 1)..(i - 1) : s[k] = LF
      <3> HIDE DEF j
      <3> QED BY <2>1
    <2>3. s[j] = CR
      BY <1>2
    <2> HIDE DEF j
    <2> QED BY <2>1, <2>2, <2>3
  <1>3. Found(s) \subseteq Ends(s)
    <2> HIDE DEF Broken
    <2> QED BY <1>1, <1>2
  <1>4. ASSUME NEW i \in 1..Len(s), Broken(i), ~ (i > 1 /\ s[i - 1] = CR)
        PROVE  /\ i > 2 /\ s[i - 1] = LF
               /\ \E k \in 3..i : s[k - 1] = LF /\ s[k - 2] = CR /\ (k = i \/ s[k] = LF)
    <2>1. PICK j \in 1..(i - 1) : s[j] = CR /\ \A k \in (j + 1)..(i - 1) : s[k] = LF
      BY <1>4
    <2>2. j # i - 1 /\ i \in Nat /\ j \in Nat
      BY <1>4, <2>1
    <2>3. j + 2 \in 3..i /\ j + 1 \in (j + 1)..(i - 1) /\ i - 1 \in (j + 1)..(i - 1)
      BY <2>2
    <2>4. s[j + 1] = LF /\ s[i - 1] = LF /\ (j + 2 = i \/ s[j + 2] = LF)
      BY <2>1, <2>2, <2>3
    <2>5. (j + 2) - 1 = j + 1 /\ (j + 2) - 2 = j
      BY <2>2
    <2> QED BY <2>1, <2>2, <2>3, <2>4, <2>5
  <1>5. \A e \in Ends(s) \ Found(s) : e > 1 /\ s[e] = LF /\ s[e - 1] = LF
    <2> SUFFICES ASSUME NEW e \in Ends(s), e \notin Found(s)
                 PROVE  e > 1 /\ s[e] = LF /\ s[e - 1] = LF
      OBVIOUS
    <2>1. e \in 1..Len(s) /\ s[e] = LF /\ Broken(e) /\ ~ (e > 1 /\ s[e - 1] = CR)
      BY <1>1
    <2> HIDE DEF Broken
    <2> QED BY <1>4, <2>1
  <1>6. ASSUME LonelyLFs(s) PROVE Ends(s) \subseteq Found(s)
    <2> SUFFICES ASSUME NEW e \in Ends(s), e \notin Found(s) PROVE FALSE
      OBVIOUS
    <2>1. e \in 1..Len(s) /\ s[e] = LF /\ Broken(e) /\ ~ (e > 1 /\ s[e - 1] = CR)
      BY <1>1
    <2>2. PICK k \in 3..e : s[k - 1] = LF /\ s[k - 2] = CR /\ (k = e \/ s[k] = LF)
      <3> HIDE DEF Broken
      <3> QED BY <1>4, <2>1
    <2>3. k \in 3..Len(s) /\ s[k] = LF /\ s[k - 1] = LF /\ s[k - 2] = CR
      BY <1>0, <2>1, <2>2
    <2> QED BY <1>6, <2>3 DEF LonelyLFs
  <1> QED BY <1>3, <1>5, <1>6

\* A line that ends right after an LF is empty.
LEMMA EmptyLine ==
  ASSUME NEW s \in Seq(Bytes), NEW e \in 1..Len(s), e > 1, s[e - 1] = LF
  PROVE  LineEndingAt(s, e) = <<>>
  <1> DEFINE first == CHOOSE k \in 1..e : Starts(s, k, e)
  <1>1. e \in Nat /\ Len(s) \in Nat
    BY LenProperties
  <1>2. Starts(s, e, e)
    BY <1>1 DEF Starts, IsText
  <1>3. first \in 1..e /\ Starts(s, first, e)
    BY <1>1, <1>2
  <1>4. LineEndingAt(s, e) = SubSeq(s, first, e - 1)
    BY DEF LineEndingAt, Starts
  <1> HIDE DEF first
  <1>5. first = e
    BY <1>1, <1>2, <1>3, StartsOnce
  <1>6. SubSeq(s, e, e - 1) = <<>>
    BY <1>1
  <1> QED BY <1>4, <1>5, <1>6

\* What is known of the lines at any time.
LEMMA LinesFound ==
  ASSUME IInv, LineInv, role = "input"
  PROVE  delivered \in Seq(Bytes) /\ LinesAt(lines, delivered, Found(delivered))
  <1>1. AreLines(delivered, lines) /\ delivered \in Seq(Bytes)
    BY DEF LineInv, IInv, TypeOK
  <1> QED BY <1>1, AreLinesOf DEF AreLines, LinesAt

(***************************************************************************)
(* readline returns the lines of the stream as nbbio.h says where they     *)
(* end, all of them and nothing else, for every stream without two LFs     *)
(* after a CR, every nbbio_BUFLEN and maxlen, however the stream is cut    *)
(* into reads: m_lastchar and m_linelen carry over what a call needs to    *)
(* know of those before it.                                                *)
(***************************************************************************)
THEOREM ReadlineIsRight == Spec => []LinesAreTheStream
  <1>1. Spec => [](IInv /\ LineInv)
    BY InitIInv, InitLineInv, NextIInv, NextLineInv, PTL DEF Spec
  <1>2. IInv /\ LineInv => LinesAreTheStream
    <2> SUFFICES ASSUME IInv, LineInv, role = "input", LonelyLFs(delivered)
                 PROVE  LinesAt(lines, delivered, Ends(delivered))
      BY DEF LinesAreTheStream
    <2>1. delivered \in Seq(Bytes) /\ LinesAt(lines, delivered, Found(delivered))
      BY LinesFound
    <2>2. Found(delivered) = Ends(delivered)
      BY <2>1, FoundAreEnds
    <2> QED BY <2>1, <2>2
  <1> QED BY <1>1, <1>2, PTL

(***************************************************************************)
(* And for every stream, also with CR LF LF, what readline returns are     *)
(* lines of the stream, each once and in order, and no text is missing.    *)
(***************************************************************************)
THEOREM OnlyEmptyLinesAreLost == Spec => []OnlyEmptyLost
  <1>1. Spec => [](IInv /\ LineInv)
    BY InitIInv, InitLineInv, NextIInv, NextLineInv, PTL DEF Spec
  <1>2. IInv /\ LineInv => OnlyEmptyLost
    <2> SUFFICES ASSUME IInv, LineInv, role = "input"
                 PROVE  \E ends \in SUBSET Ends(delivered) :
                           /\ LinesAt(lines, delivered, ends)
                           /\ \A e \in Ends(delivered) \ ends : LineEndingAt(delivered, e) = <<>>
      BY DEF OnlyEmptyLost
    <2>1. delivered \in Seq(Bytes) /\ LinesAt(lines, delivered, Found(delivered))
      BY LinesFound
    <2>2. /\ Found(delivered) \subseteq Ends(delivered)
          /\ \A e \in Ends(delivered) \ Found(delivered) :
                e > 1 /\ delivered[e] = LF /\ delivered[e - 1] = LF
      BY <2>1, FoundAreEnds
    <2>3. Ends(delivered) \subseteq 1..Len(delivered)
      BY <2>1, LenProperties DEF Ends
    <2>4. \A e \in Ends(delivered) \ Found(delivered) : LineEndingAt(delivered, e) = <<>>
      BY <2>1, <2>2, <2>3, EmptyLine
    <2> QED BY <2>1, <2>2, <2>4
  <1> QED BY <1>1, <1>2, PTL
==============================================================================
