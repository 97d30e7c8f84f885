------------------------------ MODULE BufferProofs ------------------------------
(***************************************************************************)
(* Theorems about Buffer, for any sizes and bounds: its indices stay in    *)
(* order, no assertion about its state fails, its readable bytes are those *)
(* of a queue, and its vector does not creep.                              *)
(***************************************************************************)
EXTENDS Buffer, SequenceTheorems, TLAPS

\* A buffer whose indices are in order.
Ordered(b) ==
    /\ b \in [buffer_ : Seq(Byte), readerIndex_ : Nat, writerIndex_ : Nat]
    /\ b.readerIndex_ <= b.writerIndex_
    /\ b.writerIndex_ <= Len(b.buffer_)

Size(b) == Len(b.buffer_)

\* A function on 1 .. n is a sequence of length n.
LEMMA FunctionIsSeq ==
    ASSUME NEW S, NEW n \in Nat, NEW f \in [1 .. n -> S]
    PROVE  f \in Seq(S) /\ Len(f) = n
  OBVIOUS

LEMMA DataIsSeq == \A data \in Data : data \in Seq(Byte) /\ Len(data) \in Nat
<1> SUFFICES ASSUME NEW data \in Data PROVE data \in Seq(Byte) /\ Len(data) \in Nat
    OBVIOUS
<1>1. PICK n \in 0 .. MaxChunk : data \in [1 .. n -> Byte]
    BY DEF Data
<1>2. n \in Nat
    BY BufferBoundAssumption
<1>3. QED
    BY <1>1, <1>2, FunctionIsSeq

LEMMA ConcatOf ==
    ASSUME NEW S, NEW s \in Seq(S), NEW t \in Seq(S), NEW n, n = Len(s)
    PROVE  /\ s \o t \in Seq(S) /\ Len(s \o t) = n + Len(t)
           /\ \A i \in 1 .. n + Len(t) :
                 (s \o t)[i] = IF i <= n THEN s[i] ELSE t[i - n]
  BY ConcatProperties

\* The readable bytes of a buffer, one by one.
LEMMA ReadableIsSeq ==
    ASSUME NEW b, Ordered(b)
    PROVE  /\ ReadableBytes(b) \in Nat /\ WritableBytes(b) \in Nat
           /\ Readable(b) \in Seq(Byte) /\ Len(Readable(b)) = ReadableBytes(b)
           /\ \A i \in 1 .. ReadableBytes(b) : Readable(b)[i] = b.buffer_[b.readerIndex_ + i]
<1>1. ReadableBytes(b) \in Nat /\ WritableBytes(b) \in Nat
    BY DEF Ordered, ReadableBytes, WritableBytes
<1>2. ASSUME NEW i \in 1 .. ReadableBytes(b)
      PROVE  b.buffer_[b.readerIndex_ + i] \in Byte
  <2>1. b.readerIndex_ + i \in 1 .. Len(b.buffer_)
      BY DEF Ordered, ReadableBytes
  <2>2. QED
      BY <2>1, ElementOfSeq DEF Ordered
<1>3. Readable(b) \in [1 .. ReadableBytes(b) -> Byte]
    BY <1>2 DEF Readable
<1>4. QED
    BY <1>1, <1>3, FunctionIsSeq DEF Readable

\* std::copy() to a place in the vector.
LEMMA CopyToWrites ==
    ASSUME NEW bytes \in Seq(Byte), NEW at \in Nat, NEW data \in Seq(Byte)
    PROVE  /\ CopyTo(bytes, at, data) \in Seq(Byte)
           /\ Len(CopyTo(bytes, at, data)) = Len(bytes)
           /\ \A i \in 1 .. Len(bytes) : CopyTo(bytes, at, data)[i] =
                 IF at < i /\ i <= at + Len(data) THEN data[i - at] ELSE bytes[i]
<1>1. ASSUME NEW i \in 1 .. Len(bytes)
      PROVE  (IF at < i /\ i <= at + Len(data) THEN data[i - at] ELSE bytes[i]) \in Byte
  <2>1. CASE at < i /\ i <= at + Len(data)
    <3>1. i - at \in 1 .. Len(data)
        BY <2>1
    <3>2. QED
        BY <2>1, <3>1, ElementOfSeq
  <2>2. CASE ~(at < i /\ i <= at + Len(data))
      BY <2>2, ElementOfSeq
  <2>3. QED
      BY <2>1, <2>2
<1>2. CopyTo(bytes, at, data) \in [1 .. Len(bytes) -> Byte]
    BY <1>1 DEF CopyTo
<1>3. QED
    BY <1>2, FunctionIsSeq DEF CopyTo

\* vector::resize() to a larger size.
LEMMA ResizeKeeps ==
    ASSUME NEW bytes \in Seq(Byte), NEW size \in Nat, Len(bytes) <= size
    PROVE  /\ Resize(bytes, size) \in Seq(Byte)
           /\ Len(Resize(bytes, size)) = size
           /\ \A i \in 1 .. Len(bytes) : Resize(bytes, size)[i] = bytes[i]
<1>1. ASSUME NEW i \in 1 .. size
      PROVE  (IF i <= Len(bytes) THEN bytes[i] ELSE Zero) \in Byte
    BY ElementOfSeq, ByteAssumption
<1>2. Resize(bytes, size) \in [1 .. size -> Byte]
    BY <1>1 DEF Resize
<1>3. QED
    BY <1>2, FunctionIsSeq DEF Resize

\* A buffer holds q if it does so byte for byte.
LEMMA ReadableIs ==
    ASSUME NEW b, Ordered(b), NEW q \in Seq(Byte), ReadableBytes(b) = Len(q),
           \A i \in 1 .. Len(q) : b.buffer_[b.readerIndex_ + i] = q[i]
    PROVE  Readable(b) = q
<1>1. Readable(b) \in Seq(Byte) /\ Len(Readable(b)) = Len(q)
    BY ReadableIsSeq
<1>2. \A i \in 1 .. Len(q) : Readable(b)[i] = q[i]
    BY ReadableIsSeq
<1> HIDE DEF Readable
<1>3. QED
    BY <1>1, <1>2, SeqEqual

\* Bytes written behind the content are appended to it.
LEMMA WriteAppends ==
    ASSUME NEW b, Ordered(b), NEW data \in Seq(Byte), Len(data) <= WritableBytes(b)
    PROVE  /\ Ordered(Write(b, data))
           /\ Readable(Write(b, data)) = Readable(b) \o data
           /\ Size(Write(b, data)) = Size(b)
           /\ ReadableBytes(Write(b, data)) = ReadableBytes(b) + Len(data)
<1> DEFINE c == Write(b, data)
<1>0. /\ b.buffer_ \in Seq(Byte) /\ b.readerIndex_ \in Nat /\ b.writerIndex_ \in Nat
      /\ Len(data) \in Nat
    BY DEF Ordered
<1>1. /\ c \in [buffer_ : Seq(Byte), readerIndex_ : Nat, writerIndex_ : Nat]
      /\ c.buffer_ = CopyTo(b.buffer_, b.writerIndex_, data)
      /\ c.readerIndex_ = b.readerIndex_ /\ c.writerIndex_ = b.writerIndex_ + Len(data)
  <2>1. CopyTo(b.buffer_, b.writerIndex_, data) \in Seq(Byte)
      BY <1>0, CopyToWrites
  <2>2. c = [b EXCEPT !.buffer_ = CopyTo(b.buffer_, b.writerIndex_, data),
                      !.writerIndex_ = b.writerIndex_ + Len(data)]
      BY DEF Write
  <2> HIDE DEF c
  <2>3. DOMAIN b = {"buffer_", "readerIndex_", "writerIndex_"}
      BY DEF Ordered
  <2>4. /\ c.buffer_ = CopyTo(b.buffer_, b.writerIndex_, data)
        /\ c.readerIndex_ = b.readerIndex_ /\ c.writerIndex_ = b.writerIndex_ + Len(data)
      BY <2>2, <2>3
  <2>5. c \in [buffer_ : Seq(Byte), readerIndex_ : Nat, writerIndex_ : Nat]
    <3>1. c = [buffer_ |-> CopyTo(b.buffer_, b.writerIndex_, data),
               readerIndex_ |-> b.readerIndex_, writerIndex_ |-> b.writerIndex_ + Len(data)]
        BY <2>2 DEF Ordered
    <3>2. QED
        BY <1>0, <2>1, <3>1
  <2>6. QED
      BY <2>4, <2>5
<1> HIDE DEF c
<1>2. Len(c.buffer_) = Len(b.buffer_)
    BY <1>1, CopyToWrites DEF Ordered
<1>3. Ordered(c) /\ ReadableBytes(c) = ReadableBytes(b) + Len(data)
    BY <1>1, <1>2 DEF Ordered, WritableBytes, ReadableBytes
<1>4. Readable(c) = Readable(b) \o data
  <2>1. /\ Readable(b) \o data \in Seq(Byte)
        /\ Len(Readable(b) \o data) = ReadableBytes(b) + Len(data)
        /\ \A i \in 1 .. ReadableBytes(b) + Len(data) :
              (Readable(b) \o data)[i] = IF i <= ReadableBytes(b) THEN Readable(b)[i]
                                         ELSE data[i - ReadableBytes(b)]
    <3>1. Readable(b) \in Seq(Byte) /\ Len(Readable(b)) = ReadableBytes(b)
        BY ReadableIsSeq
    <3>2. QED
        BY <3>1, ConcatOf
  <2>2. ASSUME NEW i \in 1 .. ReadableBytes(c)
        PROVE  Readable(c)[i] = (Readable(b) \o data)[i]
    <3>1. Readable(c)[i] = c.buffer_[b.readerIndex_ + i] /\ i \in Nat
        BY <1>1, <1>3, ReadableIsSeq
    <3>2. b.readerIndex_ + i \in 1 .. Len(b.buffer_)
        BY <1>1, <1>2, <1>3 DEF Ordered, ReadableBytes
    <3>3. ASSUME NEW k \in 1 .. Len(b.buffer_)
          PROVE  /\ ~(b.writerIndex_ < k) => c.buffer_[k] = b.buffer_[k]
                 /\ b.writerIndex_ < k /\ k <= b.writerIndex_ + Len(data)
                       => c.buffer_[k] = data[k - b.writerIndex_]
      <4>1. CopyTo(b.buffer_, b.writerIndex_, data)[k] =
               IF b.writerIndex_ < k /\ k <= b.writerIndex_ + Len(data)
                 THEN data[k - b.writerIndex_] ELSE b.buffer_[k]
          BY <1>0, CopyToWrites, Zenon
      <4>2. QED
          BY <1>1, <4>1, Zenon
    <3>4. CASE i <= ReadableBytes(b)
      <4>1. c.buffer_[b.readerIndex_ + i] = b.buffer_[b.readerIndex_ + i]
        <5>1. ~(b.writerIndex_ < b.readerIndex_ + i)
            BY <1>0, <3>1, <3>4 DEF ReadableBytes
        <5>2. QED
            BY <1>0, <3>1, <3>2, <3>3, <5>1
      <4>2. QED
          BY <1>3, <2>1, <3>1, <3>4, <4>1, ReadableIsSeq
    <3>5. CASE i > ReadableBytes(b)
      <4>1. c.buffer_[b.readerIndex_ + i] = data[b.readerIndex_ + i - b.writerIndex_]
        <5>1. /\ b.writerIndex_ < b.readerIndex_ + i
              /\ b.readerIndex_ + i <= b.writerIndex_ + Len(data)
            BY <1>0, <1>3, <3>1, <3>5 DEF ReadableBytes
        <5>2. QED
            BY <1>0, <3>1, <3>2, <3>3, <5>1
      <4>2. b.readerIndex_ + i - b.writerIndex_ = i - ReadableBytes(b)
          BY <1>0, <3>1 DEF ReadableBytes
      <4>3. QED
          BY <1>3, <2>1, <3>1, <3>5, <4>1, <4>2, ReadableIsSeq
    <3>6. ReadableBytes(b) \in Nat
        BY ReadableIsSeq
    <3>7. i <= ReadableBytes(b) \/ i > ReadableBytes(b)
        BY <3>1, <3>6
    <3>8. QED
        BY <3>4, <3>5, <3>7, Zenon
  <2> DEFINE q == Readable(b) \o data
  <2>3. q \in Seq(Byte) /\ ReadableBytes(c) = Len(q)
      BY <1>3, <2>1
  <2>4. \A i \in 1 .. ReadableBytes(c) : c.buffer_[c.readerIndex_ + i] = q[i]
      BY <1>3, <2>2, ReadableIsSeq
  <2> HIDE DEF q
  <2>5. \A i \in 1 .. Len(q) : c.buffer_[c.readerIndex_ + i] = q[i]
      BY <2>3, <2>4
  <2>6. Readable(c) = q
      BY <1>3, <2>3, <2>5, ReadableIs
  <2>7. QED
      BY <2>6 DEF q
<1>5. QED
    BY <1>2, <1>3, <1>4 DEF Size, c

\* makeSpace() by resizing.
LEMMA GrowKeeps ==
    ASSUME NEW b, Ordered(b), NEW len \in Nat, WritableBytes(b) < len, MustGrow(b, len)
    PROVE  LET c == MakeSpace(b, len) IN
           /\ Ordered(c) /\ Readable(c) = Readable(b)
           /\ ReadableBytes(c) = ReadableBytes(b) /\ WritableBytes(c) = len
           /\ Size(b) <= Size(c) /\ Size(c) < kCheapPrepend + ReadableBytes(b) + 2 * len
<1> DEFINE n == b.writerIndex_ + len
           c == [buffer_ |-> Resize(b.buffer_, n),
                 readerIndex_ |-> b.readerIndex_, writerIndex_ |-> b.writerIndex_]
<1>1. MakeSpace(b, len) = c
    BY DEF MakeSpace, Ordered
<1>2. /\ b.buffer_ \in Seq(Byte) /\ b.readerIndex_ \in Nat /\ b.writerIndex_ \in Nat
      /\ n \in Nat /\ Len(b.buffer_) \in Nat /\ Len(b.buffer_) <= n
      /\ b.readerIndex_ <= b.writerIndex_ /\ b.writerIndex_ <= Len(b.buffer_)
    BY DEF Ordered, WritableBytes
<1>3. /\ c.buffer_ = Resize(b.buffer_, n)
      /\ c.readerIndex_ = b.readerIndex_ /\ c.writerIndex_ = b.writerIndex_
    OBVIOUS
<1>4. /\ Resize(b.buffer_, n) \in Seq(Byte) /\ Len(Resize(b.buffer_, n)) = n
      /\ \A i \in 1 .. Len(b.buffer_) : Resize(b.buffer_, n)[i] = b.buffer_[i]
  <2> HIDE DEF n
  <2>1. QED
      BY <1>2, ResizeKeeps
<1>5. c \in [buffer_ : Seq(Byte), readerIndex_ : Nat, writerIndex_ : Nat]
    BY <1>2, <1>4
<1> HIDE DEF c
<1>6. Ordered(c)
    BY <1>2, <1>3, <1>4, <1>5 DEF Ordered
<1>7. /\ ReadableBytes(c) = ReadableBytes(b) /\ WritableBytes(c) = len
      /\ Size(b) <= Size(c) /\ Size(c) < kCheapPrepend + ReadableBytes(b) + 2 * len
  <2>1. Len(c.buffer_) = b.writerIndex_ + len /\ kCheapPrepend \in Nat
      BY <1>3, <1>4, SizeAssumption
  <2>2. Len(b.buffer_) - b.writerIndex_ + b.readerIndex_ < len + kCheapPrepend
      BY DEF MustGrow, WritableBytes, PrependableBytes
  <2>3. b.writerIndex_ + len < kCheapPrepend + (b.writerIndex_ - b.readerIndex_) + 2 * len
    <3>1. ASSUME NEW w \in Nat, NEW r \in Nat, NEW k \in Nat, NEW l \in Nat, NEW s \in Nat,
                 w <= s, s - w + r < l + k
          PROVE  w + l < k + (w - r) + 2 * l
        BY <3>1
    <3>2. QED
        BY <1>2, <2>1, <2>2, <3>1
  <2>4. c.readerIndex_ = b.readerIndex_ /\ c.writerIndex_ = b.writerIndex_
      BY <1>3
  <2>5. Size(b) <= Size(c) /\ Size(c) < kCheapPrepend + ReadableBytes(b) + 2 * len
      BY <1>2, <2>1, <2>3 DEF ReadableBytes, Size
  <2>6. ReadableBytes(c) = ReadableBytes(b)
      BY <2>4 DEF ReadableBytes
  <2>7. WritableBytes(c) = len
      BY <1>2, <2>1, <2>4 DEF WritableBytes
  <2>8. QED
      BY <2>5, <2>6, <2>7
<1>8. Readable(c) = Readable(b)
  <2> DEFINE q == Readable(b)
  <2>1. q \in Seq(Byte) /\ Len(q) = ReadableBytes(b)
      BY ReadableIsSeq
  <2>2. ASSUME NEW i \in 1 .. ReadableBytes(b)
        PROVE  c.buffer_[c.readerIndex_ + i] = q[i]
    <3>1. b.readerIndex_ + i \in 1 .. Len(b.buffer_)
        BY <1>2 DEF ReadableBytes
    <3>2. c.buffer_[c.readerIndex_ + i] = b.buffer_[b.readerIndex_ + i]
        BY <1>3, <1>4, <3>1
    <3>3. QED
        BY <3>2, ReadableIsSeq
  <2> HIDE DEF q
  <2>3. \A i \in 1 .. Len(q) : c.buffer_[c.readerIndex_ + i] = q[i]
      BY <2>1, <2>2
  <2>4. Readable(c) = q
      BY <1>6, <1>7, <2>1, <2>3, ReadableIs
  <2>5. QED
      BY <2>4 DEF q
<1>9. QED
    BY <1>1, <1>6, <1>7, <1>8

\* makeSpace() by moving the content to the front.
LEMMA MoveKeeps ==
    ASSUME NEW b, Ordered(b), NEW len \in Nat, WritableBytes(b) < len, ~MustGrow(b, len)
    PROVE  LET c == MakeSpace(b, len) IN
           /\ kCheapPrepend < b.readerIndex_
           /\ Ordered(c) /\ Readable(c) = Readable(b)
           /\ ReadableBytes(c) = ReadableBytes(b) /\ WritableBytes(c) >= len
           /\ Size(c) = Size(b)
<1> DEFINE q == Readable(b)
           c == [buffer_ |-> CopyTo(b.buffer_, kCheapPrepend, q),
                 readerIndex_ |-> kCheapPrepend,
                 writerIndex_ |-> kCheapPrepend + ReadableBytes(b)]
<1>1. MakeSpace(b, len) = c
    BY DEF MakeSpace
<1>2. /\ b.buffer_ \in Seq(Byte) /\ b.readerIndex_ \in Nat /\ b.writerIndex_ \in Nat
      /\ Len(b.buffer_) \in Nat /\ kCheapPrepend \in Nat
      /\ b.readerIndex_ <= b.writerIndex_ /\ b.writerIndex_ <= Len(b.buffer_)
    BY SizeAssumption DEF Ordered
<1>3. /\ q \in Seq(Byte) /\ Len(q) = ReadableBytes(b) /\ ReadableBytes(b) \in Nat
    BY ReadableIsSeq
<1>4. /\ c.buffer_ = CopyTo(b.buffer_, kCheapPrepend, q)
      /\ c.readerIndex_ = kCheapPrepend /\ c.writerIndex_ = kCheapPrepend + ReadableBytes(b)
    OBVIOUS
<1> HIDE DEF q
<1>5. /\ CopyTo(b.buffer_, kCheapPrepend, q) \in Seq(Byte)
      /\ Len(CopyTo(b.buffer_, kCheapPrepend, q)) = Len(b.buffer_)
      /\ \A i \in 1 .. Len(b.buffer_) : CopyTo(b.buffer_, kCheapPrepend, q)[i] =
            IF kCheapPrepend < i /\ i <= kCheapPrepend + Len(q)
              THEN q[i - kCheapPrepend] ELSE b.buffer_[i]
    BY <1>2, <1>3, CopyToWrites
<1>6. c \in [buffer_ : Seq(Byte), readerIndex_ : Nat, writerIndex_ : Nat]
    BY <1>2, <1>3, <1>5
<1> HIDE DEF c
<1>7. /\ kCheapPrepend < b.readerIndex_
      /\ kCheapPrepend + ReadableBytes(b) + len <= Len(b.buffer_)
    BY <1>2 DEF ReadableBytes, WritableBytes, PrependableBytes, MustGrow
<1>8. /\ ReadableBytes(c) = ReadableBytes(b) /\ Size(c) = Size(b)
      /\ WritableBytes(c) >= len
    BY <1>2, <1>3, <1>4, <1>5, <1>7 DEF ReadableBytes, WritableBytes, Size
<1>9. Ordered(c)
    BY <1>2, <1>3, <1>4, <1>5, <1>6, <1>7 DEF Ordered
<1>10. Readable(c) = q
  <2>1. ASSUME NEW i \in 1 .. Len(q)
        PROVE  c.buffer_[c.readerIndex_ + i] = q[i]
    <3>1. PICK j \in 1 .. Len(b.buffer_) : j = kCheapPrepend + i
        BY <1>2, <1>3, <1>7
    <3>2. /\ kCheapPrepend < j /\ j <= kCheapPrepend + Len(q)
          /\ j - kCheapPrepend = i
        BY <1>2, <1>3, <3>1
    <3>3. CopyTo(b.buffer_, kCheapPrepend, q)[j] = q[i]
        BY <1>5, <3>2
    <3>4. QED
        BY <1>4, <3>1, <3>3
  <2>2. QED
      BY <1>3, <1>8, <1>9, <2>1, ReadableIs
<1>11. QED
    BY <1>1, <1>7, <1>8, <1>9, <1>10 DEF q

\* Room is made without an assertion failing, the content stays, and the vector is only
\* resized to less than twice what is wanted.
LEMMA WithRoomKeeps ==
    ASSUME NEW b, Ordered(b), NEW len \in Nat
    PROVE  LET c == WithRoom(b, len) IN
           /\ RoomAsserted(b, len)
           /\ Ordered(c) /\ Readable(c) = Readable(b)
           /\ ReadableBytes(c) = ReadableBytes(b) /\ WritableBytes(c) >= len
           /\ Size(b) <= Size(c)
           /\ \/ Size(c) = Size(b)
              \/ Size(c) < kCheapPrepend + ReadableBytes(b) + 2 * len
<1>1. WritableBytes(b) \in Nat /\ Size(b) \in Nat
    BY ReadableIsSeq DEF Ordered, Size
<1>2. CASE WritableBytes(b) >= len
  <2>1. WithRoom(b, len) = b /\ ~(WritableBytes(b) < len)
      BY <1>1, <1>2 DEF WithRoom
  <2>2. QED
      BY <1>1, <1>2, <2>1 DEF RoomAsserted
<1>3. CASE WritableBytes(b) < len
  <2>1. WithRoom(b, len) = MakeSpace(b, len)
      BY <1>3 DEF WithRoom
  <2>2. CASE MustGrow(b, len)
      BY <1>3, <2>1, <2>2, GrowKeeps DEF RoomAsserted
  <2>3. CASE ~MustGrow(b, len)
      BY <1>1, <1>3, <2>1, <2>3, MoveKeeps DEF RoomAsserted
  <2>4. QED
      BY <2>2, <2>3
<1>4. QED
    BY <1>1, <1>2, <1>3

\* What append(), ensureWritableBytes() and readFd() do to the buffer.
LEMMA RoomThenWrite ==
    ASSUME NEW b, Ordered(b), NEW len \in Nat, NEW data \in Seq(Byte), Len(data) <= len
    PROVE  LET c == Write(WithRoom(b, len), data) IN
           /\ RoomAsserted(b, len)
           /\ Ordered(c) /\ Readable(c) = Readable(b) \o data
           /\ Size(b) <= Size(c)
           /\ \/ Size(c) = Size(b)
              \/ Size(c) < kCheapPrepend + ReadableBytes(b) + 2 * len
<1> DEFINE d == WithRoom(b, len)
<1>1. /\ RoomAsserted(b, len)
      /\ Ordered(d) /\ Readable(d) = Readable(b)
      /\ ReadableBytes(d) = ReadableBytes(b) /\ WritableBytes(d) >= len
      /\ Size(b) <= Size(d)
      /\ \/ Size(d) = Size(b)
         \/ Size(d) < kCheapPrepend + ReadableBytes(b) + 2 * len
    BY WithRoomKeeps
<1> HIDE DEF d
<1>2. Len(data) <= WritableBytes(d)
  <2>1. WritableBytes(d) \in Nat /\ Len(data) \in Nat
      BY <1>1, ReadableIsSeq
  <2>2. QED
      BY <1>1, <2>1
<1>3. /\ Ordered(Write(d, data))
      /\ Readable(Write(d, data)) = Readable(d) \o data
      /\ Size(Write(d, data)) = Size(d)
    BY <1>1, <1>2, WriteAppends
<1>4. QED
    BY <1>1, <1>3 DEF d

\* A piece of a sequence, one by one.
LEMMA PieceOf ==
    ASSUME NEW S, NEW s \in Seq(S), NEW m \in Nat, NEW n \in Nat,
           1 <= m, n <= Len(s), m <= n + 1
    PROVE  /\ SubSeq(s, m, n) \in Seq(S) /\ Len(SubSeq(s, m, n)) = n - m + 1
           /\ \A i \in 1 .. n - m + 1 : SubSeq(s, m, n)[i] = s[m + i - 1]
<1>1. \A i \in m .. n : s[i] \in S
    BY ElementOfSeq
<1>2. m \in Int /\ n \in Int
    OBVIOUS
<1>3. /\ SubSeq(s, m, n) \in Seq(S)
      /\ Len(SubSeq(s, m, n)) = IF m <= n THEN n - m + 1 ELSE 0
      /\ \A i \in 1 .. n - m + 1 : SubSeq(s, m, n)[i] = s[m + i - 1]
    BY <1>1, <1>2, SubSeqProperties
<1>4. QED
    BY <1>3

-------------------------------------------------------------------------------
(* The invariant: the three properties together are inductive. *)

IInv == TypeOK /\ HoldsQueue /\ GrowthIsBounded

\* What a step has to show of the buffer that it leaves.
Sound ==
    /\ aborted' = FALSE
    /\ Ordered(buf') /\ Readable(buf') = content'
    /\ peak' \in Nat /\ peak <= peak'
    /\ Size(buf) <= Size(buf')
    /\ Size(buf') = Size(buf) \/ Size(buf') < kCheapPrepend + 2 * peak'

LEMMA SoundKeeps == IInv /\ Sound => IInv'
<1> SUFFICES ASSUME IInv, Sound PROVE IInv'
    OBVIOUS
<1>1. /\ Len(buf.buffer_) \in Nat /\ peak \in Nat /\ kCheapPrepend + InitialSize \in Nat
      /\ kCheapPrepend + InitialSize <= Len(buf.buffer_) /\ kCheapPrepend \in Nat
    BY SizeAssumption DEF IInv, TypeOK
<1>2. Len(buf'.buffer_) \in Nat /\ content' \in Seq(Byte)
    BY ReadableIsSeq DEF Sound, Ordered
<1>3. TypeOK'
  <2>1. kCheapPrepend + InitialSize <= Len(buf'.buffer_)
      BY <1>1, <1>2 DEF Sound, Size
  <2>2. QED
      BY <1>2, <2>1 DEF Sound, TypeOK, Ordered
<1>4. HoldsQueue'
    BY DEF Sound, HoldsQueue
<1>5. GrowthIsBounded'
  <2>1. /\ Size(buf') = Len(buf'.buffer_) /\ Size(buf) = Len(buf.buffer_)
        /\ peak' \in Nat /\ peak <= peak'
      BY DEF Sound, Size
  <2>2. CASE Size(buf') = Size(buf)
      BY <1>1, <1>2, <2>1, <2>2 DEF IInv, GrowthIsBounded
  <2>3. CASE Size(buf') < kCheapPrepend + 2 * peak'
      BY <2>1, <2>3 DEF GrowthIsBounded
  <2>4. QED
      BY <2>2, <2>3 DEF Sound
<1>6. QED
    BY <1>3, <1>4, <1>5 DEF IInv

\* What the invariant says, in the words of the lemmas.
LEMMA InvariantIsOrdered ==
    ASSUME IInv
    PROVE  /\ Ordered(buf) /\ Readable(buf) = content /\ content \in Seq(Byte)
           /\ Len(content) = ReadableBytes(buf) /\ ReadableBytes(buf) \in Nat
           /\ WritableBytes(buf) \in Nat
           /\ aborted = FALSE /\ peak \in Nat /\ Size(buf) \in Nat
           /\ kCheapPrepend + InitialSize <= Size(buf)
<1>1. /\ Ordered(buf) /\ Readable(buf) = content /\ content \in Seq(Byte)
      /\ aborted = FALSE /\ peak \in Nat /\ Size(buf) \in Nat
      /\ kCheapPrepend + InitialSize <= Size(buf)
    BY DEF IInv, TypeOK, HoldsQueue, Ordered, Size
<1>2. QED
    BY <1>1, ReadableIsSeq

LEMMA WantedGrows ==
    ASSUME IInv, NEW n \in Nat, Wanted(n)
    PROVE  peak' \in Nat /\ peak <= peak' /\ ReadableBytes(buf) + n <= peak'
  BY InvariantIsOrdered DEF Wanted

LEMMA InitIsSound == Init => IInv
<1> SUFFICES ASSUME Init PROVE IInv
    OBVIOUS
<1> DEFINE n == kCheapPrepend + InitialSize
           bytes == [i \in 1 .. n |-> Zero]
<1>1. n \in Nat /\ kCheapPrepend \in Nat /\ kCheapPrepend <= n
    BY SizeAssumption
<1>2. bytes \in [1 .. n -> Byte]
    BY ByteAssumption
<1>3. /\ buf = [buffer_ |-> bytes, readerIndex_ |-> kCheapPrepend,
                writerIndex_ |-> kCheapPrepend]
      /\ aborted = FALSE /\ content = <<>> /\ peak = 0
    BY DEF Init, Queue!Init
<1> HIDE DEF n, bytes
<1>4. bytes \in Seq(Byte) /\ Len(bytes) = n
    BY <1>1, <1>2, FunctionIsSeq
<1>5. Ordered(buf) /\ ReadableBytes(buf) = 0
    BY <1>1, <1>3, <1>4 DEF Ordered, ReadableBytes
<1>6. <<>> \in Seq(Byte) /\ Len(<<>>) = 0
    OBVIOUS
<1>7. Readable(buf) = <<>>
  <2>1. PICK q \in Seq(Byte) : q = <<>> /\ Len(q) = 0
      BY <1>6
  <2>2. ReadableBytes(buf) = Len(q) /\ \A i \in 1 .. Len(q) : FALSE
      BY <1>5, <2>1
  <2>3. Readable(buf) = q
      BY <1>5, <2>2, ReadableIs
  <2>4. QED
      BY <2>1, <2>3
<1>8. TypeOK
  <2>1. kCheapPrepend + InitialSize <= Len(buf.buffer_)
      BY <1>1, <1>3, <1>4 DEF n
  <2>2. aborted \in BOOLEAN /\ content \in Seq(Byte) /\ peak \in Nat
      BY <1>3, <1>6
  <2>3. QED
      BY <1>5, <2>1, <2>2 DEF TypeOK, Ordered
<1>9. HoldsQueue /\ GrowthIsBounded
    BY <1>1, <1>3, <1>4, <1>7 DEF HoldsQueue, GrowthIsBounded, n
<1>10. QED
    BY <1>8, <1>9 DEF IInv

-------------------------------------------------------------------------------
(* The steps. *)

LEMMA AppendIsSound ==
    ASSUME IInv, NEW data \in Data, Append_(data)
    PROVE  Sound
<1>1. data \in Seq(Byte) /\ Len(data) \in Nat
    BY DataIsSeq
<1>2. /\ Ordered(buf) /\ Readable(buf) = content /\ Size(buf) \in Nat
      /\ ReadableBytes(buf) \in Nat
    BY InvariantIsOrdered
<1>3. peak' \in Nat /\ peak <= peak' /\ ReadableBytes(buf) + Len(data) <= peak'
    BY <1>1, WantedGrows DEF Append_
<1> DEFINE c == Write(WithRoom(buf, Len(data)), data)
<1>4. /\ RoomAsserted(buf, Len(data))
      /\ Ordered(c) /\ Readable(c) = content \o data
      /\ Size(buf) <= Size(c)
      /\ Size(c) = Size(buf) \/ Size(c) < kCheapPrepend + ReadableBytes(buf) + 2 * Len(data)
  <2>1. Len(data) <= Len(data)
      BY <1>1
  <2>2. QED
      BY <1>1, <1>2, <2>1, RoomThenWrite
<1>5. aborted' = FALSE /\ buf' = c /\ content' = content \o data
    BY <1>4 DEF Append_, WriteWithRoom, Queue!Push
<1> HIDE DEF c
<1>6. Size(c) \in Nat
    BY <1>4 DEF Ordered, Size
<1>7. Size(c) = Size(buf) \/ Size(c) < kCheapPrepend + 2 * peak'
    BY <1>1, <1>2, <1>3, <1>4, <1>6, SizeAssumption
<1>8. QED
    BY <1>3, <1>4, <1>5, <1>7 DEF Sound

LEMMA EnsureWritableBytesIsSound ==
    ASSUME IInv, NEW len \in 0 .. MaxContent, EnsureWritableBytes(len)
    PROVE  Sound
<1>1. len \in Nat /\ <<>> \in Seq(Byte) /\ Len(<<>>) = 0
    BY BufferBoundAssumption
<1>2. /\ Ordered(buf) /\ Readable(buf) = content /\ Size(buf) \in Nat
      /\ ReadableBytes(buf) \in Nat
    BY InvariantIsOrdered
<1>3. peak' \in Nat /\ peak <= peak' /\ ReadableBytes(buf) + len <= peak'
    BY <1>1, WantedGrows DEF EnsureWritableBytes
<1> DEFINE c == Write(WithRoom(buf, len), <<>>)
<1>4. /\ RoomAsserted(buf, len)
      /\ Ordered(c) /\ Readable(c) = content \o <<>>
      /\ Size(buf) <= Size(c)
      /\ Size(c) = Size(buf) \/ Size(c) < kCheapPrepend + ReadableBytes(buf) + 2 * len
  <2>1. PICK none : none = <<>>
      OBVIOUS
  <2>2. none \in Seq(Byte) /\ Len(none) <= len
      BY <1>1, <2>1
  <2>3. QED
      BY <1>1, <1>2, <2>1, <2>2, RoomThenWrite
<1>5. aborted' = FALSE /\ buf' = c /\ content' = content \o <<>>
    BY <1>4 DEF EnsureWritableBytes, WriteWithRoom, Queue!Push
<1> HIDE DEF c
<1>6. Size(c) \in Nat
    BY <1>4 DEF Ordered, Size
<1>7. Size(c) = Size(buf) \/ Size(c) < kCheapPrepend + 2 * peak'
    BY <1>1, <1>2, <1>3, <1>4, <1>6, SizeAssumption
<1>8. QED
    BY <1>3, <1>4, <1>5, <1>7 DEF Sound

LEMMA HasWrittenIsSound ==
    ASSUME IInv, NEW data \in Data, HasWritten(data)
    PROVE  Sound
<1>1. data \in Seq(Byte) /\ Len(data) \in Nat
    BY DataIsSeq
<1>2. Ordered(buf) /\ Readable(buf) = content /\ aborted = FALSE /\ Size(buf) \in Nat
    BY InvariantIsOrdered
<1>3. peak' \in Nat /\ peak <= peak'
    BY <1>1, WantedGrows DEF HasWritten
<1>4. /\ Ordered(Write(buf, data)) /\ Readable(Write(buf, data)) = content \o data
      /\ Size(Write(buf, data)) = Size(buf)
    BY <1>1, <1>2, WriteAppends DEF HasWritten
<1>5. QED
    BY <1>2, <1>3, <1>4 DEF HasWritten, Queue!Push, Sound

LEMMA ReadFdIsSound ==
    ASSUME IInv, NEW data \in Data, ReadFd(data)
    PROVE  Sound
<1>1. data \in Seq(Byte) /\ Len(data) \in Nat
    BY DataIsSeq
<1>2. /\ Ordered(buf) /\ Readable(buf) = content /\ aborted = FALSE
      /\ Size(buf) \in Nat /\ ReadableBytes(buf) \in Nat /\ WritableBytes(buf) \in Nat
      /\ content \in Seq(Byte)
    BY InvariantIsOrdered
<1>3. /\ peak' \in Nat /\ peak <= peak' /\ ReadableBytes(buf) + Len(data) <= peak'
      /\ content' = content \o data
    BY <1>1, WantedGrows DEF ReadFd, Queue!Push
<1>4. CASE Len(data) <= WritableBytes(buf)
  <2>1. /\ Ordered(Write(buf, data)) /\ Readable(Write(buf, data)) = content \o data
        /\ Size(Write(buf, data)) = Size(buf)
      BY <1>1, <1>2, <1>4, WriteAppends
  <2>2. buf' = Write(buf, data) /\ aborted' = FALSE
      BY <1>2, <1>4 DEF ReadFd
  <2>3. QED
      BY <1>2, <1>3, <2>1, <2>2 DEF Sound
<1>5. CASE Len(data) > WritableBytes(buf)
  <2> DEFINE w == WritableBytes(buf)
             first == SubSeq(data, 1, w)
             extra == SubSeq(data, w + 1, Len(data))
             full == Write(buf, first)
             c == Write(WithRoom(full, Len(extra)), extra)
  <2>1. aborted' = ~RoomAsserted(full, Len(extra))
        /\ buf' = IF RoomAsserted(full, Len(extra)) THEN c ELSE full
      BY <1>1, <1>2, <1>5 DEF ReadFd, WriteWithRoom
  <2>2. /\ first \in Seq(Byte) /\ Len(first) = w
        /\ extra \in Seq(Byte) /\ Len(extra) = Len(data) - w /\ Len(extra) \in Nat
    <3>1. w \in Nat /\ w < Len(data)
        BY <1>1, <1>2, <1>5
    <3> HIDE DEF w
    <3>2. first \in Seq(Byte) /\ Len(first) = w
        BY <1>1, <3>1, PieceOf
    <3>3. extra \in Seq(Byte) /\ Len(extra) = Len(data) - w
        BY <1>1, <3>1, PieceOf
    <3>4. QED
        BY <1>1, <3>1, <3>2, <3>3
  <2>3. first \o extra = data
    <3>1. 1 \in 1 .. Len(data) + 1 /\ w \in 0 .. Len(data) /\ Len(data) \in w .. Len(data)
        BY <1>1, <1>2, <1>5
    <3>2. first \o extra = SubSeq(data, 1, Len(data))
        BY <1>1, <3>1, ConcatAdjacentSubSeq
    <3>3. QED
        BY <1>1, <3>2, SubSeqFull
  <2> HIDE DEF first, extra
  <2>4. /\ Ordered(full) /\ Readable(full) = content \o first
        /\ Size(full) = Size(buf) /\ ReadableBytes(full) = ReadableBytes(buf) + w
    <3>1. Len(first) <= WritableBytes(buf)
        BY <1>2, <2>2
    <3>2. QED
        BY <1>2, <2>2, <3>1, WriteAppends
  <2> HIDE DEF full
  <2>5. /\ RoomAsserted(full, Len(extra))
        /\ Ordered(c) /\ Readable(c) = Readable(full) \o extra
        /\ Size(full) <= Size(c)
        /\ \/ Size(c) = Size(full)
           \/ Size(c) < kCheapPrepend + ReadableBytes(full) + 2 * Len(extra)
    <3>1. Len(extra) <= Len(extra)
        BY <2>2
    <3>2. QED
        BY <2>2, <2>4, <3>1, RoomThenWrite
  <2>6. aborted' = FALSE /\ buf' = c
      BY <2>1, <2>5
  <2> HIDE DEF c
  <2>7. Readable(c) = content \o data
    <3>1. (content \o first) \o extra = content \o (first \o extra)
        BY <1>2, <2>2, ConcatAssociative
    <3>2. QED
        BY <2>3, <2>4, <2>5, <3>1
  <2>8. Size(c) = Size(buf) \/ Size(c) < kCheapPrepend + 2 * peak'
    <3>1. Size(c) \in Nat
        BY <2>5 DEF Ordered, Size
    <3>2. w \in Nat /\ w < Len(data)
        BY <1>1, <1>2, <1>5
    <3> HIDE DEF w
    <3>3. kCheapPrepend + ReadableBytes(full) + 2 * Len(extra) <= kCheapPrepend + 2 * peak'
      <4>1. ASSUME NEW k \in Nat, NEW r \in Nat, NEW l \in Nat, NEW v \in Nat, NEW p \in Nat,
                   v < l, r + l <= p
            PROVE  k + (r + v) + 2 * (l - v) <= k + 2 * p
          BY <4>1
      <4>2. kCheapPrepend \in Nat
          BY SizeAssumption
      <4>3. QED
          BY <1>1, <1>2, <1>3, <2>2, <2>4, <3>2, <4>1, <4>2
    <3>4. kCheapPrepend + ReadableBytes(full) + 2 * Len(extra) \in Nat
          /\ kCheapPrepend + 2 * peak' \in Nat
      <4>1. kCheapPrepend \in Nat /\ ReadableBytes(full) \in Nat /\ peak' \in Nat
          BY <1>2, <1>3, <2>4, <3>2, SizeAssumption
      <4>2. Len(extra) \in Nat
          BY <2>2
      <4>3. \A k, r, l, p \in Nat : k + r + 2 * l \in Nat /\ k + 2 * p \in Nat
          OBVIOUS
      <4>4. QED
          BY <4>1, <4>2, <4>3, Zenon
    <3>5. QED
        BY <2>4, <2>5, <3>1, <3>3, <3>4
  <2>9. QED
      BY <1>2, <1>3, <2>4, <2>5, <2>6, <2>7, <2>8 DEF Sound
<1>6. QED
    BY <1>1, <1>2, <1>4, <1>5

LEMMA RetrieveIsSound ==
    ASSUME IInv, NEW len \in 0 .. MaxContent, Retrieve(len)
    PROVE  Sound
<1>1. /\ Ordered(buf) /\ Readable(buf) = content /\ content \in Seq(Byte)
      /\ Len(content) = ReadableBytes(buf) /\ ReadableBytes(buf) \in Nat
      /\ aborted = FALSE /\ peak \in Nat /\ Size(buf) \in Nat
      /\ kCheapPrepend + InitialSize <= Size(buf)
    BY InvariantIsOrdered
<1>2. /\ len \in Nat /\ len <= ReadableBytes(buf)
      /\ content' = SubSeq(content, len + 1, Len(content))
      /\ aborted' = aborted /\ peak' = peak
    BY BufferBoundAssumption DEF Retrieve, Queue!Pop
<1> DEFINE q == SubSeq(content, len + 1, Len(content))
<1>3. /\ q \in Seq(Byte) /\ Len(q) = ReadableBytes(buf) - len
      /\ \A i \in 1 .. Len(q) : q[i] = content[len + i]
  <2>1. /\ len + 1 \in Nat /\ 1 <= len + 1 /\ Len(content) \in Nat
        /\ Len(content) <= Len(content) /\ len + 1 <= Len(content) + 1
      BY <1>1, <1>2
  <2>2. /\ q \in Seq(Byte) /\ Len(q) = Len(content) - (len + 1) + 1
        /\ \A i \in 1 .. Len(content) - (len + 1) + 1 : q[i] = content[len + 1 + i - 1]
      BY <1>1, <2>1, PieceOf
  <2>3. Len(content) - (len + 1) + 1 = ReadableBytes(buf) - len
      BY <1>1, <1>2
  <2>4. \A i \in 1 .. Len(content) - (len + 1) + 1 : len + 1 + i - 1 = len + i
      BY <1>1, <1>2
  <2> HIDE DEF q
  <2>5. QED
      BY <2>2, <2>3, <2>4
<1> HIDE DEF q
<1>4. \A i \in 1 .. ReadableBytes(buf) : content[i] = buf.buffer_[buf.readerIndex_ + i]
    BY <1>1, ReadableIsSeq
<1>5. CASE len < ReadableBytes(buf)
  <2> DEFINE c == [buffer_ |-> buf.buffer_, readerIndex_ |-> buf.readerIndex_ + len,
                   writerIndex_ |-> buf.writerIndex_]
  <2>1. buf' = c
      BY <1>1, <1>5 DEF Retrieve, Ordered
  <2>2. Ordered(c) /\ ReadableBytes(c) = ReadableBytes(buf) - len /\ Size(c) = Size(buf)
      BY <1>1, <1>2, <1>5 DEF Ordered, ReadableBytes, Size
  <2>3. ASSUME NEW i \in 1 .. Len(q)
        PROVE  c.buffer_[c.readerIndex_ + i] = q[i]
    <3>1. q[i] = content[len + i] /\ len + i \in 1 .. ReadableBytes(buf)
        BY <1>1, <1>2, <1>3
    <3>2. content[len + i] = buf.buffer_[buf.readerIndex_ + (len + i)]
        BY <1>4, <3>1
    <3>3. buf.readerIndex_ + (len + i) = c.readerIndex_ + i
        BY <1>1, <1>2 DEF Ordered
    <3>4. QED
        BY <3>1, <3>2, <3>3
  <2> HIDE DEF c
  <2>4. Readable(c) = q
      BY <1>3, <2>2, <2>3, ReadableIs
  <2>5. QED
      BY <1>1, <1>2, <2>1, <2>2, <2>4 DEF Sound, q
<1>6. CASE len = ReadableBytes(buf)
  <2> DEFINE c == [buffer_ |-> buf.buffer_, readerIndex_ |-> kCheapPrepend,
                   writerIndex_ |-> kCheapPrepend]
  <2>1. buf' = c
    <3>1. ~(len < ReadableBytes(buf))
        BY <1>1, <1>6
    <3>2. buf' = [buf EXCEPT !.readerIndex_ = kCheapPrepend, !.writerIndex_ = kCheapPrepend]
        BY <3>1 DEF Retrieve
    <3>3. QED
        BY <1>1, <3>2 DEF Ordered
  <2>2. Ordered(c) /\ ReadableBytes(c) = 0 /\ Size(c) = Size(buf)
      BY <1>1, SizeAssumption DEF Ordered, ReadableBytes, Size
  <2>3. Len(q) = 0 /\ \A i \in 1 .. Len(q) : FALSE
      BY <1>1, <1>3, <1>6
  <2> HIDE DEF c
  <2>4. Readable(c) = q
      BY <1>3, <2>2, <2>3, ReadableIs
  <2>5. QED
      BY <1>1, <1>2, <2>1, <2>2, <2>4 DEF Sound, q
<1>7. QED
    BY <1>1, <1>2, <1>5, <1>6

LEMMA UnwriteIsSound ==
    ASSUME IInv, NEW len \in 0 .. MaxContent, Unwrite(len)
    PROVE  Sound
<1>1. /\ Ordered(buf) /\ Readable(buf) = content /\ content \in Seq(Byte)
      /\ Len(content) = ReadableBytes(buf) /\ ReadableBytes(buf) \in Nat
      /\ aborted = FALSE /\ peak \in Nat /\ Size(buf) \in Nat
    BY InvariantIsOrdered
<1> DEFINE q == SubSeq(content, 1, Len(content) - len)
           c == [buffer_ |-> buf.buffer_, readerIndex_ |-> buf.readerIndex_,
                 writerIndex_ |-> buf.writerIndex_ - len]
<1>2. /\ len \in Nat /\ len <= ReadableBytes(buf)
      /\ content' = q /\ buf' = c /\ aborted' = aborted /\ peak' = peak
    BY <1>1, BufferBoundAssumption DEF Unwrite, Queue!TakeBack, Ordered
<1>3. Ordered(c) /\ ReadableBytes(c) = ReadableBytes(buf) - len /\ Size(c) = Size(buf)
    BY <1>1, <1>2 DEF Ordered, ReadableBytes, Size
<1>4. /\ q \in Seq(Byte) /\ Len(q) = ReadableBytes(buf) - len
      /\ \A i \in 1 .. Len(q) : q[i] = content[i]
  <2> DEFINE n == Len(content) - len
  <2>1. n \in Nat /\ n <= Len(content) /\ 1 <= n + 1 /\ n = ReadableBytes(buf) - len
      BY <1>1, <1>2
  <2> HIDE DEF n
  <2>2. /\ SubSeq(content, 1, n) \in Seq(Byte) /\ Len(SubSeq(content, 1, n)) = n - 1 + 1
        /\ \A i \in 1 .. n - 1 + 1 : SubSeq(content, 1, n)[i] = content[1 + i - 1]
      BY <1>1, <2>1, PieceOf
  <2>3. n - 1 + 1 = n /\ \A i \in 1 .. n : 1 + i - 1 = i
      BY <2>1
  <2>4. \A i \in 1 .. n : SubSeq(content, 1, n)[i] = content[i]
      BY <2>2, <2>3
  <2>5. QED
      BY <2>1, <2>2, <2>3, <2>4 DEF n
<1>5. \A i \in 1 .. ReadableBytes(buf) : content[i] = buf.buffer_[buf.readerIndex_ + i]
    BY <1>1, ReadableIsSeq
<1>6. c.buffer_ = buf.buffer_ /\ c.readerIndex_ = buf.readerIndex_
    OBVIOUS
<1> HIDE DEF q, c
<1>7. \A i \in 1 .. Len(q) : c.buffer_[c.readerIndex_ + i] = q[i]
    BY <1>1, <1>2, <1>4, <1>5, <1>6
<1>8. Readable(c) = q
    BY <1>3, <1>4, <1>7, ReadableIs
<1>9. QED
    BY <1>1, <1>2, <1>3, <1>8 DEF Sound

LEMMA PrependIsSound ==
    ASSUME IInv, NEW data \in Data, Prepend(data)
    PROVE  Sound
<1>1. data \in Seq(Byte) /\ Len(data) \in Nat
    BY DataIsSeq
<1>2. /\ Ordered(buf) /\ Readable(buf) = content /\ content \in Seq(Byte)
      /\ Len(content) = ReadableBytes(buf) /\ ReadableBytes(buf) \in Nat
      /\ aborted = FALSE /\ peak \in Nat /\ Size(buf) \in Nat
    BY InvariantIsOrdered
<1>3. peak' \in Nat /\ peak <= peak' /\ aborted' = aborted /\ content' = data \o content
    BY <1>1, WantedGrows DEF Prepend, Queue!PushFront
<1> DEFINE r == buf.readerIndex_ - Len(data)
           bytes == CopyTo(buf.buffer_, r, data)
           c == [buffer_ |-> bytes, readerIndex_ |-> r, writerIndex_ |-> buf.writerIndex_]
<1>4. buf' = c
    BY <1>2 DEF Prepend, Ordered
<1>5. /\ r \in Nat /\ r + Len(data) = buf.readerIndex_ /\ buf.readerIndex_ \in Nat
      /\ buf.writerIndex_ \in Nat /\ buf.buffer_ \in Seq(Byte)
      /\ buf.readerIndex_ + ReadableBytes(buf) = buf.writerIndex_
      /\ buf.writerIndex_ <= Len(buf.buffer_) /\ Len(buf.buffer_) \in Nat
    BY <1>1, <1>2 DEF Prepend, PrependableBytes, Ordered, ReadableBytes
<1> HIDE DEF r
<1>6. /\ bytes \in Seq(Byte) /\ Len(bytes) = Len(buf.buffer_)
      /\ \A i \in 1 .. Len(buf.buffer_) :
            bytes[i] = IF r < i /\ i <= r + Len(data) THEN data[i - r] ELSE buf.buffer_[i]
    BY <1>1, <1>5, CopyToWrites
<1> HIDE DEF bytes
<1>7. c.buffer_ = bytes /\ c.readerIndex_ = r /\ c.writerIndex_ = buf.writerIndex_
    OBVIOUS
<1>8. /\ c \in [buffer_ : Seq(Byte), readerIndex_ : Nat, writerIndex_ : Nat]
    BY <1>5, <1>6
<1> HIDE DEF c
<1>9. Ordered(c) /\ Size(c) = Size(buf) /\ ReadableBytes(c) = Len(data) + ReadableBytes(buf)
  <2>1. Len(c.buffer_) = Len(buf.buffer_)
      BY <1>6, <1>7
  <2>2. c.writerIndex_ - c.readerIndex_
           = Len(data) + (buf.writerIndex_ - buf.readerIndex_)
      BY <1>1, <1>5, <1>7
  <2>3. c.readerIndex_ <= c.writerIndex_ /\ c.writerIndex_ <= Len(c.buffer_)
      BY <1>1, <1>2, <1>5, <1>7, <2>1
  <2>4. QED
      BY <1>8, <2>1, <2>2, <2>3 DEF Ordered, Size, ReadableBytes
<1> DEFINE q == data \o content
<1>10. /\ q \in Seq(Byte) /\ Len(q) = Len(data) + ReadableBytes(buf)
       /\ \A i \in 1 .. Len(data) + ReadableBytes(buf) :
             q[i] = IF i <= Len(data) THEN data[i] ELSE content[i - Len(data)]
    BY <1>1, <1>2, ConcatOf
<1> HIDE DEF q
<1>11. ASSUME NEW i \in 1 .. Len(q)
       PROVE  c.buffer_[c.readerIndex_ + i] = q[i]
  <2>1. PICK j \in 1 .. Len(buf.buffer_) : j = r + i /\ j - r = i
      BY <1>1, <1>2, <1>5, <1>10
  <2>2. CASE i <= Len(data)
    <3>1. r < j /\ j <= r + Len(data)
        BY <1>1, <1>5, <1>10, <2>1, <2>2
    <3>2. bytes[j] = data[i]
        BY <1>6, <2>1, <3>1
    <3>3. q[i] = data[i]
        BY <1>2, <1>10, <2>2
    <3>4. QED
        BY <1>7, <2>1, <3>2, <3>3
  <2>3. CASE i > Len(data)
    <3>1. PICK k \in 1 .. ReadableBytes(buf) : k = i - Len(data)
      <4>1. i - Len(data) \in 1 .. ReadableBytes(buf)
          BY <1>1, <1>2, <1>10, <2>3
      <4>2. QED
          BY <4>1
    <3>2. ~(j <= r + Len(data)) /\ j = buf.readerIndex_ + k
        BY <1>1, <1>5, <1>10, <2>1, <2>3, <3>1
    <3>3. bytes[j] = buf.buffer_[j]
        BY <1>6, <3>2
    <3>4. content[k] = buf.buffer_[buf.readerIndex_ + k]
        BY <1>2, <3>1, ReadableIsSeq
    <3>5. q[i] = content[k]
        BY <1>1, <1>2, <1>10, <2>3, <3>1
    <3>6. QED
        BY <1>7, <2>1, <3>2, <3>3, <3>4, <3>5
  <2>4. i \in Nat /\ Len(data) \in Nat
      BY <1>1, <1>2, <1>10
  <2>5. QED
      BY <2>2, <2>3, <2>4
<1>12. Readable(c) = q
    BY <1>9, <1>10, <1>11, ReadableIs
<1>13. QED
    BY <1>2, <1>3, <1>4, <1>9, <1>12 DEF Sound, q

-------------------------------------------------------------------------------
(* The theorems. *)

LEMMA InvariantIsInductive == IInv /\ [Next]_vars => IInv'
<1> SUFFICES ASSUME IInv, [Next]_vars PROVE IInv'
    OBVIOUS
<1>1. ASSUME NEW data \in Data, Append_(data) PROVE IInv'
    BY <1>1, AppendIsSound, SoundKeeps
<1>2. ASSUME NEW data \in Data, HasWritten(data) PROVE IInv'
    BY <1>2, HasWrittenIsSound, SoundKeeps
<1>3. ASSUME NEW data \in Data, ReadFd(data) PROVE IInv'
    BY <1>3, ReadFdIsSound, SoundKeeps
<1>4. ASSUME NEW data \in Data, Prepend(data) PROVE IInv'
    BY <1>4, PrependIsSound, SoundKeeps
<1>5. ASSUME NEW len \in 0 .. MaxContent, EnsureWritableBytes(len) PROVE IInv'
    BY <1>5, EnsureWritableBytesIsSound, SoundKeeps
<1>6. ASSUME NEW len \in 0 .. MaxContent, Retrieve(len) PROVE IInv'
    BY <1>6, RetrieveIsSound, SoundKeeps
<1>7. ASSUME NEW len \in 0 .. MaxContent, Unwrite(len) PROVE IInv'
    BY <1>7, UnwriteIsSound, SoundKeeps
<1>8. CASE UNCHANGED vars
    BY <1>8 DEF vars, IInv, TypeOK, HoldsQueue, GrowthIsBounded, Readable, ReadableBytes
<1>9. QED
    BY <1>1, <1>2, <1>3, <1>4, <1>5, <1>6, <1>7, <1>8 DEF Next

\* The invariant holds in every reachable state of a buffer.
LEMMA InvariantHolds == Safety => []IInv
<1>1. QED
    BY InitIsSound, InvariantIsInductive, PTL DEF Safety

\* The indices stay in order and within the vector, and the vector never becomes smaller
\* than that of an empty buffer, whatever is called (Buffer.h:28).
THEOREM IndicesInOrder == Safety => []TypeOK
<1>1. IInv => TypeOK
    BY DEF IInv
<1>2. QED
    BY <1>1, InvariantHolds, PTL

\* For any sizes, no assertion about the state of the buffer fails, and its readable
\* bytes are those of the queue it stands for (makeSpace(), readFd(), retrieve()).
THEOREM BufferIsQueue == Safety => []HoldsQueue
<1>1. IInv => HoldsQueue
    BY DEF IInv
<1>2. QED
    BY <1>1, InvariantHolds, PTL

\* The vector stays linear in the most bytes ever wanted at once: it does not creep
\* while bytes pass through (the choice in makeSpace()).
THEOREM VectorDoesNotCreep == Safety => []GrowthIsBounded
<1>1. IInv => GrowthIsBounded
    BY DEF IInv
<1>2. QED
    BY <1>1, InvariantHolds, PTL
===============================================================================
