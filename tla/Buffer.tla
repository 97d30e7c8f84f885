-------------------------------- MODULE Buffer --------------------------------
(***************************************************************************)
(* The buffer of a connection (src/base/Buffer.h, Buffer.cpp): a vector in *)
(* which [readerIndex_, writerIndex_) is readable, what is before it can   *)
(* take a header and what is behind it more data.  Bytes behind            *)
(* writerIndex_ keep what was there.                                       *)
(*                                                                         *)
(* A vector is a sequence: its element of index i is buffer_[i + 1].  The  *)
(* caller keeps the conditions the functions assert of their arguments;    *)
(* the assertions about the state of the buffer are checked.               *)
(***************************************************************************)
EXTENDS Naturals, Sequences

CONSTANTS Byte,
          Zero,             \* the byte that resize() adds
          kCheapPrepend,    \* the room kept for a header
          InitialSize,      \* the argument of the constructor
          ExtraSize,        \* sizeof extrabuf in readFd()
          MaxChunk,         \* bound: bytes written by one call
          MaxContent        \* bound: readable bytes

ASSUME ByteAssumption == Zero \in Byte
ASSUME SizeAssumption == /\ kCheapPrepend \in Nat \ {0} /\ InitialSize \in Nat
                         /\ ExtraSize \in Nat
ASSUME BufferBoundAssumption == MaxChunk \in Nat /\ MaxContent \in Nat

VARIABLES buf,      \* the vector and the two indices
          aborted,  \* an assertion has failed
          content,  \* history: what a ByteQueue would hold
          peak      \* history: the most bytes readable or asked for at once

vars == <<buf, aborted, content, peak>>

Queue == INSTANCE ByteQueue

Data == UNION {[1 .. n -> Byte] : n \in 0 .. MaxChunk}

\* 0 <= readerIndex <= writerIndex <= size (Buffer.h:28), and the size never falls
\* below that of an empty buffer, which retrieveAll() relies on.
TypeOK ==
    /\ buf \in [buffer_ : Seq(Byte), readerIndex_ : Nat, writerIndex_ : Nat]
    /\ buf.readerIndex_ <= buf.writerIndex_
    /\ buf.writerIndex_ <= Len(buf.buffer_)
    /\ kCheapPrepend + InitialSize <= Len(buf.buffer_)
    /\ aborted \in BOOLEAN
    /\ content \in Seq(Byte)
    /\ peak \in Nat

ReadableBytes(b) == b.writerIndex_ - b.readerIndex_
WritableBytes(b) == Len(b.buffer_) - b.writerIndex_
PrependableBytes(b) == b.readerIndex_

Readable(b) == [i \in 1 .. ReadableBytes(b) |-> b.buffer_[b.readerIndex_ + i]]

Init ==
    /\ buf = [buffer_ |-> [i \in 1 .. kCheapPrepend + InitialSize |-> Zero],
              readerIndex_ |-> kCheapPrepend, writerIndex_ |-> kCheapPrepend]
    /\ aborted = FALSE
    /\ Queue!Init
    /\ peak = 0

-------------------------------------------------------------------------------
(* The private functions, as operators on a buffer. *)

\* std::copy(data, data + len, begin() + at)
CopyTo(bytes, at, data) ==
    [i \in 1 .. Len(bytes) |-> IF at < i /\ i <= at + Len(data) THEN data[i - at] ELSE bytes[i]]

Resize(bytes, size) ==
    [i \in 1 .. size |-> IF i <= Len(bytes) THEN bytes[i] ELSE Zero]

\* Mutation: the room for a header is counted as room for data.
MustGrowLate(b, len) == WritableBytes(b) + PrependableBytes(b) < len

\* Mutation: the content is never moved to the front.
AlwaysGrows(b, len) == WritableBytes(b) < len

MustGrow(b, len) == WritableBytes(b) + PrependableBytes(b) < len + kCheapPrepend

\* makeSpace()
MakeSpace(b, len) ==
    IF MustGrow(b, len)
      THEN [b EXCEPT !.buffer_ = Resize(@, b.writerIndex_ + len)]
      ELSE [buffer_ |-> CopyTo(b.buffer_, kCheapPrepend, Readable(b)),
            readerIndex_ |-> kCheapPrepend,
            writerIndex_ |-> kCheapPrepend + ReadableBytes(b)]

\* ensureWritableBytes()
WithRoom(b, len) == IF WritableBytes(b) < len THEN MakeSpace(b, len) ELSE b

\* assert(kCheapPrepend < readerIndex_) in makeSpace(), without which the copy would
\* overwrite what it has still to read, and assert(writableBytes() >= len) after it.
RoomAsserted(b, len) ==
    /\ WritableBytes(b) < len /\ ~MustGrow(b, len) => kCheapPrepend < b.readerIndex_
    /\ WritableBytes(WithRoom(b, len)) >= len

\* Bytes written at beginWrite(), and hasWritten().
Write(b, data) ==
    [b EXCEPT !.buffer_ = CopyTo(@, b.writerIndex_, data), !.writerIndex_ = @ + Len(data)]

\* Room for len bytes is made in b, and data written there; or an assertion fails.
WriteWithRoom(b, len, data) ==
    /\ aborted' = ~RoomAsserted(b, len)
    /\ buf' = IF RoomAsserted(b, len) THEN Write(WithRoom(b, len), data) ELSE b

\* The most bytes wanted so far, if n bytes more are.
Wanted(n) == LET all == ReadableBytes(buf) + n IN peak' = IF all > peak THEN all ELSE peak

Fits(n) == ReadableBytes(buf) + n <= MaxContent

-------------------------------------------------------------------------------
(* The public functions. *)

\* append(), and appendInt64() and its like.
Append_(data) ==
    /\ Fits(Len(data))
    /\ WriteWithRoom(buf, Len(data), data)
    /\ Queue!Push(data) /\ Wanted(Len(data))

\* ensureWritableBytes() of len bytes.
EnsureWritableBytes(len) ==
    /\ Fits(len)
    /\ WriteWithRoom(buf, len, <<>>)
    /\ Queue!Push(<<>>) /\ Wanted(len)

\* The caller writes at beginWrite() and calls hasWritten().
HasWritten(data) ==
    /\ Fits(Len(data)) /\ Len(data) <= WritableBytes(buf)
    /\ buf' = Write(buf, data)
    /\ Queue!Push(data) /\ Wanted(Len(data))
    /\ UNCHANGED aborted

\* readFd(): what does not fit is read into extrabuf, if that is larger, and appended.
ReadFd(data) ==
    LET writable == WritableBytes(buf)
        full == Write(buf, SubSeq(data, 1, writable))
        extra == SubSeq(data, writable + 1, Len(data)) IN
    /\ Fits(Len(data))
    /\ Len(data) <= IF writable < ExtraSize THEN writable + ExtraSize ELSE writable
    /\ IF Len(data) <= writable
         THEN buf' = Write(buf, data) /\ UNCHANGED aborted
         ELSE WriteWithRoom(full, Len(extra), extra)
    /\ Queue!Push(data) /\ Wanted(Len(data))

\* Mutation: retrieving everything resets one of the indices only.
RetrieveResetsWriter(len) ==
    /\ len <= ReadableBytes(buf)
    /\ buf' = IF len < ReadableBytes(buf)
                THEN [buf EXCEPT !.readerIndex_ = @ + len]
                ELSE [buf EXCEPT !.writerIndex_ = kCheapPrepend]
    /\ Queue!Pop(len)
    /\ UNCHANGED <<aborted, peak>>

\* retrieve() and what is built on it: retrieveUntil(), retrieveAll(),
\* retrieveAsString(), readInt64() and its like.
Retrieve(len) ==
    /\ len <= ReadableBytes(buf)
    /\ buf' = IF len < ReadableBytes(buf)
                THEN [buf EXCEPT !.readerIndex_ = @ + len]
                ELSE [buf EXCEPT !.readerIndex_ = kCheapPrepend, !.writerIndex_ = kCheapPrepend]
    /\ Queue!Pop(len)
    /\ UNCHANGED <<aborted, peak>>

\* unwrite()
Unwrite(len) ==
    /\ len <= ReadableBytes(buf)
    /\ buf' = [buf EXCEPT !.writerIndex_ = @ - len]
    /\ Queue!TakeBack(len)
    /\ UNCHANGED <<aborted, peak>>

\* prepend(), and prependInt64() and its like.
Prepend(data) ==
    /\ Fits(Len(data)) /\ Len(data) <= PrependableBytes(buf)
    /\ buf' = [buf EXCEPT !.buffer_ = CopyTo(@, buf.readerIndex_ - Len(data), data),
                          !.readerIndex_ = @ - Len(data)]
    /\ Queue!PushFront(data) /\ Wanted(Len(data))
    /\ UNCHANGED aborted

Next ==
    /\ ~aborted
    /\ \/ \E data \in Data : Append_(data) \/ HasWritten(data) \/ ReadFd(data) \/ Prepend(data)
       \/ \E len \in 0 .. MaxContent : EnsureWritableBytes(len) \/ Retrieve(len) \/ Unwrite(len)

Safety == Init /\ [][Next]_vars

-------------------------------------------------------------------------------
(* Properties. *)

\* Wherever the indices are, and whether the content is moved, the vector resized or a
\* read spilt over, no assertion about the state fails and the readable bytes are
\* those of a queue (makeSpace(), readFd(), retrieve(), prepend()).
HoldsQueue == ~aborted /\ Readable(buf) = content

\* The vector does not creep: its size is linear in the most that was ever wanted at
\* once, however much passes through (the choice between moving and resizing).
GrowthIsBounded ==
    \/ Len(buf.buffer_) <= kCheapPrepend + InitialSize
    \/ Len(buf.buffer_) < kCheapPrepend + 2 * peak
===============================================================================
