------------------------------- MODULE Buffer -------------------------------
(***************************************************************************)
(* net/buffer.h and buffer.cpp: a vector of bytes with two indices,        *)
(*                                                                         *)
(*    0    <=    readerIndex_    <=    writerIndex_    <=    size()        *)
(*                                                                         *)
(* between which the contents are.  The vector grows, or the contents move *)
(* to its front, when there is no room.  What is beside the contents stays *)
(* as it was, and is zero in what the vector grows by.                     *)
(*                                                                         *)
(* Integers are appended, prepended and read in network order, in two's    *)
(* complement, by the functions of net/endian.h.                           *)
(***************************************************************************)
EXTENDS Integers, SequencesExt

CONSTANTS Base,             \* how many values a byte has
          kCheapPrepend,
          kInitialSize,
          Extra,            \* size of extrabuf
          CR, LF,           \* the bytes of kCRLF
          MaxArgument,      \* bound: the bytes one call adds
          MaxReadable,      \* bound: the bytes in a buffer
          Widths            \* the sizes of integers, in bytes

Byte == 0 .. Base - 1

ASSUME BufferAssumption ==
    /\ Base \in Nat /\ Base % 2 = 0 /\ Base >= 2
    /\ {kCheapPrepend, kInitialSize, Extra, MaxArgument, MaxReadable} \subseteq Nat
    /\ Extra > 0
    /\ {CR, LF} \subseteq Byte
    /\ Widths \subseteq Nat \ {0}

VARIABLES buf,      \* buffer_, readerIndex_ and writerIndex_
          call      \* the last call made, for ByteString

bufferVars == <<buf, call>>

NewBuffer(n) == [vec |-> [i \in 1 .. kCheapPrepend + n |-> 0],
                 reader |-> kCheapPrepend, writer |-> kCheapPrepend]

readableBytes(b) == b.writer - b.reader
writableBytes(b) == Len(b.vec) - b.writer
prependableBytes(b) == b.reader
Contents(b) == SubSeq(b.vec, b.reader + 1, b.writer)

(* std::copy of a string to a place in the vector, and vector::resize.     *)
Copied(vec, at, str) ==
    [i \in DOMAIN vec |-> IF at < i /\ i <= at + Len(str) THEN str[i - at] ELSE vec[i]]
Resized(vec, n) == [i \in 1 .. n |-> IF i <= Len(vec) THEN vec[i] ELSE 0]

(* Faulty variant (mutation runs only): the size is what is needed from    *)
(* the reader's index.                                                     *)
RoomFromReader(b, len) == [b EXCEPT !.vec = Resized(@, kCheapPrepend + readableBytes(b) + len)]

Grown(b, len) == [b EXCEPT !.vec = Resized(@, b.writer + len)]

MovedToFront(b) ==
    [vec |-> Copied(b.vec, kCheapPrepend, Contents(b)),
     reader |-> kCheapPrepend,
     writer |-> kCheapPrepend + readableBytes(b)]

makeSpace(b, len) ==
    IF writableBytes(b) + prependableBytes(b) < len + kCheapPrepend
    THEN Grown(b, len) ELSE MovedToFront(b)

ensureWritableBytes(b, len) ==
    IF writableBytes(b) < len THEN makeSpace(b, len) ELSE b

Written(b, str) == [b EXCEPT !.vec = Copied(@, b.writer, str), !.writer = @ + Len(str)]

append(b, str) == Written(ensureWritableBytes(b, Len(str)), str)

prepend(b, str) == [b EXCEPT !.vec = Copied(@, b.reader - Len(str), str),
                             !.reader = @ - Len(str)]

retrieveAll(b) == [b EXCEPT !.reader = kCheapPrepend, !.writer = kCheapPrepend]

retrieve(b, len) == IF len < readableBytes(b) THEN [b EXCEPT !.reader = @ + len]
                    ELSE retrieveAll(b)

(* A new buffer is made, filled and swapped with this one.                 *)
shrink(b, reserve) ==
    append(ensureWritableBytes(NewBuffer(kInitialSize), readableBytes(b) + reserve),
           Contents(b))

(* readFd() when the socket yields str: what does not fit goes to extrabuf *)
(* and is appended.  extrabuf is offered only if there is less room here.  *)
Offered(b) == writableBytes(b) + (IF writableBytes(b) < Extra THEN Extra ELSE 0)

readFd(b, str) ==
    LET room == writableBytes(b)
    IN  IF Len(str) <= room THEN Written(b, str)
        ELSE append(Written(b, SubSeq(str, 1, room)), SubSeq(str, room + 1, Len(str)))

----------------------------------------------------------------------------
(* Integers.                                                               *)

(* How many values n bytes have.                                           *)
Weight[n \in Nat] == IF n = 0 THEN 1 ELSE Base * Weight[n - 1]

(* The bytes of x, whose representation has w of them, highest first.      *)
hostToNetwork(x, w) == [i \in 1 .. w |-> (x \div Weight[w - i]) % Base]

Unsigned(str) ==
    LET upTo[n \in 0 .. Len(str)] == IF n = 0 THEN 0 ELSE upTo[n - 1] * Base + str[n]
    IN  upTo[Len(str)]

networkToHost(str) ==
    LET w == Len(str)
    IN  IF Unsigned(str) < Weight[w] \div 2 THEN Unsigned(str) ELSE Unsigned(str) - Weight[w]

Ints(w) == -(Weight[w] \div 2) .. (Weight[w] \div 2) - 1

----------------------------------------------------------------------------
(* Searching, from the start-th byte of the contents: std::search over the *)
(* contents alone, and memchr.                                             *)
FirstOf(positions) == IF positions = {} THEN 0 ELSE Min(positions)

(* Faulty variant (mutation runs only): the search goes on to the end of   *)
(* the vector.                                                             *)
PastWriter(b) == Len(b.vec)

EndOfSearch(b) == b.writer

findCRLF(b, start) ==
    FirstOf({i \in start .. EndOfSearch(b) - b.reader - 1 :
                /\ b.vec[b.reader + i] = CR /\ b.vec[b.reader + i + 1] = LF})

findEOL(b, start) ==
    FirstOf({i \in start .. EndOfSearch(b) - b.reader : b.vec[b.reader + i] = LF})

----------------------------------------------------------------------------
Strings(n) == BoundedSeq(Byte, n)
Becomes(b, c) == buf' = b /\ call' = c

AppendBytes(str) ==
    /\ readableBytes(buf) + Len(str) <= MaxReadable
    /\ Becomes(append(buf, str), [op |-> "append", str |-> str])

AppendInt(x, w) == AppendBytes(hostToNetwork(x, w))

Prepend(str) ==
    /\ Len(str) <= prependableBytes(buf)
    /\ readableBytes(buf) + Len(str) <= MaxReadable
    /\ Becomes(prepend(buf, str), [op |-> "prepend", str |-> str])

PrependInt(x, w) == Prepend(hostToNetwork(x, w))

(* retrieve() and the calls that return what they retrieve.                *)
Retrieve(len) ==
    /\ len <= readableBytes(buf)
    /\ Becomes(retrieve(buf, len), [op |-> "retrieve", str |-> SubSeq(Contents(buf), 1, len)])

Unwrite(len) ==
    /\ len <= readableBytes(buf)
    /\ Becomes([buf EXCEPT !.writer = @ - len], [op |-> "unwrite", len |-> len])

Shrink(reserve) ==
    Becomes(shrink(buf, reserve), [op |-> "shrink"])

(* readv() yields nothing if it fails, as ssize_t is unsigned (net/types.h) *)
(* and its error is not looked at (socketsOps.cpp:108-114).                *)
ReadFd(str) ==
    /\ Len(str) <= Offered(buf)
    /\ readableBytes(buf) + Len(str) <= MaxReadable
    /\ Becomes(readFd(buf, str), [op |-> "append", str |-> str])

FindCRLF(start) ==
    Becomes(buf, [op |-> "findCRLF", start |-> start, at |-> findCRLF(buf, start)])

FindEOL(start) ==
    Becomes(buf, [op |-> "findEOL", start |-> start, at |-> findEOL(buf, start)])

PeekInt(w) ==
    /\ readableBytes(buf) >= w
    /\ Becomes(buf, [op |-> "peek", width |-> w,
                     value |-> networkToHost(SubSeq(buf.vec, buf.reader + 1, buf.reader + w))])

BufferInit == buf = NewBuffer(kInitialSize) /\ call = [op |-> "new"]

BufferNext ==
    \/ \E str \in Strings(MaxArgument) : AppendBytes(str) \/ Prepend(str) \/ ReadFd(str)
    \/ \E w \in Widths : \E x \in Ints(w) : AppendInt(x, w) \/ PrependInt(x, w)
    \/ \E w \in Widths : PeekInt(w)
    \/ \E len \in 0 .. readableBytes(buf) : Retrieve(len) \/ Unwrite(len)
    \/ \E len \in 0 .. MaxArgument : Shrink(len)
    \/ \E start \in 1 .. readableBytes(buf) + 1 : FindCRLF(start) \/ FindEOL(start)

BufferSpec == BufferInit /\ [][BufferNext]_bufferVars

----------------------------------------------------------------------------
BufferTypeOK ==
    /\ buf.vec \in Seq(Byte)
    /\ {buf.reader, buf.writer} \subseteq 0 .. Len(buf.vec)
    /\ buf.reader <= buf.writer

String == INSTANCE ByteString WITH bytes <- Contents(buf), ToInt <- networkToHost

(* A buffer is a string of bytes: growing, moving to the front and         *)
(* shrinking lose, double and change nothing, readFd() puts together what  *)
(* it read to two places, and a search finds the first occurrence in the   *)
(* contents and never one in what is left beside them (buffer.h:68-354,    *)
(* buffer.cpp:14-42).                                                      *)
ImplementsByteString == String!Spec

(* The assertions of buffer.h hold whatever the calls were, the vector     *)
(* stays below what one call adds and the most that was to be read, and a  *)
(* number comes back from the bytes it was written as (buffer.h:97-354).   *)
IndicesInOrder ==
    /\ BufferTypeOK
    /\ \A len \in 0 .. MaxArgument :
        /\ writableBytes(ensureWritableBytes(buf, len)) >= len
        /\ \/ writableBytes(buf) >= len
           \/ writableBytes(buf) + prependableBytes(buf) < len + kCheapPrepend
           \/ kCheapPrepend < buf.reader
    /\ Len(buf.vec) <= kCheapPrepend + Max({kInitialSize, MaxReadable
                                             + Max({MaxArgument, MaxReadable})})
    /\ \A w \in Widths : \A x \in Ints(w) : networkToHost(hostToNetwork(x, w)) = x
=============================================================================
