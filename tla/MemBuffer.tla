----------------------------- MODULE MemBuffer ------------------------------
(***************************************************************************)
(* MemBuffer (data/core/mem_buf.c): a growing array of bytes that the      *)
(* sockets, the files and the serialisers read from and append to.         *)
(*                                                                         *)
(* A C function is an operator from the buffer it finds to the buffer it   *)
(* leaves.  Memory is followed byte by byte: what lies behind the content  *)
(* is read and shown again by some of the functions.                       *)
(***************************************************************************)
LOCAL INSTANCE Integers
LOCAL INSTANCE Sequences
LOCAL INSTANCE SequencesExt
LOCAL INSTANCE FiniteSets

CONSTANTS Chunks,         \* the byte sequences a program appends
          Grow,           \* grow_rate of a new buffer, 64 in the code
          MaxSize,        \* bound: bytes of content
          MaxLocks,       \* bound: references held
          MaxCalls        \* bound: calls of the program

Byte == {"a", "b", "0", "z"}      \* "0" is NUL, "z" the mark of compressed data

(***************************************************************************)
(* The buffer b: data (the allocation), cap (capacity), size, off, grow,   *)
(* ref, wired, ro (readonly, a mapped file) and whether it is alive; file  *)
(* is the file it is written to and read from.  History: ideal is what the *)
(* program put in, locks the references it holds, calls its calls, wild that a function     *)
(* touched bytes outside of the allocation, odd the uses that the          *)
(* functions do not provide for.                                           *)
(***************************************************************************)
VARIABLE b

MemBufferNew(grow) ==
    [data |-> <<>>, cap |-> 0, size |-> 0, off |-> 0, grow |-> IF grow = 0 THEN Grow ELSE grow,
     ref |-> 0, wired |-> FALSE, ro |-> FALSE, alive |-> TRUE, file |-> <<>>,
     ideal |-> <<>>, locks |-> 1, calls |-> 0, wild |-> FALSE, odd |-> {}]

Init == b = MemBufferNew(1)

-----------------------------------------------------------------------------
(* Memory. *)

Zeros(n) == [i \in 1 .. n |-> "0"]

\* The n bytes at offset o of the allocation, and their replacement.
Peek(x, o, n) == SubSeq(x.data, o + 1, o + n)
Poke(x, o, d) ==
    IF o + Len(d) > Len(x.data) THEN [x EXCEPT !.wild = TRUE]
    ELSE [x EXCEPT !.data = [i \in DOMAIN @ |-> IF i \in o + 1 .. o + Len(d) THEN d[i - o] ELSE @[i]]]

CheckForGrowLate(x, n) ==
    LET need == x.grow + n
    IN IF x.cap # 0 /\ x.cap > x.size THEN x
       ELSE [x EXCEPT !.data = SubSeq(@, 1, x.cap) \o Zeros(need), !.cap = @ + need]
\* calloc the first time, realloc and memset of the new part after that.
MemBufferCheckForGrow(x, n) ==
    LET need == x.grow + n
    IN IF x.cap # 0 /\ x.cap > x.size + n THEN x
       ELSE [x EXCEPT !.data = SubSeq(@, 1, x.cap) \o Zeros(need), !.cap = @ + need]

MemBufferGetSize(x) == x.size - x.off       \* an unsigned difference
Visible(x) == Peek(x, x.off, MemBufferGetSize(x))
Bounded(x) == MemBufferGetSize(x) >= 0
\* A function that trusts the size copies 2^64 bytes when it is negative.
Trusting(x, y) == IF Bounded(x) THEN y ELSE [x EXCEPT !.wild = TRUE]
Odd(x, why) == [x EXCEPT !.odd = @ \cup {why}]

-----------------------------------------------------------------------------
(* Appending and overwriting. *)

Append1(x, d) == [Poke(MemBufferCheckForGrow(x, Len(d) + 1), x.size, d) EXCEPT !.size = @ + Len(d)]
MemBufferAdd(x, d) == IF x.ro THEN x ELSE [Append1(x, d) EXCEPT !.ideal = @ \o d]

\* The size grows by the offset and the length whatever it was.
MemBufferOverwrite(x, o, d) ==
    LET y == Poke(MemBufferCheckForGrow(x, o + Len(d) + 1), o, d)
        z == [y EXCEPT !.size = @ + o + Len(d),
                       !.ideal = d]
    IN IF x.ro THEN x
       ELSE IF x.size = 0 /\ o = 0 THEN z ELSE Odd(z, "overwrite")

Splice(d, o, e) ==
    LET n == IF o + Len(e) < Len(d) THEN Len(d) ELSE o + Len(e)
    IN [i \in 1 .. n |-> IF i \in o + 1 .. o + Len(e) THEN e[i - o] ELSE IF i <= Len(d) THEN d[i] ELSE "0"]

\* Writes behind the read offset but counts from the start.
MemBufferOffsetWrite(x, o, d) ==
    LET end == o + Len(d)
        y == Poke(MemBufferCheckForGrow(x, end + 1), x.off + o, d)
        z == [y EXCEPT !.size = IF end < @ THEN @ ELSE end, !.ideal = Splice(@, o, d)]
    IN IF x.ro \/ x.off # 0 \/ o > x.size THEN Odd(z, "offset_write") ELSE z

MemBufferPutNULLTerminator(x) ==
    IF x.ro THEN Odd([x EXCEPT !.size = @ - 1], "readonly")
    ELSE [Append1(x, <<"0">>) EXCEPT !.size = @ - 1]
MemBufferAppendNULL(x) == MemBufferAdd(x, <<"0">>)

\* vsnprintf stops at the first NUL of an argument.
MemBufferPrintf(x, d) ==
    LET nul == {i \in DOMAIN d : d[i] = "0"}
        n == IF nul = {} THEN Len(d) ELSE (CHOOSE i \in nul : \A j \in nul : i <= j) - 1
    IN MemBufferAdd(x, SubSeq(d, 1, n))

-----------------------------------------------------------------------------
(* Shortening. *)

MemBufferUnwirePages(x) == [x EXCEPT !.wired = FALSE]
MemBufferWirePages(x, ok) == [x EXCEPT !.wired = @ \/ x.cap = 0 \/ ok]

MemBufferClean(x) ==
    MemBufferUnwirePages(
        [Poke(x, 0, Zeros(x.size)) EXCEPT !.size = 0, !.off = 0, !.ideal = <<>>, !.wild = @ \/ x.ro])

MemBufferShrink(x) ==
    LET y == MemBufferPutNULLTerminator(x)
    IN IF y.size <= 1 THEN y
       ELSE [y EXCEPT !.data = Peek(y, 0, y.size + 1), !.cap = y.size]

\* From the byte behind the content down to the second byte.
MemBufferShrinkToToken(x, t) ==
    LET n == MemBufferGetSize(x)
        at == {i \in 1 .. n : Peek(x, x.off + i, 1) = <<t>>}    \* counted from 0
        last == CHOOSE i \in at : \A j \in at : j <= i
        y == [x EXCEPT !.size = x.off + last + 1]
    IN IF x.off + n + 1 > Len(x.data) \/ at = {} THEN x
       ELSE IF last = n THEN Odd(y, "token")
       ELSE [y EXCEPT !.ideal = SubSeq(@, 1, y.size)]

RemoveLastCharKeepsIt(x) == [x EXCEPT !.size = @ - 1, !.ideal = SubSeq(@, 1, Len(@) - 1)]
MemBufferRemoveLastChar(x) ==
    LET y == [Poke(x, x.size - 1, <<"0">>) EXCEPT !.size = @ - 1, !.ideal = SubSeq(@, 1, Len(@) - 1)]
    IN IF x.size = 0 THEN x
       ELSE IF x.size = 1 THEN MemBufferClean(x)
       ELSE IF x.off = x.size THEN Odd(y, "behind") ELSE y

-----------------------------------------------------------------------------
(* Copies.  The program goes on with the copy. *)

Copy(x, y) == [y EXCEPT !.file = x.file, !.odd = x.odd, !.locks = 1]
MemBufferDup(x) ==
    LET y == [MemBufferAdd(MemBufferNew(MemBufferGetSize(x) + 1), Visible(x)) EXCEPT !.off = x.off]
    IN Trusting(x, IF x.off = 0 THEN Copy(x, y) ELSE Odd(Copy(x, y), "dup"))
\* The test for nothing to copy is of an unsigned number.
MemBufferDupOffset(x, o) ==
    LET n == MemBufferGetSize(x) - o
    IN IF o > x.cap \/ n = 0 THEN x
       ELSE IF n < 0 THEN Odd([x EXCEPT !.wild = TRUE], "dup")
       ELSE Copy(x, MemBufferAdd(MemBufferNew(n + 1), Peek(x, x.off + o, n)))
MemBufferMerge(x, d) ==
    Trusting(x, Copy(x, MemBufferAdd(MemBufferAdd(MemBufferNew(MemBufferGetSize(x) + Len(d)), Visible(x)), d)))

\* Packed and unpacked again: the offset counts once more.
MetaDataRoundTrip(x) ==
    LET y == MemBufferAdd([MemBufferNew(512) EXCEPT !.grow = x.grow, !.off = x.off], Visible(x))
    IN Trusting(x, IF x.off = 0 THEN Copy(x, y) ELSE Odd(Copy(x, y), "dup"))

\* zlib, by a mark before the data; what is not marked does not inflate.
MemBufferGzipDeflate(x) == Trusting(x, Copy(x, MemBufferAdd(MemBufferNew(0), <<"z">> \o Visible(x))))
MemBufferGzipInflate(x) ==
    IF ~Bounded(x) \/ x.size = x.off THEN x
    ELSE IF Head(Visible(x)) # "z" THEN x
    ELSE Copy(x, MemBufferAdd(MemBufferNew(0), Tail(Visible(x))))

-----------------------------------------------------------------------------
(* Files.  n is the number of bytes the system moves. *)

\* The file is truncated first, and a short write is success.
MemBufferOffsetWriteToFile(x, o, n) ==
    IF o > MemBufferGetSize(x) THEN [x EXCEPT !.file = <<>>]
    ELSE [x EXCEPT !.file = Peek(x, x.off + o, n)]
MemBufferWriteToFile(x, n) == MemBufferOffsetWriteToFile(x, 0, n)
MemBufferSyncWriteToFile(x, n) == MemBufferWriteToFile(x, n)
MemBufferPWriteToFD(x, o, at, n) ==
    IF o > MemBufferGetSize(x) THEN x ELSE [x EXCEPT !.file = Splice(@, at, Peek(x, x.off + o, n))]
MemBufferPWriteToFile(x, o, at, n) == MemBufferPWriteToFD(x, o, at, n)
MemBufferAppendToFD(x, n) == MemBufferPWriteToFD(x, 0, Len(x.file), n)
\* An empty buffer leaves an empty file and fails.
MemBufferMmapWriteToFile(x) == [x EXCEPT !.file = Visible(x)]

MemBufferMmapFile(x) ==
    IF x.file = <<>> THEN x
    ELSE Copy(x, [MemBufferNew(1) EXCEPT !.data = x.file, !.cap = Len(x.file), !.size = Len(x.file),
                                         !.ideal = x.file, !.ro = TRUE])
\* ReadFromFile fails on a partial read, ReadFromBigFile reads on.
MemBufferReadFromFile(x, n) ==
    IF n # Len(x.file) THEN x ELSE Copy(x, MemBufferAdd(MemBufferNew(Len(x.file)), x.file))
Least(i, j) == IF i < j THEN i ELSE j
Blocks(y, d, n) ==
    FoldLeft(LAMBDA z, i : MemBufferAdd(z, SubSeq(d, (i - 1) * n + 1, Least(i * n, Len(d)))),
             y, [i \in 1 .. (Len(d) + n - 1) \div n |-> i])
MemBufferReadFromBigFile(x, n) ==
    IF n = 0 THEN x ELSE Copy(x, Blocks(MemBufferNew(Len(x.file)), x.file, n))
MemBufferAppendFromFile(x, n) == IF n # Len(x.file) THEN x ELSE MemBufferAdd(x, x.file)
MemBufferPReadFromFD(x, at, n) == MemBufferAdd(x, SubSeq(x.file, at + 1, at + n))
MemBufferReadFromFD(x, n) == MemBufferPReadFromFD(x, 0, n)
MemBufferAppendFromFD(x, n) == IF n = 0 THEN x ELSE MemBufferAdd(x, SubSeq(x.file, 1, n))
\* ReadFromFileOffseted: n bytes at offset o, or all the rest when n < 0.
MemBufferReadFromFileOffseted(x, o, n, got) ==
    LET want == IF n < 0 THEN Len(x.file) - o ELSE n
    IN IF want + o > Len(x.file) \/ want < 0 THEN x
       ELSE MemBufferAdd(x, SubSeq(x.file, o + 1, o + Least(got, want)))

-----------------------------------------------------------------------------
(* Life.  Each reference is released by one Destroy or Unlock. *)

MemBufferLock(x) == [x EXCEPT !.ref = @ + 1, !.locks = @ + 1]
ReleaseEarly(x) == [x EXCEPT !.alive = x.ref > 1, !.ref = @ - 1, !.locks = @ - 1]
\* Destroy and Unlock
Release(x) == [x EXCEPT !.alive = x.ref > 0, !.ref = @ - 1, !.locks = @ - 1]

-----------------------------------------------------------------------------

\* Nothing is said of a buffer after an odd use.
Live == b.alive /\ ~b.wild /\ b.odd = {} /\ b.calls < MaxCalls
Fits(n) == b.size + n <= MaxSize
Lens == 0 .. MaxSize

Do(x) == b' = [x EXCEPT !.calls = b.calls + 1]
Write ==
    \E d \in Chunks, o \in Lens :
        /\ Live /\ Fits(o + Len(d))
        /\ \/ o = 0 /\ Do(MemBufferAdd(b, d))
           \/ o = 0 /\ Do(MemBufferPrintf(b, d))
           \/ Do(MemBufferOverwrite(b, o, d))
           \/ Do(MemBufferOffsetWrite(b, o, d))
Terminate == Live /\ Fits(1) /\ (Do(MemBufferPutNULLTerminator(b)) \/ Do(MemBufferAppendNULL(b)))
Shorten ==
    /\ Live /\ Bounded(b)
    /\ \/ Do(MemBufferClean(b))
       \/ Do(MemBufferShrink(b))
       \/ Do(MemBufferRemoveLastChar(b))
       \/ \E t \in Byte : Do(MemBufferShrinkToToken(b, t))
\* OffsetSet, OffsetIncrement and OffsetReset, within the content.
SetOffset == Live /\ \E o \in 0 .. b.size : Do([b EXCEPT !.off = o])
CopyIt ==
    /\ Live
    /\ \/ Do(MemBufferDup(b))
       \/ \E o \in 0 .. b.size : Do(MemBufferDupOffset(b, o))
       \/ \E d \in Chunks : Fits(Len(d)) /\ Do(MemBufferMerge(b, d))
       \/ Do(MetaDataRoundTrip(b))
       \/ Fits(1) /\ Do(MemBufferGzipDeflate(b))
       \/ Do(MemBufferGzipInflate(b))
Save ==
    /\ Live /\ Bounded(b)
    /\ \E o \in Lens, n \in 0 .. MemBufferGetSize(b) :
        \/ o = 0 /\ Do(MemBufferSyncWriteToFile(b, n))
        \/ o + n <= MemBufferGetSize(b) /\ Do(MemBufferOffsetWriteToFile(b, o, n))
        \/ \E at \in 0 .. Len(b.file) :
              o + n <= MemBufferGetSize(b) /\ at + n <= MaxSize /\ Do(MemBufferPWriteToFile(b, o, at, n))
        \/ o = 0 /\ Len(b.file) + n <= MaxSize /\ Do(MemBufferAppendToFD(b, n))
        \/ Do(MemBufferMmapWriteToFile(b))
Load ==
    /\ Live
    /\ \E n \in 0 .. Len(b.file) :
        \/ Do(MemBufferMmapFile(b))
        \/ Do(MemBufferReadFromFile(b, n))
        \/ Do(MemBufferReadFromBigFile(b, n))
        \/ Fits(n) /\ Do(MemBufferAppendFromFile(b, n))
        \/ Fits(n) /\ Do(MemBufferReadFromFD(b, n))
        \/ Fits(n) /\ Do(MemBufferAppendFromFD(b, n))
        \/ \E o \in Lens, want \in -1 .. MaxSize :
              Fits(n) /\ Do(MemBufferReadFromFileOffseted(b, o, want, n))
Pages == Live /\ (Do(MemBufferUnwirePages(b)) \/ \E ok \in BOOLEAN : Do(MemBufferWirePages(b, ok)))
Share == \/ Live /\ b.locks > 0 /\ b.locks < MaxLocks /\ Do(MemBufferLock(b))
         \/ Live /\ b.locks > 0 /\ Do(Release(b))

Next == Write \/ Terminate \/ Shorten \/ SetOffset \/ CopyIt \/ Save \/ Load \/ Pages \/ Share

-----------------------------------------------------------------------------
(* Without the odd uses the buffer holds what was put in, in order, inside *)
(* its allocation with room for a terminator, and it lives exactly as long *)
(* as somebody refers to it.                                               *)
HoldsContent ==
    b.odd = {} => /\ ~b.wild \/ b.ro
                  /\ b.off <= b.size /\ b.size <= Len(b.data)
                  /\ Peek(b, 0, b.size) = b.ideal
                  /\ b.ro \/ b.cap = 0 \/ b.size < Len(b.data)
LivesAsReferred == b.alive <=> b.locks > 0
=============================================================================
