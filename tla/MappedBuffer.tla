---------------------------- MODULE MappedBuffer ----------------------------
(***************************************************************************)
(* MemBufferMapped (data/utils/mem_buf_mapped.c): a buffer filled by       *)
(* writes at any offset in any order, the parts of a download.  Whole      *)
(* pages are marked in a bitmap; a page begun is kept as a partial buffer  *)
(* until the rest of it arrives.                                           *)
(*                                                                         *)
(* The bytes themselves are those of one file, so a buffer is told by the  *)
(* set of positions it has.                                                *)
(***************************************************************************)
EXTENDS DynBitMap
LOCAL INSTANCE Integers
LOCAL INSTANCE Sequences
LOCAL INSTANCE SequencesExt
LOCAL INSTANCE FiniteSets

CONSTANTS PageSize, FileSize,  \* bytes of a page; of the file, whose last page is short
          MaxOps               \* bound: calls

(***************************************************************************)
(* The mapped buffer x: main is main_mb with its size and the positions    *)
(* written; parts the list of partials: page idx (user_int), first byte    *)
(* off (user_long), size and the bytes got, counted from the page; map the *)
(* bitmap; cur the offset of Add; done the flag complete.  History: ops;   *)
(* odd: the writes after which the marks do not hold.                      *)
(***************************************************************************)
VARIABLE x

MemBufferMappedNew ==
    [main |-> [size |-> 0, have |-> {}], parts |-> <<>>, map |-> DynBitMapNew, cur |-> 0,
     done |-> FALSE, ops |-> 0, odd |-> {}]
Init == x = MemBufferMappedNew

Page(i) == i * PageSize .. (i + 1) * PageSize - 1
Greater(i, j) == IF i < j THEN j ELSE i

\* MemBufferOffsetWrite of the positions o .. o + n - 1
Put(mb, o, n) == [size |-> Greater(mb.size, o + n), have |-> mb.have \cup o .. o + n - 1]

PartialGetByIdx(y, i) ==
    LET at == {p \in DOMAIN y.parts : y.parts[p].idx = i}
    IN IF at = {} THEN 0 ELSE CHOOSE p \in at : \A q \in at : p <= q
PartialDrop(y, p) == [y EXCEPT !.parts = RemoveAt(@, p)]
Odd(y, why) == [y EXCEPT !.odd = @ \cup {why}]

\* A page finished is copied over the main buffer from its partial.
Replace(main, i, got) ==
    [size |-> Greater(main.size, (i + 1) * PageSize), have |-> (main.have \ Page(i)) \cup {i * PageSize + q : q \in got}]
Mark(y, i) ==
    LET z == [y EXCEPT !.map = DynBitMapBitSet(@, i)]
        p == PartialGetByIdx(z, i)
    IN IF p = 0 THEN z ELSE PartialDrop(z, p)
AlignedWrite(y, i, n) ==
    FoldLeft(Mark, [y EXCEPT !.main = Put(@, i * PageSize, n * PageSize)], [k \in 1 .. n |-> i + k - 1])

TouchesNear(part, rel, n) == rel <= part.off + part.size + 1
\* What is added to a partial must touch it; its end counts the offset twice.
Touches(part, rel, n) ==
    /\ rel < part.off => rel + n >= part.off
    /\ rel <= part.off + part.size
    /\ rel > part.off => rel + n >= part.off + part.size
NewPart(i, rel) == [idx |-> i, off |-> rel, size |-> 0, got |-> {}]
PartialDataProcess(y, i, rel, n) ==
    LET p == PartialGetByIdx(y, i)
        old == IF p = 0 THEN NewPart(i, rel) ELSE y.parts[p]
        buf == Put([size |-> old.size, have |-> old.got], rel, n)
        part == [old EXCEPT !.off = IF rel > @ THEN @ ELSE rel, !.size = buf.size, !.got = buf.have]
        z == [y EXCEPT !.parts = IF p = 0 THEN Append(@, part) ELSE [@ EXCEPT ![p] = part],
                       !.main = Put(@, i * PageSize + rel, n),
                       !.odd = IF rel > old.size /\ p # 0 THEN @ \cup {"gap"} ELSE @]
    IN IF DynBitMapBitTest(y.map, i) \/ (p # 0 /\ ~Touches(old, rel, n)) THEN y
       ELSE IF part.size - part.off < PageSize THEN z
       ELSE Mark([z EXCEPT !.main = Replace(@, i, part.got)], i)

\* The trail up to the next page, whole pages, and what is left of the last.
MemBufferMappedWrite(y, o, n) ==
    LET lower == o \div PageSize
        higher == (o + n) \div PageSize
        rel == o % PageSize
        trail == IF rel = 0 THEN 0 ELSE IF PageSize - rel > n THEN n ELSE PageSize - rel
        finish == (n - trail) % PageSize
        whole == (n - trail - finish) \div PageSize
        begin == IF trail > 0 THEN lower + 1 ELSE lower
        aligned == [AlignedWrite(y, begin, whole) EXCEPT !.cur = Greater(@, higher * PageSize)]
        a == IF whole = 0 THEN y ELSE aligned
        t == IF trail = 0 THEN a ELSE PartialDataProcess(a, lower, rel, trail)
    IN IF finish = 0 THEN t ELSE PartialDataProcess(t, higher, 0, finish)

\* The offset moves twice when the write holds a whole page.
MemBufferMappedAdd(y, n) ==
    LET z == MemBufferMappedWrite(y, y.cur, n)
        w == [z EXCEPT !.cur = @ + n]
    IN IF z.cur = y.cur THEN w ELSE Odd(w, "skip")

-----------------------------------------------------------------------------
(* Questions. *)

GetSize(y, p) == IF p = 0 THEN 0 ELSE y.parts[p].size
MemBufferMappedGetSize(y) == FoldLeft(LAMBDA n, p : n + p.size, y.main.size, y.parts)

CheckBytes(y, base, offset) ==
    LET bb == base \div PageSize
        bf == offset \div PageSize
        p == PartialGetByIdx(y, bb)
        q == PartialGetByIdx(y, bf)
        first == base % PageSize > 0 /\ p # 0          \* the first page is a partial
        last == offset % PageSize > 0 /\ q # 0
        Short(r) == GetSize(y, r) < (offset % PageSize) + 1
    IN IF first /\ base % PageSize < y.parts[p].off THEN FALSE
       ELSE IF first /\ bb = bf THEN ~Short(p)
       ELSE /\ first => GetSize(y, p) >= PageSize
            /\ last => y.parts[q].off = 0 /\ ~Short(q)
            /\ DynBitMapCheckMultiBlocks(y.map, IF first THEN bb + 1 ELSE bb, IF last THEN bf - 1 ELSE bf)

\* The range of bytes there in base .. offset, as <<first, last>>; <<>> for none.
GetValidBytes(y, base, offset) ==
    LET bb == base \div PageSize
        valid == DynBitMapGetValidBlocks(y.map, bb, offset \div PageSize)
        lo == CHOOSE i \in valid : \A j \in valid : i <= j
        hi == CHOOSE i \in valid : \A j \in valid : j <= i
        b1 == IF valid = {} THEN bb ELSE lo - 1
        f1 == IF valid = {} THEN bb ELSE hi + 1
        foundB == valid # {} /\ lo * PageSize <= base
        foundO == valid # {} /\ (hi + 1) * PageSize - 1 >= offset
        p == PartialGetByIdx(y, b1)
        q == PartialGetByIdx(y, f1)
        first0 == IF foundB THEN base ELSE IF valid = {} THEN -1 ELSE lo * PageSize
        last0 == IF foundO THEN offset ELSE IF valid = {} THEN -1 ELSE (hi + 1) * PageSize - 1
        atP == b1 * PageSize + IF p = 0 THEN 0 ELSE y.parts[p].off
        usesP == ~foundB /\ p # 0
        first1 == IF ~usesP THEN first0 ELSE IF atP < base THEN -1 ELSE atP
        same == usesP /\ b1 = f1
        endQ == f1 * PageSize + GetSize(y, q) - 1
        last1 == IF same \/ (~foundO /\ q # 0 /\ y.parts[q].off = 0) THEN endQ ELSE last0
        last2 == IF last1 < base THEN -1 ELSE last1
    IN IF \/ base > y.main.size \/ offset > y.main.size
          \/ first1 < 0 \/ last2 < 0 THEN <<>>
       ELSE <<Greater(first1, base), IF last2 > offset THEN offset ELSE last2>>

\* The last page of a file of n bytes is short.
CheckLastBlock(y, n) ==
    LET i == n \div PageSize
        p == PartialGetByIdx(y, i)
        size == n % PageSize
        z == PartialDrop([y EXCEPT !.map = DynBitMapBitSet(@, i), !.main = Put(@, n - size, size)], p)
    IN IF p = 0 \/ y.parts[p].off > 0 \/ GetSize(y, p) < size THEN y ELSE z

\* All begun pages are whole, but for one that follows them: it is appended
\* to the main buffer, which has it already.
MemBufferMappedCompleted(y) ==
    LET last == y.parts[1]
        z == PartialDrop([y EXCEPT !.map = DynBitMapBitSet(@, last.idx), !.main.size = @ + last.size, !.done = TRUE], 1)
    IN IF ~DynBitMapCheckMultiBlocks(y.map, 0, y.map.higher) \/ Len(y.parts) > 1 THEN y
       ELSE IF y.parts = <<>> THEN [y EXCEPT !.done = TRUE]
       ELSE IF y.map.higher + 1 # last.idx THEN y
       ELSE Odd(z, "appended")

ProgressPCT(y, total) ==
    LET last == total \div PageSize
        count == Cardinality({i \in 0 .. last - 1 : DynBitMapBitTest(y.map, i)})
    IN IF count = 0 THEN 0 ELSE (100 * count) \div last

\* Saved and loaded again; what partials hold is asked for anew.
Reload(y, meta) ==
    [MemBufferMappedNew EXCEPT
        !.main = y.main, !.cur = y.cur, !.done = y.done, !.odd = y.odd, !.ops = y.ops,
        !.map = IF meta THEN DynBitMapMetaDataUnPackFromMeta(y.map) ELSE DynBitMapMetaDataUnPack(y.map)]
PartialClean(y) == [y EXCEPT !.parts = <<>>]

-----------------------------------------------------------------------------

Positions == 0 .. FileSize - 1
Do(y) == x' = [y EXCEPT !.ops = x.ops + 1]
Next ==
    /\ x.ops < MaxOps /\ x.odd = {}
    /\ \/ \E o \in Positions : \E n \in 1 .. FileSize - o : Do(MemBufferMappedWrite(x, o, n))
       \/ \E n \in 1 .. FileSize - x.cur : Do(MemBufferMappedAdd(x, n))
       \/ Do(CheckLastBlock(x, FileSize))
       \/ Do(MemBufferMappedCompleted(x))
       \/ \E meta \in BOOLEAN : Do(Reload(x, meta))
       \/ Do(PartialClean(x))

-----------------------------------------------------------------------------
(* After any order of writes that leave no gap in a partial, a page marked *)
(* has every byte up to the end of the buffer, and what is said to be      *)
(* there is: CheckBytes and GetValidBytes name no byte that never came.    *)
NothingInvented ==
    x.odd = {} =>
        /\ BitmapSound(x.map)
        /\ \A i \in x.map.bits : \A p \in Page(i) : p < x.main.size => p \in x.main.have
        /\ \A base \in Positions : \A offset \in base .. x.main.size - 1 :
              /\ CheckBytes(x, base, offset) => base .. offset \subseteq x.main.have
              /\ LET v == GetValidBytes(x, base, offset)
                 IN v # <<>> /\ v[1] <= v[2] => {v[1], v[2]} \subseteq x.main.have
        /\ \A n \in 1 .. 3, dots \in 1 .. 4 : PictureTrue(x.map, n, dots)
        /\ ProgressPCT(x, FileSize) = 100 => 0 .. FileSize \div PageSize - 1 \subseteq x.map.bits
\* A page whose bytes all came since the last reload is marked.
NothingForgotten ==
    x.odd = {} => \A p \in DOMAIN x.parts : x.parts[p].got # 0 .. PageSize - 1
=============================================================================
