----------------------------- MODULE DynBitMap ------------------------------
(***************************************************************************)
(* DynBitMap (data/core/dyn_bitmap.c): a growing bitmap of pages, with the *)
(* highest bit ever set and the number of bits set.                        *)
(***************************************************************************)
LOCAL INSTANCE Integers
LOCAL INSTANCE FiniteSets
LOCAL INSTANCE Sequences
LOCAL INSTANCE SequencesExt

CONSTANTS ByteBits,     \* bits of a byte, 8 in the code
          BitGrow       \* grow_rate in bytes, 256 or 128 in the code

DynBitMapNew == [bits |-> {}, higher |-> 0, count |-> 0, cap |-> BitGrow, grow |-> BitGrow, wild |-> FALSE]

\* The byte of a bit must lie in the allocation, which has one byte to spare.
Inside(m, i) == i \div ByteBits <= m.cap

GrowExactly(m, i) ==
    LET wanted == (i + ByteBits - 1) \div ByteBits
    IN IF m.cap >= wanted THEN m ELSE [m EXCEPT !.cap = wanted + m.grow]
\* realloc() leaves no byte to spare.
GrowIfNeeded(m, i) ==
    LET wanted == ((i + ByteBits - 1) \div ByteBits) + 1
    IN IF m.cap >= wanted THEN m ELSE [m EXCEPT !.cap = wanted + m.grow]
DynBitMapBitSet(m, i) ==
    LET y == GrowIfNeeded([m EXCEPT !.higher = IF @ < i THEN i ELSE @], i)
    IN [y EXCEPT !.bits = @ \cup {i}, !.count = IF i \in y.bits THEN @ ELSE @ + 1,
                 !.wild = @ \/ ~Inside(y, i)]
DynBitMapBitTest(m, i) == i <= m.higher /\ i \in m.bits
DynBitMapBitClear(m, i) ==
    IF m.higher < i THEN m
    ELSE [m EXCEPT !.bits = @ \ {i}, !.count = IF i \in m.bits THEN @ - 1 ELSE @,
                   !.wild = @ \/ ~Inside(m, i)]
\* Neither the highest bit seen nor the count is reset.
DynBitMapBitClearAll(m) == [m EXCEPT !.bits = {}]
DynBitMapCompare(m, n) ==
    /\ m.higher = n.higher
    /\ \A i \in m.bits \cup n.bits :
          i < ByteBits * (IF m.cap < n.cap THEN m.cap ELSE n.cap) => (i \in m.bits <=> i \in n.bits)
DynBitMapCheckMultiBlocks(m, i, j) == \A k \in i .. j : DynBitMapBitTest(m, k)

\* The first run of set bits in i .. j, or {} when there is none.
DynBitMapGetValidBlocks(m, i, j) ==
    LET in == {k \in i .. j : DynBitMapBitTest(m, k)}
        first == CHOOSE k \in in : \A l \in in : k <= l
    IN {k \in in : \A l \in first .. k : l \in in}

\* GenerateStringMap: dot characters for n pages, painted from step to step;
\* by its comma operator each step paints all the rest.
DynBitMapGenerateStringMap(m, n, dots) ==
    LET factor == IF n < dots THEN 1 ELSE n \div dots
        Paint(p, i) ==
            LET cc == p.cc + IF DynBitMapBitTest(m, i) THEN 1 ELSE 0
            IN IF i % factor # 0 THEN [p EXCEPT !.cc = cc]
               ELSE [cc |-> 0, step |-> ((i + 1) * dots) \div n,
                     mask |-> [d \in 0 .. dots - 1 |-> IF d >= p.step THEN cc > 0 ELSE p.mask[d]]]
    IN FoldLeft(Paint, [cc |-> 0, step |-> 0, mask |-> [d \in 0 .. dots - 1 |-> FALSE]],
                [i \in 1 .. n |-> i - 1]).mask

\* Packed and unpacked; UnPackFromMeta does not restore the count.
DynBitMapMetaDataUnPack(m) == [m EXCEPT !.wild = FALSE]
DynBitMapMetaDataUnPackFromMeta(m) == [m EXCEPT !.count = 0, !.wild = FALSE]

-----------------------------------------------------------------------------
(* No bit is set outside of the allocation, and the highest bit seen       *)
(* covers all that are set: a test above it answers no.                    *)
BitmapSound(m) ==
    /\ ~m.wild
    /\ \A i \in m.bits : i <= m.higher /\ i < ByteBits * m.cap
\* The picture of a bitmap shows a dot when all pages are there, none when
\* there are none.
PictureTrue(m, n, dots) ==
    LET mask == DynBitMapGenerateStringMap(m, n, dots)
    IN /\ (\A i \in 0 .. n - 1 : i \in m.bits) => \A d \in DOMAIN mask : mask[d]
       /\ (\A i \in 0 .. n - 1 : i \notin m.bits) => \A d \in DOMAIN mask : ~mask[d]
=============================================================================
