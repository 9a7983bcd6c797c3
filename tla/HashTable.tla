------------------------------ MODULE HashTable -----------------------------
(***************************************************************************)
(* The hash table (data/core/hash_table.c), its walk, during which items   *)
(* may be removed and added, and the associative array made of it          *)
(* (data/utils/assoc_array.c), which keeps several values of one key when  *)
(* they are added without a check.                                         *)
(***************************************************************************)
LOCAL INSTANCE Integers
LOCAL INSTANCE Sequences
LOCAL INSTANCE SequencesExt
LOCAL INSTANCE Bitwise

CONSTANTS Keys,         \* sequences of character codes
          Primes,       \* hash_primes, reduced
          Capacities,   \* the sizes a program asks for
          MaxItems      \* bound: items ever added

None == 0

\* HashTablePrime: the prime nearest to n on a logarithmic scale, the later of
\* two.  |log n - log p| is the log of the greater of the two over the lesser.
Nearer(n, p, q) ==
    LET high(r) == IF n > r THEN n ELSE r
        low(r) == IF n < r THEN n ELSE r
    IN high(p) * low(q) <= high(q) * low(p)
HashTablePrime(n) == FoldLeft(LAMBDA best, p : IF Nearer(n, p, best) THEN p ELSE best, Primes[1], Primes)

\* HashTableStringHash, in unsigned int.
StringHash(k, size) ==
    LET letters == FoldLeft(LAMBDA n, c : n ^^ ((271 * c) % 2 ^ 30), 0, k)
    IN (letters ^^ (271 * Len(k))) % size

(***************************************************************************)
(* The table h: hash, what its hash function says of each key; size, the   *)
(* chains of its buckets, slot (current_slot), next (the id of the item    *)
(* next points to), count, and elem_count of the array; key and the number *)
(* of items ever made.  History: stack, the values of each key, newest     *)
(* first; base, what was there when the walk began and still is; seen,     *)
(* what the walk gave, in order; replaced, the additions that took the     *)
(* place of another.                                                       *)
(***************************************************************************)
VARIABLE h

HashTableNew(n) ==
    LET size == HashTablePrime(n)
    IN [hash |-> [k \in Keys |-> StringHash(k, size)], size |-> size,
        chain |-> [b \in 0 .. size - 1 |-> <<>>], slot |-> 0, next |-> None,
        count |-> 0, elems |-> 0, key |-> <<>>, stack |-> [k \in Keys |-> <<>>], base |-> {}, seen |-> <<>>,
        replaced |-> 0]
Init == \E n \in Capacities : h = HashTableNew(n)

BucketOf(x, id) == x.hash[x.key[id]]
After(s, id) == LET i == SelectInSeq(s, LAMBDA t : t = id) IN IF i < Len(s) THEN s[i + 1] ELSE None

HashTableLookup(x, k) ==
    LET s == x.chain[x.hash[k]]
        i == SelectInSeq(s, LAMBDA id : x.key[id] = k)
    IN IF i = 0 THEN None ELSE s[i]

AddAtEnd(x, k) ==
    LET y == [x EXCEPT !.key = Append(@, k), !.count = @ + 1]
    IN [y EXCEPT !.chain[x.hash[k]] = Append(@, Len(y.key))]
HashTableAddItem(x, k) ==
    LET y == [x EXCEPT !.key = Append(@, k), !.count = @ + 1]
    IN [y EXCEPT !.chain[x.hash[k]] = <<Len(y.key)>> \o @]

NextBucket(x) ==
    IF x.next # None THEN x
    ELSE LET rest == {b \in x.slot + 1 .. x.size - 1 : x.chain[b] # <<>>}
             b == CHOOSE b \in rest : \A c \in rest : b <= c
         IN IF rest = {} THEN [x EXCEPT !.slot = x.size] ELSE [x EXCEPT !.slot = b, !.next = x.chain[b][1]]

HashTableFirstItem(x) ==
    NextBucket([x EXCEPT !.slot = 0, !.next = IF x.chain[0] = <<>> THEN None ELSE x.chain[0][1]])
HashTableNextItem(x) == NextBucket([x EXCEPT !.next = After(x.chain[BucketOf(x, x.next)], x.next)])

RemoveStale(x, id) == [x EXCEPT !.chain[BucketOf(x, id)] = SelectSeq(@, LAMBDA t : t # id), !.count = @ - 1]
HashTableRemoveItem(x, id) ==
    LET y == [x EXCEPT !.chain[BucketOf(x, id)] = SelectSeq(@, LAMBDA t : t # id), !.count = @ - 1]
        z == [y EXCEPT !.next = After(x.chain[BucketOf(x, id)], id)]
    IN IF x.next = id THEN NextBucket(z) ELSE y

-----------------------------------------------------------------------------
(* The associative array. *)

\* History of what is there.
Pushed(x, k) == [x EXCEPT !.stack[k] = <<Len(x.key)>> \o @]
Popped(x, k) == [x EXCEPT !.stack[k] = Tail(@), !.base = @ \ {Head(x.stack[k])}]

AssocArrayAddNoCheck(x, k) == Pushed([HashTableAddItem(x, k) EXCEPT !.elems = @ + 1], k)

\* The value that is replaced is taken off, but stays counted in elem_count.
AssocArrayAdd(x, k) ==
    LET old == HashTableLookup(x, k)
    IN IF old = None THEN AssocArrayAddNoCheck(x, k)
       ELSE LET y == HashTableRemoveItem(x, old)
            IN AssocArrayAddNoCheck([Popped(y, k) EXCEPT !.replaced = @ + 1], k)

AssocArrayDelete(x, k) ==
    LET old == HashTableLookup(x, k)
    IN IF old = None THEN x ELSE Popped([HashTableRemoveItem(x, old) EXCEPT !.elems = @ - 1], k)

\* Items of all chains.
Listed(x) == UNION {ToSet(x.chain[b]) : b \in 0 .. x.size - 1}

\* A walk: both the result of HashTableFirstItem and those of HashTableNextItem
\* are used, as in AssocArrayDebugShow.
Walk ==
    LET y == HashTableFirstItem(h)
    IN h' = [y EXCEPT !.base = Listed(h), !.seen = IF y.next = None THEN <<>> ELSE <<y.next>>]
Step == h.next # None /\ h' = [HashTableNextItem(h) EXCEPT !.seen = Append(@, h.next)]
HashTableLastItem == h' = [h EXCEPT !.next = None, !.slot = 0, !.base = {}, !.seen = <<>>]

\* AssocArrayDestroy takes each item off as it gets it.
AssocArrayDestroy(x) ==
    LET begun == HashTableFirstItem(x)
        Take(y, i) == IF y.next = None THEN y ELSE HashTableRemoveItem(y, y.next)
    IN FoldLeft(Take, begun, [i \in 1 .. x.count |-> i])

Add == Len(h.key) < MaxItems /\ \E k \in Keys : h' = AssocArrayAdd(h, k) \/ h' = AssocArrayAddNoCheck(h, k)
Delete == \E k \in Keys : h' = AssocArrayDelete(h, k)
Next == Walk \/ Step \/ HashTableLastItem \/ Add \/ Delete

-----------------------------------------------------------------------------
(***************************************************************************)
(* The array is what its calls promise: a stack of values per key, and the *)
(* newest is found.  count is exact; elem_count exceeds it by the values   *)
(* that AssocArrayAdd replaced.  Destroying it leaves nothing behind.      *)
(***************************************************************************)
KeepsStacks ==
    /\ \A k \in Keys : SelectSeq(h.chain[h.hash[k]], LAMBDA id : h.key[id] = k) = h.stack[k]
    /\ \A k \in Keys : HashTableLookup(h, k) = IF h.stack[k] = <<>> THEN None ELSE h.stack[k][1]
    /\ h.count = FoldLeft(LAMBDA n, k : n + Len(h.stack[k]), 0, SetToSeq(Keys))
    /\ h.elems = h.count + h.replaced
    /\ AssocArrayDestroy(h).count = 0

\* What the walk has still to give; nothing that can be told once next is
\* not on the chain of current_slot.
Rest ==
    LET s == h.chain[h.slot]
        later == [i \in 1 .. h.size - 1 - h.slot |-> h.chain[h.slot + i]]
        i == SelectInSeq(s, LAMBDA id : id = h.next)
    IN IF h.next = None \/ i = 0 THEN <<>> ELSE SubSeq(s, i, Len(s)) \o FlattenSeq(later)

Times(s, id) == Len(SelectSeq(s, LAMBDA t : t = id))

(***************************************************************************)
(* Whatever is removed or added during a walk, each item that was there at *)
(* its beginning and is not removed is given, and given once; the first    *)
(* one is given by HashTableFirstItem and again by HashTableNextItem.      *)
(***************************************************************************)
WalksAll ==
    \A id \in h.base :
        Times(h.seen, id) + Times(Rest, id) = IF h.seen[1] = id THEN 2 ELSE 1
=============================================================================
