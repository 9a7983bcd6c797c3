----------------------------- MODULE HashTableV2 ----------------------------
(***************************************************************************)
(* The second hash table (data/core/hash_table_v2.c): the items belong to  *)
(* the program, and a bucket exists in an arena while it has items.  Keys  *)
(* are bytes with a size; only with key_match_sz are the sizes compared.   *)
(***************************************************************************)
LOCAL INSTANCE Integers
LOCAL INSTANCE Sequences
LOCAL INSTANCE SequencesExt

CONSTANTS Items,        \* the program's items
          Keys,         \* sequences of bytes
          Bucket        \* the hash of each key

(***************************************************************************)
(* The table v: check (item_check_dup), match (key_match_sz), the chain of *)
(* each bucket, the buckets held in the arena, the key of each item (<<>>: *)
(* not on the table).  History: refused, the keys in the way of an         *)
(* addition that was refused and the key to be added.                      *)
(***************************************************************************)
VARIABLE v

Buckets == {Bucket[k] : k \in Keys}
HashTableV2New(check, match) ==
    [check |-> check, match |-> match, chain |-> [b \in Buckets |-> <<>>], held |-> {},
     key |-> [i \in Items |-> <<>>], refused |-> {}]
Init == \E check, match \in BOOLEAN : v = HashTableV2New(check, match)

ComparesAny(x, i, k) == IsPrefix(k, x.key[i])
\* memcmp over the size of the key that is sought; without key_match_sz it
\* compares behind the end of a shorter key.
Compares(x, i, k) ==
    IF x.match THEN Len(x.key[i]) = Len(k) /\ x.key[i] = k ELSE IsPrefix(k, x.key[i])

BucketWalk(x, k) == SelectSeq(x.chain[Bucket[k]], LAMBDA i : Compares(x, i, k))
ItemFind(x, k) == BucketWalk(x, k)

ItemAdd(x, i, k) ==
    LET b == Bucket[k]
        twins == IF x.check /\ b \in x.held THEN BucketWalk(x, k) ELSE <<>>
    IN IF twins # <<>> THEN [x EXCEPT !.refused = {<<x.key[twins[1]], k>>}]
       ELSE [x EXCEPT !.held = @ \cup {b}, !.chain[b] = <<i>> \o @, !.key[i] = k, !.refused = {}]

ItemDelKeepsBucket(x, i) ==
    [x EXCEPT !.chain[Bucket[x.key[i]]] = SelectSeq(@, LAMBDA j : j # i), !.key[i] = <<>>, !.refused = {}]
ItemDel(x, i) ==
    LET b == Bucket[x.key[i]]
        y == [x EXCEPT !.chain[b] = SelectSeq(@, LAMBDA j : j # i), !.key[i] = <<>>, !.refused = {}]
    IN IF x.key[i] = <<>> THEN x
       ELSE IF y.chain[b] = <<>> THEN [y EXCEPT !.held = @ \ {b}] ELSE y

Next ==
    \/ \E i \in Items, k \in Keys : v.key[i] = <<>> /\ v' = ItemAdd(v, i, k)
    \/ \E i \in Items : v.key[i] # <<>> /\ v' = ItemDel(v, i)

-----------------------------------------------------------------------------
(***************************************************************************)
(* A key on the table is found, and with key_match_sz nothing else is;     *)
(* without it a longer key that begins with it may be found, and stand in  *)
(* the way of an addition.  No key is there twice when that is checked.    *)
(* A bucket is in the arena as long as it has items.                       *)
(***************************************************************************)
FindsItem ==
    /\ \A k \in Keys :
        LET found == ItemFind(v, k)
        IN /\ (\E i \in Items : v.key[i] = k) => found # <<>>
           /\ found # <<>> /\ v.match => v.key[found[1]] = k
    /\ v.check => \A i, j \in Items : v.key[i] = v.key[j] /\ v.key[i] # <<>> => i = j
    /\ v.match => \A r \in v.refused : r[1] = r[2]
    /\ v.held = {b \in Buckets : v.chain[b] # <<>>}
=============================================================================
