--------------------------- MODULE DLinkedListOps ---------------------------
(***************************************************************************)
(* DLINKED_LIST (data/core/dlinked_list.c) at the level of its pointers,   *)
(* for callers that may hand a node to a list it is not on: the            *)
(* functions do not know which list holds a node, so such a call leaves    *)
(* heads and tails that the sequences of MemSlotOps cannot express.        *)
(*                                                                         *)
(* Nodes are embedded in records of one array and named by their index;    *)
(* next, prev and data belong to the node, head and tail to a list.        *)
(***************************************************************************)
EXTENDS Integers, FiniteSets

CONSTANTS Nodes,    \* indices of the records
          Lists

Nil == -1           \* NULL
Pointer == Nodes \cup {Nil}

Links == [next : [Nodes -> Pointer], prev : [Nodes -> Pointer],
          data : [Nodes -> BOOLEAN],        \* node->data is not NULL
          head : [Lists -> Pointer], tail : [Lists -> Pointer]]

\* DLinkedListInit of every list, over zeroed records.
NoLinks == [next |-> [n \in Nodes |-> Nil], prev |-> [n \in Nodes |-> Nil],
            data |-> [n \in Nodes |-> FALSE],
            head |-> [l \in Lists |-> Nil], tail |-> [l \in Lists |-> Nil]]

Set(pointers, n, value) == IF n = Nil THEN pointers ELSE [pointers EXCEPT ![n] = value]

\* DLinkedListAddTail.
AddTail(d, l, n) ==
    [d EXCEPT !.data[n] = TRUE,
              !.next = Set([@ EXCEPT ![n] = Nil], d.tail[l], n),
              !.prev[n] = d.tail[l],
              !.tail[l] = n,
              !.head[l] = IF @ = Nil THEN n ELSE @]

\* DLinkedListAdd.
AddHead(d, l, n) ==
    [d EXCEPT !.data[n] = TRUE,
              !.prev = Set([@ EXCEPT ![n] = Nil], d.head[l], n),
              !.next[n] = d.head[l],
              !.head[l] = n,
              !.tail[l] = IF @ = Nil THEN n ELSE @]

\* The common part of DLinkedListDelete and DLinkedListPopHead.
Detach(d, l, n) ==
    [d EXCEPT !.prev = [Set(@, d.next[n], d.prev[n]) EXCEPT ![n] = Nil],
              !.next = [Set(@, d.prev[n], d.next[n]) EXCEPT ![n] = Nil],
              !.head[l] = IF @ = n THEN d.next[n] ELSE @,
              !.tail[l] = IF @ = n THEN d.prev[n] ELSE @]

IsOrphan(d, l, n) == d.head[l] # n /\ d.next[n] = Nil /\ d.prev[n] = Nil
\* Slip: the tail of the list is not moved.
DeleteKeepsTail(d, l, n) ==
    IF IsOrphan(d, l, n) THEN d ELSE [Detach(d, l, n) EXCEPT !.tail[l] = d.tail[l]]
\* DLinkedListDelete: a node that is not the head and has no neighbour is left alone.
Delete(d, l, n) == IF IsOrphan(d, l, n) THEN d ELSE Detach(d, l, n)

\* DLinkedListPopHead of a list with a head, which is d.head[l].
PopHead(d, l) == Detach(d, l, d.head[l])

\* memset of the record that holds the node.
Wipe(d, n) == [d EXCEPT !.next[n] = Nil, !.prev[n] = Nil, !.data[n] = FALSE]

-----------------------------------------------------------------------------
(***************************************************************************)
(* The nodes of a list in order, by its next pointers, as far as one more  *)
(* than there are nodes; and what makes that a list.                       *)
(***************************************************************************)
Walked(d, l) ==
    LET at[i \in 1 .. (Cardinality(Nodes) + 1)] ==
            IF i = 1 THEN d.head[l]
            ELSE IF at[i - 1] = Nil THEN Nil ELSE d.next[at[i - 1]]
    IN  at
Members(d, l) == {Walked(d, l)[i] : i \in DOMAIN Walked(d, l)} \ {Nil}

IsList(d, l) ==
    LET at == Walked(d, l)
    IN  /\ at[Cardinality(Nodes) + 1] = Nil
        /\ \A i \in 1 .. Cardinality(Nodes) : at[i] # Nil =>
              /\ d.data[at[i]]
              /\ d.prev[at[i]] = IF i = 1 THEN Nil ELSE at[i - 1]
              /\ at[i + 1] = Nil => d.tail[l] = at[i]
        /\ at[1] = Nil => d.tail[l] = Nil
=============================================================================
