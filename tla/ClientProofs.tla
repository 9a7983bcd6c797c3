---------------------------- MODULE ClientProofs ----------------------------
(***************************************************************************)
(* What the clients of the communication layer rely on, for every number   *)
(* of slots, queries, retries, clients and writes.                         *)
(*   DNS resolver: the callback of a query runs exactly once or, after a   *)
(*   cancellation, never; and every slot has its one place as long as no   *)
(*   reply comes late.                                                     *)
(*   Pools of clients: what is written goes to a connected client.  The    *)
(*   pools are parts of MCComm, here the instance C.                       *)
(***************************************************************************)
EXTENDS DnsResolver, CommParts, FiniteSetTheorems, WellFoundedInduction, SequenceTheorems, TLAPS

-----------------------------------------------------------------------------
(* The operations on the pointers: what they return, and the data fields.    *)

LEMMA NilIsNoNode == Nil \notin Nodes
BY ResolverAssumption DEF Nil

LEMMA AddTailTyped ==
  ASSUME NEW d \in Links, NEW l \in Lists, NEW n \in Nodes
  PROVE  /\ AddTail(d, l, n) \in Links
         /\ AddTail(d, l, n).data = [d.data EXCEPT ![n] = TRUE]
<1>1. AddTail(d, l, n) \in Links
  BY DEF AddTail, Links, Pointer, Set
<1>. QED BY <1>1 DEF AddTail, Links

TailAdded(d, e, l, n) ==
    /\ \A k \in Nodes :
          /\ e.data[k] = IF k = n THEN TRUE ELSE d.data[k]
          /\ e.prev[k] = IF k = n THEN d.tail[l] ELSE d.prev[k]
          /\ e.next[k] = IF k = d.tail[l] THEN n ELSE IF k = n THEN Nil ELSE d.next[k]
    /\ e.tail[l] = n /\ e.head[l] = IF d.head[l] = Nil THEN n ELSE d.head[l]
    /\ \A m \in Lists \ {l} : e.tail[m] = d.tail[m] /\ e.head[m] = d.head[m]

LEMMA AddTailIs ==
  ASSUME NEW d \in Links, NEW l \in Lists, NEW n \in Nodes, NEW e, e = AddTail(d, l, n)
  PROVE  TailAdded(d, e, l, n)
<1>1. ASSUME NEW k \in Nodes PROVE e.data[k] = IF k = n THEN TRUE ELSE d.data[k]
  BY DEF AddTail, Links
<1>2. ASSUME NEW k \in Nodes PROVE e.prev[k] = IF k = n THEN d.tail[l] ELSE d.prev[k]
  BY DEF AddTail, Links
<1>3. ASSUME NEW k \in Nodes
      PROVE  e.next[k] = IF k = d.tail[l] THEN n ELSE IF k = n THEN Nil ELSE d.next[k]
  BY NilIsNoNode DEF AddTail, Links, Set, Pointer
<1>4. e.tail[l] = n /\ e.head[l] = IF d.head[l] = Nil THEN n ELSE d.head[l]
  BY DEF AddTail, Links
<1>5. ASSUME NEW m \in Lists \ {l} PROVE e.tail[m] = d.tail[m] /\ e.head[m] = d.head[m]
  BY DEF AddTail, Links
<1>. QED BY <1>1, <1>2, <1>3, <1>4, <1>5 DEF TailAdded

LEMMA AddHeadTyped ==
  ASSUME NEW d \in Links, NEW l \in Lists, NEW n \in Nodes
  PROVE  /\ AddHead(d, l, n) \in Links
         /\ AddHead(d, l, n).data = [d.data EXCEPT ![n] = TRUE]
<1>1. AddHead(d, l, n) \in Links
  BY DEF AddHead, Links, Pointer, Set
<1>. QED BY <1>1 DEF AddHead, Links

HeadAdded(d, e, l, n) ==
    /\ \A k \in Nodes :
          /\ e.data[k] = IF k = n THEN TRUE ELSE d.data[k]
          /\ e.next[k] = IF k = n THEN d.head[l] ELSE d.next[k]
          /\ e.prev[k] = IF k = d.head[l] THEN n ELSE IF k = n THEN Nil ELSE d.prev[k]
    /\ e.head[l] = n /\ e.tail[l] = IF d.tail[l] = Nil THEN n ELSE d.tail[l]
    /\ \A m \in Lists \ {l} : e.tail[m] = d.tail[m] /\ e.head[m] = d.head[m]

LEMMA AddHeadIs ==
  ASSUME NEW d \in Links, NEW l \in Lists, NEW n \in Nodes, NEW e, e = AddHead(d, l, n)
  PROVE  HeadAdded(d, e, l, n)
<1>1. ASSUME NEW k \in Nodes PROVE e.data[k] = IF k = n THEN TRUE ELSE d.data[k]
  BY DEF AddHead, Links
<1>2. ASSUME NEW k \in Nodes PROVE e.next[k] = IF k = n THEN d.head[l] ELSE d.next[k]
  BY DEF AddHead, Links
<1>3. ASSUME NEW k \in Nodes
      PROVE  e.prev[k] = IF k = d.head[l] THEN n ELSE IF k = n THEN Nil ELSE d.prev[k]
  BY NilIsNoNode DEF AddHead, Links, Set, Pointer
<1>4. e.head[l] = n /\ e.tail[l] = IF d.tail[l] = Nil THEN n ELSE d.tail[l]
  BY DEF AddHead, Links
<1>5. ASSUME NEW m \in Lists \ {l} PROVE e.tail[m] = d.tail[m] /\ e.head[m] = d.head[m]
  BY DEF AddHead, Links
<1>. QED BY <1>1, <1>2, <1>3, <1>4, <1>5 DEF HeadAdded

LEMMA DetachTyped ==
  ASSUME NEW d \in Links, NEW l \in Lists, NEW n \in Nodes
  PROVE  Detach(d, l, n) \in Links /\ Detach(d, l, n).data = d.data
<1>1. Detach(d, l, n) \in Links
  BY DEF Detach, Links, Pointer, Set
<1>. QED BY <1>1 DEF Detach, Links

Detached(d, e, l, n) ==
    /\ \A k \in Nodes :
          /\ e.prev[k] = IF k = n THEN Nil
                         ELSE IF k = d.next[n] THEN d.prev[n] ELSE d.prev[k]
          /\ e.next[k] = IF k = n THEN Nil
                         ELSE IF k = d.prev[n] THEN d.next[n] ELSE d.next[k]
    /\ e.head[l] = IF d.head[l] = n THEN d.next[n] ELSE d.head[l]
    /\ e.tail[l] = IF d.tail[l] = n THEN d.prev[n] ELSE d.tail[l]
    /\ \A m \in Lists \ {l} : e.tail[m] = d.tail[m] /\ e.head[m] = d.head[m]

LEMMA DetachIs ==
  ASSUME NEW d \in Links, NEW l \in Lists, NEW n \in Nodes, NEW e, e = Detach(d, l, n)
  PROVE  Detached(d, e, l, n)
<1>1. ASSUME NEW k \in Nodes
      PROVE  e.prev[k] = IF k = n THEN Nil
                         ELSE IF k = d.next[n] THEN d.prev[n] ELSE d.prev[k]
  BY NilIsNoNode DEF Detach, Links, Set, Pointer
<1>2. ASSUME NEW k \in Nodes
      PROVE  e.next[k] = IF k = n THEN Nil
                         ELSE IF k = d.prev[n] THEN d.next[n] ELSE d.next[k]
  BY NilIsNoNode DEF Detach, Links, Set, Pointer
<1>3. /\ e.head[l] = IF d.head[l] = n THEN d.next[n] ELSE d.head[l]
      /\ e.tail[l] = IF d.tail[l] = n THEN d.prev[n] ELSE d.tail[l]
  BY DEF Detach, Links
<1>4. ASSUME NEW m \in Lists \ {l} PROVE e.tail[m] = d.tail[m] /\ e.head[m] = d.head[m]
  BY DEF Detach, Links
<1>. QED BY <1>1, <1>2, <1>3, <1>4 DEF Detached

LEMMA DeleteIs ==
  ASSUME NEW d \in Links, NEW l \in Lists, NEW n \in Nodes
  PROVE  Delete(d, l, n) \in Links /\ Delete(d, l, n).data = d.data
BY DetachTyped DEF Delete

LEMMA PopHeadIs ==
  ASSUME NEW d \in Links, NEW l \in Lists, d.head[l] # Nil
  PROVE  d.head[l] \in Nodes /\ PopHead(d, l) \in Links /\ PopHead(d, l).data = d.data
<1>1. d.head[l] \in Nodes
  BY DEF Links, Pointer
<1>2. Detach(d, l, d.head[l]) \in Links /\ Detach(d, l, d.head[l]).data = d.data
  BY <1>1, DetachTyped
<1>. QED BY <1>1, <1>2 DEF PopHead

LEMMA WipeIs ==
  ASSUME NEW d \in Links, NEW n \in Nodes
  PROVE  /\ Wipe(d, n) \in Links
         /\ Wipe(d, n).data = [d.data EXCEPT ![n] = FALSE]
         /\ Wipe(d, n).next = [d.next EXCEPT ![n] = Nil]
         /\ Wipe(d, n).prev = [d.prev EXCEPT ![n] = Nil]
         /\ Wipe(d, n).head = d.head /\ Wipe(d, n).tail = d.tail
<1>1. Wipe(d, n) \in Links
  BY DEF Wipe, Links, Pointer
<1>. QED BY <1>1 DEF Wipe, Links

-----------------------------------------------------------------------------
(***************************************************************************)
(* The pointers as lists: list l of d runs through the nodes of s, and     *)
(* holds the nodes of S.                                                   *)
(***************************************************************************)
Distinct(s) == \A i \in 1 .. Len(s), j \in 1 .. Len(s) : s[i] = s[j] => i = j
Chain(d, l, s) ==
    /\ s \in Seq(Nodes) /\ Distinct(s)
    /\ \A i \in 1 .. Len(s) : d.data[s[i]]
    /\ \A i \in 1 .. Len(s) : d.prev[s[i]] = IF i = 1 THEN Nil ELSE s[i - 1]
    /\ \A i \in 1 .. Len(s) : d.next[s[i]] = IF i = Len(s) THEN Nil ELSE s[i + 1]
    /\ d.head[l] = IF Len(s) = 0 THEN Nil ELSE s[1]
    /\ d.tail[l] = IF Len(s) = 0 THEN Nil ELSE s[Len(s)]
Elems(s) == {s[i] : i \in 1 .. Len(s)}
Holds(d, l, S) == \E s : Chain(d, l, s) /\ S = Elems(s)

LEMMA EmptyHolds == ASSUME NEW l \in Lists PROVE Holds(NoLinks, l, {})
<1>1. Chain(NoLinks, l, << >>) /\ Elems(<< >>) = {}
  BY DEF Chain, Distinct, NoLinks, Elems
<1>. QED BY <1>1 DEF Holds

(***************************************************************************)
(* What is known of a list that holds a set.                               *)
(***************************************************************************)
LEMMA HeldNodes ==
  ASSUME NEW d \in Links, NEW l \in Lists, NEW S, Holds(d, l, S)
  PROVE  /\ S \subseteq Nodes
         /\ d.head[l] \in S \cup {Nil} /\ d.tail[l] \in S \cup {Nil}
         /\ d.head[l] = Nil <=> S = {}
         /\ \A n \in S : /\ d.data[n]
                         /\ d.next[n] \in (S \ {n}) \cup {Nil}
                         /\ d.prev[n] \in (S \ {n}) \cup {Nil}
                         /\ d.prev[n] = Nil => d.head[l] = n
<1>1. PICK s : Chain(d, l, s) /\ S = Elems(s)
  BY DEF Holds
<1>2. s \in Seq(Nodes) /\ Len(s) \in Nat /\ \A i \in 1 .. Len(s) : s[i] \in Nodes /\ s[i] # Nil
  BY <1>1, NilIsNoNode DEF Chain
<1>3. S \subseteq Nodes
  BY <1>1, <1>2 DEF Elems
<1>4. /\ d.head[l] \in S \cup {Nil} /\ d.tail[l] \in S \cup {Nil}
      /\ d.head[l] = Nil <=> S = {}
  <2>1. CASE Len(s) = 0
    BY <1>1, <2>1 DEF Chain, Elems
  <2>2. CASE Len(s) # 0
    <3>1. 1 \in 1 .. Len(s) /\ Len(s) \in 1 .. Len(s)
      BY <1>2, <2>2
    <3>2. d.head[l] = s[1] /\ d.tail[l] = s[Len(s)]
      BY <1>1, <2>2 DEF Chain
    <3>. QED BY <1>1, <1>2, <3>1, <3>2 DEF Elems
  <2>. QED BY <2>1, <2>2
<1>5. ASSUME NEW n \in S
      PROVE  /\ d.data[n]
             /\ d.next[n] \in (S \ {n}) \cup {Nil}
             /\ d.prev[n] \in (S \ {n}) \cup {Nil}
             /\ d.prev[n] = Nil => d.head[l] = n
  <2>1. PICK k \in 1 .. Len(s) : n = s[k]
    BY <1>1 DEF Elems
  <2>2. d.data[n]
    BY <1>1, <2>1 DEF Chain
  <2>3. d.next[n] \in (S \ {n}) \cup {Nil}
    <3>1. CASE k = Len(s)
      BY <1>1, <2>1, <3>1 DEF Chain
    <3>2. CASE k # Len(s)
      <4>1. k + 1 \in 1 .. Len(s) /\ k + 1 # k
        BY <1>2, <2>1, <3>2
      <4>2. d.next[n] = s[k + 1] /\ s[k + 1] # n
        BY <1>1, <2>1, <3>2, <4>1 DEF Chain, Distinct
      <4>. QED BY <1>1, <4>1, <4>2 DEF Elems
    <3>. QED BY <3>1, <3>2
  <2>4. (d.prev[n] \in (S \ {n}) \cup {Nil}) /\ (d.prev[n] = Nil => d.head[l] = n)
    <3>1. CASE k = 1
      BY <1>1, <1>2, <2>1, <3>1 DEF Chain
    <3>2. CASE k # 1
      <4>1. k - 1 \in 1 .. Len(s) /\ k - 1 # k
        BY <1>2, <2>1, <3>2
      <4>2. d.prev[n] = s[k - 1] /\ s[k - 1] # n
        BY <1>1, <2>1, <3>2, <4>1 DEF Chain, Distinct
      <4>. QED BY <1>1, <1>2, <4>1, <4>2 DEF Elems
    <3>. QED BY <3>1, <3>2
  <2>. QED BY <2>2, <2>3, <2>4
<1>. QED BY <1>3, <1>4, <1>5

(***************************************************************************)
(* A change of nodes it does not hold leaves a list alone.                 *)
(***************************************************************************)
LEMMA HoldsFrame ==
  ASSUME NEW d \in Links, NEW e \in Links, NEW l, NEW S, Holds(d, l, S),
         \A n \in S : e.data[n] = d.data[n] /\ e.prev[n] = d.prev[n] /\ e.next[n] = d.next[n],
         e.head[l] = d.head[l], e.tail[l] = d.tail[l]
  PROVE  Holds(e, l, S)
<1>1. PICK s : Chain(d, l, s) /\ S = Elems(s)
  BY DEF Holds
<1>2. \A i \in 1 .. Len(s) : s[i] \in S
  BY <1>1 DEF Elems
<1>3. Chain(e, l, s)
  <2>1. \A i \in 1 .. Len(s) : e.data[s[i]] = d.data[s[i]] /\ d.data[s[i]]
    BY <1>1, <1>2 DEF Chain
  <2>2. \A i \in 1 .. Len(s) : e.data[s[i]]
    BY <2>1
  <2>3. \A i \in 1 .. Len(s) : e.prev[s[i]] = d.prev[s[i]] /\ e.next[s[i]] = d.next[s[i]]
    BY <1>2
  <2>. QED BY <1>1, <2>2, <2>3 DEF Chain
<1>. QED BY <1>1, <1>3 DEF Holds

(***************************************************************************)
(* DLinkedListAddTail and DLinkedListAdd of a node that is on no list.     *)
(***************************************************************************)
LEMMA AddTailChain ==
  ASSUME NEW d \in Links, NEW l \in Lists, NEW s, Chain(d, l, s),
         NEW n \in Nodes, n \notin Elems(s),
         NEW r \in Seq(Nodes), Len(r) = Len(s) + 1, r[Len(s) + 1] = n,
         \A i \in 1 .. Len(s) : r[i] = s[i],
         NEW e \in Links, TailAdded(d, e, l, n)
  PROVE  Chain(e, l, r)
<1>1. /\ s \in Seq(Nodes) /\ Len(s) \in Nat /\ Len(r) \in Nat
      /\ \A i \in 1 .. Len(s) : s[i] \in Nodes /\ s[i] # n
      /\ d.tail[l] = IF Len(s) = 0 THEN Nil ELSE s[Len(s)]
  <2>1. s \in Seq(Nodes) /\ d.tail[l] = IF Len(s) = 0 THEN Nil ELSE s[Len(s)]
    BY DEF Chain
  <2>2. Len(s) \in Nat /\ Len(r) \in Nat /\ \A i \in 1 .. Len(s) : s[i] \in Nodes
    BY <2>1
  <2>3. \A i \in 1 .. Len(s) : s[i] # n
    BY DEF Elems
  <2>. QED BY <2>1, <2>2, <2>3
<1>2. /\ \A k \in Nodes : /\ e.data[k] = IF k = n THEN TRUE ELSE d.data[k]
                          /\ e.prev[k] = IF k = n THEN d.tail[l] ELSE d.prev[k]
      /\ e.tail[l] = n
      /\ e.head[l] = IF d.head[l] = Nil THEN n ELSE d.head[l]
  BY DEF TailAdded
<1>3. \A k \in Nodes :
         e.next[k] = IF k = d.tail[l] THEN n ELSE IF k = n THEN Nil ELSE d.next[k]
  BY DEF TailAdded
<1>4. \A i \in 1 .. Len(r) : r[i] \in Nodes
  OBVIOUS
<1>5. Distinct(r)
  <2>. SUFFICES ASSUME NEW i \in 1 .. Len(r), NEW j \in 1 .. Len(r), r[i] = r[j]
                PROVE  i = j
    BY DEF Distinct
  <2>1. CASE i \in 1 .. Len(s) /\ j \in 1 .. Len(s)
    BY <2>1 DEF Chain, Distinct
  <2>. QED BY <1>1, <2>1
<1>6. \A i \in 1 .. Len(r) : e.data[r[i]]
  <2>. SUFFICES ASSUME NEW i \in 1 .. Len(r) PROVE e.data[r[i]]
    OBVIOUS
  <2>1. CASE i \in 1 .. Len(s)
    BY <1>1, <1>2, <1>4, <2>1 DEF Chain
  <2>2. CASE i = Len(s) + 1
    BY <1>2, <1>4, <2>2
  <2>. QED BY <1>1, <2>1, <2>2
<1>7. \A i \in 1 .. Len(r) : e.prev[r[i]] = IF i = 1 THEN Nil ELSE r[i - 1]
  <2>. SUFFICES ASSUME NEW i \in 1 .. Len(r)
                PROVE  e.prev[r[i]] = IF i = 1 THEN Nil ELSE r[i - 1]
    OBVIOUS
  <2>1. CASE i \in 1 .. Len(s)
    <3>1. e.prev[r[i]] = d.prev[s[i]]
      BY <1>1, <1>2, <1>4, <2>1, ZenonT(40)
    <3>2. i # 1 => i - 1 \in 1 .. Len(s)
      BY <1>1, <2>1
    <3>. QED BY <2>1, <3>1, <3>2 DEF Chain
  <2>2. CASE i = Len(s) + 1
    <3>1. e.prev[r[i]] = d.tail[l]
      BY <1>2, <1>4, <2>2
    <3>2. i # 1 => i - 1 = Len(s) /\ Len(s) \in 1 .. Len(s)
      BY <1>1, <2>2
    <3>. QED BY <1>1, <2>2, <3>1, <3>2
  <2>. QED BY <1>1, <2>1, <2>2
<1>8. \A i \in 1 .. Len(r) : e.next[r[i]] = IF i = Len(r) THEN Nil ELSE r[i + 1]
  <2>. SUFFICES ASSUME NEW i \in 1 .. Len(r)
                PROVE  e.next[r[i]] = IF i = Len(r) THEN Nil ELSE r[i + 1]
    OBVIOUS
  <2>1. CASE Len(s) = 0
    <3>1. i = 1 /\ i = Len(r) /\ r[i] = n
      BY <1>1, <2>1
    <3>. QED BY <1>1, <1>3, <1>4, <2>1, <3>1, NilIsNoNode
  <2>2. CASE Len(s) # 0
    <3>1. Len(s) \in 1 .. Len(s) /\ d.tail[l] = s[Len(s)] /\ s[Len(s)] \in Nodes
          /\ s[Len(s)] # n
      BY <1>1, <2>2
    <3>2. \A k \in Nodes :
             e.next[k] = IF k = s[Len(s)] THEN n ELSE IF k = n THEN Nil ELSE d.next[k]
      BY <1>3, <3>1
    <3>3. CASE i = Len(s) + 1
      BY <1>4, <3>1, <3>2, <3>3
    <3>4. CASE i = Len(s)
      BY <1>1, <1>4, <3>1, <3>2, <3>4
    <3>5. CASE i \in 1 .. (Len(s) - 1)
      <4>1. i \in 1 .. Len(s) /\ i # Len(s) /\ i + 1 \in 1 .. Len(s) /\ i # Len(r)
        BY <1>1, <3>5
      <4>2. s[i] # s[Len(s)] /\ s[i] # n /\ s[i] \in Nodes
        BY <1>1, <3>1, <4>1 DEF Chain, Distinct
      <4>3. e.next[s[i]] = d.next[s[i]]
        BY <1>4, <3>2, <4>2
      <4>. QED BY <4>1, <4>3 DEF Chain
    <3>. QED BY <1>1, <3>3, <3>4, <3>5
  <2>. QED BY <2>1, <2>2
<1>9. e.head[l] = (IF Len(r) = 0 THEN Nil ELSE r[1]) /\ e.tail[l] = r[Len(r)] /\ Len(r) # 0
  <2>1. CASE Len(s) = 0
    BY <1>1, <1>2, <2>1 DEF Chain
  <2>2. CASE Len(s) # 0
    <3>1. 1 \in 1 .. Len(s) /\ s[1] # Nil
      BY <1>1, <2>2, NilIsNoNode
    <3>. QED BY <1>1, <1>2, <2>2, <3>1 DEF Chain
  <2>. QED BY <2>1, <2>2
<1>. QED BY <1>5, <1>6, <1>7, <1>8, <1>9 DEF Chain

LEMMA AddTailHolds ==
  ASSUME NEW d \in Links, NEW l \in Lists, NEW m \in Lists, l # m,
         NEW S, NEW T, Holds(d, l, S), Holds(d, m, T), S \cap T = {},
         NEW n \in Nodes, n \notin S, n \notin T
  PROVE  Holds(AddTail(d, l, n), l, S \cup {n}) /\ Holds(AddTail(d, l, n), m, T)
<1>1. PICK e \in Links : e = AddTail(d, l, n)
  BY AddTailTyped
<1>0. TailAdded(d, e, l, n)
  BY <1>1, AddTailIs
<1>2. Holds(e, l, S \cup {n})
  <2>1. PICK s : Chain(d, l, s) /\ S = Elems(s)
    BY DEF Holds
  <2>2. s \in Seq(Nodes) /\ Len(s) \in Nat
    BY <2>1 DEF Chain
  <2>3. PICK r \in Seq(Nodes) : /\ Len(r) = Len(s) + 1 /\ r[Len(s) + 1] = n
                                /\ \A i \in 1 .. Len(s) : r[i] = s[i]
    <3>. DEFINE r == Append(s, n)
    <3>1. /\ r \in Seq(Nodes) /\ Len(r) = Len(s) + 1 /\ r[Len(s) + 1] = n
          /\ \A i \in 1 .. Len(s) : r[i] = s[i]
      BY <2>2
    <3>. HIDE DEF r
    <3>. QED BY <3>1
  <2>4. Chain(e, l, r)
    BY <1>0, <2>1, <2>3, AddTailChain
  <2>5. Elems(r) = S \cup {n}
    <3>1. ASSUME NEW x \in Elems(r) PROVE x \in S \cup {n}
      BY <2>1, <2>2, <2>3 DEF Elems
    <3>2. ASSUME NEW x \in S PROVE x \in Elems(r)
      BY <2>1, <2>2, <2>3 DEF Elems
    <3>3. n \in Elems(r)
      BY <2>2, <2>3 DEF Elems
    <3>. QED BY <3>1, <3>2, <3>3
  <2>. QED BY <2>4, <2>5 DEF Holds
<1>3. Holds(e, m, T)
  <2>1. T \subseteq Nodes /\ d.tail[l] \in S \cup {Nil}
    BY HeldNodes
  <2>2. e.head[m] = d.head[m] /\ e.tail[m] = d.tail[m]
    BY <1>0 DEF TailAdded
  <2>3. ASSUME NEW k \in T
        PROVE  e.data[k] = d.data[k] /\ e.prev[k] = d.prev[k] /\ e.next[k] = d.next[k]
    <3>1. k \in Nodes /\ k # n /\ k # d.tail[l]
      BY <2>1, NilIsNoNode
    <3>2. e.data[k] = d.data[k] /\ e.prev[k] = d.prev[k]
      BY <1>0, <3>1 DEF TailAdded
    <3>3. e.next[k] = d.next[k]
      BY <1>0, <3>1 DEF TailAdded
    <3>. QED BY <3>2, <3>3
  <2>. QED BY <2>2, <2>3, HoldsFrame
<1>. QED BY <1>1, <1>2, <1>3

LEMMA AddHeadChain ==
  ASSUME NEW d \in Links, NEW l \in Lists, NEW s, Chain(d, l, s),
         NEW n \in Nodes, n \notin Elems(s),
         NEW r \in Seq(Nodes), Len(r) = Len(s) + 1, r[1] = n,
         \A i \in 2 .. Len(r) : r[i] = s[i - 1],
         NEW e \in Links, HeadAdded(d, e, l, n)
  PROVE  Chain(e, l, r)
<1>1. /\ s \in Seq(Nodes) /\ Len(s) \in Nat /\ Len(r) \in Nat
      /\ \A i \in 1 .. Len(s) : s[i] \in Nodes /\ s[i] # n
      /\ d.head[l] = IF Len(s) = 0 THEN Nil ELSE s[1]
  <2>1. s \in Seq(Nodes) /\ d.head[l] = IF Len(s) = 0 THEN Nil ELSE s[1]
    BY DEF Chain
  <2>2. Len(s) \in Nat /\ Len(r) \in Nat /\ \A i \in 1 .. Len(s) : s[i] \in Nodes
    BY <2>1
  <2>3. \A i \in 1 .. Len(s) : s[i] # n
    BY DEF Elems
  <2>. QED BY <2>1, <2>2, <2>3
<1>2. /\ \A k \in Nodes : /\ e.data[k] = IF k = n THEN TRUE ELSE d.data[k]
                          /\ e.next[k] = IF k = n THEN d.head[l] ELSE d.next[k]
      /\ e.head[l] = n
      /\ e.tail[l] = IF d.tail[l] = Nil THEN n ELSE d.tail[l]
  BY DEF HeadAdded
<1>3. \A k \in Nodes :
         e.prev[k] = IF k = d.head[l] THEN n ELSE IF k = n THEN Nil ELSE d.prev[k]
  BY DEF HeadAdded
<1>4. ASSUME NEW i \in 1 .. Len(r)
      PROVE  \/ i = 1 /\ r[i] = n
             \/ i # 1 /\ i - 1 \in 1 .. Len(s) /\ r[i] = s[i - 1] /\ s[i - 1] \in Nodes
                /\ s[i - 1] # n /\ i \in 2 .. Len(r)
  BY <1>1
<1>5. Distinct(r)
  <2>. SUFFICES ASSUME NEW i \in 1 .. Len(r), NEW j \in 1 .. Len(r), r[i] = r[j]
                PROVE  i = j
    BY DEF Distinct
  <2>1. CASE i # 1 /\ j # 1
    <3>1. /\ i - 1 \in 1 .. Len(s) /\ j - 1 \in 1 .. Len(s) /\ s[i - 1] = s[j - 1]
      BY <1>4, <2>1
    <3>2. i - 1 = j - 1
      BY <3>1 DEF Chain, Distinct
    <3>. QED BY <1>1, <3>2
  <2>. QED BY <1>4, <2>1
<1>6. ASSUME NEW i \in 1 .. Len(r) PROVE e.data[r[i]]
  <2>1. CASE i = 1
    BY <1>2, <1>4, <2>1
  <2>2. CASE i # 1
    <3>1. d.data[s[i - 1]] /\ d.data[s[i - 1]] \in BOOLEAN
      BY <1>4, <2>2 DEF Chain, Links
    <3>. QED BY <1>2, <1>4, <2>2, <3>1
  <2>. QED BY <2>1, <2>2
<1>7. ASSUME NEW i \in 1 .. Len(r) PROVE e.next[r[i]] = IF i = Len(r) THEN Nil ELSE r[i + 1]
  <2>1. CASE i = 1
    <3>1. e.next[r[i]] = d.head[l]
      BY <1>2, <1>4, <2>1
    <3>2. i # Len(r) => Len(s) # 0 /\ i + 1 \in 2 .. Len(r) /\ (i + 1) - 1 = 1
      BY <1>1, <2>1
    <3>3. i # Len(r) => r[i + 1] = s[1]
      BY <3>2
    <3>. QED BY <1>1, <2>1, <3>1, <3>2, <3>3
  <2>2. CASE i # 1
    <3>1. e.next[r[i]] = d.next[s[i - 1]]
      BY <1>2, <1>4, <2>2, ZenonT(40)
    <3>2. d.next[s[i - 1]] = IF i - 1 = Len(s) THEN Nil ELSE s[(i - 1) + 1]
      BY <1>4, <2>2 DEF Chain
    <3>3. (i - 1 = Len(s) <=> i = Len(r)) /\ (i - 1) + 1 = (i + 1) - 1
      BY <1>1
    <3>4. i # Len(r) => i + 1 \in 2 .. Len(r)
      BY <1>1
    <3>. QED BY <3>1, <3>2, <3>3, <3>4
  <2>. QED BY <2>1, <2>2
<1>8. ASSUME NEW i \in 1 .. Len(r) PROVE e.prev[r[i]] = IF i = 1 THEN Nil ELSE r[i - 1]
  <2>1. CASE i = 1
    <3>1. n # d.head[l]
      BY <1>1, NilIsNoNode
    <3>. QED BY <1>3, <1>4, <2>1, <3>1
  <2>2. CASE i = 2
    <3>1. r[i] = s[1] /\ s[1] \in Nodes /\ d.head[l] = s[1] /\ r[i - 1] = n
      BY <1>1, <1>4, <2>2
    <3>. QED BY <1>3, <2>2, <3>1
  <2>3. CASE i # 1 /\ i # 2
    <3>1. /\ i - 1 \in 1 .. Len(s) /\ i - 1 # 1 /\ 1 \in 1 .. Len(s) /\ r[i] = s[i - 1]
          /\ s[i - 1] \in Nodes /\ s[i - 1] # n
      BY <1>1, <1>4, <2>3
    <3>2. s[i - 1] # s[1] /\ d.head[l] = s[1]
      BY <1>1, <3>1 DEF Chain, Distinct
    <3>3. e.prev[r[i]] = d.prev[s[i - 1]]
      BY <1>3, <3>1, <3>2
    <3>4. d.prev[s[i - 1]] = s[(i - 1) - 1]
      BY <3>1 DEF Chain
    <3>5. r[i - 1] = s[(i - 1) - 1]
      BY <1>1, <2>3
    <3>. QED BY <2>3, <3>3, <3>4, <3>5
  <2>. QED BY <2>1, <2>2, <2>3
<1>9. e.head[l] = r[1] /\ e.tail[l] = r[Len(r)] /\ Len(r) # 0
  <2>1. CASE Len(s) = 0
    BY <1>1, <1>2, <2>1 DEF Chain
  <2>2. CASE Len(s) # 0
    <3>1. /\ Len(s) \in 1 .. Len(s) /\ s[Len(s)] # Nil
          /\ Len(r) \in 2 .. Len(r) /\ Len(r) - 1 = Len(s)
      BY <1>1, <2>2, NilIsNoNode
    <3>2. d.tail[l] = s[Len(s)] /\ r[Len(r)] = s[Len(s)]
      BY <2>2, <3>1 DEF Chain
    <3>. QED BY <1>1, <1>2, <3>1, <3>2
  <2>. QED BY <2>1, <2>2
<1>. QED BY <1>5, <1>6, <1>7, <1>8, <1>9 DEF Chain

LEMMA AddHeadHolds ==
  ASSUME NEW d \in Links, NEW l \in Lists, NEW m \in Lists, l # m,
         NEW S, NEW T, Holds(d, l, S), Holds(d, m, T), S \cap T = {},
         NEW n \in Nodes, n \notin S, n \notin T
  PROVE  Holds(AddHead(d, l, n), l, S \cup {n}) /\ Holds(AddHead(d, l, n), m, T)
<1>1. PICK e \in Links : e = AddHead(d, l, n)
  BY AddHeadTyped
<1>0. HeadAdded(d, e, l, n)
  BY <1>1, AddHeadIs
<1>2. Holds(e, l, S \cup {n})
  <2>1. PICK s : Chain(d, l, s) /\ S = Elems(s)
    BY DEF Holds
  <2>2. s \in Seq(Nodes) /\ Len(s) \in Nat
    BY <2>1 DEF Chain
  <2>3. PICK r \in Seq(Nodes) : /\ Len(r) = Len(s) + 1 /\ r[1] = n
                                /\ \A i \in 2 .. Len(r) : r[i] = s[i - 1]
    <3>. DEFINE r == <<n>> \o s
    <3>1. /\ r \in Seq(Nodes) /\ Len(r) = Len(s) + 1 /\ r[1] = n
          /\ \A i \in 2 .. Len(r) : r[i] = s[i - 1]
      BY <2>2
    <3>. HIDE DEF r
    <3>. QED BY <3>1
  <2>4. Chain(e, l, r)
    BY <1>0, <2>1, <2>3, AddHeadChain
  <2>5. Elems(r) = S \cup {n}
    <3>1. ASSUME NEW x \in Elems(r) PROVE x \in S \cup {n}
      <4>1. PICK i \in 1 .. Len(r) : x = r[i]
        BY <3>1 DEF Elems
      <4>2. i # 1 => i - 1 \in 1 .. Len(s) /\ x = s[i - 1]
        BY <2>2, <2>3, <4>1
      <4>. QED BY <2>1, <2>3, <4>1, <4>2 DEF Elems
    <3>2. ASSUME NEW x \in S PROVE x \in Elems(r)
      <4>1. PICK i \in 1 .. Len(s) : x = s[i]
        BY <2>1, <3>2 DEF Elems
      <4>2. i + 1 \in 2 .. Len(r) /\ i + 1 \in 1 .. Len(r) /\ (i + 1) - 1 = i
        BY <2>2, <2>3, <4>1
      <4>3. r[i + 1] = x
        BY <2>3, <4>1, <4>2
      <4>. QED BY <4>2, <4>3 DEF Elems
    <3>3. n \in Elems(r)
      BY <2>2, <2>3 DEF Elems
    <3>. QED BY <3>1, <3>2, <3>3
  <2>. QED BY <2>4, <2>5 DEF Holds
<1>3. Holds(e, m, T)
  <2>1. T \subseteq Nodes /\ d.head[l] \in S \cup {Nil}
    BY HeldNodes
  <2>2. e.head[m] = d.head[m] /\ e.tail[m] = d.tail[m]
    BY <1>0 DEF HeadAdded
  <2>3. ASSUME NEW k \in T
        PROVE  e.data[k] = d.data[k] /\ e.prev[k] = d.prev[k] /\ e.next[k] = d.next[k]
    <3>1. k \in Nodes /\ k # n /\ k # d.head[l]
      BY <2>1, NilIsNoNode
    <3>. QED BY <1>0, <3>1 DEF HeadAdded
  <2>. QED BY <2>2, <2>3, HoldsFrame
<1>. QED BY <1>1, <1>2, <1>3

(***************************************************************************)
(* DLinkedListDelete and DLinkedListPopHead of a node the list holds.      *)
(***************************************************************************)
LEMMA DetachChain ==
  ASSUME NEW d \in Links, NEW l \in Lists, NEW s, Chain(d, l, s), NEW k \in 1 .. Len(s),
         NEW r \in Seq(Nodes), Len(r) = Len(s) - 1,
         \A i \in 1 .. Len(r) : r[i] = IF i < k THEN s[i] ELSE s[i + 1],
         NEW e \in Links, e.data = d.data, Detached(d, e, l, s[k])
  PROVE  Chain(e, l, r)
<1>1. /\ s \in Seq(Nodes) /\ Len(s) \in Nat /\ Len(r) \in Nat /\ k \in Nat
      /\ \A i \in 1 .. Len(s) : s[i] \in Nodes /\ s[i] # Nil
  <2>1. s \in Seq(Nodes)
    BY DEF Chain
  <2>. QED BY <2>1, NilIsNoNode
<1>2. \A i \in 1 .. Len(s), j \in 1 .. Len(s) : s[i] = s[j] => i = j
  BY DEF Chain, Distinct
<1>3. \A i \in 1 .. Len(s) : /\ d.prev[s[i]] = IF i = 1 THEN Nil ELSE s[i - 1]
                             /\ d.next[s[i]] = IF i = Len(s) THEN Nil ELSE s[i + 1]
  BY DEF Chain
<1>4. /\ d.head[l] = s[1] /\ d.tail[l] = s[Len(s)]
      /\ 1 \in 1 .. Len(s) /\ Len(s) \in 1 .. Len(s)
  BY <1>1 DEF Chain
<1>5. /\ d.prev[s[k]] = IF k = 1 THEN Nil ELSE s[k - 1]
      /\ d.next[s[k]] = IF k = Len(s) THEN Nil ELSE s[k + 1]
  BY <1>3
<1>6. /\ \A x \in Nodes :
            /\ e.prev[x] = IF x = s[k] THEN Nil
                           ELSE IF x = d.next[s[k]] THEN d.prev[s[k]] ELSE d.prev[x]
            /\ e.next[x] = IF x = s[k] THEN Nil
                           ELSE IF x = d.prev[s[k]] THEN d.next[s[k]] ELSE d.next[x]
      /\ e.head[l] = IF d.head[l] = s[k] THEN d.next[s[k]] ELSE d.head[l]
      /\ e.tail[l] = IF d.tail[l] = s[k] THEN d.prev[s[k]] ELSE d.tail[l]
  BY DEF Detached
<1>7. ASSUME NEW i \in 1 .. Len(s), i # k
      PROVE  /\ e.prev[s[i]] = IF i = k + 1 THEN d.prev[s[k]] ELSE d.prev[s[i]]
             /\ e.next[s[i]] = IF i = k - 1 THEN d.next[s[k]] ELSE d.next[s[i]]
  <2>1. s[i] \in Nodes /\ s[i] # Nil /\ s[i] # s[k]
    BY <1>1, <1>2, <1>7
  <2>2. s[i] = d.next[s[k]] <=> i = k + 1
    <3>1. CASE k = Len(s)
      BY <1>1, <1>5, <2>1, <3>1
    <3>2. CASE k # Len(s)
      <4>1. k + 1 \in 1 .. Len(s) /\ d.next[s[k]] = s[k + 1]
        BY <1>1, <1>5, <3>2
      <4>. QED BY <1>2, <4>1
    <3>. QED BY <3>1, <3>2
  <2>3. s[i] = d.prev[s[k]] <=> i = k - 1
    <3>1. CASE k = 1
      BY <1>1, <1>5, <2>1, <3>1
    <3>2. CASE k # 1
      <4>1. k - 1 \in 1 .. Len(s) /\ d.prev[s[k]] = s[k - 1]
        BY <1>1, <1>5, <3>2
      <4>. QED BY <1>2, <4>1
    <3>. QED BY <3>1, <3>2
  <2>. QED BY <1>6, <2>1, <2>2, <2>3
<1>8. ASSUME NEW i \in 1 .. Len(r)
      PROVE  \/ i < k /\ r[i] = s[i] /\ i \in 1 .. Len(s) /\ i # k
             \/ i >= k /\ r[i] = s[i + 1] /\ i + 1 \in 1 .. Len(s) /\ i + 1 # k
  BY <1>1
<1>9. Distinct(r)
  <2>. SUFFICES ASSUME NEW i \in 1 .. Len(r), NEW j \in 1 .. Len(r), r[i] = r[j]
                PROVE  i = j
    BY DEF Distinct
  <2>1. CASE i < k /\ j < k
    BY <1>2, <1>8, <2>1
  <2>2. CASE i < k /\ j >= k
    <3>1. i = j + 1
      BY <1>1, <1>2, <1>8, <2>2
    <3>. QED BY <1>1, <2>2, <3>1
  <2>3. CASE i >= k /\ j < k
    <3>1. i + 1 = j
      BY <1>1, <1>2, <1>8, <2>3
    <3>. QED BY <1>1, <2>3, <3>1
  <2>4. CASE i >= k /\ j >= k
    <3>1. i + 1 = j + 1
      BY <1>1, <1>2, <1>8, <2>4
    <3>. QED BY <1>1, <3>1
  <2>. QED BY <1>1, <2>1, <2>2, <2>3, <2>4
<1>10. ASSUME NEW i \in 1 .. Len(r) PROVE e.data[r[i]]
  <2>1. \A j \in 1 .. Len(s) : e.data[s[j]]
    BY DEF Chain
  <2>. QED BY <1>8, <2>1
<1>11. ASSUME NEW i \in 1 .. Len(r) PROVE e.prev[r[i]] = IF i = 1 THEN Nil ELSE r[i - 1]
  <2>1. i # 1 => i - 1 \in 1 .. Len(r)
    BY <1>1
  <2>2. CASE i < k
    <3>1. r[i] = s[i] /\ i \in 1 .. Len(s) /\ i # k /\ i # k + 1
      BY <1>1, <1>8, <2>2
    <3>2. e.prev[r[i]] = d.prev[s[i]]
      BY <1>7, <3>1
    <3>3. i # 1 => i - 1 < k /\ r[i - 1] = s[i - 1]
      BY <1>1, <2>1, <2>2
    <3>. QED BY <1>3, <3>1, <3>2, <3>3
  <2>3. CASE i = k
    <3>1. r[i] = s[k + 1] /\ k + 1 \in 1 .. Len(s) /\ k + 1 # k
      BY <1>1, <1>8, <2>3
    <3>2. e.prev[r[i]] = d.prev[s[k]]
      BY <1>7, <3>1
    <3>3. i # 1 => i - 1 < k /\ r[i - 1] = s[k - 1]
      BY <1>1, <2>1, <2>3
    <3>. QED BY <1>5, <2>3, <3>2, <3>3
  <2>4. CASE i > k
    <3>1. r[i] = s[i + 1] /\ i + 1 \in 1 .. Len(s) /\ i + 1 # k /\ i + 1 # k + 1 /\ i # 1
          /\ i + 1 # 1
      BY <1>1, <1>8, <2>4
    <3>2. e.prev[r[i]] = d.prev[s[i + 1]]
      BY <1>7, <3>1
    <3>3. d.prev[s[i + 1]] = s[(i + 1) - 1]
      BY <1>3, <3>1
    <3>4. ~ (i - 1 < k) /\ r[i - 1] = s[(i - 1) + 1] /\ (i - 1) + 1 = (i + 1) - 1
      BY <1>1, <2>1, <2>4, <3>1
    <3>. QED BY <3>1, <3>2, <3>3, <3>4
  <2>. QED BY <1>1, <2>2, <2>3, <2>4
<1>12. ASSUME NEW i \in 1 .. Len(r)
       PROVE  e.next[r[i]] = IF i = Len(r) THEN Nil ELSE r[i + 1]
  <2>1. i # Len(r) => i + 1 \in 1 .. Len(r)
    BY <1>1
  <2>2. CASE i < k - 1
    <3>1. r[i] = s[i] /\ i \in 1 .. Len(s) /\ i # k /\ i # k - 1 /\ i # Len(s) /\ i # Len(r)
      BY <1>1, <1>8, <2>2
    <3>2. e.next[r[i]] = d.next[s[i]]
      BY <1>7, <3>1
    <3>3. i + 1 < k /\ r[i + 1] = s[i + 1]
      BY <1>1, <2>1, <2>2, <3>1
    <3>. QED BY <1>3, <3>1, <3>2, <3>3
  <2>3. CASE i = k - 1
    <3>1. r[i] = s[i] /\ i \in 1 .. Len(s) /\ i # k
      BY <1>1, <1>8, <2>3
    <3>2. e.next[r[i]] = d.next[s[k]]
      BY <1>7, <2>3, <3>1
    <3>3. (k = Len(s) <=> i = Len(r)) /\ i + 1 = k
      BY <1>1, <2>3
    <3>4. i # Len(r) => r[i + 1] = s[k + 1]
      BY <2>1, <3>3
    <3>. QED BY <1>5, <3>2, <3>3, <3>4
  <2>4. CASE i >= k
    <3>1. r[i] = s[i + 1] /\ i + 1 \in 1 .. Len(s) /\ i + 1 # k /\ i + 1 # k - 1
      BY <1>1, <1>8, <2>4
    <3>2. e.next[r[i]] = d.next[s[i + 1]]
      BY <1>7, <3>1
    <3>3. i + 1 = Len(s) <=> i = Len(r)
      BY <1>1
    <3>4. i # Len(r) => r[i + 1] = s[(i + 1) + 1]
      BY <1>1, <2>1, <2>4
    <3>. QED BY <1>3, <3>1, <3>2, <3>3, <3>4
  <2>. QED BY <1>1, <2>2, <2>3, <2>4
<1>13. /\ e.head[l] = IF Len(r) = 0 THEN Nil ELSE r[1]
       /\ e.tail[l] = IF Len(r) = 0 THEN Nil ELSE r[Len(r)]
  <2>1. e.head[l] = IF k = 1 THEN d.next[s[k]] ELSE s[1]
    BY <1>2, <1>4, <1>6
  <2>2. e.tail[l] = IF k = Len(s) THEN d.prev[s[k]] ELSE s[Len(s)]
    BY <1>2, <1>4, <1>6
  <2>3. CASE Len(r) = 0
    <3>1. k = 1 /\ k = Len(s)
      <4>1. PICK a \in Nat : a = Len(s)
        BY <1>1
      <4>2. a - 1 = 0 /\ k \in 1 .. a
        BY <2>3, <4>1
      <4>3. a = 1
        BY <4>2
      <4>4. k = 1
        BY <4>2, <4>3
      <4>. QED BY <4>1, <4>3, <4>4
    <3>. QED BY <1>5, <2>1, <2>2, <2>3, <3>1
  <2>4. CASE Len(r) # 0
    <3>1. 1 \in 1 .. Len(r) /\ Len(r) \in 1 .. Len(r)
      BY <1>1, <2>4
    <3>2. r[1] = IF k = 1 THEN s[2] ELSE s[1]
      BY <1>1, <3>1
    <3>3. k = 1 => k # Len(s) /\ k + 1 = 2
      BY <1>1, <2>4
    <3>4. r[Len(r)] = IF k = Len(s) THEN s[k - 1] ELSE s[Len(s)]
      <4>1. Len(r) < k <=> k = Len(s)
        BY <1>1
      <4>2. Len(r) + 1 = Len(s) /\ (k = Len(s) => Len(r) = k - 1)
        BY <1>1
      <4>. QED BY <3>1, <4>1, <4>2
    <3>5. k = Len(s) => k # 1
      BY <1>1, <2>4
    <3>. QED BY <1>5, <2>1, <2>2, <2>4, <3>2, <3>3, <3>4, <3>5
  <2>. QED BY <2>3, <2>4
<1>. QED BY <1>9, <1>10, <1>11, <1>12, <1>13 DEF Chain

LEMMA DetachHolds ==
  ASSUME NEW d \in Links, NEW l \in Lists, NEW m \in Lists, l # m,
         NEW S, NEW T, Holds(d, l, S), Holds(d, m, T), S \cap T = {}, NEW n \in S
  PROVE  /\ Holds(Detach(d, l, n), l, S \ {n}) /\ Holds(Detach(d, l, n), m, T)
         /\ IsOrphan(Detach(d, l, n), l, n)
<1>1. n \in Nodes /\ S \subseteq Nodes /\ T \subseteq Nodes
  BY HeldNodes
<1>2. PICK e \in Links : e = Detach(d, l, n) /\ e.data = d.data
  BY <1>1, DetachTyped
<1>3. Detached(d, e, l, n)
  BY <1>1, <1>2, DetachIs
<1>4. Holds(e, l, S \ {n})
  <2>1. PICK s : Chain(d, l, s) /\ S = Elems(s)
    BY DEF Holds
  <2>2. s \in Seq(Nodes) /\ Len(s) \in Nat
    BY <2>1 DEF Chain
  <2>3. PICK k \in 1 .. Len(s) : n = s[k]
    BY <2>1 DEF Elems
  <2>4. PICK r \in Seq(Nodes) :
           /\ Len(r) = Len(s) - 1
           /\ \A i \in 1 .. Len(r) : r[i] = IF i < k THEN s[i] ELSE s[i + 1]
    <3>. DEFINE r == [i \in 1 .. (Len(s) - 1) |-> IF i < k THEN s[i] ELSE s[i + 1]]
    <3>1. Len(s) - 1 \in Nat
      BY <2>2
    <3>2. r \in Seq(Nodes) /\ Len(r) = Len(s) - 1
      BY <2>2, <3>1
    <3>3. \A i \in 1 .. Len(r) : r[i] = IF i < k THEN s[i] ELSE s[i + 1]
      BY <3>2
    <3>. HIDE DEF r
    <3>. QED BY <3>2, <3>3
  <2>5. Chain(e, l, r)
    BY <1>2, <1>3, <2>1, <2>3, <2>4, DetachChain
  <2>6. Elems(r) = S \ {n}
    <3>0. Len(r) \in Nat /\ k \in Nat
      BY <2>4
    <3>1. ASSUME NEW x \in Elems(r) PROVE x \in S \ {n}
      <4>1. PICK i \in 1 .. Len(r) : x = r[i]
        BY <3>1 DEF Elems
      <4>2. PICK j \in 1 .. Len(s) : x = s[j] /\ j # k
        BY <2>2, <2>4, <3>0, <4>1
      <4>3. x # s[k]
        BY <2>1, <4>2 DEF Chain, Distinct
      <4>. QED BY <2>1, <2>3, <4>2, <4>3 DEF Elems
    <3>2. ASSUME NEW x \in S \ {n} PROVE x \in Elems(r)
      <4>1. PICK j \in 1 .. Len(s) : x = s[j] /\ j # k
        BY <2>1, <2>3, <3>2 DEF Elems
      <4>2. CASE j < k
        <5>1. j \in 1 .. Len(r)
          BY <2>2, <2>4, <4>2
        <5>. QED BY <2>4, <4>1, <4>2, <5>1 DEF Elems
      <4>3. CASE j > k
        <5>1. j - 1 \in 1 .. Len(r) /\ ~ (j - 1 < k) /\ (j - 1) + 1 = j
          BY <2>2, <2>4, <3>0, <4>3
        <5>2. r[j - 1] = x
          BY <2>4, <4>1, <5>1
        <5>. QED BY <5>1, <5>2 DEF Elems
      <4>. QED BY <3>0, <4>1, <4>2, <4>3
    <3>. QED BY <3>1, <3>2
  <2>. QED BY <2>5, <2>6 DEF Holds
<1>5. Holds(e, m, T)
  <2>1. /\ d.next[n] \in S \cup {Nil} /\ d.prev[n] \in S \cup {Nil}
    BY HeldNodes
  <2>2. e.head[m] = d.head[m] /\ e.tail[m] = d.tail[m]
    BY <1>3 DEF Detached
  <2>3. ASSUME NEW x \in T
        PROVE  e.data[x] = d.data[x] /\ e.prev[x] = d.prev[x] /\ e.next[x] = d.next[x]
    <3>1. x \in Nodes /\ x # n /\ x # d.next[n] /\ x # d.prev[n]
      BY <1>1, <2>1, NilIsNoNode
    <3>. QED BY <1>2, <1>3, <3>1 DEF Detached
  <2>. QED BY <2>2, <2>3, HoldsFrame
<1>6. IsOrphan(e, l, n)
  <2>1. e.head[l] # n
    BY <1>1, <1>4, HeldNodes, NilIsNoNode
  <2>2. e.next[n] = Nil /\ e.prev[n] = Nil
    BY <1>1, <1>3 DEF Detached
  <2>. QED BY <2>1, <2>2 DEF IsOrphan
<1>. QED BY <1>2, <1>4, <1>5, <1>6

LEMMA DeleteHeld ==
  ASSUME NEW d \in Links, NEW l \in Lists, NEW S, Holds(d, l, S), NEW n \in S
  PROVE  Delete(d, l, n) = Detach(d, l, n)
<1>1. d.prev[n] = Nil => d.head[l] = n
  BY HeldNodes
<1>. QED BY <1>1 DEF Delete, IsOrphan

(***************************************************************************)
(* A record that is on no list is wiped.                                   *)
(***************************************************************************)
LEMMA WipeHolds ==
  ASSUME NEW d \in Links, NEW l \in Lists, NEW S, Holds(d, l, S), NEW n \in Nodes, n \notin S
  PROVE  Holds(Wipe(d, n), l, S)
<1>1. PICK e \in Links : e = Wipe(d, n)
  BY WipeIs
<1>2. S \subseteq Nodes
  BY HeldNodes
<1>3. e.head[l] = d.head[l] /\ e.tail[l] = d.tail[l]
  BY <1>1 DEF Wipe, Links
<1>4. ASSUME NEW k \in S
      PROVE  e.data[k] = d.data[k] /\ e.prev[k] = d.prev[k] /\ e.next[k] = d.next[k]
  BY <1>1, <1>2 DEF Wipe, Links
<1>. QED BY <1>1, <1>3, <1>4, HoldsFrame

(***************************************************************************)
(* A walk along the next pointers meets just the nodes the list holds.     *)
(***************************************************************************)
LEMMA LeastNat ==
  ASSUME NEW T, T \subseteq Nat, T # {}
  PROVE  \E x \in T : \A y \in T : x <= y
<1>. DEFINE R == OpToRel(<, Nat)
<1>1. IsWellFoundedOn(R, Nat)
  BY NatLessThanWellFounded
<1>2. \A x, y \in Nat : <<y, x>> \in R <=> y < x
  BY DEF OpToRel
<1>. HIDE DEF R
<1>3. PICK x \in T : \A y \in T : ~ (<<y, x>> \in R)
  BY <1>1, WFMin
<1>4. ASSUME NEW y \in T PROVE x <= y
  <2>1. x \in Nat /\ y \in Nat /\ ~ (<<y, x>> \in R)
    BY <1>3
  <2>2. ~ (y < x)
    BY <1>2, <2>1
  <2>. QED BY <2>1, <2>2
<1>. QED BY <1>4

LEMMA ChainShort ==
  ASSUME NEW d, NEW l, NEW s, Chain(d, l, s)
  PROVE  Len(s) \in Nat /\ Cardinality(Nodes) \in Nat /\ Len(s) <= Cardinality(Nodes)
<1>1. s \in Seq(Nodes) /\ Len(s) \in Nat /\ \A i \in 1 .. Len(s) : s[i] \in Nodes
  BY DEF Chain
<1>2. IsFiniteSet(Nodes) /\ Cardinality(Nodes) \in Nat
  BY ResolverAssumption, FS_CardinalityType
<1>3. IsFiniteSet(1 .. Len(s)) /\ Cardinality(1 .. Len(s)) = Len(s)
  <2>1. Cardinality(1 .. Len(s)) = (IF 1 > Len(s) THEN 0 ELSE Len(s) - 1 + 1)
    BY <1>1, FS_Interval
  <2>. QED BY <1>1, <2>1, FS_Interval
<1>4. s \in [1 .. Len(s) -> Nodes]
  BY <1>1
<1>5. \A x \in 1 .. Len(s), y \in 1 .. Len(s) : s[x] = s[y] => x = y
  BY DEF Chain, Distinct
<1>6. ~ (Cardinality(Nodes) < Len(s))
  <2>. SUFFICES ASSUME Cardinality(Nodes) < Cardinality(1 .. Len(s)) PROVE FALSE
    BY <1>3
  <2>1. \E x, y \in 1 .. Len(s) : x # y /\ s[x] = s[y]
    BY <1>2, <1>3, <1>4, FS_PigeonHole
  <2>. QED BY <1>5, <2>1
<1>. QED BY <1>1, <1>2, <1>6

LEMMA WalkedIs ==
  ASSUME NEW d \in Links, NEW l \in Lists, NEW s, Chain(d, l, s)
  PROVE  Walked(d, l) = [i \in 1 .. (Cardinality(Nodes) + 1) |->
                            IF i <= Len(s) THEN s[i] ELSE Nil]
<1>. DEFINE D == 1 .. (Cardinality(Nodes) + 1)
            f == [i \in D |-> IF i <= Len(s) THEN s[i] ELSE Nil]
            Walks(g) == g = [i \in D |-> IF i = 1 THEN d.head[l]
                                         ELSE IF g[i - 1] = Nil THEN Nil ELSE d.next[g[i - 1]]]
<1>1. /\ Len(s) \in Nat /\ Cardinality(Nodes) \in Nat /\ Len(s) <= Cardinality(Nodes)
  BY ChainShort
<1>2. /\ d.head[l] = IF Len(s) = 0 THEN Nil ELSE s[1]
      /\ \A i \in 1 .. Len(s) : d.next[s[i]] = IF i = Len(s) THEN Nil ELSE s[i + 1]
      /\ \A i \in 1 .. Len(s) : s[i] # Nil
  <2>1. s \in Seq(Nodes)
    BY DEF Chain
  <2>2. \A i \in 1 .. Len(s) : s[i] # Nil
    BY <2>1, NilIsNoNode
  <2>. QED BY <2>2 DEF Chain
<1>3. ASSUME NEW i \in D, i # 1
      PROVE  f[i] = IF f[i - 1] = Nil THEN Nil ELSE d.next[f[i - 1]]
  <2>1. i - 1 \in D /\ i \in Nat /\ i - 1 \in Nat
    BY <1>1, <1>3
  <2>2. CASE i - 1 <= Len(s)
    <3>1. i - 1 \in 1 .. Len(s) /\ f[i - 1] = s[i - 1]
      BY <1>1, <1>3, <2>1, <2>2
    <3>2. i - 1 = Len(s) <=> ~ (i <= Len(s))
      BY <1>1, <2>1, <2>2
    <3>3. (i - 1) + 1 = i
      BY <2>1
    <3>. QED BY <1>2, <3>1, <3>2, <3>3
  <2>3. CASE ~ (i - 1 <= Len(s))
    <3>1. ~ (i <= Len(s))
      BY <1>1, <2>1, <2>3
    <3>. QED BY <2>1, <2>3, <3>1
  <2>. QED BY <2>2, <2>3
<1>4. 1 \in D /\ f[1] = d.head[l]
  <2>1. 1 \in D /\ (1 <= Len(s) <=> Len(s) # 0)
    BY <1>1
  <2>. QED BY <1>2, <2>1
<1>5. Walks(f)
  <2>. DEFINE h == [i \in D |-> IF i = 1 THEN d.head[l]
                                ELSE IF f[i - 1] = Nil THEN Nil ELSE d.next[f[i - 1]]]
  <2>1. ASSUME NEW i \in D PROVE f[i] = h[i]
    BY <1>3, <1>4
  <2>2. f = h
    <3>1. DOMAIN f = D /\ DOMAIN h = D /\ f = [i \in D |-> f[i]] /\ h = [i \in D |-> h[i]]
      OBVIOUS
    <3>. HIDE DEF f, h
    <3>. QED BY <2>1, <3>1
  <2>. QED BY <2>2
<1>6. ASSUME NEW g, Walks(g) PROVE g = f
  <2>1. /\ g = [i \in D |-> g[i]] /\ DOMAIN g = D
        /\ 1 \in D => g[1] = d.head[l]
        /\ \A i \in D : i # 1 => g[i] = IF g[i - 1] = Nil THEN Nil ELSE d.next[g[i - 1]]
    BY <1>6
  <2>. DEFINE Bad == {i \in D : g[i] # f[i]}
  <2>2. Bad \subseteq Nat /\ Bad \subseteq D
    OBVIOUS
  <2>3. ASSUME Bad # {} PROVE FALSE
    <3>. HIDE DEF Bad
    <3>1. PICK x \in Bad : \A y \in Bad : x <= y
      BY <2>2, <2>3, LeastNat
    <3>2. x \in D /\ x \in Nat /\ g[x] # f[x]
      BY <2>2, <3>1 DEF Bad
    <3>. HIDE DEF f
    <3>3. x # 1
      BY <1>4, <2>1, <3>2
    <3>4. x - 1 \in D /\ ~ (x <= x - 1)
      BY <1>1, <3>2, <3>3
    <3>5. g[x - 1] = f[x - 1]
      BY <3>1, <3>4 DEF Bad
    <3>. QED BY <1>3, <2>1, <3>2, <3>3, <3>5
  <2>4. \A i \in D : g[i] = f[i]
    BY <2>3
  <2>5. f = [i \in D |-> f[i]]
    OBVIOUS
  <2>. HIDE DEF f, Bad, D
  <2>. QED BY <2>1, <2>4, <2>5
<1>7. Walked(d, l) = CHOOSE g : Walks(g)
  BY DEF Walked
<1>. HIDE DEF Walks, f
<1>8. Walked(d, l) = f
  <2>1. Walks(CHOOSE g : Walks(g))
    BY <1>5
  <2>. QED BY <1>6, <1>7, <2>1
<1>. QED BY <1>8 DEF f

LEMMA HeldIsList ==
  ASSUME NEW d \in Links, NEW l \in Lists, NEW S, Holds(d, l, S)
  PROVE  IsList(d, l) /\ Members(d, l) = S
<1>1. PICK s : Chain(d, l, s) /\ S = Elems(s)
  BY DEF Holds
<1>2. /\ Len(s) \in Nat /\ Cardinality(Nodes) \in Nat /\ Len(s) <= Cardinality(Nodes)
  BY <1>1, ChainShort
<1>3. PICK at : /\ at = Walked(d, l)
                /\ at = [i \in 1 .. (Cardinality(Nodes) + 1) |->
                            IF i <= Len(s) THEN s[i] ELSE Nil]
  BY <1>1, WalkedIs
<1>4. /\ DOMAIN at = 1 .. (Cardinality(Nodes) + 1)
      /\ \A i \in 1 .. (Cardinality(Nodes) + 1) : at[i] = IF i <= Len(s) THEN s[i] ELSE Nil
  BY <1>3
<1>5. \A i \in 1 .. Len(s) : s[i] \in Nodes /\ s[i] # Nil
  <2>1. s \in Seq(Nodes)
    BY <1>1 DEF Chain
  <2>. QED BY <2>1, NilIsNoNode
<1>6. Members(d, l) = S
  <2>0. Members(d, l) = {at[i] : i \in DOMAIN at} \ {Nil}
    BY <1>3 DEF Members
  <2>1. ASSUME NEW x \in Members(d, l) PROVE x \in S
    <3>1. PICK i \in DOMAIN at : x = at[i] /\ x # Nil
      BY <2>0, <2>1
    <3>2. i \in 1 .. Len(s) /\ x = s[i]
      BY <1>2, <1>4, <3>1
    <3>. QED BY <1>1, <3>2 DEF Elems
  <2>2. ASSUME NEW x \in S PROVE x \in Members(d, l)
    <3>1. PICK i \in 1 .. Len(s) : x = s[i]
      BY <1>1, <2>2 DEF Elems
    <3>2. i \in DOMAIN at /\ i <= Len(s)
      BY <1>2, <1>4
    <3>3. at[i] = x /\ x # Nil
      BY <1>4, <1>5, <3>1, <3>2
    <3>. QED BY <2>0, <3>2, <3>3
  <2>. QED BY <2>1, <2>2
<1>7. at[Cardinality(Nodes) + 1] = Nil
  <2>1. /\ Cardinality(Nodes) + 1 \in 1 .. (Cardinality(Nodes) + 1)
        /\ ~ (Cardinality(Nodes) + 1 <= Len(s))
    BY <1>2
  <2>. QED BY <1>4, <2>1
<1>8. ASSUME NEW i \in 1 .. Cardinality(Nodes), at[i] # Nil
      PROVE  /\ d.data[at[i]]
             /\ d.prev[at[i]] = IF i = 1 THEN Nil ELSE at[i - 1]
             /\ at[i + 1] = Nil => d.tail[l] = at[i]
  <2>1. i \in 1 .. (Cardinality(Nodes) + 1) /\ i + 1 \in 1 .. (Cardinality(Nodes) + 1)
    BY <1>2
  <2>2. i \in 1 .. Len(s) /\ at[i] = s[i]
    BY <1>2, <1>4, <1>8, <2>1
  <2>3. d.data[at[i]] /\ d.prev[at[i]] = IF i = 1 THEN Nil ELSE s[i - 1]
    BY <1>1, <2>2 DEF Chain
  <2>4. i # 1 => at[i - 1] = s[i - 1]
    <3>1. i # 1 => i - 1 \in 1 .. (Cardinality(Nodes) + 1) /\ i - 1 <= Len(s)
      BY <1>2, <2>2
    <3>. QED BY <1>4, <3>1
  <2>5. at[i + 1] = Nil => i = Len(s)
    <3>1. i # Len(s) => i + 1 \in 1 .. Len(s) /\ i + 1 <= Len(s)
      BY <1>2, <2>2
    <3>. QED BY <1>4, <1>5, <2>1, <3>1
  <2>6. i = Len(s) => d.tail[l] = s[i] /\ Len(s) # 0
    BY <1>1, <1>2, <2>2 DEF Chain
  <2>. QED BY <2>2, <2>3, <2>4, <2>5, <2>6
<1>9. at[1] = Nil => d.tail[l] = Nil
  <2>1. 1 \in 1 .. (Cardinality(Nodes) + 1) /\ (1 <= Len(s) <=> Len(s) # 0)
    BY <1>2
  <2>2. Len(s) # 0 => 1 \in 1 .. Len(s)
    BY <1>2
  <2>. QED BY <1>1, <1>4, <1>5, <2>1, <2>2 DEF Chain
<1>10. IsList(d, l)
  BY <1>3, <1>7, <1>8, <1>9 DEF IsList
<1>. QED BY <1>6, <1>10

-----------------------------------------------------------------------------
USE ResolverAssumption

(***************************************************************************)
(* The inductive invariant of AnswerOnce.  No two queries share a ticket;  *)
(* only a query in use is linked; the client holds an id just while it     *)
(* names its own query, not cancelled and not being called back, so that   *)
(* a cancellation never hits the query of somebody else.                   *)
(***************************************************************************)
DataInUse == \A id \in Nodes : links.data[id] => query[id].in_use
TicketsOwn == /\ \A id \in InUse : query[id].ticket \in 1 .. asked
              /\ \A a \in InUse, b \in InUse : query[a].ticket = query[b].ticket => a = b
Called(id) == Calling /\ node = id
CallInUse == Calling => node \in InUse
HandleOwns == \A t \in Tickets, id \in Nodes : handle[t] = id =>
                 /\ id \in InUse /\ query[id].ticket = t /\ ~ query[id].canceled_req
                 /\ ~ Called(id)
MarkTrue == \A id \in InUse : query[id].canceled_req <=> query[id].ticket \in cancelled
NotAsked == \A t \in Tickets : t > asked => told[t] = 0 /\ t \notin cancelled
AInv == /\ TypeOK /\ DataInUse /\ TicketsOwn /\ CallInUse /\ HandleOwns
        /\ MarkTrue /\ NotAsked /\ AnswerOnce

LEMMA BlankIsQuery == BlankQuery \in Query
BY DEF BlankQuery, Query

LEMMA InitAInv == Init => AInv
<1>. SUFFICES ASSUME Init PROVE AInv
  OBVIOUS
<1>1. Cardinality(Nodes) \in Nat
  BY FS_CardinalityType
<1>2. free \in Seq(Nodes)
  BY <1>1 DEF Init
<1>3. query \in [Nodes -> Query]
  BY BlankIsQuery DEF Init
<1>4. links \in Links
  BY DEF Init, NoLinks, Links, Pointer
<1>5. TypeOK
  <2>1. node \in Pointer /\ handle \in [Tickets -> Pointer] /\ told \in [Tickets -> Nat]
    BY DEF Init, Pointer
  <2>2. {timer_id, write_event, rxmit, late} \subseteq BOOLEAN
    BY DEF Init
  <2>3. /\ armed \in Nat /\ due \in Nat /\ net \subseteq Nodes
        /\ pc \in {"loop", "write", "walk", "callback"} /\ ret \in {"loop", "callback"}
        /\ handler \in {"walk", "data"}
        /\ asked \in 0 .. MaxQueries /\ cancelled \subseteq Tickets
    BY DEF Init
  <2>. QED BY <1>2, <1>3, <1>4, <2>1, <2>2, <2>3 DEF TypeOK
<1>6. InUse = {}
  BY DEF Init, InUse, BlankQuery
<1>7. DataInUse
  BY DEF Init, NoLinks, DataInUse
<1>8. AnswerOnce
  BY DEF Init, AnswerOnce
<1>. QED
  BY <1>5, <1>6, <1>7, <1>8
     DEF AInv, TicketsOwn, CallInUse, Calling, HandleOwns, MarkTrue, NotAsked, Init, Tickets,
         Nil

-----------------------------------------------------------------------------
(***************************************************************************)
(* A step that neither takes nor frees a slot, and tells or cancels none.  *)
(***************************************************************************)
LEMMA QuietKeeps ==
  ASSUME AInv, TypeOK', DataInUse', UNCHANGED client,
         \A id \in Nodes : /\ query'[id].in_use = query[id].in_use
                           /\ query'[id].ticket = query[id].ticket
                           /\ query'[id].canceled_req = query[id].canceled_req,
         \A id \in Nodes : Called(id)' = Called(id),
         Calling' => Calling /\ node' = node
  PROVE  AInv'
<1>1. InUse' = InUse
  BY DEF InUse
<1>2. TicketsOwn'
  BY <1>1 DEF AInv, TicketsOwn, client, InUse
<1>3. CallInUse'
  BY <1>1 DEF AInv, CallInUse
<1>4. HandleOwns'
  BY <1>1 DEF AInv, HandleOwns, client
<1>5. MarkTrue'
  BY <1>1 DEF AInv, MarkTrue, client, InUse
<1>6. NotAsked'
  BY DEF AInv, NotAsked, client
<1>7. ASSUME NEW t \in Tickets PROVE Pending(t)' = Pending(t)
  BY <1>1 DEF Pending, Called, InUse
<1>8. AnswerOnce'
  BY <1>7 DEF AInv, AnswerOnce, client, TypeOK, Tickets
<1>. QED BY <1>2, <1>3, <1>4, <1>5, <1>6, <1>8 DEF AInv

(***************************************************************************)
(* The slot of a query is freed: its callback ran, or it is cancelled.     *)
(***************************************************************************)
LEMMA ReleaseKeeps ==
  ASSUME AInv, TypeOK', NEW id \in InUse, NEW list \in Lists,
         query' = [query EXCEPT ![id] = BlankQuery],
         links'.data = [links.data EXCEPT ![id] = FALSE],
         UNCHANGED <<asked, told>>,
         NEW t0, t0 = query[id].ticket,
         handle' = [handle EXCEPT ![t0] = Nil],
         cancelled' \in {cancelled, cancelled \cup {t0}},
         told[t0] = IF t0 \in cancelled' THEN 0 ELSE 1,
         \A n \in InUse \ {id} : Called(n)' = Called(n),
         Calling' => node' \in InUse \ {id}
  PROVE  AInv'
<1>0. Nil \notin Nodes
  BY DEF Nil
<1>1. InUse' = InUse \ {id} /\ id \in Nodes
  BY DEF InUse, AInv, TypeOK, BlankQuery
<1>2. \A n \in InUse \ {id} : query'[n] = query[n] /\ n \in Nodes
  BY DEF InUse
<1>3. DataInUse'
  BY <1>1 DEF AInv, DataInUse, TypeOK, Links, InUse
<1>4. TicketsOwn'
  BY <1>1, <1>2 DEF AInv, TicketsOwn
<1>5. CallInUse'
  BY <1>1 DEF CallInUse
<1>6. t0 \in Tickets /\ t0 \in 1 .. asked
  BY DEF AInv, TicketsOwn, TypeOK, Tickets
<1>7. HandleOwns'
  <2>. SUFFICES ASSUME NEW t \in Tickets, NEW n \in Nodes, handle'[t] = n
                PROVE  /\ n \in InUse' /\ query'[n].ticket = t /\ ~ query'[n].canceled_req
                       /\ ~ Called(n)'
    BY DEF HandleOwns
  <2>1. handle[t] = n /\ t # t0
    BY <1>6, <1>0 DEF AInv, TypeOK
  <2>2. n \in InUse \ {id} /\ query[n].ticket = t /\ ~ query[n].canceled_req /\ ~ Called(n)
    BY <2>1 DEF AInv, HandleOwns
  <2>. QED BY <1>1, <1>2, <2>2
<1>8. \A n \in InUse \ {id} : query[n].ticket # t0
  BY DEF AInv, TicketsOwn
<1>9. MarkTrue'
  BY <1>1, <1>2, <1>8 DEF AInv, MarkTrue
<1>10. NotAsked'
  BY <1>6 DEF AInv, NotAsked, TypeOK
<1>11. ASSUME NEW t \in Tickets, t # t0 PROVE Pending(t)' <=> Pending(t)
  <2>1. ASSUME NEW n \in InUse \ {id}
        PROVE  (query[n].ticket = t /\ ~ Called(n)) <=> (query[n].ticket = t /\ ~ Called(n))'
    BY <1>2, <2>1
  <2>. QED BY <1>1, <2>1, <1>11 DEF Pending, Called
<1>12. ~ Pending(t0)'
  BY <1>1, <1>2, <1>8 DEF Pending
<1>13. ASSUME NEW t \in 1 .. asked
       PROVE  told'[t] = IF Pending(t)' \/ t \in cancelled' THEN 0 ELSE 1
  <2>1. t \in Tickets
    BY DEF AInv, TypeOK, Tickets
  <2>2. CASE t = t0
    BY <1>12, <2>2
  <2>3. CASE t # t0
    <3>1. Pending(t)' <=> Pending(t)
      BY <1>11, <2>1, <2>3
    <3>2. t \in cancelled' <=> t \in cancelled
      BY <2>3
    <3>. QED BY <3>1, <3>2 DEF AInv, AnswerOnce
  <2>. QED BY <2>2, <2>3
<1>14. AnswerOnce'
  BY <1>13 DEF AnswerOnce
<1>. QED BY <1>3, <1>4, <1>5, <1>7, <1>9, <1>10, <1>14 DEF AInv

-----------------------------------------------------------------------------
(* The client's calls.                                                       *)

LEMMA ListNames == "req" \in Lists /\ "reply" \in Lists
OBVIOUS

LEMMA ReleaseOf ==
  ASSUME TypeOK, NEW id \in Nodes, NEW list \in Lists, Release(id, list)
  PROVE  /\ free' \in Seq(Nodes) /\ links' \in Links /\ query' \in [Nodes -> Query]
         /\ links'.data = [links.data EXCEPT ![id] = FALSE]
         /\ query' = [query EXCEPT ![id] = BlankQuery]
<1>1. Delete(links, list, id) \in Links /\ Delete(links, list, id).data = links.data
  BY DeleteIs DEF TypeOK
<1>2. /\ Wipe(Delete(links, list, id), id) \in Links
      /\ Wipe(Delete(links, list, id), id).data = [links.data EXCEPT ![id] = FALSE]
  BY <1>1, WipeIs, ZenonT(40)
<1>3. query' = [query EXCEPT ![id] = BlankQuery] /\ query' \in [Nodes -> Query]
  BY BlankIsQuery DEF Release, TypeOK
<1>4. free' \in Seq(Nodes)
  BY DEF Release, TypeOK
<1>. QED BY <1>2, <1>3, <1>4 DEF Release

LEMMA GetHostKeeps ==
  ASSUME AInv, CommEvDNSGetHostByNameX
  PROVE  AInv'
<1>. DEFINE q == [BlankQuery EXCEPT !.in_use = TRUE, !.ticket = asked + 1]
<1>1. PICK id \in Nodes : id = Head(free)
  BY DEF AInv, TypeOK, CommEvDNSGetHostByNameX
<1>2. /\ q \in Query /\ q.in_use /\ q.ticket = asked + 1 /\ ~ q.canceled_req
  <2>1. asked + 1 \in Tickets
    BY DEF AInv, TypeOK, CommEvDNSGetHostByNameX, Tickets
  <2>2. q \in Query
    BY <2>1, BlankIsQuery DEF Query
  <2>3. q.in_use /\ q.ticket = asked + 1
    BY BlankIsQuery DEF Query
  <2>4. q.canceled_req = BlankQuery.canceled_req /\ ~ BlankQuery.canceled_req
    BY BlankIsQuery DEF Query, BlankQuery
  <2>. QED BY <2>2, <2>3, <2>4
<1>. HIDE DEF q
<1>3. query' = [query EXCEPT ![id] = q]
  BY <1>1 DEF CommEvDNSGetHostByNameX, q
<1>4. /\ asked' = asked + 1 /\ asked + 1 \in Tickets /\ asked \in Nat /\ MaxQueries \in Nat
      /\ handle' = [handle EXCEPT ![asked + 1] = id]
      /\ told' = told /\ cancelled' = cancelled
  BY <1>1 DEF CommEvDNSGetHostByNameX, AInv, TypeOK, Tickets
<1>5. free' \in Seq(Nodes) /\ query' \in [Nodes -> Query]
  BY <1>2, <1>3 DEF CommEvDNSGetHostByNameX, AInv, TypeOK
<1>6. /\ links' \in Links
      /\ links'.data = [links.data EXCEPT ![id] = TRUE]
  <2>1. Wipe(links, id) \in Links /\ Wipe(links, id).data = [links.data EXCEPT ![id] = FALSE]
    BY WipeIs DEF AInv, TypeOK
  <2>2. links' = AddTail(Wipe(links, id), "req", id)
    BY <1>1 DEF CommEvDNSGetHostByNameX
  <2>3. /\ links' \in Links
        /\ links'.data = [Wipe(links, id).data EXCEPT ![id] = TRUE]
    BY <2>1, <2>2, AddTailTyped, ListNames
  <2>. QED BY <2>1, <2>3 DEF AInv, TypeOK, Links
<1>7. TypeOK'
  <2>1. /\ pc' \in {"loop", "write", "walk", "callback"} /\ ret' \in {"loop", "callback"}
    BY DEF CommEvDNSGetHostByNameX, AInv, TypeOK, Callable
  <2>5. armed' \in Nat /\ due' \in Nat /\ timer_id' \in BOOLEAN
    <3>1. armed \in Nat /\ due \in Nat /\ timer_id \in BOOLEAN
      BY DEF AInv, TypeOK
    <3>2. CASE timer_id
      BY <3>1, <3>2 DEF CommEvDNSGetHostByNameX, timer
    <3>3. CASE ~ timer_id
      <4>1. AddTimer
        BY <3>3 DEF CommEvDNSGetHostByNameX
      <4>. QED BY <3>1, <4>1 DEF AddTimer
    <3>. QED BY <3>2, <3>3
  <2>6. {timer_id', write_event', rxmit', late'} \subseteq BOOLEAN
    BY <2>5 DEF CommEvDNSGetHostByNameX, AInv, TypeOK, walk, wire
  <2>2. net' \subseteq Nodes /\ handler' \in {"walk", "data"} /\ node' \in Pointer
    BY DEF CommEvDNSGetHostByNameX, AInv, TypeOK, walk, wire
  <2>3. handle' \in [Tickets -> Pointer] /\ asked' \in 0 .. MaxQueries
    BY <1>4 DEF AInv, TypeOK, Pointer, Tickets
  <2>4. told' \in [Tickets -> Nat] /\ cancelled' \subseteq Tickets
    BY <1>4 DEF AInv, TypeOK
  <2>. QED BY <1>5, <1>6, <2>1, <2>2, <2>3, <2>4, <2>5, <2>6 DEF TypeOK
<1>8. id \notin InUse /\ InUse' = InUse \cup {id}
  BY <1>1, <1>2, <1>3 DEF InUse, CommEvDNSGetHostByNameX, AInv, TypeOK
<1>9. \A n \in InUse : query'[n] = query[n] /\ n # id /\ n \in Nodes
  BY <1>3, <1>8 DEF InUse
<1>10. query'[id] = q
  BY <1>3 DEF AInv, TypeOK
<1>11. \A t \in 1 .. asked : t # asked + 1 /\ t \in Tickets
  BY <1>4 DEF Tickets
<1>12. (Calling' <=> Calling) /\ node' = node
  BY DEF CommEvDNSGetHostByNameX, Calling, Callable, walk
<1>13. \A n \in Nodes : Called(n)' = Called(n)
  BY <1>12 DEF Called, Calling
<1>14. ~ Called(id)
  BY <1>8 DEF AInv, CallInUse, Called
<1>15. DataInUse'
  BY <1>6, <1>8 DEF AInv, DataInUse, TypeOK, Links, InUse
<1>16. TicketsOwn'
  <2>1. \A n \in InUse' : query'[n].ticket \in 1 .. asked'
    BY <1>2, <1>4, <1>8, <1>9, <1>10 DEF AInv, TicketsOwn
  <2>2. ASSUME NEW a \in InUse', NEW b \in InUse', query'[a].ticket = query'[b].ticket
        PROVE  a = b
    <3>1. \A n \in InUse : query'[n].ticket # asked + 1
      BY <1>9, <1>11 DEF AInv, TicketsOwn
    <3>2. CASE a = id \/ b = id
      BY <1>2, <1>8, <1>10, <2>2, <3>1, <3>2
    <3>3. CASE a # id /\ b # id
      BY <1>8, <1>9, <2>2, <3>3 DEF AInv, TicketsOwn
    <3>. QED BY <3>2, <3>3
  <2>. QED BY <2>1, <2>2 DEF TicketsOwn
<1>17. CallInUse'
  BY <1>8, <1>12 DEF AInv, CallInUse
<1>18. HandleOwns'
  <2>. SUFFICES ASSUME NEW t \in Tickets, NEW n \in Nodes, handle'[t] = n
                PROVE  /\ n \in InUse' /\ query'[n].ticket = t /\ ~ query'[n].canceled_req
                       /\ ~ Called(n)'
    BY DEF HandleOwns
  <2>1. CASE t = asked + 1
    <3>1. n = id
      BY <1>4, <2>1 DEF AInv, TypeOK
    <3>. QED BY <1>2, <1>8, <1>10, <1>13, <1>14, <2>1, <3>1
  <2>2. CASE t # asked + 1
    <3>1. handle[t] = n
      BY <1>4, <2>2 DEF AInv, TypeOK
    <3>2. n \in InUse /\ query[n].ticket = t /\ ~ query[n].canceled_req /\ ~ Called(n)
      BY <3>1 DEF AInv, HandleOwns
    <3>. QED BY <1>8, <1>9, <1>13, <3>2
  <2>. QED BY <2>1, <2>2
<1>19. asked + 1 \notin cancelled /\ told[asked + 1] = 0
  BY <1>4 DEF AInv, NotAsked
<1>20. MarkTrue'
  BY <1>2, <1>4, <1>8, <1>9, <1>10, <1>19 DEF AInv, MarkTrue
<1>21. NotAsked'
  BY <1>4 DEF AInv, NotAsked, Tickets
<1>22. ASSUME NEW t \in 1 .. asked PROVE Pending(t)' <=> Pending(t)
  BY <1>2, <1>8, <1>9, <1>10, <1>11, <1>13 DEF Pending, Called
<1>23. ASSUME NEW t, t = asked + 1 PROVE Pending(t)'
  <2>1. id \in InUse' /\ query'[id].ticket = t /\ ~ Called(id)'
    BY <1>2, <1>8, <1>10, <1>13, <1>14, <1>23
  <2>. QED BY <2>1 DEF Pending, Called
<1>24. AnswerOnce'
  <2>. SUFFICES ASSUME NEW t \in 1 .. asked'
                PROVE  told'[t] = IF Pending(t)' \/ t \in cancelled' THEN 0 ELSE 1
    BY DEF AnswerOnce
  <2>1. CASE t = asked + 1
    <3>1. Pending(t)'
      BY <1>23, <2>1
    <3>. QED BY <1>4, <1>19, <2>1, <3>1
  <2>2. CASE t # asked + 1
    <3>1. t \in 1 .. asked
      BY <1>4, <2>2
    <3>. QED BY <1>4, <1>22, <3>1 DEF AInv, AnswerOnce
  <2>. QED BY <2>1, <2>2
<1>. QED BY <1>7, <1>15, <1>16, <1>17, <1>18, <1>20, <1>21, <1>24 DEF AInv

LEMMA PendingUntold ==
  ASSUME AInv, NEW id \in InUse, ~ Called(id), NEW t, t = query[id].ticket
  PROVE  /\ t \in Tickets /\ t \in 1 .. asked /\ told[t] = 0
         /\ t \in cancelled <=> query[id].canceled_req
<1>1. t \in 1 .. asked /\ t \in Tickets
  BY DEF AInv, TicketsOwn, TypeOK, Tickets
<1>2. Pending(t)
  BY DEF Pending, Called
<1>3. told[t] = 0
  BY <1>1, <1>2 DEF AInv, AnswerOnce
<1>. QED BY <1>1, <1>3 DEF AInv, MarkTrue

LEMMA CancelKeeps ==
  ASSUME AInv, NEW t \in Tickets, CommEvDNSCancelPendingRequest(t)
  PROVE  AInv'
<1>1. PICK id \in Nodes : id = handle[t]
  BY DEF AInv, TypeOK, Pointer, CommEvDNSCancelPendingRequest
<1>2. id \in InUse /\ query[id].ticket = t /\ ~ query[id].canceled_req /\ ~ Called(id)
  BY <1>1 DEF AInv, HandleOwns
<1>3. t \in 1 .. asked /\ told[t] = 0
  BY <1>2, PendingUntold
<1>4. /\ handle' = [handle EXCEPT ![t] = Nil] /\ cancelled' = cancelled \cup {t}
      /\ asked' = asked /\ told' = told
      /\ (Calling' <=> Calling) /\ node' = node
  BY DEF CommEvDNSCancelPendingRequest, walk, Calling
<1>5. \A n \in Nodes : Called(n)' = Called(n)
  BY <1>4 DEF Called, Calling
<1>6. /\ handle' \in [Tickets -> Pointer] /\ cancelled' \subseteq Tickets
      /\ asked' \in 0 .. MaxQueries /\ told' \in [Tickets -> Nat]
  BY <1>4 DEF AInv, TypeOK, Pointer
<1>7. /\ {timer_id', write_event', rxmit', late'} \subseteq BOOLEAN
      /\ armed' \in Nat /\ due' \in Nat /\ net' \subseteq Nodes
      /\ pc' \in {"loop", "write", "walk", "callback"} /\ ret' \in {"loop", "callback"}
      /\ handler' \in {"walk", "data"} /\ node' \in Pointer
  BY DEF CommEvDNSCancelPendingRequest, AInv, TypeOK, timer, wire, walk
<1>8. CASE query[id].waiting_reply
  <2>1. /\ query' = [query EXCEPT ![id].canceled_req = TRUE]
        /\ free' = free /\ links' = links
    BY <1>1, <1>8 DEF CommEvDNSCancelPendingRequest
  <2>2. query' \in [Nodes -> Query]
    BY <2>1, ZenonT(40) DEF AInv, TypeOK, Query
  <2>3. TypeOK'
    BY <1>6, <1>7, <2>1, <2>2 DEF AInv, TypeOK
  <2>4. \A n \in Nodes : /\ query'[n].in_use = query[n].in_use
                         /\ query'[n].ticket = query[n].ticket
                         /\ n # id => query'[n].canceled_req = query[n].canceled_req
    BY <2>1 DEF AInv, TypeOK, Query
  <2>5. query'[id].canceled_req
    BY <2>1 DEF AInv, TypeOK, Query
  <2>6. InUse' = InUse
    BY <2>4 DEF InUse
  <2>7. DataInUse' /\ TicketsOwn' /\ CallInUse'
    BY <1>4, <2>1, <2>4, <2>6 DEF AInv, DataInUse, TicketsOwn, CallInUse, InUse
  <2>8. HandleOwns'
    <3>. SUFFICES ASSUME NEW s \in Tickets, NEW n \in Nodes, handle'[s] = n
                  PROVE  /\ n \in InUse' /\ query'[n].ticket = s /\ ~ query'[n].canceled_req
                         /\ ~ Called(n)'
      BY DEF HandleOwns
    <3>1. handle[s] = n /\ s # t
      BY <1>4 DEF AInv, TypeOK, Nil
    <3>2. n \in InUse /\ query[n].ticket = s /\ ~ query[n].canceled_req /\ ~ Called(n)
      BY <3>1 DEF AInv, HandleOwns
    <3>3. n # id
      BY <1>2, <3>1, <3>2
    <3>. QED BY <1>5, <2>4, <2>6, <3>2, <3>3
  <2>9. MarkTrue'
    <3>. SUFFICES ASSUME NEW n \in InUse
                  PROVE  query'[n].canceled_req <=> query'[n].ticket \in cancelled'
      BY <2>6 DEF MarkTrue
    <3>1. CASE n = id
      BY <1>2, <1>4, <2>4, <2>5, <3>1
    <3>2. CASE n # id
      <4>1. query[n].ticket # t
        BY <1>2, <3>2 DEF AInv, TicketsOwn
      <4>2. query'[n].ticket = query[n].ticket
            /\ query'[n].canceled_req = query[n].canceled_req
        BY <2>4, <3>2 DEF InUse
      <4>. QED BY <1>4, <4>1, <4>2 DEF AInv, MarkTrue
    <3>. QED BY <3>1, <3>2
  <2>10. NotAsked'
    BY <1>3, <1>4 DEF AInv, NotAsked, TypeOK
  <2>11. ASSUME NEW s \in Tickets PROVE Pending(s)' <=> Pending(s)
    <3>1. \A n \in InUse : query'[n].ticket = query[n].ticket /\ Called(n)' = Called(n)
      BY <1>5, <2>4 DEF InUse
    <3>. QED BY <2>6, <3>1 DEF Pending, Called
  <2>12. AnswerOnce'
    <3>. SUFFICES ASSUME NEW s \in 1 .. asked
                  PROVE  told[s] = IF Pending(s)' \/ s \in cancelled' THEN 0 ELSE 1
      BY <1>4 DEF AnswerOnce
    <3>1. s \in Tickets
      BY DEF AInv, TypeOK, Tickets
    <3>. QED BY <1>3, <1>4, <2>11, <3>1 DEF AInv, AnswerOnce
  <2>. QED BY <2>3, <2>7, <2>8, <2>9, <2>10, <2>12 DEF AInv
<1>9. CASE ~ query[id].waiting_reply
  <2>1. Release(id, "req")
    BY <1>1, <1>9 DEF CommEvDNSCancelPendingRequest
  <2>2. /\ free' \in Seq(Nodes) /\ links' \in Links /\ query' \in [Nodes -> Query]
        /\ links'.data = [links.data EXCEPT ![id] = FALSE]
        /\ query' = [query EXCEPT ![id] = BlankQuery]
    BY <2>1, ReleaseOf, ListNames DEF AInv
  <2>3. TypeOK'
    BY <1>6, <1>7, <2>2 DEF TypeOK
  <2>4. \A n \in InUse \ {id} : Called(n)' = Called(n)
    BY <1>5 DEF InUse
  <2>5. Calling' => node' \in InUse \ {id}
    BY <1>2, <1>4 DEF AInv, CallInUse, Called
  <2>6. told[t] = IF t \in cancelled' THEN 0 ELSE 1
    BY <1>3, <1>4
  <2>. QED BY <1>2, <1>4, <2>2, <2>3, <2>4, <2>5, <2>6, ReleaseKeeps, ListNames
<1>. QED BY <1>8, <1>9

(***************************************************************************)
(* The callback is called, with a reply or without one.                    *)
(***************************************************************************)
LEMMA TellKeeps ==
  ASSUME AInv, NEW id \in InUse, pc \in {"loop", "walk"}, ~ query[id].canceled_req,
         NEW by \in {"walk", "data"}, Tell(query[id], by, id), late' \in BOOLEAN
  PROVE  AInv'
<1>. DEFINE t == query[id].ticket
<1>1. ~ Calling /\ Calling' /\ node' = id /\ id \in Nodes
  BY DEF Calling, Tell, InUse
<1>2. t \in Tickets /\ t \in 1 .. asked /\ told[t] = 0 /\ t \notin cancelled
  BY <1>1, PendingUntold DEF Called
<1>. HIDE DEF t
<1>3. /\ told' = [told EXCEPT ![t] = @ + 1] /\ handle' = [handle EXCEPT ![t] = Nil]
      /\ UNCHANGED <<free, query, links, asked, cancelled>>
  BY DEF Tell, t, slots
<1>4. /\ told' \in [Tickets -> Nat] /\ handle' \in [Tickets -> Pointer]
  BY <1>2, <1>3 DEF AInv, TypeOK, Pointer
<1>5. /\ {timer_id', write_event', rxmit', late'} \subseteq BOOLEAN
      /\ armed' \in Nat /\ due' \in Nat /\ net' \subseteq Nodes
      /\ pc' \in {"loop", "write", "walk", "callback"} /\ ret' \in {"loop", "callback"}
      /\ handler' \in {"walk", "data"} /\ node' \in Pointer
  BY <1>1 DEF Tell, AInv, TypeOK, timer, Pointer
<1>6. TypeOK'
  BY <1>3, <1>4, <1>5 DEF AInv, TypeOK
<1>7. InUse' = InUse
  BY <1>3 DEF InUse
<1>8. DataInUse' /\ TicketsOwn' /\ MarkTrue'
  BY <1>3, <1>7 DEF AInv, DataInUse, TicketsOwn, MarkTrue
<1>9. CallInUse'
  BY <1>1, <1>7 DEF CallInUse
<1>10. \A n \in InUse : n # id => query[n].ticket # t
  BY DEF AInv, TicketsOwn, t
<1>11. \A n \in Nodes : Called(n)' <=> n = id
  BY <1>1 DEF Called, Calling
<1>12. HandleOwns'
  <2>. SUFFICES ASSUME NEW s \in Tickets, NEW n \in Nodes, handle'[s] = n
                PROVE  /\ n \in InUse /\ query[n].ticket = s /\ ~ query[n].canceled_req
                       /\ n # id
    BY <1>3, <1>7, <1>11 DEF HandleOwns
  <2>1. handle[s] = n /\ s # t
    BY <1>2, <1>3 DEF AInv, TypeOK, Nil
  <2>. QED BY <2>1 DEF AInv, HandleOwns, t
<1>13. NotAsked'
  BY <1>2, <1>3 DEF AInv, NotAsked, TypeOK
<1>14. ASSUME NEW s PROVE Pending(s)' <=> \E n \in InUse : query[n].ticket = s /\ n # id
  <2>1. \A n \in InUse : Called(n)' <=> n = id
    BY <1>11 DEF InUse
  <2>. QED BY <1>3, <1>7, <2>1 DEF Pending, Called
<1>15. ASSUME NEW s PROVE Pending(s) <=> \E n \in InUse : query[n].ticket = s
  BY <1>1 DEF Pending
<1>16. AnswerOnce'
  <2>. SUFFICES ASSUME NEW s \in 1 .. asked
                PROVE  told'[s] = IF Pending(s)' \/ s \in cancelled THEN 0 ELSE 1
    BY <1>3 DEF AnswerOnce
  <2>1. s \in Tickets
    BY DEF AInv, TypeOK, Tickets
  <2>2. CASE s = t
    <3>1. told'[s] = 1
      BY <1>2, <1>3, <2>1, <2>2 DEF AInv, TypeOK
    <3>2. ~ Pending(s)'
      BY <1>10, <1>14, <2>2
    <3>. QED BY <1>2, <2>2, <3>1, <3>2
  <2>3. CASE s # t
    <3>1. told'[s] = told[s]
      BY <1>3, <2>1, <2>3 DEF AInv, TypeOK
    <3>2. Pending(s)' <=> Pending(s)
      BY <1>14, <1>15, <2>3 DEF t
    <3>. QED BY <3>1, <3>2 DEF AInv, AnswerOnce
  <2>. QED BY <2>2, <2>3
<1>. QED BY <1>6, <1>8, <1>9, <1>12, <1>13, <1>16 DEF AInv

-----------------------------------------------------------------------------
(* The handlers.                                                             *)

(***************************************************************************)
(* A query whose client cancelled it, or was told, leaves its slot.        *)
(***************************************************************************)
LEMMA EndKeeps ==
  ASSUME AInv, NEW id \in InUse, NEW list \in Lists, Release(id, list), UNCHANGED client,
         IF Calling THEN node = id ELSE query[id].canceled_req,
         ~ Calling',
         {timer_id', write_event', rxmit', late'} \subseteq BOOLEAN,
         armed' \in Nat, due' \in Nat, net' \subseteq Nodes,
         pc' \in {"loop", "write", "walk", "callback"}, ret' \in {"loop", "callback"},
         handler' \in {"walk", "data"}, node' \in Pointer
  PROVE  AInv'
<1>. DEFINE t == query[id].ticket
<1>1. id \in Nodes
  BY DEF InUse
<1>2. t \in Tickets /\ t \in 1 .. asked
  BY DEF AInv, TicketsOwn, TypeOK, Tickets
<1>3. /\ free' \in Seq(Nodes) /\ links' \in Links /\ query' \in [Nodes -> Query]
      /\ links'.data = [links.data EXCEPT ![id] = FALSE]
      /\ query' = [query EXCEPT ![id] = BlankQuery]
  BY <1>1, ReleaseOf DEF AInv
<1>4. TypeOK'
  BY <1>3 DEF AInv, TypeOK, client
<1>5. told[t] = IF t \in cancelled THEN 0 ELSE 1
  <2>1. CASE Calling
    <3>1. ~ Pending(t)
      BY <2>1 DEF AInv, TicketsOwn, Pending
    <3>. QED BY <1>2, <3>1 DEF AInv, AnswerOnce
  <2>2. CASE ~ Calling
    <3>1. t \in cancelled
      BY <2>2 DEF AInv, MarkTrue
    <3>. QED BY <1>2, <3>1 DEF AInv, AnswerOnce
  <2>. QED BY <2>1, <2>2
<1>6. handle[t] = Nil
  <2>1. ASSUME NEW n \in Nodes, handle[t] = n PROVE FALSE
    <3>1. n \in InUse /\ query[n].ticket = t /\ ~ query[n].canceled_req /\ ~ Called(n)
      BY <1>2, <2>1 DEF AInv, HandleOwns
    <3>2. n = id
      BY <3>1 DEF AInv, TicketsOwn
    <3>. QED BY <3>1, <3>2 DEF Called
  <2>. QED BY <1>2, <2>1 DEF AInv, TypeOK, Pointer
<1>7. handle' = [handle EXCEPT ![t] = Nil]
  BY <1>2, <1>6 DEF AInv, TypeOK, client
<1>8. \A n \in InUse \ {id} : Called(n)' = Called(n)
  BY DEF Called, Calling
<1>. HIDE DEF t
<1>. QED BY <1>3, <1>4, <1>5, <1>7, <1>8, ReleaseKeeps DEF client, t

LEMMA CallbackReturnsKeeps ==
  ASSUME AInv, CallbackReturns
  PROVE  AInv'
<1>1. Calling /\ node \in InUse /\ node \in Nodes
  BY DEF CallbackReturns, Calling, AInv, CallInUse, InUse
<1>2. ~ Calling'
  BY DEF CallbackReturns, Calling
<1>3. links.next[node] \in Pointer
  BY <1>1 DEF AInv, TypeOK, Links
<1>4. node' \in Pointer
  BY <1>3 DEF CallbackReturns, Pointer
<1>5. /\ {timer_id', write_event', rxmit', late'} \subseteq BOOLEAN
      /\ armed' \in Nat /\ due' \in Nat /\ net' \subseteq Nodes
      /\ pc' \in {"loop", "write", "walk", "callback"} /\ ret' \in {"loop", "callback"}
      /\ handler' \in {"walk", "data"}
  BY DEF CallbackReturns, AInv, TypeOK, timer, wire
<1>6. Release(node, "reply") /\ UNCHANGED client
  BY DEF CallbackReturns
<1>. QED BY <1>1, <1>2, <1>4, <1>5, <1>6, EndKeeps, ListNames

LEMMA TimedOutCancelledKeeps ==
  ASSUME AInv, TimedOutCancelled
  PROVE  AInv'
<1>1. node \in Nodes /\ node \in InUse /\ query[node].canceled_req
  BY DEF TimedOutCancelled, Visiting, Visited, AInv, TypeOK, Pointer, DataInUse, InUse
<1>2. ~ Calling /\ ~ Calling'
  BY DEF TimedOutCancelled, Visiting, Calling
<1>3. links.next[node] \in Pointer
  BY <1>1 DEF AInv, TypeOK, Links
<1>4. node' \in Pointer
  BY <1>3 DEF TimedOutCancelled
<1>5. /\ {timer_id', write_event', rxmit', late'} \subseteq BOOLEAN
      /\ armed' \in Nat /\ due' \in Nat /\ net' \subseteq Nodes
      /\ pc' \in {"loop", "write", "walk", "callback"} /\ ret' \in {"loop", "callback"}
      /\ handler' \in {"walk", "data"}
  BY DEF TimedOutCancelled, AInv, TypeOK, timer, wire
<1>6. Release(node, "reply") /\ UNCHANGED client
  BY DEF TimedOutCancelled
<1>. QED BY <1>1, <1>2, <1>4, <1>5, <1>6, EndKeeps, ListNames

LEMMA TimedOutKeeps ==
  ASSUME AInv, TimedOut
  PROVE  AInv'
<1>1. node \in InUse /\ ~ query[node].canceled_req /\ pc = "walk"
  BY DEF TimedOut, Visiting, Visited, AInv, TypeOK, Pointer, DataInUse, InUse
<1>2. Tell(query[node], "walk", node) /\ late' \in BOOLEAN
  BY DEF TimedOut, Visited, AInv, TypeOK
<1>. QED BY <1>1, <1>2, TellKeeps

LEMMA DataEventKeeps ==
  ASSUME AInv, NEW id \in net, CommEvDNSDataEvent(id)
  PROVE  AInv'
<1>1. id \in InUse /\ id \in Nodes /\ pc = "loop" /\ ~ Calling
  BY DEF CommEvDNSDataEvent, AInv, TypeOK, InUse, Calling
<1>2. late' \in BOOLEAN
  <2>1. late \in BOOLEAN /\ query[id].waiting_reply \in BOOLEAN
    BY <1>1 DEF AInv, TypeOK, Query
  <2>2. late' = (late \/ ~ query[id].waiting_reply)
    BY DEF CommEvDNSDataEvent
  <2>. QED BY <2>1, <2>2
<1>3. CASE query[id].canceled_req
  <2>1. Release(id, "reply") /\ UNCHANGED client /\ ~ Calling'
    BY <1>1, <1>3 DEF CommEvDNSDataEvent, Calling
  <2>2. /\ {timer_id', write_event', rxmit', late'} \subseteq BOOLEAN
        /\ armed' \in Nat /\ due' \in Nat /\ net' \subseteq Nodes
        /\ pc' \in {"loop", "write", "walk", "callback"} /\ ret' \in {"loop", "callback"}
        /\ handler' \in {"walk", "data"} /\ node' \in Pointer
    BY <1>2, <1>3 DEF CommEvDNSDataEvent, AInv, TypeOK, timer, walk
  <2>. QED BY <1>1, <1>3, <2>1, <2>2, EndKeeps, ListNames
<1>4. CASE ~ query[id].canceled_req
  BY <1>1, <1>2, <1>4, TellKeeps DEF CommEvDNSDataEvent
<1>. QED BY <1>3, <1>4

(***************************************************************************)
(* The silent steps.                                                       *)
(***************************************************************************)
LEMMA LinksStep ==
  ASSUME AInv, links' \in Links, links'.data = links.data, UNCHANGED <<query, client>>,
         free' = free,
         {timer_id', write_event', rxmit', late'} \subseteq BOOLEAN,
         armed' \in Nat, due' \in Nat, net' \subseteq Nodes,
         pc' \in {"loop", "write", "walk", "callback"}, ret' \in {"loop", "callback"},
         handler' \in {"walk", "data"}, node' \in Pointer,
         Calling' <=> Calling, Calling => node' = node
  PROVE  AInv'
<1>1. TypeOK'
  BY DEF AInv, TypeOK, client
<1>2. DataInUse'
  BY DEF AInv, DataInUse
<1>3. \A id \in Nodes : Called(id)' = Called(id)
  BY DEF Called, Calling
<1>. QED BY <1>1, <1>2, <1>3, QuietKeeps

LEMMA WriteEndsKeeps ==
  ASSUME AInv, WriteEnds
  PROVE  AInv'
<1>1. links' \in Links /\ links'.data = links.data
  <2>1. CASE Popped = Nil
    BY <2>1 DEF WriteEnds, AInv, TypeOK
  <2>2. CASE Popped # Nil
    BY <2>2, PopHeadIs, ListNames DEF WriteEnds, AInv, TypeOK, Popped
  <2>. QED BY <2>1, <2>2
<1>2. /\ {timer_id', write_event', rxmit', late'} \subseteq BOOLEAN
      /\ armed' \in Nat /\ due' \in Nat /\ net' \subseteq Nodes
      /\ pc' \in {"loop", "write", "walk", "callback"} /\ ret' \in {"loop", "callback"}
      /\ handler' \in {"walk", "data"} /\ node' \in Pointer
  BY DEF WriteEnds, AInv, TypeOK, timer, wire, walk
<1>3. (Calling' <=> Calling) /\ node' = node
  BY DEF WriteEnds, Calling, AInv, TypeOK, walk
<1>4. UNCHANGED <<query, client>> /\ free' = free
  BY DEF WriteEnds
<1>. QED BY <1>1, <1>2, <1>3, <1>4, LinksStep

LEMMA WriteFailsKeeps ==
  ASSUME AInv, WriteFails
  PROVE  AInv'
<1>1. /\ Popped \in Nodes /\ links.data[Popped]
      /\ PopHead(links, "req") \in Links /\ PopHead(links, "req").data = links.data
  BY PopHeadIs, ListNames DEF WriteFails, MoreQueries, Popped, AInv, TypeOK
<1>2. links' \in Links /\ links'.data = [links.data EXCEPT ![Popped] = TRUE]
  <2>1. PICK d \in Links : d = PopHead(links, "req")
    BY <1>1
  <2>2. links' = AddHead(d, "req", Popped)
    BY <2>1 DEF WriteFails
  <2>3. AddHead(d, "req", Popped) \in Links
        /\ AddHead(d, "req", Popped).data = [d.data EXCEPT ![Popped] = TRUE]
    BY <1>1, AddHeadTyped, ListNames
  <2>. QED BY <1>1, <2>1, <2>2, <2>3
<1>3. links'.data = links.data
  BY <1>1, <1>2 DEF AInv, TypeOK, Links
<1>4. /\ {timer_id', write_event', rxmit', late'} \subseteq BOOLEAN
      /\ armed' \in Nat /\ due' \in Nat /\ net' \subseteq Nodes
      /\ pc' \in {"loop", "write", "walk", "callback"} /\ ret' \in {"loop", "callback"}
      /\ handler' \in {"walk", "data"} /\ node' \in Pointer
  BY DEF WriteFails, AInv, TypeOK, timer, wire, walk
<1>5. (Calling' <=> Calling) /\ node' = node
  BY DEF WriteFails, Calling, AInv, TypeOK, walk
<1>6. UNCHANGED <<query, client>> /\ free' = free
  BY DEF WriteFails
<1>. QED BY <1>2, <1>3, <1>4, <1>5, <1>6, LinksStep

LEMMA MoveStep ==
  ASSUME AInv, NEW id \in Nodes, links.data[id],
         links' \in Links, links'.data = [links.data EXCEPT ![id] = TRUE],
         query' \in [Nodes -> Query],
         \A n \in Nodes : /\ query'[n].in_use = query[n].in_use
                          /\ query'[n].ticket = query[n].ticket
                          /\ query'[n].canceled_req = query[n].canceled_req,
         free' = free, UNCHANGED client,
         {timer_id', write_event', rxmit', late'} \subseteq BOOLEAN,
         armed' \in Nat, due' \in Nat, net' \subseteq Nodes,
         pc' \in {"loop", "write", "walk", "callback"}, ret' \in {"loop", "callback"},
         handler' \in {"walk", "data"}, node' \in Pointer,
         Calling' <=> Calling, Calling => node' = node
  PROVE  AInv'
<1>1. TypeOK'
  BY DEF AInv, TypeOK, client
<1>2. DataInUse'
  BY DEF AInv, DataInUse, TypeOK, Links
<1>3. \A n \in Nodes : Called(n)' = Called(n)
  BY DEF Called, Calling
<1>. QED BY <1>1, <1>2, <1>3, QuietKeeps

LEMMA WriteQueryKeeps ==
  ASSUME AInv, WriteQuery
  PROVE  AInv'
<1>1. /\ Popped \in Nodes /\ links.data[Popped]
      /\ PopHead(links, "req") \in Links /\ PopHead(links, "req").data = links.data
  BY PopHeadIs, ListNames DEF WriteQuery, MoreQueries, Popped, AInv, TypeOK
<1>2. /\ Delete(PopHead(links, "req"), "req", Popped) \in Links
      /\ Delete(PopHead(links, "req"), "req", Popped).data = links.data
  BY <1>1, DeleteIs, ListNames
<1>3. links' \in Links /\ links'.data = [links.data EXCEPT ![Popped] = TRUE]
  <2>1. PICK d \in Links : d = Delete(PopHead(links, "req"), "req", Popped)
    BY <1>2
  <2>2. links' = AddTail(d, "reply", Popped)
    BY <2>1 DEF WriteQuery
  <2>. QED BY <1>1, <1>2, <2>1, <2>2, AddTailTyped, ListNames
<1>4. /\ query' \in [Nodes -> Query]
      /\ \A n \in Nodes : /\ query'[n].in_use = query[n].in_use
                          /\ query'[n].ticket = query[n].ticket
                          /\ query'[n].canceled_req = query[n].canceled_req
  <2>1. PICK id \in Nodes : id = Popped
    BY <1>1
  <2>2. /\ query \in [Nodes -> Query]
        /\ query' = [query EXCEPT ![id].req_count = @ + 1, ![id].waiting_reply = TRUE]
    BY <2>1 DEF WriteQuery, AInv, TypeOK
  <2>3. query' \in [Nodes -> Query]
    <3>1. query[id] \in Query /\ query[id].req_count + 1 \in Nat
      BY <2>2 DEF Query
    <3>2. [query[id] EXCEPT !.req_count = @ + 1, !.waiting_reply = TRUE] \in Query
      BY <3>1 DEF Query
    <3>3. query' = [query EXCEPT ![id] = [query[id] EXCEPT !.req_count = @ + 1,
                                                           !.waiting_reply = TRUE]]
      BY <2>2, <3>1 DEF Query
    <3>. QED BY <2>2, <3>2, <3>3
  <2>4. \A n \in Nodes : query'[n].in_use = query[n].in_use
    BY <2>2 DEF Query
  <2>5. \A n \in Nodes : query'[n].ticket = query[n].ticket
    BY <2>2 DEF Query
  <2>6. \A n \in Nodes : query'[n].canceled_req = query[n].canceled_req
    BY <2>2 DEF Query
  <2>. QED BY <2>3, <2>4, <2>5, <2>6
<1>5. /\ {timer_id', write_event', rxmit', late'} \subseteq BOOLEAN
      /\ armed' \in Nat /\ due' \in Nat /\ net' \subseteq Nodes
      /\ pc' \in {"loop", "write", "walk", "callback"} /\ ret' \in {"loop", "callback"}
      /\ handler' \in {"walk", "data"} /\ node' \in Pointer
  BY <1>1 DEF WriteQuery, AInv, TypeOK, timer, walk
<1>6. (Calling' <=> Calling) /\ node' = node
  BY DEF WriteQuery, Calling, walk
<1>7. free' = free /\ UNCHANGED client
  BY DEF WriteQuery
<1>. QED BY <1>1, <1>3, <1>4, <1>5, <1>6, <1>7, MoveStep

LEMMA ResendKeeps ==
  ASSUME AInv, Resend
  PROVE  AInv'
<1>1. node \in Nodes /\ links.data[node] /\ links \in Links
  BY DEF Resend, Visiting, AInv, TypeOK, Pointer
<1>2. Delete(links, "reply", node) \in Links /\ Delete(links, "reply", node).data = links.data
  BY <1>1, DeleteIs, ListNames
<1>3. links' \in Links /\ links'.data = [links.data EXCEPT ![node] = TRUE]
  <2>1. PICK d \in Links : d = Delete(links, "reply", node)
    BY <1>2
  <2>2. links' = AddTail(d, "req", node)
    BY <2>1 DEF Resend
  <2>. QED BY <1>1, <1>2, <2>1, <2>2, AddTailTyped, ListNames
<1>4. /\ query' \in [Nodes -> Query]
      /\ \A n \in Nodes : /\ query'[n].in_use = query[n].in_use
                          /\ query'[n].ticket = query[n].ticket
                          /\ query'[n].canceled_req = query[n].canceled_req
  <2>1. PICK id \in Nodes : id = node
    BY <1>1
  <2>2. /\ query \in [Nodes -> Query]
        /\ query' = [query EXCEPT ![id].waiting_reply = FALSE, ![id].retry = FALSE]
    BY <2>1 DEF Resend, AInv, TypeOK
  <2>3. query' \in [Nodes -> Query]
    BY <2>2, ZenonT(40) DEF Query
  <2>4. \A n \in Nodes : query'[n].in_use = query[n].in_use
    BY <2>2 DEF Query
  <2>5. \A n \in Nodes : query'[n].ticket = query[n].ticket
    BY <2>2 DEF Query
  <2>6. \A n \in Nodes : query'[n].canceled_req = query[n].canceled_req
    BY <2>2 DEF Query
  <2>. QED BY <2>3, <2>4, <2>5, <2>6
<1>5. node' \in Pointer
  BY <1>1, <1>3 DEF Resend, Links
<1>6. /\ {timer_id', write_event', rxmit', late'} \subseteq BOOLEAN
      /\ armed' \in Nat /\ due' \in Nat /\ net' \subseteq Nodes
      /\ pc' \in {"loop", "write", "walk", "callback"} /\ ret' \in {"loop", "callback"}
      /\ handler' \in {"walk", "data"}
  BY DEF Resend, AInv, TypeOK, timer, wire
<1>7. ~ Calling /\ ~ Calling'
  BY DEF Resend, Visiting, Calling
<1>8. free' = free /\ UNCHANGED client
  BY DEF Resend
<1>. QED BY <1>1, <1>3, <1>4, <1>5, <1>6, <1>7, <1>8, MoveStep

LEMMA TimePasses ==
  ASSUME AInv, NEW id \in Nodes, RetryPasses(id) \/ LookupPasses(id)
  PROVE  AInv'
<1>1. /\ query' \in [Nodes -> Query]
      /\ \A n \in Nodes : /\ query'[n].in_use = query[n].in_use
                          /\ query'[n].ticket = query[n].ticket
                          /\ query'[n].canceled_req = query[n].canceled_req
  <2>1. /\ query \in [Nodes -> Query]
        /\ \/ query' = [query EXCEPT ![id].retry = TRUE]
           \/ query' = [query EXCEPT ![id].lookup = TRUE]
    BY DEF RetryPasses, LookupPasses, AInv, TypeOK
  <2>2. query' \in [Nodes -> Query]
    <3>1. [query[id] EXCEPT !.retry = TRUE] \in Query /\ [query[id] EXCEPT !.lookup = TRUE] \in Query
      BY <2>1, ZenonT(40) DEF Query
    <3>2. query' = [query EXCEPT ![id] = [query[id] EXCEPT !.retry = TRUE]]
             \/ query' = [query EXCEPT ![id] = [query[id] EXCEPT !.lookup = TRUE]]
      BY <2>1
    <3>. QED BY <2>1, <3>1, <3>2
  <2>3. \A n \in Nodes : query'[n].in_use = query[n].in_use
    BY <2>1 DEF Query
  <2>4. \A n \in Nodes : query'[n].ticket = query[n].ticket
    BY <2>1 DEF Query
  <2>5. \A n \in Nodes : query'[n].canceled_req = query[n].canceled_req
    BY <2>1 DEF Query
  <2>. QED BY <2>2, <2>3, <2>4, <2>5
<1>2. /\ free' = free /\ links' = links /\ UNCHANGED client
      /\ (Calling' <=> Calling) /\ node' = node
  BY DEF RetryPasses, LookupPasses, Calling, walk
<1>3. TypeOK'
  BY <1>1, <1>2 DEF RetryPasses, LookupPasses, AInv, TypeOK, timer, wire, walk, client
<1>4. DataInUse'
  BY <1>1, <1>2 DEF AInv, DataInUse
<1>5. \A n \in Nodes : Called(n)' = Called(n)
  BY <1>2 DEF Called, Calling
<1>. QED BY <1>1, <1>2, <1>3, <1>4, <1>5, QuietKeeps

LEMMA ControlKeeps ==
  ASSUME AInv,
         \/ CommEvDNSWriteEvent \/ CommEvDNSPeriodicTimerEvent \/ StillWaits \/ WalkEnds
         \/ TimerExpires \/ UNCHANGED vars
  PROVE  AInv'
<1>1. links \in Links /\ links' = links /\ free' = free /\ UNCHANGED <<query, client>>
  BY DEF CommEvDNSWriteEvent, CommEvDNSPeriodicTimerEvent, StillWaits, WalkEnds, TimerExpires,
         vars, slots, client, AInv, TypeOK
<1>2. armed' \in Nat /\ due' \in Nat
  BY DEF CommEvDNSWriteEvent, CommEvDNSPeriodicTimerEvent, StillWaits, WalkEnds, TimerExpires,
         vars, timer, AddTimer, AInv, TypeOK
<1>3. net' \subseteq Nodes
  BY DEF CommEvDNSWriteEvent, CommEvDNSPeriodicTimerEvent, StillWaits, WalkEnds, TimerExpires,
         vars, wire, AInv, TypeOK
<1>4. {timer_id', write_event', rxmit', late'} \subseteq BOOLEAN
  <2>1. timer_id' \in BOOLEAN
    BY DEF CommEvDNSWriteEvent, CommEvDNSPeriodicTimerEvent, StillWaits, WalkEnds,
           TimerExpires, vars, timer, AddTimer, AInv, TypeOK
  <2>2. write_event' \in BOOLEAN
    BY DEF CommEvDNSWriteEvent, CommEvDNSPeriodicTimerEvent, StillWaits, WalkEnds,
           TimerExpires, vars, AInv, TypeOK
  <2>3. rxmit' \in BOOLEAN /\ late' \in BOOLEAN
    BY DEF CommEvDNSWriteEvent, CommEvDNSPeriodicTimerEvent, StillWaits, WalkEnds,
           TimerExpires, vars, walk, wire, AInv, TypeOK
  <2>. QED BY <2>1, <2>2, <2>3
<1>5. /\ pc' \in {"loop", "write", "walk", "callback"} /\ ret' \in {"loop", "callback"}
      /\ handler' \in {"walk", "data"}
  BY DEF CommEvDNSWriteEvent, CommEvDNSPeriodicTimerEvent, StillWaits, WalkEnds, TimerExpires,
         vars, walk, AInv, TypeOK
<1>6. links.head["reply"] \in Pointer /\ \A n \in Nodes : links.next[n] \in Pointer
  BY <1>1, ListNames DEF Links
<1>7. node' \in Pointer
  BY <1>6 DEF CommEvDNSWriteEvent, CommEvDNSPeriodicTimerEvent, StillWaits, Visiting, WalkEnds,
              TimerExpires, vars, walk, AInv, TypeOK, Pointer
<1>8. (Calling' <=> Calling) /\ (Calling => node' = node)
  BY DEF CommEvDNSWriteEvent, CommEvDNSPeriodicTimerEvent, StillWaits, Visiting, WalkEnds,
         TimerExpires, Waits, vars, walk, Calling
<1>. QED BY <1>1, <1>2, <1>3, <1>4, <1>5, <1>7, <1>8, LinksStep

LEMMA NextAInv == AInv /\ [Next]_vars => AInv'
<1>. SUFFICES ASSUME AInv, [Next]_vars PROVE AInv'
  OBVIOUS
<1>1. CASE CommEvDNSGetHostByNameX
  BY <1>1, GetHostKeeps
<1>2. ASSUME NEW t \in Tickets, CommEvDNSCancelPendingRequest(t) PROVE AInv'
  BY <1>2, CancelKeeps
<1>3. ASSUME NEW id \in net, CommEvDNSDataEvent(id) PROVE AInv'
  BY <1>3, DataEventKeeps
<1>4. CASE Handler
  BY <1>4, WriteEndsKeeps, WriteQueryKeeps, WriteFailsKeeps, TimedOutKeeps,
     TimedOutCancelledKeeps, ResendKeeps, ControlKeeps, CallbackReturnsKeeps DEF Handler
<1>5. ASSUME NEW id \in Nodes, RetryPasses(id) \/ LookupPasses(id) PROVE AInv'
  BY <1>5, TimePasses
<1>6. CASE CommEvDNSWriteEvent \/ CommEvDNSPeriodicTimerEvent \/ TimerExpires \/ UNCHANGED vars
  BY <1>6, ControlKeeps
<1>. QED BY <1>1, <1>2, <1>3, <1>4, <1>5, <1>6 DEF Next

(***************************************************************************)
(* The callback of a query runs exactly once before its slot is freed, and *)
(* never after CommEvDNSCancelPendingRequest: whichever replies come, late *)
(* or twice, whatever the client does inside its callbacks.                *)
(***************************************************************************)
THEOREM QueriesAnsweredOnce == Spec => []AnswerOnce
<1>1. AInv => AnswerOnce
  BY DEF AInv
<1>. QED BY <1>1, InitAInv, NextAInv, PTL DEF Spec

-----------------------------------------------------------------------------
(***************************************************************************)
(* The inductive invariant of ListsExact.  While no reply came late, the   *)
(* pointers are two lists that hold the queries to be written and those    *)
(* that await their reply; and the query of the walk, like the one whose   *)
(* callback runs, still awaits its reply, so that the handlers unlink it   *)
(* from the list it is on.                                                 *)
(***************************************************************************)
FreeOnce == Distinct(free) /\ Elems(free) = Nodes \ InUse
AwaitInUse == Awaiting \subseteq InUse
Placed == Holds(links, "req", InUse \ Awaiting) /\ Holds(links, "reply", Awaiting)
WalkAwaits == /\ pc = "walk" => node \in Awaiting \cup {Nil}
              /\ Calling => node \in Awaiting
OnTime == Placed /\ WalkAwaits
LInv == AInv /\ FreeOnce /\ AwaitInUse /\ (late \/ OnTime)

LEMMA InitLInv == Init => LInv
<1>. SUFFICES ASSUME Init PROVE LInv
  OBVIOUS
<1>1. AInv
  BY InitAInv
<1>2. PICK n \in Nat : n = Cardinality(Nodes) /\ IsFiniteSet(Nodes)
  BY FS_CardinalityType
<1>3. /\ free \in [1 .. n -> Nodes] /\ free \in Seq(Nodes) /\ Len(free) = n
      /\ \A i \in 1 .. n, j \in 1 .. n : i < j => free[i] < free[j]
  BY <1>2 DEF Init
<1>4. \A i \in 1 .. n : free[i] \in Nat
  BY <1>3
<1>5. \A i \in 1 .. n, j \in 1 .. n : free[i] = free[j] => i = j
  BY <1>3, <1>4
<1>6. Elems(free) = Nodes
  <2>1. free \in Injection(1 .. n, Nodes)
    BY <1>3, <1>5 DEF Injection, IsInjective
  <2>2. Cardinality(1 .. n) = n
    <3>1. Cardinality(1 .. n) = (IF 1 > n THEN 0 ELSE n - 1 + 1)
      BY FS_Interval
    <3>. QED BY <3>1
  <2>3. free \in Surjection(1 .. n, Nodes)
    BY <1>2, <2>1, <2>2, FS_Injection
  <2>4. \A x \in Nodes : \E i \in 1 .. n : free[i] = x
    BY <2>3 DEF Surjection
  <2>. QED BY <1>3, <2>4 DEF Elems
<1>7. InUse = {} /\ Awaiting = {}
  BY DEF Init, InUse, Awaiting, BlankQuery
<1>8. FreeOnce
  BY <1>3, <1>5, <1>6, <1>7 DEF FreeOnce, Distinct
<1>9. Placed
  BY <1>7, EmptyHolds, ListNames DEF Placed, Init
<1>10. WalkAwaits
  BY DEF Init, WalkAwaits, Calling
<1>. QED BY <1>1, <1>7, <1>8, <1>9, <1>10 DEF LInv, AwaitInUse, OnTime

-----------------------------------------------------------------------------
(* What the operations do to both lists.                                     *)

Queued == InUse \ Awaiting

LEMMA TypedSets ==
  ASSUME AInv
  PROVE  /\ links \in Links /\ InUse \subseteq Nodes /\ Awaiting \subseteq Nodes
         /\ \A id \in Nodes : /\ id \in InUse <=> query[id].in_use
                              /\ id \in Awaiting <=> query[id].waiting_reply
BY DEF AInv, TypeOK, InUse, Awaiting

LEMMA TakeFrom ==
  ASSUME NEW d \in Links, NEW l \in Lists, NEW m \in Lists, l # m,
         NEW S, NEW T, Holds(d, l, S), Holds(d, m, T), S \cap T = {}, NEW id \in S,
         NEW e, e = Wipe(Delete(d, l, id), id)
  PROVE  Holds(e, l, S \ {id}) /\ Holds(e, m, T)
<1>1. id \in Nodes
  BY HeldNodes
<1>2. PICK f \in Links : f = Detach(d, l, id)
  BY <1>1, DetachTyped
<1>3. Holds(f, l, S \ {id}) /\ Holds(f, m, T)
  BY <1>2, DetachHolds
<1>4. e = Wipe(f, id)
  BY <1>2, DeleteHeld
<1>5. id \notin S \ {id} /\ id \notin T
  OBVIOUS
<1>6. Holds(Wipe(f, id), l, S \ {id})
  BY <1>1, <1>3, <1>5, WipeHolds
<1>7. Holds(Wipe(f, id), m, T)
  BY <1>1, <1>3, <1>5, WipeHolds
<1>. QED BY <1>4, <1>6, <1>7

LEMMA ReleasePlaces ==
  ASSUME LInv, NEW id \in InUse, NEW list \in Lists, Release(id, list)
  PROVE  /\ FreeOnce' /\ AwaitInUse' /\ InUse' = InUse \ {id} /\ Awaiting' = Awaiting \ {id}
         /\ (Placed /\ id \in IF list = "req" THEN Queued ELSE Awaiting) => Placed'
<1>1. /\ id \in Nodes /\ query \in [Nodes -> Query] /\ free \in Seq(Nodes) /\ links \in Links
  BY DEF LInv, AInv, TypeOK, InUse
<1>2. /\ free' = <<id>> \o free /\ query' = [query EXCEPT ![id] = BlankQuery]
      /\ links' = Wipe(Delete(links, list, id), id)
  BY DEF Release
<1>3. /\ InUse' = InUse \ {id} /\ Awaiting' = Awaiting \ {id}
  BY <1>1, <1>2 DEF InUse, Awaiting, BlankQuery
<1>4. AwaitInUse'
  BY <1>3 DEF LInv, AwaitInUse
<1>5. /\ Len(free') = Len(free) + 1 /\ Len(free) \in Nat /\ free'[1] = id
      /\ \A i \in 2 .. Len(free') : free'[i] = free[i - 1] /\ i - 1 \in 1 .. Len(free)
  BY <1>1, <1>2
<1>6. /\ Distinct(free) /\ Elems(free) = Nodes \ InUse
  BY DEF LInv, FreeOnce
<1>7. \A i \in 1 .. Len(free) : free[i] # id
  BY <1>6 DEF Elems
<1>8. Distinct(free')
  <2>. SUFFICES ASSUME NEW i \in 1 .. Len(free'), NEW j \in 1 .. Len(free'), free'[i] = free'[j]
                PROVE  i = j
    BY DEF Distinct
  <2>1. CASE i = 1 \/ j = 1
    <3>1. i # 1 => i \in 2 .. Len(free')
      BY <1>5
    <3>2. j # 1 => j \in 2 .. Len(free')
      BY <1>5
    <3>. QED BY <1>5, <1>7, <2>1, <3>1, <3>2
  <2>2. CASE i # 1 /\ j # 1
    <3>1. /\ i - 1 \in 1 .. Len(free) /\ j - 1 \in 1 .. Len(free) /\ free[i - 1] = free[j - 1]
      BY <1>5, <2>2
    <3>2. i - 1 = j - 1
      BY <1>6, <3>1 DEF Distinct
    <3>. QED BY <1>5, <3>2
  <2>. QED BY <2>1, <2>2
<1>9. Elems(free') = Elems(free) \cup {id}
  <2>1. ASSUME NEW x \in Elems(free') PROVE x \in Elems(free) \cup {id}
    <3>1. PICK i \in 1 .. Len(free') : x = free'[i]
      BY <2>1 DEF Elems
    <3>2. i = 1 \/ i \in 2 .. Len(free')
      BY <1>5
    <3>. QED BY <1>5, <3>1, <3>2 DEF Elems
  <2>2. ASSUME NEW x \in Elems(free) PROVE x \in Elems(free')
    <3>1. PICK i \in 1 .. Len(free) : x = free[i]
      BY <2>2 DEF Elems
    <3>2. i + 1 \in 2 .. Len(free') /\ i + 1 \in 1 .. Len(free') /\ (i + 1) - 1 = i
      BY <1>5
    <3>3. free'[i + 1] = x
      BY <1>5, <3>1, <3>2
    <3>. QED BY <3>2, <3>3 DEF Elems
  <2>3. id \in Elems(free')
    <3>1. 1 \in 1 .. Len(free')
      BY <1>5
    <3>. QED BY <1>5, <3>1 DEF Elems
  <2>. QED BY <2>1, <2>2, <2>3
<1>10. FreeOnce'
  BY <1>1, <1>3, <1>6, <1>8, <1>9 DEF FreeOnce
<1>11. ASSUME Placed, id \in IF list = "req" THEN Queued ELSE Awaiting PROVE Placed'
  <2>1. Awaiting \subseteq InUse /\ Queued \cap Awaiting = {}
    BY DEF LInv, AwaitInUse, Queued
  <2>2. CASE list = "req"
    <3>1. Holds(links', "req", Queued \ {id}) /\ Holds(links', "reply", Awaiting)
      BY <1>1, <1>2, <1>11, <2>1, <2>2, TakeFrom, ListNames DEF Placed, Queued
    <3>2. Queued \ {id} = InUse' \ Awaiting' /\ Awaiting = Awaiting'
      BY <1>3, <1>11, <2>1, <2>2 DEF Queued
    <3>. QED BY <3>1, <3>2 DEF Placed
  <2>3. CASE list = "reply"
    <3>1. Holds(links', "reply", Awaiting \ {id}) /\ Holds(links', "req", Queued)
      <4>1. /\ id \in Awaiting /\ Awaiting \cap Queued = {}
            /\ Holds(links, "reply", Awaiting) /\ Holds(links, "req", Queued)
        BY <1>11, <2>1, <2>3 DEF Placed, Queued
      <4>2. links' = Wipe(Delete(links, "reply", id), id)
        BY <1>2, <2>3
      <4>. QED BY <1>1, <4>1, <4>2, TakeFrom, ListNames, ZenonT(40)
    <3>2. Queued = InUse' \ Awaiting' /\ Awaiting \ {id} = Awaiting'
      BY <1>3, <1>11, <2>1, <2>3 DEF Queued
    <3>. QED BY <3>1, <3>2 DEF Placed
  <2>. QED BY <2>2, <2>3
<1>. QED BY <1>3, <1>4, <1>10, <1>11

-----------------------------------------------------------------------------
(* The client's calls, on the lists.                                         *)

LEMMA GetHostPlaces ==
  ASSUME LInv, CommEvDNSGetHostByNameX
  PROVE  LInv'
<1>. DEFINE q == [BlankQuery EXCEPT !.in_use = TRUE, !.ticket = asked + 1]
<1>1. /\ links \in Links /\ free \in Seq(Nodes) /\ free # << >>
      /\ query \in [Nodes -> Query]
  BY DEF LInv, AInv, TypeOK, CommEvDNSGetHostByNameX
<1>2. PICK id \in Nodes : id = Head(free)
  <2>1. Head(free) \in Nodes
    BY <1>1, HeadTailProperties
  <2>. QED BY <2>1
<1>3. q.in_use /\ ~ q.waiting_reply
  BY BlankIsQuery DEF Query, BlankQuery
<1>. HIDE DEF q
<1>4. /\ query' = [query EXCEPT ![id] = q] /\ free' = Tail(free)
      /\ links' = AddTail(Wipe(links, id), "req", id)
      /\ ~ query[id].in_use
  BY <1>2 DEF CommEvDNSGetHostByNameX, q
<1>5. id \notin InUse /\ InUse' = InUse \cup {id}
  BY <1>1, <1>3, <1>4 DEF InUse
<1>6. id \notin Awaiting /\ Awaiting' = Awaiting
  <2>1. id \notin Awaiting
    BY <1>5 DEF LInv, AwaitInUse
  <2>. QED BY <1>1, <1>3, <1>4, <2>1 DEF Awaiting
<1>7. /\ Len(free) \in Nat /\ Len(free) # 0 /\ Len(free') = Len(free) - 1 /\ free[1] = id
      /\ \A i \in 1 .. Len(free') : free'[i] = free[i + 1] /\ i + 1 \in 1 .. Len(free)
  BY <1>1, <1>2, <1>4
<1>8. \A i \in 1 .. Len(free), j \in 1 .. Len(free) : free[i] = free[j] => i = j
  BY DEF LInv, FreeOnce, Distinct
<1>9. Distinct(free')
  <2>. SUFFICES ASSUME NEW i \in 1 .. Len(free'), NEW j \in 1 .. Len(free'), free'[i] = free'[j]
                PROVE  i = j
    BY DEF Distinct
  <2>1. i + 1 = j + 1
    BY <1>7, <1>8
  <2>. QED BY <1>7, <2>1
<1>10. Elems(free') = Elems(free) \ {id}
  <2>1. ASSUME NEW x \in Elems(free') PROVE x \in Elems(free) \ {id}
    <3>1. PICK i \in 1 .. Len(free') : x = free'[i]
      BY <2>1 DEF Elems
    <3>2. x = free[i + 1] /\ i + 1 \in 1 .. Len(free) /\ i + 1 # 1 /\ 1 \in 1 .. Len(free)
      BY <1>7, <3>1
    <3>3. x # id
      BY <1>7, <1>8, <3>2
    <3>. QED BY <3>2, <3>3 DEF Elems
  <2>2. ASSUME NEW x \in Elems(free) \ {id} PROVE x \in Elems(free')
    <3>1. PICK i \in 1 .. Len(free) : x = free[i] /\ i # 1
      BY <1>7, <2>2 DEF Elems
    <3>2. i - 1 \in 1 .. Len(free') /\ (i - 1) + 1 = i
      BY <1>7, <3>1
    <3>3. free'[i - 1] = x
      BY <1>7, <3>1, <3>2
    <3>. QED BY <3>2, <3>3 DEF Elems
  <2>. QED BY <2>1, <2>2
<1>11. FreeOnce'
  BY <1>5, <1>9, <1>10 DEF LInv, FreeOnce
<1>12. AwaitInUse'
  BY <1>5, <1>6 DEF LInv, AwaitInUse
<1>13. late' = late /\ (Calling' <=> Calling) /\ node' = node /\ pc' # "walk"
  BY DEF CommEvDNSGetHostByNameX, Calling, Callable, walk, wire
<1>14. ASSUME OnTime PROVE OnTime'
  <2>1. /\ Holds(links, "req", Queued) /\ Holds(links, "reply", Awaiting)
        /\ id \notin Queued /\ Queued \cap Awaiting = {}
    BY <1>5, <1>14 DEF OnTime, Placed, Queued
  <2>2. PICK d \in Links : d = Wipe(links, id)
    BY <1>1, WipeIs
  <2>3. Holds(d, "req", Queued)
    BY <1>1, <2>1, <2>2, WipeHolds, ListNames
  <2>4. Holds(d, "reply", Awaiting)
    BY <1>1, <1>6, <2>1, <2>2, WipeHolds, ListNames
  <2>5. links' = AddTail(d, "req", id)
    BY <1>4, <2>2
  <2>6. Holds(links', "req", Queued \cup {id}) /\ Holds(links', "reply", Awaiting)
    BY <1>6, <2>1, <2>3, <2>4, <2>5, AddTailHolds, ListNames
  <2>7. Queued \cup {id} = InUse' \ Awaiting'
    BY <1>5, <1>6 DEF Queued
  <2>8. Placed'
    BY <1>6, <2>6, <2>7 DEF Placed
  <2>9. WalkAwaits'
    BY <1>6, <1>13, <1>14 DEF OnTime, WalkAwaits
  <2>. QED BY <2>8, <2>9 DEF OnTime
<1>15. AInv'
  BY GetHostKeeps DEF LInv
<1>. QED BY <1>11, <1>12, <1>13, <1>14, <1>15 DEF LInv

LEMMA CancelPlaces ==
  ASSUME LInv, NEW t \in Tickets, CommEvDNSCancelPendingRequest(t)
  PROVE  LInv'
<1>1. PICK id \in Nodes : id = handle[t]
  BY DEF LInv, AInv, TypeOK, Pointer, CommEvDNSCancelPendingRequest
<1>2. id \in InUse /\ AInv'
  BY <1>1, CancelKeeps DEF LInv, AInv, HandleOwns
<1>3. late' = late /\ (Calling' <=> Calling) /\ node' = node /\ pc' # "walk"
  BY DEF CommEvDNSCancelPendingRequest, Calling, Callable, walk, wire
<1>4. CASE query[id].waiting_reply
  <2>1. /\ query' = [query EXCEPT ![id].canceled_req = TRUE]
        /\ free' = free /\ links' = links /\ query \in [Nodes -> Query]
    BY <1>1, <1>4 DEF CommEvDNSCancelPendingRequest, LInv, AInv, TypeOK
  <2>2. \A n \in Nodes : /\ query'[n].in_use = query[n].in_use
                         /\ query'[n].waiting_reply = query[n].waiting_reply
    BY <2>1 DEF Query
  <2>3. InUse' = InUse /\ Awaiting' = Awaiting
    BY <2>2 DEF InUse, Awaiting
  <2>4. FreeOnce' /\ AwaitInUse'
    BY <2>1, <2>3 DEF LInv, FreeOnce, AwaitInUse
  <2>5. OnTime => OnTime'
    BY <1>3, <2>1, <2>3 DEF OnTime, Placed, WalkAwaits
  <2>. QED BY <1>2, <1>3, <2>4, <2>5 DEF LInv
<1>5. CASE ~ query[id].waiting_reply
  <2>1. Release(id, "req")
    BY <1>1, <1>5 DEF CommEvDNSCancelPendingRequest
  <2>2. id \in Queued /\ id \notin Awaiting
    BY <1>2, <1>5 DEF Queued, Awaiting
  <2>3. /\ FreeOnce' /\ AwaitInUse' /\ Awaiting' = Awaiting \ {id}
        /\ Placed => Placed'
    BY <1>2, <2>1, <2>2, ReleasePlaces, ListNames
  <2>4. OnTime => OnTime'
    BY <1>3, <2>2, <2>3 DEF OnTime, WalkAwaits
  <2>. QED BY <1>2, <1>3, <2>3, <2>4 DEF LInv
<1>. QED BY <1>4, <1>5

-----------------------------------------------------------------------------
(* The handlers, on the lists.                                               *)

LEMMA SetsStay ==
  ASSUME LInv, AInv', free' = free, links' = links,
         \A n \in Nodes : /\ query'[n].in_use = query[n].in_use
                          /\ query'[n].waiting_reply = query[n].waiting_reply,
         late' \/ (late' = late /\ (OnTime => WalkAwaits'))
  PROVE  LInv'
<1>1. InUse' = InUse /\ Awaiting' = Awaiting
  BY DEF InUse, Awaiting
<1>2. FreeOnce' /\ AwaitInUse'
  BY <1>1 DEF LInv, FreeOnce, AwaitInUse
<1>3. OnTime => Placed'
  BY <1>1 DEF OnTime, Placed
<1>. QED BY <1>2, <1>3 DEF LInv, OnTime

LEMMA EndPlaces ==
  ASSUME LInv, AInv', NEW id \in InUse, Release(id, "reply"),
         late' \/ (late' = late /\ (OnTime => id \in Awaiting)),
         ~ Calling', pc' = "walk" => node' = links.next[id]
  PROVE  LInv'
<1>1. /\ FreeOnce' /\ AwaitInUse' /\ Awaiting' = Awaiting \ {id}
      /\ Placed /\ id \in Awaiting => Placed'
  BY ReleasePlaces, ListNames
<1>2. OnTime /\ id \in Awaiting => links.next[id] \in (Awaiting \ {id}) \cup {Nil}
  BY HeldNodes, TypedSets, ListNames DEF LInv, OnTime, Placed
<1>3. OnTime /\ id \in Awaiting => OnTime'
  BY <1>1, <1>2 DEF OnTime, WalkAwaits
<1>. QED BY <1>1, <1>3 DEF LInv

LEMMA CallbackReturnsPlaces ==
  ASSUME LInv, CallbackReturns
  PROVE  LInv'
<1>1. AInv' /\ node \in InUse
  BY CallbackReturnsKeeps DEF LInv, AInv, CallInUse, CallbackReturns, Calling
<1>2. /\ Release(node, "reply") /\ ~ Calling' /\ late' = late
      /\ pc' = "walk" => node' = links.next[node]
  BY DEF CallbackReturns, Calling, wire
<1>3. OnTime => node \in Awaiting
  BY DEF OnTime, WalkAwaits, CallbackReturns, Calling
<1>. QED BY <1>1, <1>2, <1>3, EndPlaces

LEMMA TimedOutCancelledPlaces ==
  ASSUME LInv, TimedOutCancelled
  PROVE  LInv'
<1>1. node \in Awaiting /\ node \in InUse /\ AInv'
  BY TimedOutCancelledKeeps DEF TimedOutCancelled, Visiting, Visited, LInv, AInv, TypeOK,
     Pointer, DataInUse, InUse, Awaiting
<1>2. /\ Release(node, "reply") /\ ~ Calling' /\ late' = late
      /\ node' = links.next[node]
  BY DEF TimedOutCancelled, Visiting, Calling, wire
<1>. QED BY <1>1, <1>2, EndPlaces

LEMMA TimedOutPlaces ==
  ASSUME LInv, TimedOut
  PROVE  LInv'
<1>1. node \in Awaiting /\ AInv'
  BY TimedOutKeeps DEF TimedOut, Visiting, Visited, LInv, AInv, TypeOK, Pointer, Awaiting
<1>2. /\ UNCHANGED <<free, query, links, late>> /\ node' = node /\ pc' = "callback"
  BY DEF TimedOut, Tell, slots
<1>3. Awaiting' = Awaiting
  BY <1>2 DEF Awaiting
<1>4. WalkAwaits'
  BY <1>1, <1>2, <1>3 DEF WalkAwaits
<1>. QED BY <1>1, <1>2, <1>4, SetsStay

LEMMA DataEventPlaces ==
  ASSUME LInv, NEW id \in net, CommEvDNSDataEvent(id)
  PROVE  LInv'
<1>1. id \in InUse /\ id \in Nodes /\ pc = "loop" /\ ~ Calling /\ AInv'
  BY DataEventKeeps DEF CommEvDNSDataEvent, LInv, AInv, TypeOK, InUse, Calling
<1>2. /\ late \in BOOLEAN /\ query[id].waiting_reply \in BOOLEAN
      /\ late' = (late \/ ~ query[id].waiting_reply)
  BY <1>1 DEF CommEvDNSDataEvent, LInv, AInv, TypeOK, Query
<1>3. late' \/ (late' = late /\ id \in Awaiting)
  BY <1>1, <1>2 DEF Awaiting
<1>4. CASE query[id].canceled_req
  <2>1. Release(id, "reply") /\ pc' = "loop"
    BY <1>1, <1>4 DEF CommEvDNSDataEvent
  <2>. QED BY <1>1, <1>3, <2>1, EndPlaces DEF Calling
<1>5. CASE ~ query[id].canceled_req
  <2>1. UNCHANGED <<free, query, links>> /\ node' = id /\ pc' = "callback"
    BY <1>5 DEF CommEvDNSDataEvent, Tell, slots
  <2>2. Awaiting' = Awaiting
    BY <2>1 DEF Awaiting
  <2>3. id \in Awaiting => WalkAwaits'
    BY <2>1, <2>2 DEF WalkAwaits
  <2>. QED BY <1>1, <1>3, <2>1, <2>3, SetsStay
<1>. QED BY <1>4, <1>5

LEMMA ControlPlaces ==
  ASSUME LInv,
         \/ CommEvDNSWriteEvent \/ CommEvDNSPeriodicTimerEvent \/ StillWaits \/ WalkEnds
         \/ TimerExpires \/ UNCHANGED vars
  PROVE  LInv'
<1>1. AInv' /\ links' = links /\ free' = free /\ query' = query /\ late' = late
  BY ControlKeeps DEF LInv, CommEvDNSWriteEvent, CommEvDNSPeriodicTimerEvent, StillWaits,
     WalkEnds, TimerExpires, vars, slots, wire
<1>2. Awaiting' = Awaiting
  BY <1>1 DEF Awaiting
<1>3. OnTime => /\ links.head["reply"] \in Awaiting \cup {Nil}
                /\ \A n \in Awaiting : links.next[n] \in Awaiting \cup {Nil}
  BY HeldNodes, TypedSets, ListNames DEF LInv, OnTime, Placed
<1>4. ASSUME OnTime PROVE WalkAwaits'
  <2>1. CASE CommEvDNSWriteEvent \/ WalkEnds \/ TimerExpires \/ UNCHANGED vars
    BY <1>2, <1>4, <2>1 DEF OnTime, WalkAwaits, CommEvDNSWriteEvent, WalkEnds, TimerExpires,
       Waits, vars, walk, Calling
  <2>2. CASE CommEvDNSPeriodicTimerEvent
    BY <1>2, <1>3, <1>4, <2>2 DEF WalkAwaits, CommEvDNSPeriodicTimerEvent, walk, Calling
  <2>3. CASE StillWaits
    <3>1. node \in Awaiting /\ node' = links.next[node] /\ pc' = "walk"
      BY <1>4, <2>3 DEF StillWaits, Visiting, OnTime, WalkAwaits
    <3>. QED BY <1>2, <1>3, <1>4, <3>1 DEF WalkAwaits, Calling
  <2>. QED BY <2>1, <2>2, <2>3
<1>. QED BY <1>1, <1>4, SetsStay

LEMMA TimePlaces ==
  ASSUME LInv, NEW id \in Nodes, RetryPasses(id) \/ LookupPasses(id)
  PROVE  LInv'
<1>1. AInv' /\ free' = free /\ links' = links /\ late' = late /\ pc' = "loop"
  BY TimePasses DEF LInv, RetryPasses, LookupPasses, Waits, wire
<1>2. /\ query \in [Nodes -> Query]
      /\ \/ query' = [query EXCEPT ![id].retry = TRUE]
         \/ query' = [query EXCEPT ![id].lookup = TRUE]
  BY DEF RetryPasses, LookupPasses, LInv, AInv, TypeOK
<1>3. \A n \in Nodes : query'[n].in_use = query[n].in_use
  BY <1>2 DEF Query
<1>4. \A n \in Nodes : query'[n].waiting_reply = query[n].waiting_reply
  BY <1>2 DEF Query
<1>5. WalkAwaits'
  BY <1>1 DEF WalkAwaits, Calling
<1>. QED BY <1>1, <1>3, <1>4, <1>5, SetsStay

LEMMA WriteEndsPlaces ==
  ASSUME LInv, WriteEnds
  PROVE  LInv'
<1>1. AInv' /\ free' = free /\ query' = query /\ late' = late /\ node' = node /\ pc' = ret
  BY WriteEndsKeeps DEF LInv, WriteEnds, wire, walk
<1>2. InUse' = InUse /\ Awaiting' = Awaiting
  BY <1>1 DEF InUse, Awaiting
<1>3. FreeOnce' /\ AwaitInUse'
  BY <1>1, <1>2 DEF LInv, FreeOnce, AwaitInUse
<1>4. ASSUME OnTime PROVE OnTime'
  <2>1. Popped = Nil
    <3>1. ASSUME Popped # Nil PROVE links.data[Popped]
      BY <1>4, <3>1, HeldNodes, TypedSets, ListNames DEF LInv, OnTime, Placed, Popped
    <3>. QED BY <3>1 DEF WriteEnds, MoreQueries
  <2>2. links' = links
    BY <2>1 DEF WriteEnds
  <2>3. WalkAwaits'
    BY <1>1, <1>2, <1>4 DEF LInv, AInv, TypeOK, OnTime, WalkAwaits, Calling, WriteEnds
  <2>. QED BY <1>2, <1>4, <2>2, <2>3 DEF OnTime, Placed
<1>. QED BY <1>1, <1>3, <1>4 DEF LInv

LEMMA PoppedIsQueued ==
  ASSUME LInv, OnTime, MoreQueries
  PROVE  /\ Popped \in Queued /\ Popped \in Nodes
         /\ Holds(PopHead(links, "req"), "req", Queued \ {Popped})
         /\ Holds(PopHead(links, "req"), "reply", Awaiting)
         /\ IsOrphan(PopHead(links, "req"), "req", Popped)
         /\ PopHead(links, "req") \in Links
<1>1. /\ links \in Links /\ Queued \cap Awaiting = {}
      /\ Holds(links, "req", Queued) /\ Holds(links, "reply", Awaiting)
  BY TypedSets DEF LInv, OnTime, Placed, Queued
<1>2. Popped \in Queued
  BY <1>1, HeldNodes, ListNames DEF MoreQueries, Popped
<1>3. Popped \in Nodes
  BY <1>2, TypedSets DEF LInv, Queued
<1>4. PopHead(links, "req") = Detach(links, "req", Popped)
  BY DEF PopHead, Popped
<1>5. Detach(links, "req", Popped) \in Links
  BY <1>1, <1>3, DetachTyped, ListNames
<1>6. PICK n \in Queued : n = Popped
  BY <1>2
<1>7. /\ Holds(Detach(links, "req", n), "req", Queued \ {n})
      /\ Holds(Detach(links, "req", n), "reply", Awaiting)
      /\ IsOrphan(Detach(links, "req", n), "req", n)
  BY <1>1, DetachHolds, ListNames
<1>. QED BY <1>2, <1>3, <1>4, <1>5, <1>6, <1>7

LEMMA WriteQueryPlaces ==
  ASSUME LInv, WriteQuery
  PROVE  LInv'
<1>1. /\ AInv' /\ free' = free /\ late' = late /\ node' = node /\ pc' = pc /\ ret' = ret
      /\ pc = "write" /\ MoreQueries /\ query \in [Nodes -> Query] /\ links \in Links
  BY WriteQueryKeeps DEF LInv, WriteQuery, AInv, TypeOK, walk
<1>2. PICK n \in Nodes : n = Popped /\ n \in InUse
  <2>1. Popped \in Nodes /\ links.data[Popped]
    BY <1>1, ListNames DEF MoreQueries, Popped, Links, Pointer
  <2>. QED BY <2>1 DEF LInv, AInv, DataInUse, InUse
<1>3. /\ query' = [query EXCEPT ![n].req_count = @ + 1, ![n].waiting_reply = TRUE]
      /\ links' = AddTail(Delete(PopHead(links, "req"), "req", n), "reply", n)
      /\ ~ query[n].waiting_reply
  BY <1>2 DEF WriteQuery
<1>4. \A k \in Nodes : query'[k].in_use = query[k].in_use
  BY <1>1, <1>3 DEF Query
<1>5. \A k \in Nodes : query'[k].waiting_reply <=> (k = n \/ query[k].waiting_reply)
  BY <1>1, <1>3 DEF Query
<1>6. InUse' = InUse /\ Awaiting' = Awaiting \cup {n} /\ n \notin Awaiting
  BY <1>3, <1>4, <1>5 DEF InUse, Awaiting
<1>7. FreeOnce' /\ AwaitInUse'
  BY <1>1, <1>2, <1>6 DEF LInv, FreeOnce, AwaitInUse
<1>8. ASSUME OnTime PROVE OnTime'
  <2>1. PICK d \in Links : /\ d = PopHead(links, "req")
                           /\ Holds(d, "req", Queued \ {n}) /\ Holds(d, "reply", Awaiting)
                           /\ IsOrphan(d, "req", n)
    BY <1>1, <1>2, <1>8, PoppedIsQueued
  <2>2. links' = AddTail(d, "reply", n)
    BY <1>3, <2>1 DEF Delete
  <2>3. n \notin Queued \ {n} /\ (Queued \ {n}) \cap Awaiting = {}
    BY DEF Queued
  <2>4. Holds(links', "reply", Awaiting \cup {n}) /\ Holds(links', "req", Queued \ {n})
    BY <1>6, <2>1, <2>2, <2>3, AddTailHolds, ListNames
  <2>5. Queued \ {n} = InUse' \ Awaiting'
    BY <1>6 DEF Queued
  <2>6. Placed'
    BY <1>6, <2>4, <2>5 DEF Placed
  <2>7. WalkAwaits'
    BY <1>1, <1>6, <1>8 DEF OnTime, WalkAwaits, Calling
  <2>. QED BY <2>6, <2>7 DEF OnTime
<1>. QED BY <1>1, <1>7, <1>8 DEF LInv

LEMMA WriteFailsPlaces ==
  ASSUME LInv, WriteFails
  PROVE  LInv'
<1>1. /\ AInv' /\ free' = free /\ query' = query /\ late' = late /\ node' = node /\ pc' = ret
      /\ ret' = ret /\ pc = "write" /\ MoreQueries
      /\ links' = AddHead(PopHead(links, "req"), "req", Popped)
  BY WriteFailsKeeps DEF LInv, WriteFails, wire, walk
<1>2. InUse' = InUse /\ Awaiting' = Awaiting
  BY <1>1 DEF InUse, Awaiting
<1>3. FreeOnce' /\ AwaitInUse'
  BY <1>1, <1>2 DEF LInv, FreeOnce, AwaitInUse
<1>4. ASSUME OnTime PROVE OnTime'
  <2>1. PICK n \in Queued : n = Popped /\ n \in Nodes
    BY <1>1, <1>4, PoppedIsQueued
  <2>2. PICK d \in Links : /\ d = PopHead(links, "req")
                           /\ Holds(d, "req", Queued \ {n}) /\ Holds(d, "reply", Awaiting)
    BY <1>1, <1>4, <2>1, PoppedIsQueued
  <2>3. n \notin Queued \ {n} /\ (Queued \ {n}) \cap Awaiting = {} /\ n \notin Awaiting
        /\ (Queued \ {n}) \cup {n} = Queued
    BY DEF Queued
  <2>4. links' = AddHead(d, "req", n)
    BY <1>1, <2>1, <2>2
  <2>5. Holds(links', "req", (Queued \ {n}) \cup {n}) /\ Holds(links', "reply", Awaiting)
    BY <2>1, <2>2, <2>3, <2>4, AddHeadHolds, ListNames
  <2>6. Placed'
    BY <1>2, <2>3, <2>5 DEF Placed, Queued
  <2>7. WalkAwaits'
    BY <1>1, <1>2, <1>4 DEF LInv, AInv, TypeOK, OnTime, WalkAwaits, Calling
  <2>. QED BY <2>6, <2>7 DEF OnTime
<1>. QED BY <1>1, <1>3, <1>4 DEF LInv

LEMMA ResendPlaces ==
  ASSUME LInv, Resend
  PROVE  LInv'
<1>1. /\ AInv' /\ free' = free /\ late' = late /\ pc' = pc /\ pc = "walk"
      /\ query \in [Nodes -> Query] /\ links \in Links
  BY ResendKeeps DEF LInv, Resend, Visiting, AInv, TypeOK, wire
<1>2. PICK n \in Nodes : n = node /\ n \in InUse /\ n \in Awaiting
  BY DEF Resend, Visiting, Visited, LInv, AInv, TypeOK, Pointer, DataInUse, InUse, Awaiting
<1>3. /\ query' = [query EXCEPT ![n].waiting_reply = FALSE, ![n].retry = FALSE]
      /\ links' = AddTail(Delete(links, "reply", n), "req", n)
      /\ node' = links'.next[n]
  BY <1>2 DEF Resend
<1>4. \A k \in Nodes : query'[k].in_use = query[k].in_use
  BY <1>1, <1>3 DEF Query
<1>5. \A k \in Nodes : query'[k].waiting_reply <=> (k # n /\ query[k].waiting_reply)
  BY <1>1, <1>3 DEF Query
<1>6. InUse' = InUse /\ Awaiting' = Awaiting \ {n}
  BY <1>4, <1>5 DEF InUse, Awaiting
<1>7. FreeOnce' /\ AwaitInUse'
  BY <1>1, <1>6 DEF LInv, FreeOnce, AwaitInUse
<1>8. ASSUME OnTime PROVE OnTime'
  <2>1. /\ Holds(links, "req", Queued) /\ Holds(links, "reply", Awaiting)
        /\ Awaiting \cap Queued = {} /\ n \notin Queued
    BY <1>2, <1>8 DEF OnTime, Placed, Queued
  <2>2. PICK d \in Links : d = Detach(links, "reply", n)
    BY <1>1, DetachTyped, ListNames
  <2>3. Holds(d, "reply", Awaiting \ {n}) /\ Holds(d, "req", Queued)
    BY <1>1, <1>2, <2>1, <2>2, DetachHolds, ListNames
  <2>4. links' = AddTail(d, "req", n)
    BY <1>1, <1>2, <1>3, <2>1, <2>2, DeleteHeld, ListNames
  <2>5. (Awaiting \ {n}) \cap Queued = {} /\ n \notin Awaiting \ {n}
    BY DEF Queued
  <2>6. Holds(links', "req", Queued \cup {n}) /\ Holds(links', "reply", Awaiting \ {n})
    BY <2>1, <2>3, <2>4, <2>5, AddTailHolds, ListNames
  <2>7. Queued \cup {n} = InUse' \ Awaiting'
    BY <1>2, <1>6 DEF Queued
  <2>8. Placed'
    BY <1>6, <2>6, <2>7 DEF Placed
  <2>9. d.tail["req"] # n
    BY <2>1, <2>3, HeldNodes, ListNames, NilIsNoNode
  <2>10. TailAdded(d, links', "req", n)
    BY <2>4, AddTailIs, ListNames
  <2>11. node' = Nil
    BY <1>3, <2>9, <2>10 DEF TailAdded
  <2>12. WalkAwaits'
    BY <1>1, <2>11 DEF WalkAwaits, Calling
  <2>. QED BY <2>8, <2>12 DEF OnTime
<1>. QED BY <1>1, <1>7, <1>8 DEF LInv

LEMMA NextLInv == LInv /\ [Next]_vars => LInv'
<1>. SUFFICES ASSUME LInv, [Next]_vars PROVE LInv'
  OBVIOUS
<1>1. CASE CommEvDNSGetHostByNameX
  BY <1>1, GetHostPlaces
<1>2. ASSUME NEW t \in Tickets, CommEvDNSCancelPendingRequest(t) PROVE LInv'
  BY <1>2, CancelPlaces
<1>3. ASSUME NEW id \in net, CommEvDNSDataEvent(id) PROVE LInv'
  BY <1>3, DataEventPlaces
<1>4. CASE Handler
  BY <1>4, WriteEndsPlaces, WriteQueryPlaces, WriteFailsPlaces, TimedOutPlaces,
     TimedOutCancelledPlaces, ResendPlaces, ControlPlaces, CallbackReturnsPlaces DEF Handler
<1>5. ASSUME NEW id \in Nodes, RetryPasses(id) \/ LookupPasses(id) PROVE LInv'
  BY <1>5, TimePlaces
<1>6. CASE CommEvDNSWriteEvent \/ CommEvDNSPeriodicTimerEvent \/ TimerExpires \/ UNCHANGED vars
  BY <1>6, ControlPlaces
<1>. QED BY <1>1, <1>2, <1>3, <1>4, <1>5, <1>6 DEF Next

LEMMA LInvExact == LInv => ListsExact
<1>. SUFFICES ASSUME LInv PROVE ListsExact
  OBVIOUS
<1>1. TypeOK
  BY DEF LInv, AInv
<1>2. /\ free \in Seq(Nodes) /\ Len(free) \in Nat /\ DOMAIN free = 1 .. Len(free)
  BY <1>1 DEF TypeOK
<1>3. ToSet(free) = Elems(free)
  BY <1>2 DEF ToSet, Elems
<1>4. Len(free) = Cardinality(ToSet(free))
  <2>1. free \in Injection(1 .. Len(free), Elems(free))
    BY <1>2 DEF LInv, FreeOnce, Distinct, Elems, Injection, IsInjective
  <2>2. free \in Surjection(1 .. Len(free), Elems(free))
    BY <1>2 DEF Elems, Surjection
  <2>3. ExistsBijection(1 .. Len(free), Elems(free))
    BY <2>1, <2>2 DEF ExistsBijection, Bijection
  <2>. QED BY <1>2, <1>3, <2>3, FS_CountingElements
<1>5. ASSUME ~ late
      PROVE  /\ \A l \in Lists : IsList(links, l)
             /\ Members(links, "reply") = Awaiting
             /\ Members(links, "req") = InUse \ Awaiting
  <2>1. /\ links \in Links
        /\ Holds(links, "req", InUse \ Awaiting) /\ Holds(links, "reply", Awaiting)
    BY <1>1, <1>5 DEF TypeOK, LInv, OnTime, Placed
  <2>2. IsList(links, "req") /\ Members(links, "req") = InUse \ Awaiting
    BY <2>1, HeldIsList, ListNames
  <2>3. IsList(links, "reply") /\ Members(links, "reply") = Awaiting
    BY <2>1, HeldIsList, ListNames
  <2>. QED BY <2>2, <2>3
<1>6. ToSet(free) = Nodes \ InUse
  BY <1>3 DEF LInv, FreeOnce
<1>. QED BY <1>1, <1>4, <1>5, <1>6 DEF ListsExact

(***************************************************************************)
(* Every slot has one place: free, or on the list its query waits on; and  *)
(* req_list and reply_list stay well formed until CommEvDNSDataEvent is    *)
(* handed the reply of a query that waits to be sent again.                *)
(***************************************************************************)
THEOREM ListsStayExact == Spec => []ListsExact
BY InitLInv, NextLInv, LInvExact, PTL DEF Spec

-----------------------------------------------------------------------------
CONSTANTS Fds, Confs, Acts, Calls, MaxWrites, MaxTries, MaxConnects, MaxCalls      \* of MCComm

C == INSTANCE MCComm

(***************************************************************************)
(* The selection with the least load, of both pools: F are the clients     *)
(* that fit and B the pairs of which the first one beats the second.       *)
(***************************************************************************)

ScanStep(F, B, i, s) == IF i - 1 \in F /\ (s = -1 \/ <<i - 1, s>> \in B) THEN i - 1 ELSE s
IsScan(F, B, n, g) ==
    g = [i \in 0 .. n |-> IF i = 0 THEN -1 ELSE ScanStep(F, B, i, g[i - 1])]

LEMMA ScanExists ==
  ASSUME NEW F, NEW B, NEW n \in Nat
  PROVE  \E g : IsScan(F, B, n, g)
<1>. DEFINE T == {m \in Nat : ~ \E g : IsScan(F, B, m, g)}
<1>. SUFFICES ASSUME T # {} PROVE FALSE
  OBVIOUS
<1>1. PICK m \in T : \A k \in T : m <= k
  BY LeastNat
<1>2. CASE m = 0
  <2>. DEFINE g == [i \in {0} |-> -1]
  <2>1. 0 .. 0 = {0}
    OBVIOUS
  <2>2. IsScan(F, B, 0, g)
    BY <2>1 DEF IsScan
  <2>. QED BY <1>2, <2>2
<1>3. CASE m # 0
  <2>1. m \in Nat /\ m - 1 \in Nat /\ m - 1 \notin T
    BY <1>1, <1>3
  <2>2. PICK g : IsScan(F, B, m - 1, g)
    BY <2>1
  <2>3. /\ \A i \in 1 .. m - 1 : g[i] = ScanStep(F, B, i, g[i - 1])
        /\ g[0] = -1
    <3>1. \A i \in 0 .. m - 1 : g[i] = IF i = 0 THEN -1 ELSE ScanStep(F, B, i, g[i - 1])
      <4>. DEFINE e(i) == IF i = 0 THEN -1 ELSE ScanStep(F, B, i, g[i - 1])
      <4>1. g = [i \in 0 .. m - 1 |-> e(i)]
        BY <2>2 DEF IsScan
      <4>. HIDE DEF e
      <4>2. \A i \in 0 .. m - 1 : g[i] = e(i)
        BY <4>1
      <4>. QED BY <4>2 DEF e
    <3>. HIDE DEF T
    <3>. QED BY <2>1, <3>1
  <2>. DEFINE h == [i \in 0 .. m |-> IF i = m THEN ScanStep(F, B, m, g[m - 1]) ELSE g[i]]
  <2>4. \A i \in 0 .. m : h[i] = IF i = 0 THEN -1 ELSE ScanStep(F, B, i, h[i - 1])
    <3>. TAKE i \in 0 .. m
    <3>1. CASE i = 0
      BY <1>3, <2>1, <2>3, <3>1
    <3>2. CASE i # 0 /\ i # m
      <4>1. i \in 1 .. m - 1 /\ i - 1 \in 0 .. m /\ i - 1 # m
        BY <2>1, <3>2
      <4>2. h[i] = g[i] /\ h[i - 1] = g[i - 1]
        BY <3>2, <4>1
      <4>. QED BY <2>3, <3>2, <4>1, <4>2
    <3>3. CASE i # 0 /\ i = m
      <4>1. i - 1 \in 0 .. m /\ i - 1 # m
        BY <2>1, <3>3
      <4>2. h[i] = ScanStep(F, B, m, g[m - 1]) /\ h[i - 1] = g[m - 1]
        BY <3>3, <4>1
      <4>. QED BY <3>3, <4>2
    <3>. QED BY <3>1, <3>2, <3>3
  <2>5. h = [i \in 0 .. m |-> h[i]]
    OBVIOUS
  <2>. HIDE DEF h
  <2>6. IsScan(F, B, m, h)
    BY <2>4, <2>5 DEF IsScan
  <2>. QED BY <1>1, <2>6
<1>. QED BY <1>2, <1>3

\* Nobody fits among the first i, or one is selected that fits and that no
\* later one beats.
ScanGood(F, B, i, s) ==
    \/ s = -1 /\ \A j \in 0 .. i - 1 : j \notin F
    \/ s \in 0 .. i - 1 /\ s \in F /\ \A j \in 0 .. i - 1 : j \in F /\ j > s => <<j, s>> \notin B

LEMMA ScanIs ==
  ASSUME NEW F, NEW B, NEW n \in Nat, NEW g, IsScan(F, B, n, g)
  PROVE  g[0] = -1 /\ \A i \in 1 .. n : g[i] = ScanStep(F, B, i, g[i - 1])
<1>. DEFINE e(i) == IF i = 0 THEN -1 ELSE ScanStep(F, B, i, g[i - 1])
<1>1. g = [i \in 0 .. n |-> e(i)]
  BY DEF IsScan
<1>. HIDE DEF e
<1>2. \A i \in 0 .. n : g[i] = e(i)
  BY <1>1
<1>. QED BY <1>2 DEF e

LEMMA ScanSelects ==
  ASSUME NEW F, NEW B, NEW n \in Nat, NEW g, IsScan(F, B, n, g)
  PROVE  \A i \in 0 .. n : ScanGood(F, B, i, g[i])
<1>. DEFINE T == {m \in 0 .. n : ~ ScanGood(F, B, m, g[m])}
<1>. SUFFICES ASSUME T # {} PROVE FALSE
  OBVIOUS
<1>0. T \subseteq Nat
  OBVIOUS
<1>1. PICK m \in T : \A k \in T : m <= k
  BY <1>0, LeastNat
<1>2. g[0] = -1 /\ \A i \in 1 .. n : g[i] = ScanStep(F, B, i, g[i - 1])
  BY ScanIs
<1>3. m # 0
  BY <1>1, <1>2 DEF ScanGood
<1>4. m \in 1 .. n /\ m - 1 \in 0 .. n /\ m - 1 \notin T
  BY <1>1, <1>3
<1>5. ScanGood(F, B, m - 1, g[m - 1]) /\ g[m] = ScanStep(F, B, m, g[m - 1]) /\ ~ ScanGood(F, B, m, g[m])
  BY <1>1, <1>2, <1>4
<1>. HIDE DEF T
<1>. QED BY <1>4, <1>5 DEF ScanGood, ScanStep

ScanFacts(F, B, n, g) ==
    /\ IsScan(F, B, n, g)
    /\ g[0] = -1 /\ \A i \in 1 .. n : g[i] = ScanStep(F, B, i, g[i - 1])
    /\ \A i \in 0 .. n : g[i] \in -1 .. i - 1

LEMMA ScanHas ==
  ASSUME NEW F, NEW B, NEW n \in Nat
  PROVE  \E g : ScanFacts(F, B, n, g)
<1>1. PICK g : IsScan(F, B, n, g)
  BY ScanExists
<1>2. g[0] = -1 /\ \A i \in 1 .. n : g[i] = ScanStep(F, B, i, g[i - 1])
  BY <1>1, ScanIs
<1>3. \A i \in 0 .. n : ScanGood(F, B, i, g[i])
  BY <1>1, ScanSelects
<1>4. \A i \in 0 .. n : g[i] \in -1 .. i - 1
  BY <1>3 DEF ScanGood
<1>. QED BY <1>1, <1>2, <1>4 DEF ScanFacts

\* With an order, nobody beats the one selected.
LEMMA ScanBest ==
  ASSUME NEW F, NEW B, NEW n \in Nat, NEW g, IsScan(F, B, n, g),
         \A a, b, c : <<a, b>> \notin B /\ <<c, b>> \in B => <<a, c>> \notin B,
         \A a : <<a, a>> \notin B
  PROVE  \A j \in 0 .. n - 1 : j \in F => <<j, g[n]>> \notin B
<1>. DEFINE T == {m \in 0 .. n : \E j \in 0 .. m - 1 : j \in F /\ <<j, g[m]>> \in B}
<1>. SUFFICES ASSUME T # {} PROVE FALSE
  OBVIOUS
<1>0. T \subseteq Nat
  OBVIOUS
<1>1. PICK m \in T : \A k \in T : m <= k
  BY <1>0, LeastNat
<1>2. g[0] = -1 /\ \A i \in 1 .. n : g[i] = ScanStep(F, B, i, g[i - 1])
  BY ScanIs
<1>3. PICK j \in 0 .. m - 1 : j \in F /\ <<j, g[m]>> \in B
  BY <1>1
<1>4. m \in 1 .. n /\ m - 1 \in 0 .. n /\ m - 1 \notin T
  BY <1>1, <1>3
<1>5. \A k \in 0 .. m - 2 : k \in F => <<k, g[m - 1]>> \notin B
  <2>1. (m - 1) - 1 = m - 2
    BY <1>4
  <2>. QED BY <1>4, <2>1
<1>6. g[m] = ScanStep(F, B, m, g[m - 1])
  BY <1>2, <1>4
<1>7. ScanGood(F, B, m - 1, g[m - 1])
  BY <1>4, ScanSelects
<1>. HIDE DEF T
<1>8. CASE g[m] = g[m - 1]
  <2>1. j = m - 1
    BY <1>3, <1>4, <1>5, <1>8
  <2>2. g[m - 1] = -1 \/ g[m] = m - 1
    BY <1>3, <1>6, <1>8, <2>1 DEF ScanStep
  <2>3. g[m] = m - 1
    <3>1. ASSUME g[m - 1] = -1 PROVE g[m] = m - 1
      BY <1>3, <1>6, <2>1, <3>1 DEF ScanStep
    <3>. QED BY <2>2, <3>1
  <2>. QED BY <1>3, <2>1, <2>3
<1>9. CASE g[m] # g[m - 1]
  <2>1. g[m] = m - 1 /\ (g[m - 1] = -1 \/ <<m - 1, g[m - 1]>> \in B)
    BY <1>6, <1>9 DEF ScanStep
  <2>2. j \in 0 .. m - 2
    BY <1>3, <1>4, <2>1
  <2>3. CASE g[m - 1] = -1
    BY <1>3, <1>4, <1>7, <2>2, <2>3 DEF ScanGood
  <2>4. CASE <<m - 1, g[m - 1]>> \in B
    BY <1>3, <1>5, <2>1, <2>2, <2>4
  <2>. QED BY <2>1, <2>3, <2>4
<1>. QED BY <1>8, <1>9

-----------------------------------------------------------------------------
(***************************************************************************)
(* The pool of TCP clients.                                                *)
(***************************************************************************)

PoolSlots == 0 .. PoolMax - 1
PoolMembers(x) == 0 .. x.count - 1
PoolTyped(x) ==
    /\ x \in [count : 1 .. PoolMax, max : 1 .. PoolMax, rr : Nat, on : [PoolSlots -> BOOLEAN],
              asked : [PoolSlots -> BOOLEAN], events : [PoolSlots -> BOOLEAN], queue : [PoolSlots -> Nat],
              total : [PoolSlots -> Nat], writes : Nat, missed : {x.missed}, last : {x.last}, raw : {x.raw}]
    /\ x.rr < x.max
PoolBound(x) == \A i \in PoolSlots : x.on[i] \/ x.asked[i] => i \in PoolMembers(x)

\* What SelectsConnected says of a value, and of its fields.
PoolRight(count, max, missed, last, raw) ==
    /\ missed # {} => last.method = "round_robin" /\ count # max
    /\ raw => last.method = "round_robin" /\ count < max
    /\ last.on # {} /\ missed = {} => last.to \in last.on
    /\ last.method = "least_load" /\ last.to # -1 =>
            \A i \in (IF last.on = {} THEN 0 .. count - 1 ELSE last.on) :
                i > last.to => last.queue[i] >= last.queue[last.to] /\ last.total[i] >= last.total[last.to]
PoolOk(x) == PoolTyped(x) /\ PoolBound(x) /\ PoolRight(x.count, x.max, x.missed, x.last, x.raw)

PoolsFit == PoolMax \in Nat \ {0} /\ PoolSizes \subseteq Nat

PoolFits(x, want) == {i \in PoolMembers(x) : want = "any" \/ x.on[i]}
PoolBeats(x) == {e \in PoolMembers(x) \X PoolMembers(x) : x.queue[e[1]] < x.queue[e[2]] \/ x.total[e[1]] < x.total[e[2]]}
PoolStep(x, want, i, s) ==
    IF (want = "any" \/ x.on[i - 1]) /\ (s = -1 \/ x.queue[i - 1] < x.queue[s] \/ x.total[i - 1] < x.total[s])
    THEN i - 1 ELSE s

LEMMA PoolSelected ==
  ASSUME NEW x, PoolTyped(x), NEW want, NEW f, f = C!TcpPool!Selected(x, want)
  PROVE  IsScan(PoolFits(x, want), PoolBeats(x), x.count, f)
<1>. DEFINE F == PoolFits(x, want)
            B == PoolBeats(x)
            n == x.count
            P(h) == h = [i \in 0 .. n |-> IF i = 0 THEN -1 ELSE PoolStep(x, want, i, h[i - 1])]
<1>1. n \in Nat
  BY DEF PoolTyped
<1>2. PICK g : ScanFacts(F, B, n, g)
  <2>. HIDE DEF F, B, n
  <2>. QED BY <1>1, ScanHas
<1>3. g[0] = -1 /\ (\A i \in 1 .. n : g[i] = ScanStep(F, B, i, g[i - 1])) /\ \A i \in 0 .. n : g[i] \in -1 .. i - 1
  <2>. HIDE DEF F, B, n
  <2>. QED BY <1>2 DEF ScanFacts
<1>4. \A i \in 1 .. n : ScanStep(F, B, i, g[i - 1]) = PoolStep(x, want, i, g[i - 1])
  <2>. TAKE i \in 1 .. n
  <2>1. i - 1 \in 0 .. n - 1 /\ g[i - 1] \in -1 .. i - 2
    <3>1. i - 1 \in 0 .. n /\ (i - 1) - 1 = i - 2
      BY <1>1
    <3>. QED BY <1>1, <1>3, <3>1
  <2>2. i - 1 \in F <=> (want = "any" \/ x.on[i - 1])
    BY <2>1 DEF PoolFits, PoolMembers
  <2>3. g[i - 1] # -1 => (<<i - 1, g[i - 1]>> \in B
                            <=> (x.queue[i - 1] < x.queue[g[i - 1]] \/ x.total[i - 1] < x.total[g[i - 1]]))
    <3>. SUFFICES ASSUME g[i - 1] # -1
                  PROVE  <<i - 1, g[i - 1]>> \in B
                            <=> (x.queue[i - 1] < x.queue[g[i - 1]] \/ x.total[i - 1] < x.total[g[i - 1]])
      OBVIOUS
    <3>1. i - 1 \in PoolMembers(x) /\ g[i - 1] \in PoolMembers(x)
      BY <1>1, <2>1 DEF PoolMembers
    <3>. QED BY <3>1 DEF PoolBeats
  <2>. HIDE DEF F, B
  <2>. QED BY <2>2, <2>3 DEF ScanStep, PoolStep
<1>5. P(g)
  <2>1. g = [i \in 0 .. n |-> g[i]]
    BY <1>2 DEF ScanFacts, IsScan
  <2>2. \A i \in 0 .. n : g[i] = IF i = 0 THEN -1 ELSE PoolStep(x, want, i, g[i - 1])
    BY <1>1, <1>3, <1>4
  <2>. HIDE DEF n
  <2>. QED BY <2>1, <2>2
<1>6. f = CHOOSE h : P(h)
  BY DEF C!TcpPool!Selected, C!TcpPool!None, PoolStep
<1>7. P(f)
  <2>. HIDE DEF P
  <2>. QED BY <1>5, <1>6
<1>8. f = [i \in 0 .. n |-> f[i]] /\ f[0] = -1 /\ \A i \in 1 .. n : f[i] = PoolStep(x, want, i, f[i - 1])
  <2>. DEFINE e(i) == IF i = 0 THEN -1 ELSE PoolStep(x, want, i, f[i - 1])
  <2>1. f = [i \in 0 .. n |-> e(i)]
    BY <1>7
  <2>. HIDE DEF e, P
  <2>2. \A i \in 0 .. n : f[i] = e(i)
    BY <2>1
  <2>3. f = [i \in 0 .. n |-> f[i]]
    BY <2>1
  <2>4. f[0] = e(0)
    BY <1>1, <2>2
  <2>5. ASSUME NEW i \in 1 .. n PROVE f[i] = e(i)
    BY <1>1, <2>2
  <2>6. \A i \in 1 .. n : e(i) = PoolStep(x, want, i, f[i - 1])
    BY <1>1 DEF e
  <2>. QED BY <2>3, <2>4, <2>5, <2>6 DEF e
<1>. HIDE DEF P
<1>9. \A i \in 0 .. n : f[i] = g[i]
  <2>. DEFINE T == {m \in 0 .. n : f[m] # g[m]}
  <2>. SUFFICES ASSUME T # {} PROVE FALSE
    OBVIOUS
  <2>0. T \subseteq Nat
    OBVIOUS
  <2>1. PICK m \in T : \A k \in T : m <= k
    BY <2>0, LeastNat
  <2>2. m # 0
    BY <1>3, <1>8, <2>1
  <2>3. m \in 1 .. n /\ m - 1 \in 0 .. n /\ m - 1 \notin T
    BY <1>1, <2>1, <2>2
  <2>4. f[m - 1] = g[m - 1]
    BY <2>3
  <2>. QED BY <1>3, <1>4, <1>8, <2>1, <2>3, <2>4
<1>10. f = g
  <2>1. g = [i \in 0 .. n |-> g[i]]
    BY <1>2 DEF ScanFacts, IsScan
  <2>. HIDE DEF n
  <2>. QED BY <1>8, <1>9, <2>1
<1>. QED BY <1>2, <1>10 DEF ScanFacts

\* What a selection gives.
LoadChosen(x, want, to) ==
    \/ to = -1 /\ PoolFits(x, want) = {}
    \/ to \in PoolFits(x, want) /\ \A j \in PoolFits(x, want) : j > to => x.queue[j] >= x.queue[to] /\ x.total[j] >= x.total[to]
TurnChosen(x, want, to) ==
    \/ to = -1 /\ (x.count = x.max \/ want = "any" => PoolFits(x, want) = {})
    \/ to \in 0 .. x.max - 1 /\ (want = "any" \/ x.on[to])

LEMMA LoadSelects ==
  ASSUME PoolsFit, NEW x, PoolTyped(x), NEW want, NEW r, r = C!TcpPool!SelectLeastLoad(x, want)
  PROVE  r.rr = x.rr /\ LoadChosen(x, want, r.to)
<1>. DEFINE f == C!TcpPool!Selected(x, want)
            F == PoolFits(x, want)
            B == PoolBeats(x)
            n == x.count
<1>1. r = [to |-> f[n], rr |-> x.rr] /\ n \in Nat
  BY DEF C!TcpPool!SelectLeastLoad, C!TcpPool!Sel, PoolTyped
<1>2. IsScan(F, B, n, f)
  BY PoolSelected
<1>3. ScanGood(F, B, n, f[n])
  <2>. HIDE DEF f, F, B, n
  <2>1. n \in 0 .. n
    BY <1>1
  <2>. QED BY <1>1, <1>2, <2>1, ScanSelects
<1>4. \A j \in F : j \in 0 .. n - 1 /\ j \in Int
  BY <1>1 DEF PoolFits, PoolMembers
<1>5. \A i, j \in 0 .. n - 1 : <<i, j>> \notin B => x.queue[i] >= x.queue[j] /\ x.total[i] >= x.total[j]
  <2>. TAKE i, j \in 0 .. n - 1
  <2>1. i \in PoolSlots /\ j \in PoolSlots
    BY DEF PoolTyped, PoolSlots, PoolsFit
  <2>2. x.queue[i] \in Nat /\ x.queue[j] \in Nat /\ x.total[i] \in Nat /\ x.total[j] \in Nat
    BY <2>1 DEF PoolTyped
  <2>. QED BY <2>2 DEF PoolBeats, PoolMembers
<1>. HIDE DEF f, F, B, n
<1>6. \/ f[n] = -1 /\ F = {}
      \/ f[n] \in F /\ \A j \in F : j > f[n] => x.queue[j] >= x.queue[f[n]] /\ x.total[j] >= x.total[f[n]]
  BY <1>3, <1>4, <1>5 DEF ScanGood
<1>. QED BY <1>1, <1>6 DEF LoadChosen, F

LEMMA TurnSelects ==
  ASSUME NEW x, PoolTyped(x), NEW want \in {"connected", "any"}, NEW r, r = C!TcpPool!SelectRoundRobin(x, want)
  PROVE  r.rr \in 0 .. x.max - 1 /\ TurnChosen(x, want, r.to)
<1>. DEFINE n == x.count
            m == x.max
            Try(k) == (x.rr + k) % m
            hits == {k \in 0 .. n - 1 : want = "any" \/ x.on[Try(k)]}
            first == CHOOSE k \in hits : \A j \in hits : k <= j
<1>1. n \in Nat \ {0} /\ m \in Nat \ {0} /\ x.rr \in 0 .. m - 1
  BY DEF PoolTyped
<1>2. r = IF hits = {} THEN [to |-> -1, rr |-> (x.rr + n) % m] ELSE [to |-> Try(first), rr |-> (Try(first) + 1) % m]
  BY DEF C!TcpPool!SelectRoundRobin, C!TcpPool!Sel, C!TcpPool!None
<1>3. \A k \in Nat : Try(k) \in 0 .. m - 1 /\ (Try(k) + 1) % m \in 0 .. m - 1 /\ (x.rr + k) % m \in 0 .. m - 1
  BY <1>1
<1>4. CASE hits = {}
  <2>1. r.to = -1 /\ r.rr \in 0 .. m - 1
    <3>1. r = [to |-> -1, rr |-> (x.rr + n) % m]
      BY <1>2, <1>4
    <3>2. (x.rr + n) % m \in 0 .. m - 1
      BY <1>1
    <3>. QED BY <3>1, <3>2
  <2>2. want # "any"
    <3>1. 0 \in 0 .. n - 1
      BY <1>1
    <3>. QED BY <3>1, <1>4
  <2>3. ASSUME n = m PROVE PoolFits(x, want) = {}
    <3>. SUFFICES ASSUME NEW i \in 0 .. n - 1, x.on[i] PROVE FALSE
      BY <2>2 DEF PoolFits, PoolMembers
    <3>. DEFINE k == IF i >= x.rr THEN i - x.rr ELSE i - x.rr + m
    <3>1. k \in 0 .. n - 1 /\ Try(k) = i
      BY <1>1, <2>3
    <3>2. k \in hits
      BY <3>1
    <3>. QED BY <3>2, <1>4
  <2>. QED BY <2>1, <2>2, <2>3 DEF TurnChosen
<1>5. CASE hits # {}
  <2>1. hits \subseteq Nat
    BY <1>1
  <2>2. \E k \in hits : \A j \in hits : k <= j
    <3>. HIDE DEF hits
    <3>. QED BY <1>5, <2>1, LeastNat
  <2>3. first \in hits
    <3>. HIDE DEF hits
    <3>. QED BY <2>2
  <2>4. first \in Nat /\ (want = "any" \/ x.on[Try(first)])
    <3>. HIDE DEF first
    <3>. QED BY <2>1, <2>3
  <2>. HIDE DEF first, hits
  <2>5. Try(first) \in 0 .. m - 1 /\ (Try(first) + 1) % m \in 0 .. m - 1
    BY <1>3, <2>4
  <2>. QED BY <1>2, <1>5, <2>4, <2>5 DEF TurnChosen
<1>. QED BY <1>4, <1>5

LEMMA PoolChosen ==
  ASSUME PoolsFit, NEW x, PoolTyped(x), NEW method \in {"round_robin", "least_load"}, NEW want \in {"connected", "any"},
         NEW r, r = C!TcpPool!ClientSelect(x, method, want)
  PROVE  /\ r.rr \in 0 .. x.max - 1
         /\ method = "least_load" => LoadChosen(x, want, r.to)
         /\ method = "round_robin" => TurnChosen(x, want, r.to)
<1>1. x.rr \in 0 .. x.max - 1
  BY DEF PoolTyped
<1>2. CASE method = "least_load"
  BY <1>1, <1>2, LoadSelects DEF C!TcpPool!ClientSelect
<1>3. CASE method = "round_robin"
  BY <1>3, TurnSelects DEF C!TcpPool!ClientSelect
<1>. QED BY <1>2, <1>3

\* Where a write goes.
PoolTarget(x, method, one, two) ==
    /\ one \in PoolSlots \cup {-1} /\ two \in PoolSlots \cup {-1}
    /\ one # -1 => two = one /\ one \in PoolMembers(x) /\ x.on[one]
    /\ one = -1 => \/ PoolFits(x, "connected") = {}
                   \/ method = "round_robin" /\ x.count # x.max
    /\ two \notin PoolMembers(x) => method = "round_robin" /\ x.count < x.max
    /\ method = "least_load" =>
          /\ two \in PoolMembers(x)
          /\ \A j \in (IF PoolFits(x, "connected") = {} THEN PoolMembers(x) ELSE PoolFits(x, "connected")) :
                j > two => x.queue[j] >= x.queue[two] /\ x.total[j] >= x.total[two]

LEMMA PoolTargetIs ==
  ASSUME PoolsFit, NEW x, PoolTyped(x), PoolBound(x), NEW method \in {"round_robin", "least_load"},
         NEW one, one = C!TcpPool!ClientSelect(x, method, "connected"),
         NEW two, two = IF one.to # -1 THEN one ELSE C!TcpPool!ClientSelect([x EXCEPT !.rr = one.rr], method, "any")
  PROVE  two.rr \in 0 .. x.max - 1 /\ PoolTarget(x, method, one.to, two.to)
<1>1. /\ x.count \in 1 .. PoolMax /\ x.max \in 1 .. PoolMax /\ PoolMembers(x) \subseteq PoolSlots
      /\ 0 .. x.max - 1 \subseteq PoolSlots /\ PoolMembers(x) = 0 .. x.count - 1 /\ PoolMembers(x) # {}
  <2>1. x.count \in 1 .. PoolMax /\ x.max \in 1 .. PoolMax /\ PoolMax \in Nat
    BY DEF PoolTyped, PoolsFit
  <2>2. 0 \in PoolMembers(x)
    BY <2>1 DEF PoolMembers
  <2>. QED BY <2>1, <2>2 DEF PoolMembers, PoolSlots
<1>2. /\ one.rr \in 0 .. x.max - 1
      /\ method = "least_load" => LoadChosen(x, "connected", one.to)
      /\ method = "round_robin" => TurnChosen(x, "connected", one.to)
  BY PoolChosen
<1>3. PoolFits(x, "connected") = {i \in PoolMembers(x) : x.on[i]} /\ PoolFits(x, "any") = PoolMembers(x)
  BY DEF PoolFits
<1>4. CASE one.to # -1
  <2>1. two = one
    BY <1>4
  <2>2. one.to \in PoolMembers(x) /\ x.on[one.to]
    BY <1>1, <1>2, <1>3, <1>4 DEF LoadChosen, TurnChosen, PoolBound
  <2>. QED BY <1>1, <1>2, <1>3, <1>4, <2>1, <2>2 DEF PoolTarget, LoadChosen
<1>5. CASE one.to = -1
  <2>. DEFINE y == [x EXCEPT !.rr = one.rr]
  <2>1. two = C!TcpPool!ClientSelect(y, method, "any")
    BY <1>5
  <2>2. PoolTyped(y) /\ y.count = x.count /\ y.max = x.max /\ y.on = x.on /\ y.queue = x.queue /\ y.total = x.total
    BY <1>2 DEF PoolTyped
  <2>3. PoolFits(y, "any") = PoolMembers(x)
    BY <2>2, <1>3 DEF PoolFits, PoolMembers
  <2>. HIDE DEF y
  <2>4. /\ two.rr \in 0 .. x.max - 1
        /\ method = "least_load" => LoadChosen(y, "any", two.to)
        /\ method = "round_robin" => TurnChosen(y, "any", two.to)
    BY <2>1, <2>2, PoolChosen
  <2>5. two.to # -1
    <3>1. CASE method = "least_load"
      <4>1. (two.to = -1 /\ PoolFits(y, "any") = {}) \/ two.to \in PoolFits(y, "any")
        BY <2>4, <3>1 DEF LoadChosen
      <4>2. -1 \notin PoolMembers(x)
        BY <1>1
      <4>. QED BY <1>1, <2>3, <4>1, <4>2
    <3>2. CASE method = "round_robin"
      <4>1. (two.to = -1 /\ PoolFits(y, "any") = {}) \/ two.to \in 0 .. x.max - 1
        BY <2>2, <2>4, <3>2 DEF TurnChosen
      <4>2. -1 \notin 0 .. x.max - 1
        BY <1>1
      <4>. QED BY <1>1, <2>3, <4>1, <4>2
    <3>. QED BY <3>1, <3>2
  <2>6. \/ PoolFits(x, "connected") = {}
        \/ method = "round_robin" /\ x.count # x.max
    BY <1>1, <1>2, <1>5, <1>3 DEF LoadChosen, TurnChosen
  <2>7. CASE method = "least_load"
    <3>1. two.to \in PoolMembers(x) /\ \A j \in PoolMembers(x) : j > two.to => x.queue[j] >= x.queue[two.to] /\ x.total[j] >= x.total[two.to]
      BY <2>2, <2>3, <2>4, <2>5, <2>7 DEF LoadChosen
    <3>2. PoolFits(x, "connected") = {}
      BY <2>6, <2>7
    <3>. QED BY <1>1, <1>5, <2>4, <2>7, <3>1, <3>2 DEF PoolTarget
  <2>8. CASE method = "round_robin"
    <3>1. two.to \in 0 .. x.max - 1
      BY <2>2, <2>4, <2>5, <2>8 DEF TurnChosen
    <3>2. two.to \notin PoolMembers(x) => x.count < x.max
      BY <1>1, <3>1
    <3>. QED BY <1>1, <1>5, <2>4, <2>6, <2>8, <3>1, <3>2 DEF PoolTarget
  <2>. QED BY <2>7, <2>8
<1>. QED BY <1>4, <1>5

LEMMA PoolWriteKeeps ==
  ASSUME PoolsFit, NEW x, PoolOk(x), ~x.raw, NEW method \in {"round_robin", "least_load"}, NEW size \in PoolSizes,
         NEW t, t = C!TcpPool!PoolAIOWrite(x, method, size)
  PROVE  PoolOk(t)
<1>. DEFINE one == C!TcpPool!ClientSelect(x, method, "connected")
            two == IF one.to # -1 THEN one ELSE C!TcpPool!ClientSelect([x EXCEPT !.rr = one.rr], method, "any")
            on == {i \in PoolMembers(x) : x.on[i]}
            missed == IF one.to = -1 THEN on ELSE {}
            last == [to |-> two.to, method |-> method, queue |-> x.queue, total |-> x.total, on |-> on]
            y == [x EXCEPT !.rr = two.rr, !.writes = x.writes + 1, !.missed = missed, !.last = last]
            Q == [x.queue EXCEPT ![two.to] = x.queue[two.to] + size]
            U == [x.total EXCEPT ![two.to] = x.total[two.to] + size]
<1>1. PoolTyped(x) /\ PoolBound(x) /\ x.raw = FALSE
  BY DEF PoolOk, PoolTyped
<1>2. C!TcpPool!None = -1 /\ C!TcpPool!Members(x) = PoolMembers(x)
  BY DEF C!TcpPool!None, C!TcpPool!Members, PoolMembers
<1>3. t = IF two.to \notin PoolMembers(x) THEN [y EXCEPT !.raw = TRUE] ELSE [y EXCEPT !.queue = Q, !.total = U]
  <2>1. y = [x EXCEPT !.rr = two.rr, !.writes = @ + 1, !.missed = missed, !.last = last]
    BY <1>1 DEF PoolTyped
  <2>2. t = IF two.to \notin PoolMembers(x) THEN [y EXCEPT !.raw = TRUE]
            ELSE [y EXCEPT !.queue[two.to] = @ + size, !.total[two.to] = @ + size]
    BY <1>2, <2>1 DEF C!TcpPool!PoolAIOWrite
  <2>3. y.queue = x.queue /\ y.total = x.total
    BY <1>1 DEF PoolTyped
  <2>4. [y EXCEPT !.queue[two.to] = @ + size, !.total[two.to] = @ + size] = [y EXCEPT !.queue = Q, !.total = U]
    <3>. HIDE DEF two
    <3>1. x.queue \in [PoolSlots -> Nat] /\ x.total \in [PoolSlots -> Nat]
      BY <1>1 DEF PoolTyped
    <3>. HIDE DEF y
    <3>. QED BY <2>3, <3>1
  <2>. QED BY <2>2, <2>4
<1>4. two.rr \in 0 .. x.max - 1 /\ PoolTarget(x, method, one.to, two.to)
  <2>1. one = C!TcpPool!ClientSelect(x, method, "connected")
    OBVIOUS
  <2>2. two = IF one.to # -1 THEN one ELSE C!TcpPool!ClientSelect([x EXCEPT !.rr = one.rr], method, "any")
    OBVIOUS
  <2>. HIDE DEF one, two
  <2>. QED BY <1>1, <2>1, <2>2, PoolTargetIs
<1>5. on = PoolFits(x, "connected")
  BY DEF PoolFits
<1>. HIDE DEF one, two
<1>6. PoolRight(x.count, x.max, missed, last, two.to \notin PoolMembers(x))
  <2>1. missed = (IF one.to = -1 THEN on ELSE {}) /\ last.to = two.to /\ last.method = method /\ last.on = on
        /\ last.queue = x.queue /\ last.total = x.total
    OBVIOUS
  <2>2. missed # {} => method = "round_robin" /\ x.count # x.max
    BY <1>4, <1>5, <2>1 DEF PoolTarget
  <2>3. two.to \notin PoolMembers(x) => method = "round_robin" /\ x.count < x.max
    BY <1>4 DEF PoolTarget
  <2>4. on # {} /\ missed = {} => two.to \in on
    BY <1>4, <2>1 DEF PoolTarget
  <2>5. ASSUME method = "least_load"
        PROVE  \A j \in (IF on = {} THEN PoolMembers(x) ELSE on) :
                  j > two.to => x.queue[j] >= x.queue[two.to] /\ x.total[j] >= x.total[two.to]
    BY <1>4, <1>5, <2>5 DEF PoolTarget
  <2>. HIDE DEF missed, last, on
  <2>. QED BY <2>1, <2>2, <2>3, <2>4, <2>5 DEF PoolRight, PoolMembers
<1>7. x.writes + 1 \in Nat /\ two.rr \in Nat /\ two.rr < x.max
  BY <1>1, <1>4 DEF PoolTyped
<1>. HIDE DEF missed, last, on
<1>8. /\ y.count = x.count /\ y.max = x.max /\ y.on = x.on /\ y.asked = x.asked /\ y.missed = missed /\ y.last = last /\ y.raw = x.raw
      /\ PoolTyped(y)
  BY <1>1, <1>7 DEF PoolTyped
<1>. HIDE DEF y
<1>9. CASE two.to \notin PoolMembers(x)
  <2>1. t = [y EXCEPT !.raw = TRUE]
    BY <1>3, <1>9
  <2>2. PoolTyped(t)
    BY <1>8, <2>1 DEF PoolTyped
  <2>3. /\ t.count = x.count /\ t.max = x.max /\ t.on = x.on /\ t.asked = x.asked /\ t.missed = missed /\ t.last = last /\ t.raw = TRUE
    BY <1>8, <2>1 DEF PoolTyped
  <2>4. PoolBound(t)
    BY <1>1, <2>3 DEF PoolBound, PoolMembers
  <2>5. PoolRight(t.count, t.max, t.missed, t.last, t.raw)
    BY <1>6, <1>9, <2>3 DEF PoolRight
  <2>. QED BY <2>2, <2>4, <2>5 DEF PoolOk
<1>10. CASE two.to \in PoolMembers(x)
  <2>1. t = [y EXCEPT !.queue = Q, !.total = U]
    BY <1>3, <1>10
  <2>2. Q \in [PoolSlots -> Nat] /\ U \in [PoolSlots -> Nat]
    <3>1. two.to \in PoolSlots
      BY <1>1, <1>10 DEF PoolTyped, PoolMembers, PoolSlots, PoolsFit
    <3>2. x.queue[two.to] + size \in Nat /\ x.total[two.to] + size \in Nat
      BY <1>1, <3>1 DEF PoolTyped, PoolsFit
    <3>. QED BY <1>1, <3>2 DEF PoolTyped
  <2>. HIDE DEF Q, U
  <2>3. PoolTyped(t)
    BY <1>8, <2>1, <2>2 DEF PoolTyped
  <2>4. /\ t.count = x.count /\ t.max = x.max /\ t.on = x.on /\ t.asked = x.asked /\ t.missed = missed /\ t.last = last /\ ~t.raw
    BY <1>1, <1>8, <2>1 DEF PoolTyped
  <2>5. PoolBound(t)
    BY <1>1, <2>4 DEF PoolBound, PoolMembers
  <2>6. PoolRight(t.count, t.max, t.missed, t.last, t.raw)
    BY <1>6, <1>10, <2>4 DEF PoolRight
  <2>. QED BY <2>3, <2>5, <2>6 DEF PoolOk
<1>. QED BY <1>9, <1>10

\* Everything else leaves what the selection said.
LEMMA PoolFrame ==
  ASSUME NEW x, PoolOk(x), NEW N \in [PoolSlots -> BOOLEAN], NEW A \in [PoolSlots -> BOOLEAN], NEW E \in [PoolSlots -> BOOLEAN],
         NEW Q \in [PoolSlots -> Nat], \A i \in PoolSlots : N[i] \/ A[i] => i \in PoolMembers(x),
         NEW t, t = [x EXCEPT !.on = N, !.asked = A, !.events = E, !.queue = Q]
  PROVE  PoolOk(t)
<1>1. PoolTyped(x)
  BY DEF PoolOk
<1>2. PoolTyped(t)
  BY <1>1 DEF PoolTyped
<1>3. t.count = x.count /\ t.max = x.max /\ t.missed = x.missed /\ t.last = x.last /\ t.raw = x.raw /\ t.on = N /\ t.asked = A
  BY <1>1 DEF PoolTyped
<1>. QED BY <1>2, <1>3 DEF PoolOk, PoolBound, PoolMembers

LEMMA PoolInitOk == ASSUME PoolsFit, C!TcpPool!Init PROVE PoolOk(state)
<1>1. PICK count \in 1 .. PoolMax, max \in 1 .. PoolMax + 1 : state = C!TcpPool!CommEvTCPClientPoolNew(count, max)
  BY DEF C!TcpPool!Init
<1>. DEFINE m == IF max > PoolMax THEN PoolMax ELSE max
            f == [i \in PoolSlots |-> FALSE]
            z == [i \in PoolSlots |-> 0]
            l == [to |-> -1, method |-> "none", queue |-> <<>>, total |-> <<>>, on |-> {}]
<1>2. state = [count |-> count, max |-> m, rr |-> 0, on |-> f, asked |-> f, events |-> f, queue |-> z, total |-> z,
               writes |-> 0, missed |-> {}, last |-> l, raw |-> FALSE]
  BY <1>1 DEF C!TcpPool!CommEvTCPClientPoolNew, C!TcpPool!Slots, C!TcpPool!None, PoolSlots
<1>3. m \in 1 .. PoolMax /\ f \in [PoolSlots -> BOOLEAN] /\ z \in [PoolSlots -> Nat] /\ \A i \in PoolSlots : ~f[i]
  BY DEF PoolsFit
<1>4. l.on = {} /\ l.method = "none" /\ l.to = -1
  OBVIOUS
<1>. HIDE DEF m, f, z, l
<1>5. PoolTyped(state)
  <2>1. 0 < m
    BY <1>3
  <2>. QED BY <1>2, <1>3, <2>1 DEF PoolTyped
<1>6. PoolBound(state) /\ state.missed = {} /\ ~state.raw /\ state.last = l
  BY <1>2, <1>3 DEF PoolBound
<1>. QED BY <1>4, <1>5, <1>6 DEF PoolOk, PoolRight

LEMMA PoolNextOk == ASSUME PoolsFit, PoolOk(state), C!TcpPool!Next PROVE PoolOk(state')
<1>. DEFINE x == state
            M == [i \in PoolSlots |-> i \in PoolMembers(x)]
            f == [i \in PoolSlots |-> FALSE]
<1>1. /\ PoolTyped(x) /\ PoolBound(x) /\ ~x.raw /\ C!TcpPool!Members(x) = PoolMembers(x) /\ C!TcpPool!Slots = PoolSlots
      /\ PoolMembers(x) \subseteq PoolSlots
  BY DEF PoolOk, C!TcpPool!Next, C!TcpPool!Members, PoolMembers, C!TcpPool!Slots, PoolSlots, PoolTyped, PoolsFit
<1>2. /\ x.on \in [PoolSlots -> BOOLEAN] /\ x.asked \in [PoolSlots -> BOOLEAN] /\ x.events \in [PoolSlots -> BOOLEAN]
      /\ x.queue \in [PoolSlots -> Nat]
  BY <1>1 DEF PoolTyped
<1>3. M \in [PoolSlots -> BOOLEAN] /\ f \in [PoolSlots -> BOOLEAN] /\ \A i \in PoolSlots : ~f[i] /\ (M[i] => i \in PoolMembers(x))
  <2>1. M \in [PoolSlots -> BOOLEAN] /\ \A i \in PoolSlots : M[i] = (i \in PoolMembers(x))
    OBVIOUS
  <2>2. f \in [PoolSlots -> BOOLEAN] /\ \A i \in PoolSlots : ~f[i]
    OBVIOUS
  <2>. HIDE DEF M, f
  <2>. QED BY <2>1, <2>2
<1>. HIDE DEF M, f
<1>4. ASSUME NEW S,
             NEW A \in {x.asked, M, f}, NEW t, t = [C!TcpPool!Off(x, S) EXCEPT !.asked = A]
      PROVE  PoolOk(t)
  <2>. DEFINE N == [i \in PoolSlots |-> x.on[i] /\ i \notin S]
              Q == [i \in PoolSlots |-> IF i \in S THEN 0 ELSE x.queue[i]]
  <2>1. N \in [PoolSlots -> BOOLEAN] /\ Q \in [PoolSlots -> Nat] /\ \A i \in PoolSlots : N[i] => x.on[i]
    BY <1>2
  <2>2. A \in [PoolSlots -> BOOLEAN] /\ \A i \in PoolSlots : A[i] => i \in PoolMembers(x)
    BY <1>1, <1>2, <1>3, <1>4 DEF PoolBound
  <2>3. t = [x EXCEPT !.on = N, !.asked = A, !.events = x.events, !.queue = Q]
    BY <1>1, <1>4 DEF C!TcpPool!Off, PoolTyped
  <2>. HIDE DEF N, Q
  <2>. QED BY <1>1, <1>2, <2>1, <2>2, <2>3, PoolFrame DEF PoolBound
<1>5. ASSUME NEW A \in {x.asked, M, f}, NEW E \in {x.events, M, f}, NEW t, t = [x EXCEPT !.asked = A, !.events = E]
      PROVE  PoolOk(t)
  <2>1. t = [x EXCEPT !.on = x.on, !.asked = A, !.events = E, !.queue = x.queue]
    BY <1>1, <1>5 DEF PoolTyped
  <2>2. /\ A \in [PoolSlots -> BOOLEAN] /\ E \in [PoolSlots -> BOOLEAN] /\ \A i \in PoolSlots : A[i] => i \in PoolMembers(x)
    BY <1>1, <1>2, <1>3, <1>5 DEF PoolBound
  <2>. QED BY <1>1, <1>2, <2>1, <2>2, PoolFrame DEF PoolBound
<1>6. CASE C!TcpPool!Write
  <2>1. PICK m \in {"round_robin", "least_load"}, size \in PoolSizes : state' = C!TcpPool!PoolAIOWrite(x, m, size)
    BY <1>6 DEF C!TcpPool!Write, C!TcpPool!Methods
  <2>. QED BY <1>1, <2>1, PoolWriteKeeps
<1>7. CASE C!TcpPool!Call
  <2>1. \/ state' = [x EXCEPT !.asked = M] \/ state' = [C!TcpPool!Off(x, PoolMembers(x)) EXCEPT !.asked = f]
        \/ state' = [C!TcpPool!Off(x, PoolMembers(x)) EXCEPT !.asked = M]
        \/ state' = [x EXCEPT !.events = M] \/ state' = [x EXCEPT !.events = f]
    BY <1>1, <1>7 DEF C!TcpPool!Call, C!TcpPool!PoolConnect, C!TcpPool!PoolDisconnect, C!TcpPool!PoolReconnect,
       C!TcpPool!PoolEventSet, C!TcpPool!PoolEventCancel, M, f
  <2>2. x = [x EXCEPT !.asked = x.asked, !.events = x.events]
    BY <1>1 DEF PoolTyped
  <2>3. CASE state' = [x EXCEPT !.asked = M]
    <3>1. state' = [x EXCEPT !.asked = M, !.events = x.events]
      BY <1>1, <2>3 DEF PoolTyped
    <3>. QED BY <1>5, <3>1
  <2>4. CASE state' = [x EXCEPT !.events = M] \/ state' = [x EXCEPT !.events = f]
    <3>1. state' = [x EXCEPT !.asked = x.asked, !.events = M] \/ state' = [x EXCEPT !.asked = x.asked, !.events = f]
      BY <1>1, <2>4 DEF PoolTyped
    <3>. QED BY <1>5, <3>1
  <2>. QED BY <1>4, <2>1, <2>3, <2>4
<1>8. CASE C!TcpPool!Connected
  <2>1. PICK i \in PoolMembers(x) : state' = [x EXCEPT !.on[i] = TRUE]
    BY <1>1, <1>8 DEF C!TcpPool!Connected
  <2>. DEFINE N == [x.on EXCEPT ![i] = TRUE]
  <2>2. N \in [PoolSlots -> BOOLEAN] /\ \A j \in PoolSlots : N[j] => x.on[j] \/ j = i
    BY <1>2
  <2>3. state' = [x EXCEPT !.on = N, !.asked = x.asked, !.events = x.events, !.queue = x.queue]
    BY <1>1, <2>1 DEF PoolTyped
  <2>. HIDE DEF N
  <2>4. \A j \in PoolSlots : N[j] \/ x.asked[j] => j \in PoolMembers(x)
    BY <1>1, <2>1, <2>2 DEF PoolBound
  <2>. QED BY <1>2, <2>2, <2>3, <2>4, PoolFrame
<1>9. CASE C!TcpPool!Lost
  <2>1. PICK i \in PoolMembers(x) : state' = C!TcpPool!Off(x, {i})
    BY <1>1, <1>9 DEF C!TcpPool!Lost
  <2>2. state' = [C!TcpPool!Off(x, {i}) EXCEPT !.asked = x.asked]
    BY <1>1, <2>1 DEF C!TcpPool!Off, PoolTyped
  <2>. QED BY <1>4, <2>2
<1>10. CASE C!TcpPool!Written
  <2>1. PICK i \in PoolMembers(x) : state' = [x EXCEPT !.queue[i] = 0]
    BY <1>1, <1>10 DEF C!TcpPool!Written
  <2>. DEFINE Q == [x.queue EXCEPT ![i] = 0]
  <2>2. Q \in [PoolSlots -> Nat]
    BY <1>2
  <2>3. state' = [x EXCEPT !.on = x.on, !.asked = x.asked, !.events = x.events, !.queue = Q]
    BY <1>1, <2>1 DEF PoolTyped
  <2>. HIDE DEF Q
  <2>. QED BY <1>1, <1>2, <2>2, <2>3, PoolFrame DEF PoolBound
<1>. QED BY <1>6, <1>7, <1>8, <1>9, <1>10 DEF C!TcpPool!Next

LEMMA PoolOkMeans == ASSUME PoolOk(state) PROVE TcpPool!SelectsConnected
<1>1. PoolRight(state.count, state.max, state.missed, state.last, state.raw)
  BY DEF PoolOk
<1>. QED BY <1>1 DEF TcpPool!SelectsConnected, PoolRight, TcpPool!Members, TcpPool!None

-----------------------------------------------------------------------------
(***************************************************************************)
(* The pool of UNIX clients.                                               *)
(***************************************************************************)

UPoolTyped(x) ==
    /\ x \in [count : 0 .. PoolMax, max : 1 .. PoolMax, rr : Nat, asked : SUBSET PoolMembers(x), on : SUBSET PoolMembers(x),
              events : {x.events}, load : [PoolSlots -> Nat], writes : Nat, missed : {x.missed}, last : {x.last},
              raw : {x.raw}, destroyed : BOOLEAN]
    /\ x.rr < x.max
UPoolRight(count, max, missed, last, raw) ==
    /\ missed # {} => last.method = "round_robin" /\ count # max
    /\ raw => last.method = "round_robin" /\ count < max
    /\ last.on # {} /\ missed = {} => last.to \in last.on
    /\ last.method = "least_load" /\ count > 0 =>
            /\ last.to # -1
            /\ \A i \in (IF last.on = {} THEN 0 .. count - 1 ELSE last.on) : last.load[i] >= last.load[last.to]
UPoolOk(x) == UPoolTyped(x) /\ UPoolRight(x.count, x.max, x.missed, x.last, x.raw)

UPoolFits(x, want) == {i \in PoolMembers(x) : want = "any" \/ i \in x.on}
UPoolBeats(x) == {e \in PoolMembers(x) \X PoolMembers(x) : x.load[e[1]] < x.load[e[2]]}
UPoolStep(x, want, i, s) ==
    IF (want = "any" \/ i - 1 \in x.on) /\ (s = -1 \/ x.load[i - 1] < x.load[s]) THEN i - 1 ELSE s

LEMMA UPoolSelected ==
  ASSUME NEW x, UPoolTyped(x), NEW want, NEW f, f = C!UnixPool!Selected(x, want)
  PROVE  IsScan(UPoolFits(x, want), UPoolBeats(x), x.count, f)
<1>. DEFINE F == UPoolFits(x, want)
            B == UPoolBeats(x)
            n == x.count
            P(h) == h = [i \in 0 .. n |-> IF i = 0 THEN -1 ELSE UPoolStep(x, want, i, h[i - 1])]
<1>1. n \in Nat
  BY DEF UPoolTyped
<1>2. PICK g : ScanFacts(F, B, n, g)
  <2>. HIDE DEF F, B, n
  <2>. QED BY <1>1, ScanHas
<1>3. g[0] = -1 /\ (\A i \in 1 .. n : g[i] = ScanStep(F, B, i, g[i - 1])) /\ \A i \in 0 .. n : g[i] \in -1 .. i - 1
  <2>. HIDE DEF F, B, n
  <2>. QED BY <1>2 DEF ScanFacts
<1>4. \A i \in 1 .. n : ScanStep(F, B, i, g[i - 1]) = UPoolStep(x, want, i, g[i - 1])
  <2>. TAKE i \in 1 .. n
  <2>1. i - 1 \in 0 .. n - 1 /\ g[i - 1] \in -1 .. i - 2
    <3>1. i - 1 \in 0 .. n /\ (i - 1) - 1 = i - 2
      BY <1>1
    <3>. QED BY <1>1, <1>3, <3>1
  <2>2. i - 1 \in F <=> (want = "any" \/ i - 1 \in x.on)
    BY <2>1 DEF UPoolFits, PoolMembers
  <2>3. g[i - 1] # -1 => (<<i - 1, g[i - 1]>> \in B <=> x.load[i - 1] < x.load[g[i - 1]])
    <3>. SUFFICES ASSUME g[i - 1] # -1
                  PROVE  <<i - 1, g[i - 1]>> \in B <=> x.load[i - 1] < x.load[g[i - 1]]
      OBVIOUS
    <3>1. i - 1 \in PoolMembers(x) /\ g[i - 1] \in PoolMembers(x)
      BY <1>1, <2>1 DEF PoolMembers
    <3>. QED BY <3>1 DEF UPoolBeats
  <2>. HIDE DEF F, B
  <2>. QED BY <2>2, <2>3 DEF ScanStep, UPoolStep
<1>5. P(g)
  <2>1. g = [i \in 0 .. n |-> g[i]]
    BY <1>2 DEF ScanFacts, IsScan
  <2>2. \A i \in 0 .. n : g[i] = IF i = 0 THEN -1 ELSE UPoolStep(x, want, i, g[i - 1])
    BY <1>1, <1>3, <1>4
  <2>. HIDE DEF n
  <2>. QED BY <2>1, <2>2
<1>6. f = CHOOSE h : P(h)
  BY DEF C!UnixPool!Selected, C!UnixPool!None, C!UnixPool!Fits, UPoolStep
<1>7. P(f)
  <2>. HIDE DEF P
  <2>. QED BY <1>5, <1>6
<1>8. f = [i \in 0 .. n |-> f[i]] /\ f[0] = -1 /\ \A i \in 1 .. n : f[i] = UPoolStep(x, want, i, f[i - 1])
  <2>. DEFINE e(i) == IF i = 0 THEN -1 ELSE UPoolStep(x, want, i, f[i - 1])
  <2>1. f = [i \in 0 .. n |-> e(i)]
    BY <1>7
  <2>. HIDE DEF e, P
  <2>2. \A i \in 0 .. n : f[i] = e(i)
    BY <2>1
  <2>3. f = [i \in 0 .. n |-> f[i]]
    BY <2>1
  <2>4. f[0] = e(0)
    BY <1>1, <2>2
  <2>5. ASSUME NEW i \in 1 .. n PROVE f[i] = e(i)
    BY <1>1, <2>2
  <2>6. \A i \in 1 .. n : e(i) = UPoolStep(x, want, i, f[i - 1])
    BY <1>1 DEF e
  <2>. QED BY <2>3, <2>4, <2>5, <2>6 DEF e
<1>. HIDE DEF P
<1>9. \A i \in 0 .. n : f[i] = g[i]
  <2>. DEFINE T == {m \in 0 .. n : f[m] # g[m]}
  <2>. SUFFICES ASSUME T # {} PROVE FALSE
    OBVIOUS
  <2>0. T \subseteq Nat
    OBVIOUS
  <2>1. PICK m \in T : \A k \in T : m <= k
    BY <2>0, LeastNat
  <2>2. m # 0
    BY <1>3, <1>8, <2>1
  <2>3. m \in 1 .. n /\ m - 1 \in 0 .. n /\ m - 1 \notin T
    BY <1>1, <2>1, <2>2
  <2>4. f[m - 1] = g[m - 1]
    BY <2>3
  <2>. QED BY <1>3, <1>4, <1>8, <2>1, <2>3, <2>4
<1>10. f = g
  <2>1. g = [i \in 0 .. n |-> g[i]]
    BY <1>2 DEF ScanFacts, IsScan
  <2>. HIDE DEF n
  <2>. QED BY <1>8, <1>9, <2>1
<1>. QED BY <1>2, <1>10 DEF ScanFacts

\* What a selection gives.
ULoadChosen(x, want, to) ==
    \/ to = -1 /\ UPoolFits(x, want) = {}
    \/ to \in UPoolFits(x, want) /\ \A j \in UPoolFits(x, want) : x.load[j] >= x.load[to]
UTurnChosen(x, want, to) ==
    \/ to = -1 /\ (x.count = x.max \/ want = "any" => UPoolFits(x, want) = {})
    \/ to \in 0 .. x.max - 1 /\ (want = "any" \/ to \in x.on)

LEMMA ULoadSelects ==
  ASSUME PoolsFit, NEW x, UPoolTyped(x), NEW want, NEW r, r = C!UnixPool!SelectLeastLoad(x, want)
  PROVE  r.rr = x.rr /\ ULoadChosen(x, want, r.to)
<1>. DEFINE f == C!UnixPool!Selected(x, want)
            F == UPoolFits(x, want)
            B == UPoolBeats(x)
            n == x.count
<1>1. r = [to |-> f[n], rr |-> x.rr] /\ n \in Nat
  BY DEF C!UnixPool!SelectLeastLoad, C!UnixPool!Sel, UPoolTyped
<1>2. IsScan(F, B, n, f)
  BY UPoolSelected
<1>3. ScanGood(F, B, n, f[n])
  <2>. HIDE DEF f, F, B, n
  <2>1. n \in 0 .. n
    BY <1>1
  <2>. QED BY <1>1, <1>2, <2>1, ScanSelects
<1>4. \A i \in PoolMembers(x) : x.load[i] \in Nat
  <2>. TAKE i \in PoolMembers(x)
  <2>1. i \in PoolSlots
    BY DEF UPoolTyped, PoolMembers, PoolSlots, PoolsFit
  <2>. QED BY <2>1 DEF UPoolTyped
<1>5. \A e : e \in B <=> (e \in PoolMembers(x) \X PoolMembers(x) /\ x.load[e[1]] < x.load[e[2]])
  BY DEF UPoolBeats
<1>a. \A i, j : <<i, j>> \in B <=> (i \in PoolMembers(x) /\ j \in PoolMembers(x) /\ x.load[i] < x.load[j])
  BY <1>5
<1>. HIDE DEF f, F, B, n
<1>6. \A j \in 0 .. n - 1 : j \in F => <<j, f[n]>> \notin B
  <2>1. \A a, b, c : <<a, b>> \notin B /\ <<c, b>> \in B => <<a, c>> \notin B
    BY <1>4, <1>a
  <2>2. \A a : <<a, a>> \notin B
    BY <1>4, <1>a
  <2>. QED BY <1>1, <1>2, <2>1, <2>2, ScanBest
<1>7. PoolMembers(x) = 0 .. n - 1 /\ F \subseteq PoolMembers(x)
  BY DEF PoolMembers, UPoolFits, F, n
<1>8. \/ f[n] = -1 /\ F = {}
      \/ f[n] \in F /\ \A j \in F : x.load[j] >= x.load[f[n]]
  <2>1. \A j \in F : j \in 0 .. n - 1 /\ j \in PoolMembers(x)
    BY <1>7
  <2>2. CASE f[n] = -1
    BY <1>3, <2>1, <2>2 DEF ScanGood
  <2>3. CASE f[n] # -1
    <3>1. f[n] \in F /\ f[n] \in PoolMembers(x)
      BY <1>3, <2>1, <2>3 DEF ScanGood
    <3>2. ASSUME NEW j \in F PROVE x.load[j] >= x.load[f[n]]
      <4>1. j \in PoolMembers(x) /\ <<j, f[n]>> \notin B
        BY <1>6, <2>1
      <4>2. ~(x.load[j] < x.load[f[n]])
        BY <1>a, <3>1, <4>1
      <4>3. x.load[j] \in Nat /\ x.load[f[n]] \in Nat
        BY <1>4, <3>1, <4>1
      <4>. QED BY <4>2, <4>3
    <3>. QED BY <3>1, <3>2
  <2>. QED BY <2>2, <2>3
<1>. QED BY <1>1, <1>8 DEF ULoadChosen, F

\* A turn comes to everyone.
LEMMA TurnReaches ==
  ASSUME NEW m \in Nat \ {0}, NEW q \in 0 .. m - 1, NEW i \in 0 .. m - 1
  PROVE  \E k \in 0 .. m - 1 : (q + k) % m = i
<1>1. CASE i >= q
  <2>1. i - q \in 0 .. m - 1 /\ q + (i - q) = i /\ i % m = i
    BY <1>1
  <2>. QED BY <2>1
<1>2. CASE i < q
  <2>1. i - q + m \in 0 .. m - 1 /\ q + (i - q + m) = i + m /\ (i + m) % m = i
    BY <1>2
  <2>. QED BY <2>1
<1>. QED BY <1>1, <1>2

LEMMA UTurnSelects ==
  ASSUME PoolsFit, NEW x, UPoolTyped(x), NEW want \in {"connected", "any"}, NEW r, r = C!UnixPool!SelectRoundRobin(x, want)
  PROVE  r.rr \in 0 .. x.max - 1 /\ UTurnChosen(x, want, r.to)
<1>. DEFINE n == x.count
            m == x.max
            Try(k) == (x.rr + k) % m
            hits == {k \in 0 .. n - 1 : want = "any" \/ Try(k) \in x.on}
            first == CHOOSE k \in hits : \A j \in hits : k <= j
<1>1. n \in Nat /\ m \in Nat \ {0} /\ x.rr \in 0 .. m - 1
  BY DEF UPoolTyped
<1>2. r = IF hits = {} THEN [to |-> -1, rr |-> (x.rr + n) % m] ELSE [to |-> Try(first), rr |-> (Try(first) + 1) % m]
  BY DEF C!UnixPool!SelectRoundRobin, C!UnixPool!Sel, C!UnixPool!None, C!UnixPool!Fits, C!UnixPool!Members
<1>3. \A k \in Nat : Try(k) \in 0 .. m - 1 /\ (Try(k) + 1) % m \in 0 .. m - 1 /\ (x.rr + k) % m \in 0 .. m - 1
  BY <1>1
<1>4. CASE hits = {}
  <2>1. r.to = -1 /\ r.rr \in 0 .. m - 1
    <3>1. r = [to |-> -1, rr |-> (x.rr + n) % m]
      BY <1>2, <1>4
    <3>2. (x.rr + n) % m \in 0 .. m - 1
      BY <1>1
    <3>. QED BY <3>1, <3>2
  <2>2. want = "any" => 0 .. n - 1 = {}
    BY <1>4
  <2>3. ASSUME n = m PROVE UPoolFits(x, want) = {}
    <3>. SUFFICES ASSUME NEW i \in 0 .. n - 1, i \in x.on PROVE FALSE
      BY <2>2 DEF UPoolFits, PoolMembers
    <3>1. PICK k \in 0 .. m - 1 : (x.rr + k) % m = i
      <4>1. i \in 0 .. m - 1
        BY <2>3
      <4>. HIDE DEF m
      <4>. QED BY <1>1, <4>1, TurnReaches
    <3>1a. k \in 0 .. n - 1 /\ Try(k) = i
      BY <2>3, <3>1
    <3>2. k \in hits
      BY <3>1a
    <3>. QED BY <3>2, <1>4
  <2>4. want = "any" => UPoolFits(x, want) = {}
    BY <2>2 DEF UPoolFits, PoolMembers
  <2>. QED BY <2>1, <2>3, <2>4 DEF UTurnChosen
<1>5. CASE hits # {}
  <2>1. hits \subseteq Nat
    BY <1>1
  <2>2. \E k \in hits : \A j \in hits : k <= j
    <3>. HIDE DEF hits
    <3>. QED BY <1>5, <2>1, LeastNat
  <2>3. first \in hits
    <3>. HIDE DEF hits
    <3>. QED BY <2>2
  <2>4. first \in Nat /\ (want = "any" \/ Try(first) \in x.on)
    <3>. HIDE DEF first
    <3>. QED BY <2>1, <2>3
  <2>. HIDE DEF first, hits
  <2>5. Try(first) \in 0 .. m - 1 /\ (Try(first) + 1) % m \in 0 .. m - 1
    BY <1>3, <2>4
  <2>. QED BY <1>2, <1>5, <2>4, <2>5 DEF UTurnChosen
<1>. QED BY <1>4, <1>5

LEMMA UPoolChosen ==
  ASSUME PoolsFit, NEW x, UPoolTyped(x), NEW method \in {"round_robin", "least_load"}, NEW want \in {"connected", "any"},
         NEW r, r = C!UnixPool!ClientSelect(x, method, want)
  PROVE  /\ r.rr \in 0 .. x.max - 1
         /\ method = "least_load" => ULoadChosen(x, want, r.to)
         /\ method = "round_robin" => UTurnChosen(x, want, r.to)
<1>1. x.rr \in 0 .. x.max - 1
  BY DEF UPoolTyped
<1>2. CASE method = "least_load"
  BY <1>1, <1>2, ULoadSelects DEF C!UnixPool!ClientSelect
<1>3. CASE method = "round_robin"
  BY <1>3, UTurnSelects DEF C!UnixPool!ClientSelect
<1>. QED BY <1>2, <1>3

\* Where a write goes.
UPoolTarget(x, method, one, two) ==
    /\ one # -1 => two = one /\ one \in PoolMembers(x) /\ one \in x.on
    /\ one = -1 => \/ UPoolFits(x, "connected") = {}
                   \/ method = "round_robin" /\ x.count # x.max
    /\ two \notin PoolMembers(x) => (two = -1 /\ x.count = 0) \/ (method = "round_robin" /\ x.count < x.max)
    /\ method = "least_load" /\ x.count > 0 =>
          /\ two \in PoolMembers(x)
          /\ \A j \in (IF UPoolFits(x, "connected") = {} THEN PoolMembers(x) ELSE UPoolFits(x, "connected")) :
                x.load[j] >= x.load[two]

LEMMA UPoolTargetIs ==
  ASSUME PoolsFit, NEW x, UPoolTyped(x), NEW method \in {"round_robin", "least_load"},
         NEW one, one = C!UnixPool!ClientSelect(x, method, "connected"),
         NEW two, two = IF one.to # -1 THEN one ELSE C!UnixPool!ClientSelect([x EXCEPT !.rr = one.rr], method, "any")
  PROVE  two.rr \in 0 .. x.max - 1 /\ UPoolTarget(x, method, one.to, two.to)
<1>1. /\ x.count \in 0 .. PoolMax /\ x.max \in 1 .. PoolMax
      /\ PoolMembers(x) = 0 .. x.count - 1 /\ x.on \subseteq PoolMembers(x) /\ -1 \notin PoolMembers(x)
      /\ -1 \notin 0 .. x.max - 1 /\ (PoolMembers(x) = {} <=> x.count = 0)
  <2>1. x.count \in 0 .. PoolMax /\ x.max \in 1 .. PoolMax /\ PoolMax \in Nat /\ x.on \subseteq PoolMembers(x)
    BY DEF UPoolTyped, PoolsFit
  <2>2. x.count # 0 => 0 \in PoolMembers(x)
    BY <2>1 DEF PoolMembers
  <2>. QED BY <2>1, <2>2 DEF PoolMembers
<1>2. /\ one.rr \in 0 .. x.max - 1
      /\ method = "least_load" => ULoadChosen(x, "connected", one.to)
      /\ method = "round_robin" => UTurnChosen(x, "connected", one.to)
  BY UPoolChosen
<1>3. UPoolFits(x, "connected") = {i \in PoolMembers(x) : i \in x.on} /\ UPoolFits(x, "any") = PoolMembers(x)
  BY DEF UPoolFits
<1>4. CASE one.to # -1
  <2>1. two = one
    BY <1>4
  <2>2. one.to \in PoolMembers(x) /\ one.to \in x.on
    BY <1>1, <1>2, <1>3, <1>4 DEF ULoadChosen, UTurnChosen
  <2>3. method = "least_load" => UPoolFits(x, "connected") # {} /\ \A j \in UPoolFits(x, "connected") : x.load[j] >= x.load[one.to]
    BY <1>2, <1>4 DEF ULoadChosen
  <2>. QED BY <1>1, <1>2, <1>4, <2>1, <2>2, <2>3 DEF UPoolTarget
<1>5. CASE one.to = -1
  <2>. DEFINE y == [x EXCEPT !.rr = one.rr]
  <2>1. two = C!UnixPool!ClientSelect(y, method, "any")
    BY <1>5
  <2>2. UPoolTyped(y) /\ y.count = x.count /\ y.max = x.max /\ y.on = x.on /\ y.load = x.load
    <3>1. one.rr \in Nat /\ one.rr < x.max
      BY <1>1, <1>2
    <3>. QED BY <3>1 DEF UPoolTyped, PoolMembers
  <2>3. UPoolFits(y, "any") = PoolMembers(x)
    BY <2>2, <1>3 DEF UPoolFits, PoolMembers
  <2>. HIDE DEF y
  <2>4. /\ two.rr \in 0 .. x.max - 1
        /\ method = "least_load" => ULoadChosen(y, "any", two.to)
        /\ method = "round_robin" => UTurnChosen(y, "any", two.to)
    BY <2>1, <2>2, UPoolChosen
  <2>5. \/ UPoolFits(x, "connected") = {}
        \/ method = "round_robin" /\ x.count # x.max
    BY <1>1, <1>2, <1>5, <1>3 DEF ULoadChosen, UTurnChosen
  <2>6. CASE method = "least_load"
    <3>1. UPoolFits(x, "connected") = {}
      BY <2>5, <2>6
    <3>2. CASE two.to = -1 /\ PoolMembers(x) = {}
      BY <1>1, <1>5, <2>4, <2>5, <3>2 DEF UPoolTarget
    <3>3. CASE two.to \in PoolMembers(x) /\ \A j \in PoolMembers(x) : x.load[j] >= x.load[two.to]
      BY <1>1, <1>5, <2>4, <2>5, <3>1, <3>3 DEF UPoolTarget
    <3>. QED BY <2>2, <2>3, <2>4, <2>6, <3>2, <3>3 DEF ULoadChosen
  <2>7. CASE method = "round_robin"
    <3>1. (two.to = -1 /\ PoolMembers(x) = {}) \/ two.to \in 0 .. x.max - 1
      BY <2>2, <2>3, <2>4, <2>7 DEF UTurnChosen
    <3>2. two.to \notin PoolMembers(x) => (two.to = -1 /\ x.count = 0) \/ x.count < x.max
      BY <1>1, <3>1
    <3>. QED BY <1>1, <1>5, <2>4, <2>5, <2>7, <3>2 DEF UPoolTarget
  <2>. QED BY <2>6, <2>7
<1>. QED BY <1>4, <1>5

LEMMA UPoolWriteKeeps ==
  ASSUME PoolsFit, NEW x, UPoolOk(x), ~x.raw, NEW method \in {"round_robin", "least_load"},
         NEW t, t = C!UnixPool!PoolAIOWrite(x, method)
  PROVE  UPoolOk(t)
<1>. DEFINE one == C!UnixPool!ClientSelect(x, method, "connected")
            two == IF one.to # -1 THEN one ELSE C!UnixPool!ClientSelect([x EXCEPT !.rr = one.rr], method, "any")
            missed == IF one.to = -1 THEN x.on ELSE {}
            last == [to |-> two.to, method |-> method, load |-> x.load, on |-> x.on]
            y == [x EXCEPT !.rr = two.rr, !.writes = x.writes + 1, !.missed = missed, !.last = last]
            L == [x.load EXCEPT ![two.to] = x.load[two.to] + 1]
<1>1. UPoolTyped(x) /\ x.raw = FALSE
  BY DEF UPoolOk, UPoolTyped
<1>2. C!UnixPool!None = -1 /\ C!UnixPool!Members(x) = PoolMembers(x)
  BY DEF C!UnixPool!None, C!UnixPool!Members, PoolMembers
<1>3. t = IF two.to = -1 THEN y
          ELSE IF two.to \notin PoolMembers(x) THEN [y EXCEPT !.raw = TRUE] ELSE [y EXCEPT !.load = L]
  <2>1. y = [x EXCEPT !.rr = two.rr, !.writes = @ + 1, !.missed = missed, !.last = last]
    BY <1>1 DEF UPoolTyped
  <2>2. t = IF two.to = -1 THEN y
            ELSE IF two.to \notin PoolMembers(x) THEN [y EXCEPT !.raw = TRUE] ELSE [y EXCEPT !.load[two.to] = @ + 1]
    BY <1>2, <2>1 DEF C!UnixPool!PoolAIOWrite
  <2>3. y.load = x.load
    BY <1>1 DEF UPoolTyped
  <2>4. [y EXCEPT !.load[two.to] = @ + 1] = [y EXCEPT !.load = L]
    <3>. HIDE DEF two
    <3>1. x.load \in [PoolSlots -> Nat]
      BY <1>1 DEF UPoolTyped
    <3>. HIDE DEF y
    <3>. QED BY <2>3, <3>1
  <2>. QED BY <2>2, <2>4
<1>4. two.rr \in 0 .. x.max - 1 /\ UPoolTarget(x, method, one.to, two.to)
  <2>1. one = C!UnixPool!ClientSelect(x, method, "connected")
    OBVIOUS
  <2>2. two = IF one.to # -1 THEN one ELSE C!UnixPool!ClientSelect([x EXCEPT !.rr = one.rr], method, "any")
    OBVIOUS
  <2>. HIDE DEF one, two
  <2>. QED BY <1>1, <2>1, <2>2, UPoolTargetIs
<1>5. /\ x.on = UPoolFits(x, "connected") /\ x.on \subseteq PoolMembers(x) /\ -1 \notin PoolMembers(x)
      /\ PoolMembers(x) = {} <=> x.count = 0
  <2>1. x.on \subseteq PoolMembers(x) /\ x.count \in 0 .. PoolMax /\ PoolMax \in Nat
    BY <1>1 DEF UPoolTyped, PoolsFit
  <2>2. UPoolFits(x, "connected") = {i \in PoolMembers(x) : i \in x.on}
    BY DEF UPoolFits
  <2>3. x.count # 0 => 0 \in PoolMembers(x)
    BY <2>1 DEF PoolMembers
  <2>4. -1 \notin PoolMembers(x) /\ (x.count = 0 => PoolMembers(x) = {})
    BY <2>1 DEF PoolMembers
  <2>. QED BY <2>1, <2>2, <2>3, <2>4
<1>. HIDE DEF one, two
<1>6. UPoolRight(x.count, x.max, missed, last, two.to # -1 /\ two.to \notin PoolMembers(x))
  <2>1. missed = (IF one.to = -1 THEN x.on ELSE {}) /\ last.to = two.to /\ last.method = method /\ last.on = x.on
        /\ last.load = x.load
    OBVIOUS
  <2>2. missed # {} => method = "round_robin" /\ x.count # x.max
    BY <1>4, <1>5, <2>1 DEF UPoolTarget
  <2>3. two.to # -1 /\ two.to \notin PoolMembers(x) => method = "round_robin" /\ x.count < x.max
    BY <1>4 DEF UPoolTarget
  <2>4. x.on # {} /\ missed = {} => two.to \in x.on
    BY <1>4, <2>1 DEF UPoolTarget
  <2>5. ASSUME method = "least_load", x.count > 0
        PROVE  /\ two.to # -1
               /\ \A j \in (IF x.on = {} THEN PoolMembers(x) ELSE x.on) : x.load[j] >= x.load[two.to]
    BY <1>4, <1>5, <2>5 DEF UPoolTarget
  <2>. HIDE DEF missed, last
  <2>. QED BY <2>1, <2>2, <2>3, <2>4, <2>5 DEF UPoolRight, PoolMembers
<1>7. x.writes + 1 \in Nat /\ two.rr \in Nat /\ two.rr < x.max
  BY <1>1, <1>4 DEF UPoolTyped
<1>. HIDE DEF missed, last
<1>8. /\ y.count = x.count /\ y.max = x.max /\ y.on = x.on /\ y.asked = x.asked /\ y.missed = missed /\ y.last = last /\ y.raw = x.raw
      /\ UPoolTyped(y)
  BY <1>1, <1>7 DEF UPoolTyped, PoolMembers
<1>. HIDE DEF y
<1>9. CASE two.to = -1
  <2>1. t = y
    BY <1>3, <1>9
  <2>2. UPoolRight(y.count, y.max, y.missed, y.last, y.raw)
    BY <1>1, <1>6, <1>8, <1>9 DEF UPoolRight
  <2>. QED BY <1>8, <2>1, <2>2 DEF UPoolOk
<1>10. CASE two.to # -1 /\ two.to \notin PoolMembers(x)
  <2>1. t = [y EXCEPT !.raw = TRUE]
    BY <1>3, <1>10
  <2>2. UPoolTyped(t)
    BY <1>8, <2>1 DEF UPoolTyped, PoolMembers
  <2>3. /\ t.count = x.count /\ t.max = x.max /\ t.missed = missed /\ t.last = last /\ t.raw = TRUE
    BY <1>8, <2>1 DEF UPoolTyped
  <2>4. UPoolRight(t.count, t.max, t.missed, t.last, t.raw)
    BY <1>6, <1>10, <2>3 DEF UPoolRight
  <2>. QED BY <2>2, <2>4 DEF UPoolOk
<1>11. CASE two.to # -1 /\ two.to \in PoolMembers(x)
  <2>1. t = [y EXCEPT !.load = L]
    BY <1>3, <1>11
  <2>2. L \in [PoolSlots -> Nat]
    <3>1. two.to \in PoolSlots
      BY <1>1, <1>11 DEF UPoolTyped, PoolMembers, PoolSlots, PoolsFit
    <3>2. x.load[two.to] + 1 \in Nat
      BY <1>1, <3>1 DEF UPoolTyped
    <3>. QED BY <1>1, <3>2 DEF UPoolTyped
  <2>. HIDE DEF L
  <2>3. UPoolTyped(t)
    BY <1>8, <2>1, <2>2 DEF UPoolTyped, PoolMembers
  <2>4. /\ t.count = x.count /\ t.max = x.max /\ t.missed = missed /\ t.last = last /\ t.raw = FALSE
    BY <1>1, <1>8, <2>1 DEF UPoolTyped
  <2>5. UPoolRight(t.count, t.max, t.missed, t.last, t.raw)
    BY <1>6, <1>11, <2>4 DEF UPoolRight
  <2>. QED BY <2>3, <2>5 DEF UPoolOk
<1>. QED BY <1>9, <1>10, <1>11

\* Everything else leaves what the selection said.
LEMMA UPoolFrame ==
  ASSUME NEW x, UPoolOk(x), NEW A \in SUBSET PoolMembers(x), NEW N \in SUBSET PoolMembers(x), NEW E,
         NEW L \in [PoolSlots -> Nat], NEW w \in Nat, NEW d \in BOOLEAN,
         NEW t, t = [x EXCEPT !.asked = A, !.on = N, !.events = E, !.load = L, !.writes = w, !.destroyed = d]
  PROVE  UPoolOk(t)
<1>1. UPoolTyped(x)
  BY DEF UPoolOk
<1>2. UPoolTyped(t)
  BY <1>1 DEF UPoolTyped, PoolMembers
<1>3. t.count = x.count /\ t.max = x.max /\ t.missed = x.missed /\ t.last = x.last /\ t.raw = x.raw
  BY <1>1 DEF UPoolTyped
<1>. QED BY <1>2, <1>3 DEF UPoolOk

LEMMA UPoolInitOk == ASSUME PoolsFit, C!UnixPool!Init PROVE UPoolOk(state)
<1>1. PICK count \in 1 .. PoolMax + 1, max \in 1 .. PoolMax + 1, failed \in 1 .. PoolMax + 1 :
        count <= PoolMax /\ state = C!UnixPool!CommEvUNIXClientPoolNew(count, max, failed - 1)
  BY DEF C!UnixPool!Init
<1>. DEFINE c == IF failed - 1 < count THEN failed - 1 ELSE count
            m == IF max > PoolMax THEN PoolMax ELSE max
            z == [i \in PoolSlots |-> 0]
            l == [to |-> -1, method |-> "none", load |-> <<>>, on |-> {}]
<1>2. state = [count |-> c, max |-> m, rr |-> 0, asked |-> {}, on |-> {}, events |-> {}, load |-> z, writes |-> 0,
               missed |-> {}, last |-> l, raw |-> FALSE, destroyed |-> FALSE]
  BY <1>1 DEF C!UnixPool!CommEvUNIXClientPoolNew, C!UnixPool!Slots, C!UnixPool!None, PoolSlots
<1>3. c \in 0 .. PoolMax /\ m \in 1 .. PoolMax /\ z \in [PoolSlots -> Nat] /\ 0 < m
  BY <1>1 DEF PoolsFit
<1>4. l.on = {} /\ l.method = "none" /\ l.to = -1
  OBVIOUS
<1>. HIDE DEF c, m, z, l
<1>5. UPoolTyped(state)
  BY <1>2, <1>3 DEF UPoolTyped
<1>6. state.missed = {} /\ ~state.raw /\ state.last = l
  BY <1>2
<1>. QED BY <1>4, <1>5, <1>6 DEF UPoolOk, UPoolRight

LEMMA UPoolNextOk == ASSUME PoolsFit, UPoolOk(state), C!UnixPool!Next PROVE UPoolOk(state')
<1>. DEFINE x == state
            M == PoolMembers(x)
<1>1. /\ UPoolTyped(x) /\ ~x.raw /\ ~x.destroyed /\ C!UnixPool!Members(x) = M /\ C!UnixPool!Slots = PoolSlots
      /\ M \subseteq PoolSlots
  BY DEF UPoolOk, C!UnixPool!Next, C!UnixPool!Members, PoolMembers, C!UnixPool!Slots, PoolSlots, UPoolTyped, PoolsFit
<1>2. /\ x.on \in SUBSET M /\ x.asked \in SUBSET M /\ x.load \in [PoolSlots -> Nat] /\ x.writes \in Nat /\ x.destroyed \in BOOLEAN
  BY <1>1 DEF UPoolTyped
<1>. HIDE DEF M
<1>3. ASSUME NEW A \in SUBSET M, NEW N \in SUBSET M, NEW E, NEW L \in [PoolSlots -> Nat], NEW w \in Nat, NEW d \in BOOLEAN,
             NEW t, t = [x EXCEPT !.asked = A, !.on = N, !.events = E, !.load = L, !.writes = w, !.destroyed = d]
      PROVE  UPoolOk(t)
  BY <1>3, UPoolFrame DEF M
<1>4. CASE C!UnixPool!Write
  <2>1. PICK m \in {"round_robin", "least_load"} : state' = C!UnixPool!PoolAIOWrite(x, m)
    BY <1>4 DEF C!UnixPool!Write, C!UnixPool!Methods
  <2>. QED BY <1>1, <2>1, UPoolWriteKeeps
<1>5. CASE C!UnixPool!Call
  <2>. DEFINE z == [i \in PoolSlots |-> 0]
  <2>1. \/ state' = [x EXCEPT !.asked = M]
        \/ state' = [x EXCEPT !.events = M]
        \/ state' = [x EXCEPT !.events = {}]
        \/ state' = [x EXCEPT !.asked = {}, !.on = {}, !.events = {}, !.load = z, !.destroyed = TRUE]
    BY <1>1, <1>5 DEF C!UnixPool!Call, C!UnixPool!PoolConnect, C!UnixPool!PoolEventSet, C!UnixPool!PoolEventCancel, C!UnixPool!PoolDestroy
  <2>2. z \in [PoolSlots -> Nat] /\ {} \in SUBSET M /\ M \in SUBSET M
    OBVIOUS
  <2>. HIDE DEF z
  <2>3. CASE state' = [x EXCEPT !.asked = M]
    <3>1. state' = [x EXCEPT !.asked = M, !.on = x.on, !.events = x.events, !.load = x.load, !.writes = x.writes, !.destroyed = x.destroyed]
      BY <1>1, <2>3 DEF UPoolTyped
    <3>. QED BY <1>2, <1>3, <2>2, <3>1
  <2>4. ASSUME NEW E, state' = [x EXCEPT !.events = E] PROVE UPoolOk(state')
    <3>1. state' = [x EXCEPT !.asked = x.asked, !.on = x.on, !.events = E, !.load = x.load, !.writes = x.writes, !.destroyed = x.destroyed]
      BY <1>1, <2>4 DEF UPoolTyped
    <3>. QED BY <1>2, <1>3, <3>1
  <2>5. CASE state' = [x EXCEPT !.asked = {}, !.on = {}, !.events = {}, !.load = z, !.destroyed = TRUE]
    <3>1. state' = [x EXCEPT !.asked = {}, !.on = {}, !.events = {}, !.load = z, !.writes = x.writes, !.destroyed = TRUE]
      BY <1>1, <2>5 DEF UPoolTyped
    <3>. QED BY <1>2, <1>3, <2>2, <3>1
  <2>. QED BY <2>1, <2>3, <2>4, <2>5
<1>6. CASE C!UnixPool!Connected
  <2>1. PICK i \in x.asked : state' = [x EXCEPT !.on = @ \cup {i}]
    BY <1>6 DEF C!UnixPool!Connected
  <2>. DEFINE N == x.on \cup {i}
  <2>2. N \in SUBSET M
    BY <1>2
  <2>3. state' = [x EXCEPT !.asked = x.asked, !.on = N, !.events = x.events, !.load = x.load, !.writes = x.writes, !.destroyed = x.destroyed]
    BY <1>1, <2>1 DEF UPoolTyped
  <2>. HIDE DEF N
  <2>. QED BY <1>2, <1>3, <2>2, <2>3
<1>7. ASSUME NEW i \in x.on, NEW N \in SUBSET M, NEW k \in Nat, NEW w \in Nat, state' = [x EXCEPT !.on = N, !.load[i] = k, !.writes = w]
      PROVE  UPoolOk(state')
  <2>. DEFINE L == [x.load EXCEPT ![i] = k]
  <2>1. L \in [PoolSlots -> Nat]
    BY <1>1, <1>2
  <2>2. state' = [x EXCEPT !.asked = x.asked, !.on = N, !.events = x.events, !.load = L, !.writes = w, !.destroyed = x.destroyed]
    BY <1>1, <1>7 DEF UPoolTyped
  <2>. HIDE DEF L
  <2>. QED BY <1>2, <1>3, <2>1, <2>2
<1>8. CASE C!UnixPool!Lost
  <2>1. PICK i \in x.on : state' = [x EXCEPT !.on = @ \ {i}, !.load[i] = 0]
    BY <1>8 DEF C!UnixPool!Lost
  <2>. DEFINE N == x.on \ {i}
  <2>2. N \in SUBSET M /\ state' = [x EXCEPT !.on = N, !.load[i] = 0, !.writes = x.writes]
    BY <1>1, <1>2, <2>1 DEF UPoolTyped
  <2>. HIDE DEF N
  <2>. QED BY <1>2, <1>7, <2>2
<1>9. CASE C!UnixPool!Done
  <2>1. PICK i \in x.on : x.load[i] > 0 /\ state' = [x EXCEPT !.load[i] = @ - 1]
    BY <1>9 DEF C!UnixPool!Done
  <2>. DEFINE k == x.load[i] - 1
  <2>2. i \in PoolSlots /\ k \in Nat
    BY <1>1, <1>2, <2>1
  <2>3. state' = [x EXCEPT !.on = x.on, !.load[i] = k, !.writes = x.writes]
    BY <1>1, <2>1, <2>2 DEF UPoolTyped
  <2>. HIDE DEF k
  <2>. QED BY <1>2, <1>7, <2>2, <2>3
<1>10. CASE C!UnixPool!Asks
  <2>1. PICK i \in x.on : state' = [x EXCEPT !.load[i] = @ + 1, !.writes = @ + 1]
    BY <1>10 DEF C!UnixPool!Asks
  <2>. DEFINE k == x.load[i] + 1
              w == x.writes + 1
  <2>2. i \in PoolSlots /\ k \in Nat /\ w \in Nat
    BY <1>1, <1>2, <2>1
  <2>3. state' = [x EXCEPT !.on = x.on, !.load[i] = k, !.writes = w]
    BY <1>1, <2>1, <2>2 DEF UPoolTyped
  <2>. HIDE DEF k, w
  <2>. QED BY <1>2, <1>7, <2>2, <2>3
<1>. QED BY <1>4, <1>5, <1>6, <1>8, <1>9, <1>10 DEF C!UnixPool!Next

LEMMA UPoolOkMeans == ASSUME UPoolOk(state) PROVE UnixPool!SelectsConnected
<1>1. UPoolRight(state.count, state.max, state.missed, state.last, state.raw)
  BY DEF UPoolOk
<1>. QED BY <1>1 DEF UnixPool!SelectsConnected, UPoolRight, UnixPool!Members, UnixPool!None

PoolInv == (part = "pool" => PoolOk(state)) /\ (part = "unixpool" => UPoolOk(state))

(***************************************************************************)
(* PoolAIOWrite of both pools writes to a client that is connected while   *)
(* there is one, unless clients are taken in turns in a pool that is not   *)
(* as big as its cli_count_max; only such a pool, in turns, hands out a    *)
(* slot without a client. With the least load, none of those that might    *)
(* have been selected has less than the UNIX client selected, and none     *)
(* that comes later has less than the TCP client, in queue or in total.    *)
(***************************************************************************)
THEOREM PoolsSelectConnected == ASSUME PoolsFit PROVE C!MCSpec => []PoolSelectsConnected
<1>1. C!MCInit => PoolInv
  BY PoolInitOk, UPoolInitOk DEF C!MCInit, PoolInv
<1>2. PoolInv /\ [C!MCNext]_<<part, state>> => PoolInv'
  <2>. SUFFICES ASSUME PoolInv, [C!MCNext]_<<part, state>> PROVE PoolInv'
    OBVIOUS
  <2>1. CASE UNCHANGED <<part, state>>
    BY <2>1 DEF PoolInv
  <2>2. ASSUME C!MCNext, part' = "pool" PROVE PoolOk(state')
    <3>1. part = "pool" /\ C!TcpPool!Next
      BY <2>2 DEF C!MCNext
    <3>. QED BY <3>1, PoolNextOk DEF PoolInv
  <2>3. ASSUME C!MCNext, part' = "unixpool" PROVE UPoolOk(state')
    <3>1. part = "unixpool" /\ C!UnixPool!Next
      BY <2>3 DEF C!MCNext
    <3>. QED BY <3>1, UPoolNextOk DEF PoolInv
  <2>. QED BY <2>1, <2>2, <2>3 DEF PoolInv
<1>3. PoolInv => PoolSelectsConnected
  BY PoolOkMeans, UPoolOkMeans DEF PoolInv, PoolSelectsConnected
<1>. QED BY <1>1, <1>2, <1>3, PTL DEF C!MCSpec
=============================================================================
