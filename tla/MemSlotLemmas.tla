--------------------------- MODULE MemSlotLemmas ----------------------------
(***************************************************************************)
(* What each MEM_SLOT operation does to a well-formed base, for every      *)
(* number of slots, lists and slots per arena block: the lemmas the proofs *)
(* about the users of MEM_SLOT cite.                                       *)
(***************************************************************************)
EXTENDS MemSlotOps, SequenceTheorems, TLAPS

(***************************************************************************)
(* Sequences without duplicates, as DLINKED_LIST and SLOT_QUEUE keep them. *)
(***************************************************************************)

(* Append: DLinkedListAddTail of a node that is not on the list. *)
LEMMA AppendInj ==
  ASSUME NEW S, NEW q \in Seq(S), IsInjective(q), NEW e \in S, e \notin Range(q)
  PROVE  /\ Append(q, e) \in Seq(S)
         /\ IsInjective(Append(q, e))
         /\ Range(Append(q, e)) = Range(q) \cup {e}
<1>. DEFINE r == Append(q, e)
<1>1. /\ r \in Seq(S) /\ Len(r) = Len(q) + 1
      /\ \A i \in 1 .. Len(q) : r[i] = q[i]
      /\ r[Len(q) + 1] = e
  BY AppendProperties
<1>. HIDE DEF r
<1>2. IsInjective(r)
  BY <1>1 DEF IsInjective, Range
<1>3. Range(r) = Range(q) \cup {e}
  <2>1. ASSUME NEW x \in Range(r) PROVE x \in Range(q) \cup {e}
    <3>1. PICK i \in 1 .. Len(r) : r[i] = x
      BY <1>1 DEF Range
    <3>. QED BY <3>1, <1>1 DEF Range
  <2>2. ASSUME NEW x \in Range(q) PROVE x \in Range(r)
    BY <1>1 DEF Range
  <2>3. e \in Range(r)
    BY <1>1 DEF Range
  <2>. QED BY <2>1, <2>2, <2>3
<1>. QED BY <1>1, <1>2, <1>3 DEF r

(* Cons: SlotQueueFree of an id that is not free, DLinkedListAdd. *)
LEMMA ConsInj ==
  ASSUME NEW S, NEW q \in Seq(S), IsInjective(q), NEW e \in S, e \notin Range(q)
  PROVE  /\ <<e>> \o q \in Seq(S)
         /\ IsInjective(<<e>> \o q)
         /\ Range(<<e>> \o q) = Range(q) \cup {e}
<1>. DEFINE r == <<e>> \o q
<1>1. /\ r \in Seq(S) /\ Len(r) = Len(q) + 1
      /\ r[1] = e
      /\ \A i \in 1 .. Len(q) : r[i + 1] = q[i]
  BY ConcatProperties
<1>. HIDE DEF r
<1>2. \A i \in 1 .. Len(r) : i = 1 \/ (i - 1 \in 1 .. Len(q) /\ r[i] = q[i - 1])
  <2>. TAKE i \in 1 .. Len(r)
  <2>1. CASE i # 1
    <3>1. i - 1 \in 1 .. Len(q) /\ (i - 1) + 1 = i
      BY <2>1, <1>1
    <3>. QED BY <3>1, <1>1
  <2>. QED BY <2>1
<1>3. IsInjective(r)
  <2>. SUFFICES ASSUME NEW i \in 1 .. Len(r), NEW j \in 1 .. Len(r), r[i] = r[j]
                PROVE  i = j
    BY <1>1 DEF IsInjective
  <2>1. CASE i = 1 /\ j = 1
    BY <2>1
  <2>. \A h \in 1 .. Len(q) : q[h] # e
    BY DEF Range
  <2>2. CASE i = 1 /\ j # 1
    BY <2>2, <1>1, <1>2
  <2>3. CASE i # 1 /\ j = 1
    BY <2>3, <1>1, <1>2
  <2>4. CASE i # 1 /\ j # 1
    <3>1. i - 1 \in 1 .. Len(q) /\ j - 1 \in 1 .. Len(q) /\ q[i - 1] = q[j - 1]
      BY <2>4, <1>2
    <3>2. i - 1 = j - 1
      BY <3>1 DEF IsInjective
    <3>. QED BY <3>2, <1>1
  <2>. QED BY <2>1, <2>2, <2>3, <2>4
<1>4. Range(r) = Range(q) \cup {e}
  <2>1. ASSUME NEW x \in Range(r) PROVE x \in Range(q) \cup {e}
    BY <1>1, <1>2 DEF Range
  <2>2. ASSUME NEW x \in Range(q) PROVE x \in Range(r)
    <3>1. PICK i \in 1 .. Len(q) : q[i] = x
      BY DEF Range
    <3>2. i + 1 \in 1 .. Len(r) /\ r[i + 1] = x
      BY <3>1, <1>1
    <3>. QED BY <3>2, <1>1 DEF Range
  <2>3. e \in Range(r)
    BY <1>1 DEF Range
  <2>. QED BY <2>1, <2>2, <2>3
<1>. QED BY <1>1, <1>3, <1>4 DEF r

(* Tail: SlotQueueGrab, DLinkedListPopHead. *)
LEMMA TailInj ==
  ASSUME NEW S, NEW q \in Seq(S), IsInjective(q), q # << >>
  PROVE  /\ Head(q) \in S /\ Head(q) \in Range(q)
         /\ Tail(q) \in Seq(S)
         /\ IsInjective(Tail(q))
         /\ Range(Tail(q)) = Range(q) \ {Head(q)}
<1>. DEFINE r == Tail(q)
<1>1. /\ Head(q) \in S /\ r \in Seq(S) /\ Len(r) = Len(q) - 1
      /\ \A i \in 1 .. Len(r) : r[i] = q[i + 1]
      /\ Len(q) \in Nat \ {0} /\ Head(q) = q[1]
  BY HeadTailProperties
<1>. HIDE DEF r
<1>2. IsInjective(r)
  <2>1. \A i, j \in 1 .. Len(r) : q[i + 1] = q[j + 1] => i + 1 = j + 1
    BY <1>1 DEF IsInjective
  <2>. QED BY <2>1, <1>1 DEF IsInjective
<1>3. Range(r) = Range(q) \ {Head(q)}
  <2>1. ASSUME NEW x \in Range(r) PROVE x \in Range(q) \ {Head(q)}
    <3>1. PICK i \in 1 .. Len(r) : r[i] = x
      BY <1>1 DEF Range
    <3>2. i + 1 \in 1 .. Len(q) /\ i + 1 # 1 /\ 1 \in 1 .. Len(q) /\ q[i + 1] = x
      BY <3>1, <1>1
    <3>. QED BY <3>2, <1>1 DEF Range, IsInjective
  <2>2. ASSUME NEW x \in Range(q), x # Head(q) PROVE x \in Range(r)
    <3>1. PICK i \in 1 .. Len(q) : q[i] = x
      BY DEF Range
    <3>2. i - 1 \in 1 .. Len(r) /\ (i - 1) + 1 = i
      BY <3>1, <2>2, <1>1
    <3>3. r[i - 1] = x
      BY <3>1, <3>2, <1>1
    <3>. QED BY <3>2, <3>3, <1>1 DEF Range
  <2>. QED BY <2>1, <2>2
<1>4. Head(q) \in Range(q)
  BY <1>1 DEF Range
<1>. QED BY <1>1, <1>2, <1>3, <1>4 DEF r

(* Front: DLinkedListPopTail. *)
LEMMA FrontInj ==
  ASSUME NEW S, NEW q \in Seq(S), IsInjective(q), q # << >>
  PROVE  /\ Last(q) \in S /\ Last(q) \in Range(q)
         /\ Front(q) \in Seq(S)
         /\ IsInjective(Front(q))
         /\ Range(Front(q)) = Range(q) \ {Last(q)}
<1>. DEFINE r == Front(q)
<1>1. /\ Len(q) \in Nat \ {0} /\ Last(q) = q[Len(q)]
      /\ \A i \in 1 .. Len(q) : q[i] \in S
  BY ElementOfSeq DEF Last
<1>2. /\ r \in Seq(S) /\ Len(r) = Len(q) - 1
      /\ \A i \in 1 .. Len(r) : r[i] = q[i]
  <2>1. r = SubSeq(q, 1, Len(q) - 1)
    BY DEF Front
  <2>2. \A i \in 1 .. Len(q) - 1 : q[i] \in S
    BY <1>1
  <2>. HIDE DEF r
  <2>3. /\ r \in Seq(S)
        /\ Len(r) = IF 1 <= Len(q) - 1 THEN (Len(q) - 1) - 1 + 1 ELSE 0
        /\ \A i \in 1 .. (Len(q) - 1) - 1 + 1 : r[i] = q[1 + i - 1]
    BY <2>1, <2>2, <1>1, SubSeqProperties
  <2>4. Len(r) = Len(q) - 1
    <3>1. CASE Len(q) = 1
      BY <3>1, <2>3
    <3>2. CASE Len(q) # 1
      <4>1. \A n \in Nat \ {0} : n # 1 => 1 <= n - 1 /\ (n - 1) - 1 + 1 = n - 1
        OBVIOUS
      <4>2. 1 <= Len(q) - 1 /\ (Len(q) - 1) - 1 + 1 = Len(q) - 1
        BY <3>2, <1>1, <4>1
      <4>. QED BY <4>2, <2>3
    <3>. QED BY <3>1, <3>2
  <2>. QED BY <2>3, <2>4, <1>1
<1>. HIDE DEF r
<1>3. IsInjective(r)
  BY <1>1, <1>2 DEF IsInjective
<1>4. Range(r) = Range(q) \ {Last(q)}
  BY <1>1, <1>2 DEF Range, IsInjective
<1>5. Last(q) \in S /\ Last(q) \in Range(q)
  BY <1>1 DEF Range
<1>. QED BY <1>2, <1>3, <1>4, <1>5 DEF r

(* RemoveFirst: DLinkedListDelete of a node that is on the list. *)
LEMMA RemoveFirstIsCut ==
  ASSUME NEW S, NEW q \in Seq(S), IsInjective(q), NEW s \in Range(q)
  PROVE  \E k \in 1 .. Len(q) :
            /\ q[k] = s
            /\ RemoveFirst(q, s) = SubSeq(q, 1, k - 1) \o SubSeq(q, k + 1, Len(q))
<1>1. PICK k \in 1 .. Len(q) : q[k] = s
  BY DEF Range
<1>2. { i \in 1 .. Len(q) : q[i] = s } = {k}
  BY <1>1 DEF IsInjective
<1>3. Min({k}) = k
  BY <1>1 DEF Min
<1>4. SelectInSeq(q, LAMBDA v : v = s) = k
  BY <1>3, <1>2 DEF SelectInSeq
<1>5. RemoveFirst(q, s) = RemoveAt(q, k)
  BY <1>1, <1>4 DEF RemoveFirst
<1>6. RemoveAt(q, k) = SubSeq(q, 1, k - 1) \o SubSeq(q, k + 1, Len(q))
  BY DEF RemoveAt
<1>. QED BY <1>1, <1>5, <1>6

LEMMA RemoveFirstIndex ==
  ASSUME NEW S, NEW q \in Seq(S), IsInjective(q), NEW s \in Range(q)
  PROVE  \E k \in 1 .. Len(q) :
            /\ q[k] = s
            /\ RemoveFirst(q, s) \in Seq(S) /\ Len(RemoveFirst(q, s)) = Len(q) - 1
            /\ \A i \in 1 .. Len(q) - 1 : RemoveFirst(q, s)[i] = IF i < k THEN q[i] ELSE q[i + 1]
<1>1. PICK k \in 1 .. Len(q) :
              /\ q[k] = s
              /\ RemoveFirst(q, s) = SubSeq(q, 1, k - 1) \o SubSeq(q, k + 1, Len(q))
  BY RemoveFirstIsCut
<1>. DEFINE a == SubSeq(q, 1, k - 1)
            b == SubSeq(q, k + 1, Len(q))
            r == RemoveFirst(q, s)
<1>2. /\ a \in Seq(S) /\ Len(a) = k - 1 /\ \A i \in 1 .. k - 1 : a[i] = q[i]
      /\ b \in Seq(S) /\ Len(b) = Len(q) - k /\ \A i \in 1 .. Len(q) - k : b[i] = q[i + k]
  BY SubSeqProperties, ElementOfSeq
<1>3. r = a \o b
  BY <1>1
<1>. HIDE DEF a, b, r
<1>4. /\ r \in Seq(S) /\ Len(r) = Len(q) - 1
      /\ \A i \in 1 .. Len(q) - 1 : r[i] = IF i < k THEN q[i] ELSE q[i + 1]
  <2>1. /\ r \in Seq(S) /\ Len(r) = Len(a) + Len(b)
        /\ \A i \in 1 .. Len(a) + Len(b) : r[i] = IF i <= Len(a) THEN a[i] ELSE b[i - Len(a)]
    BY <1>2, <1>3, ConcatProperties
  <2>2. ASSUME NEW i \in 1 .. Len(q) - 1 PROVE r[i] = IF i < k THEN q[i] ELSE q[i + 1]
    <3>1. CASE i < k
      BY <3>1, <2>1, <1>2
    <3>2. CASE i >= k
      <4>1. i - (k - 1) \in 1 .. Len(q) - k /\ ~ (i <= Len(a)) /\ i \in 1 .. Len(a) + Len(b)
        BY <3>2, <1>2
      <4>2. r[i] = b[i - (k - 1)]
        BY <4>1, <2>1, <1>2
      <4>3. b[i - (k - 1)] = q[(i - (k - 1)) + k]
        BY <4>1, <1>2
      <4>. QED BY <4>2, <4>3, <3>2
    <3>. QED BY <3>1, <3>2
  <2>. QED BY <2>1, <2>2, <1>2
<1>. QED BY <1>1, <1>4 DEF r

LEMMA RemoveFirstInj ==
  ASSUME NEW S, NEW q \in Seq(S), IsInjective(q), NEW s \in Range(q)
  PROVE  /\ RemoveFirst(q, s) \in Seq(S)
         /\ IsInjective(RemoveFirst(q, s))
         /\ Range(RemoveFirst(q, s)) = Range(q) \ {s}
         /\ q[1] # s => RemoveFirst(q, s) # << >> /\ RemoveFirst(q, s)[1] = q[1]
         /\ RemoveFirst(q, Head(q)) = Tail(q)
<1>. DEFINE r == RemoveFirst(q, s)
<1>1. PICK k \in 1 .. Len(q) :
              /\ q[k] = s
              /\ r \in Seq(S) /\ Len(r) = Len(q) - 1
              /\ \A i \in 1 .. Len(q) - 1 : r[i] = IF i < k THEN q[i] ELSE q[i + 1]
  BY RemoveFirstIndex
<1>. HIDE DEF r
<1>4. /\ r \in Seq(S) /\ Len(r) = Len(q) - 1
      /\ \A i \in 1 .. Len(q) - 1 : r[i] = IF i < k THEN q[i] ELSE q[i + 1]
  BY <1>1
<1>5. IsInjective(r)
  <2>. SUFFICES ASSUME NEW i \in 1 .. Len(q) - 1, NEW j \in 1 .. Len(q) - 1, r[i] = r[j]
                PROVE  i = j
    BY <1>4 DEF IsInjective
  <2>. DEFINE m(h) == IF h < k THEN h ELSE h + 1
  <2>1. m(i) \in 1 .. Len(q) /\ m(j) \in 1 .. Len(q) /\ q[m(i)] = q[m(j)]
    BY <1>4
  <2>2. m(i) = m(j)
    BY <2>1 DEF IsInjective
  <2>. QED BY <2>2
<1>6. Range(r) = Range(q) \ {s}
  <2>1. ASSUME NEW x \in Range(q), x # s PROVE x \in Range(r)
    <3>1. PICK j \in 1 .. Len(q) : q[j] = x
      BY <2>1 DEF Range
    <3>2. CASE j < k
      BY <3>1, <3>2, <1>4 DEF Range
    <3>3. CASE j > k
      <4>1. j - 1 \in 1 .. Len(q) - 1 /\ ~ (j - 1 < k) /\ r[j - 1] = q[j]
        BY <3>3, <1>4
      <4>. QED BY <4>1, <3>1, <1>4 DEF Range
    <3>. QED BY <3>1, <3>2, <3>3, <2>1, <1>1
  <2>2. ASSUME NEW x \in Range(r) PROVE x \in Range(q) /\ x # s
    <3>1. PICK j \in 1 .. Len(r) : r[j] = x
      BY <1>4 DEF Range
    <3>2. PICK i \in 1 .. Len(q) : i # k /\ q[i] = x
      BY <3>1, <1>4
    <3>. QED BY <3>2, <1>1 DEF Range, IsInjective
  <2>. QED BY <2>1, <2>2
<1>7. q[1] # s => r # << >> /\ r[1] = q[1]
  BY <1>1, <1>4
<1>8. RemoveFirst(q, Head(q)) = Tail(q)
  <2>1. q # << >> /\ Head(q) = q[1] /\ q[1] \in Range(q)
    BY <1>1 DEF Range
  <2>2. PICK h \in 1 .. Len(q) :
              /\ q[h] = Head(q)
              /\ RemoveFirst(q, Head(q)) = SubSeq(q, 1, h - 1) \o SubSeq(q, h + 1, Len(q))
    BY <2>1, RemoveFirstIsCut
  <2>3. h = 1
    BY <2>1, <2>2, <1>1 DEF IsInjective
  <2>4. SubSeq(q, 1, h - 1) = << >>
    BY <2>3, SubSeqEmpty
  <2>5. Tail(q) = SubSeq(q, 2, Len(q)) /\ Tail(q) \in Seq(S)
    BY <2>1, TailIsSubSeq, HeadTailProperties
  <2>6. SubSeq(q, h + 1, Len(q)) = Tail(q)
    BY <2>3, <2>5
  <2>7. << >> \o Tail(q) = Tail(q)
    BY <2>5, ConcatEmptySeq
  <2>8. RemoveFirst(q, Head(q)) = << >> \o Tail(q)
    BY <2>2, <2>4, <2>6
  <2>. QED BY <2>7, <2>8
<1>. QED BY <1>4, <1>5, <1>6, <1>7, <1>8 DEF r

-----------------------------------------------------------------------------
(***************************************************************************)
(* One lemma per operation: the base stays well formed and exactly the     *)
(* slot the operation is about changes its place.                          *)
(***************************************************************************)
LEMMA ListsDisjoint ==
  ASSUME NEW p, WellFormed(p), NEW l \in ListIds, NEW m \in ListIds,
         NEW s \in OnList(p, l), s \in OnList(p, m)
  PROVE  l = m
BY DEF WellFormed, MetaNamesList

LEMMA OnListIsSlot ==
  ASSUME NEW p, WellFormed(p), NEW l \in ListIds
  PROVE  /\ p.list[l] \in Seq(SlotIds) /\ IsInjective(p.list[l])
         /\ OnList(p, l) \subseteq SlotIds
         /\ OnList(p, l) \subseteq Allocated(p)
         /\ p.free \in Seq(SlotIds) /\ IsInjective(p.free) /\ FreeIds(p) \subseteq SlotIds
<1>1. /\ p.list[l] \in Seq(SlotIds) /\ IsInjective(p.list[l])
      /\ p.free \in Seq(SlotIds) /\ IsInjective(p.free)
  BY DEF WellFormed, Pool, NoDuplicates
<1>2. Range(p.list[l]) \in SUBSET SlotIds /\ Range(p.free) \in SUBSET SlotIds
  BY <1>1, RangeOfSeq
<1>. QED BY <1>1, <1>2 DEF OnList, FreeIds, Allocated

(* MemSlotBaseInit *)
LEMMA NewPoolWF ==
  /\ WellFormed(NewPool)
  /\ \A l \in ListIds : OnList(NewPool, l) = {}
<1>. USE PoolAssumption DEF SlotIds, ListIds
<1>1. NewPool.free \in Seq(SlotIds) /\ Len(NewPool.free) = SlotCount
  BY DEF NewPool
<1>2. \A l \in ListIds : NewPool.list[l] = << >>
  BY DEF NewPool
<1>3. \A l \in ListIds : OnList(NewPool, l) = {}
  BY <1>2 DEF OnList, Range
<1>4. FreeIds(NewPool) = SlotIds
  <2>1. \A s \in SlotIds : s + 1 \in 1 .. SlotCount /\ NewPool.free[s + 1] = s
    BY DEF NewPool
  <2>2. \A i \in 1 .. SlotCount : NewPool.free[i] \in SlotIds
    BY DEF NewPool
  <2>3. DOMAIN NewPool.free = 1 .. SlotCount
    BY DEF NewPool
  <2>. QED BY <2>1, <2>2, <2>3 DEF FreeIds, Range
<1>5. NoDuplicates(NewPool)
  <2>1. IsInjective(NewPool.free)
    BY DEF NewPool, IsInjective
  <2>2. \A l \in ListIds : IsInjective(NewPool.list[l])
    BY <1>2 DEF IsInjective
  <2>. QED BY <2>1, <2>2 DEF NoDuplicates
<1>6. NewPool \in Pool
  <2>1. [l \in ListIds |-> << >>] \in [ListIds -> Seq(SlotIds)]
    OBVIOUS
  <2>2. [s \in SlotIds |-> 0] \in [SlotIds -> ListIds]
    OBVIOUS
  <2>. QED BY <1>1, <2>1, <2>2 DEF NewPool, Pool
<1>. QED BY <1>3, <1>4, <1>5, <1>6
         DEF WellFormed, FreeXorListed, MetaNamesList, ListedHasMemory

(* MemSlotBaseSlotGrab, MemSlotBaseSlotGrabAndLeaveLocked *)
LEMMA GrabWF ==
  ASSUME NEW p, WellFormed(p), HasFree(p)
  PROVE  /\ WellFormed(Grab(p))
         /\ GrabId(p) \in SlotIds
         /\ \A l \in ListIds : GrabId(p) \notin OnList(p, l)
         /\ OnList(Grab(p), 0) = OnList(p, 0) \cup {GrabId(p)}
         /\ \A l \in ListIds \ {0} : Grab(p).list[l] = p.list[l]
         /\ Grab(p).bits = p.bits \cup {GrabId(p)}
<1>. DEFINE g == GrabId(p)
            q == Grab(p)
<1>0. 0 \in ListIds
  BY PoolAssumption DEF ListIds
<1>1. p \in Pool /\ p.free \in Seq(SlotIds) /\ IsInjective(p.free) /\ p.free # << >>
  BY DEF WellFormed, Pool, NoDuplicates, HasFree
<1>2. /\ g \in SlotIds /\ g \in FreeIds(p)
      /\ q.free \in Seq(SlotIds) /\ IsInjective(q.free)
      /\ FreeIds(q) = FreeIds(p) \ {g}
  BY <1>1, TailInj DEF GrabId, Grab, FreeIds
<1>3. \A l \in ListIds : g \notin OnList(p, l)
  BY <1>2 DEF WellFormed, FreeXorListed
<1>4. p.list[0] \in Seq(SlotIds) /\ IsInjective(p.list[0]) /\ g \notin Range(p.list[0])
  BY <1>0, <1>3, OnListIsSlot DEF OnList
<1>5. q.list = [p.list EXCEPT ![0] = Append(@, g)] /\ p.list \in [ListIds -> Seq(SlotIds)]
  BY <1>1 DEF Grab, Pool
<1>6. /\ q.list[0] \in Seq(SlotIds) /\ IsInjective(q.list[0])
      /\ OnList(q, 0) = OnList(p, 0) \cup {g}
  BY <1>0, <1>2, <1>4, <1>5, AppendInj DEF OnList
<1>7. \A l \in ListIds \ {0} : q.list[l] = p.list[l]
  BY <1>5
<1>8. q.cur = [p.cur EXCEPT ![g] = 0] /\ q.bits = p.bits \cup {g}
  BY DEF Grab
<1>. HIDE DEF g, q
<1>9. q \in Pool
  <2>1. Grab(p) \in [free : Seq(SlotIds), list : [ListIds -> Seq(SlotIds)],
                     cur : [SlotIds -> ListIds], bits : SUBSET SlotIds]
    <3>1. [p.list EXCEPT ![0] = Append(@, GrabId(p))] \in [ListIds -> Seq(SlotIds)]
      BY <1>5, <1>6, <1>0 DEF q, g
    <3>2. [p.cur EXCEPT ![GrabId(p)] = 0] \in [SlotIds -> ListIds]
      BY <1>1, <1>0 DEF Pool
    <3>3. p.bits \cup {GrabId(p)} \in SUBSET SlotIds
      BY <1>1, <1>2 DEF Pool, g
    <3>4. Tail(p.free) \in Seq(SlotIds)
      BY <1>2 DEF q, Grab
    <3>. QED BY <3>1, <3>2, <3>3, <3>4 DEF Grab
  <2>. QED BY <2>1 DEF q, Pool
<1>10. NoDuplicates(q)
  BY <1>2, <1>6, <1>7, OnListIsSlot DEF NoDuplicates
<1>11. \A l \in ListIds : OnList(q, l) = IF l = 0 THEN OnList(p, l) \cup {g} ELSE OnList(p, l)
  BY <1>6, <1>7 DEF OnList
<1>12. FreeXorListed(q)
  BY <1>0, <1>2, <1>3, <1>11 DEF WellFormed, FreeXorListed
<1>13. MetaNamesList(q)
  <2>1. \A s \in SlotIds : q.cur[s] = IF s = g THEN 0 ELSE p.cur[s]
    BY <1>1, <1>8 DEF Pool
  <2>2. \A l \in ListIds : OnList(p, l) \subseteq SlotIds
    BY OnListIsSlot
  <2>. QED BY <2>1, <2>2, <1>2, <1>3, <1>11 DEF WellFormed, MetaNamesList
<1>14. ListedHasMemory(q)
  BY <1>8, <1>11 DEF WellFormed, ListedHasMemory
<1>. QED BY <1>2, <1>3, <1>6, <1>7, <1>8, <1>9, <1>10, <1>12, <1>13, <1>14
         DEF WellFormed, g, q

(* DLinkedListDelete from the list the slot's metadata names. *)
LEMMA UnlinkProperties ==
  ASSUME NEW p, WellFormed(p), NEW s \in Allocated(p)
  PROVE  LET u == Unlink(p, s)
         IN  /\ u \in [ListIds -> Seq(SlotIds)]
             /\ \A l \in ListIds : /\ IsInjective(u[l])
                                   /\ Range(u[l]) = OnList(p, l) \ {s}
             /\ \A l \in ListIds : s \notin OnList(p, l) => u[l] = p.list[l]
             /\ \A l \in ListIds : p.list[l] # << >> /\ PointToHead(p, l) # s
                    => u[l] # << >> /\ Head(u[l]) = PointToHead(p, l)
<1>. DEFINE u == Unlink(p, s)
            c == p.cur[s]
<1>1. PICK k \in ListIds : s \in OnList(p, k)
  BY DEF Allocated
<1>2. c = k /\ p.list \in [ListIds -> Seq(SlotIds)]
  BY <1>1 DEF WellFormed, MetaNamesList, Pool
<1>3. u = [p.list EXCEPT ![k] = RemoveFirst(@, s)]
  BY <1>2 DEF Unlink
<1>4. /\ RemoveFirst(p.list[k], s) \in Seq(SlotIds)
      /\ IsInjective(RemoveFirst(p.list[k], s))
      /\ Range(RemoveFirst(p.list[k], s)) = OnList(p, k) \ {s}
      /\ p.list[k][1] # s => /\ RemoveFirst(p.list[k], s) # << >>
                             /\ RemoveFirst(p.list[k], s)[1] = p.list[k][1]
  BY <1>1, OnListIsSlot, RemoveFirstInj DEF OnList
<1>5. \A l \in ListIds : s \in OnList(p, l) => l = k
  BY <1>1, ListsDisjoint
<1>6. \A l \in ListIds : /\ IsInjective(p.list[l])
                         /\ p.list[l] \in Seq(SlotIds)
  BY OnListIsSlot
<1>7. /\ u[k] = RemoveFirst(p.list[k], s)
      /\ \A l \in ListIds \ {k} : u[l] = p.list[l]
      /\ u \in [ListIds -> Seq(SlotIds)]
  BY <1>2, <1>3, <1>4
<1>. HIDE DEF u, c
<1>8. \A l \in ListIds : IsInjective(u[l]) /\ Range(u[l]) = OnList(p, l) \ {s}
  BY <1>4, <1>5, <1>6, <1>7 DEF OnList
<1>9. \A l \in ListIds : s \notin OnList(p, l) => u[l] = p.list[l]
  BY <1>1, <1>7
<1>10. ASSUME NEW l \in ListIds, p.list[l] # << >>, PointToHead(p, l) # s
       PROVE  u[l] # << >> /\ Head(u[l]) = PointToHead(p, l)
  <2>1. CASE l = k
    <3>1. p.list[k][1] # s
      BY <1>10, <2>1 DEF PointToHead
    <3>. QED BY <3>1, <2>1, <1>4, <1>7 DEF PointToHead
  <2>2. CASE l # k
    BY <1>10, <2>2, <1>7 DEF PointToHead
  <2>. QED BY <2>1, <2>2
<1>. QED BY <1>7, <1>8, <1>9, <1>10 DEF u

(* MemSlotBaseSlotFree *)
LEMMA SlotFreeWF ==
  ASSUME NEW p, WellFormed(p), NEW s \in Allocated(p)
  PROVE  LET q == SlotFree(p, s)
         IN  /\ WellFormed(q)
             /\ \A l \in ListIds : OnList(q, l) = OnList(p, l) \ {s}
             /\ \A l \in ListIds : s \notin OnList(p, l) => q.list[l] = p.list[l]
             /\ \A l \in ListIds : p.list[l] # << >> /\ PointToHead(p, l) # s
                    => q.list[l] # << >> /\ PointToHead(q, l) = PointToHead(p, l)
             /\ q.bits = p.bits \ {s}
<1>. DEFINE q == SlotFree(p, s)
            u == Unlink(p, s)
<1>1. PICK k \in ListIds : s \in OnList(p, k)
  BY DEF Allocated
<1>2. s \in SlotIds /\ s \notin FreeIds(p) /\ p \in Pool
  BY <1>1, OnListIsSlot DEF WellFormed, FreeXorListed
<1>3. /\ q.free = <<s>> \o p.free /\ q.list = u
      /\ q.cur = p.cur /\ q.bits = p.bits \ {s}
  BY <1>2 DEF SlotFree, Pool
<1>4. /\ q.free \in Seq(SlotIds) /\ IsInjective(q.free)
      /\ FreeIds(q) = FreeIds(p) \cup {s}
  BY <1>1, <1>2, <1>3, OnListIsSlot, ConsInj DEF FreeIds
<1>5. /\ u \in [ListIds -> Seq(SlotIds)]
      /\ \A l \in ListIds : IsInjective(u[l]) /\ Range(u[l]) = OnList(p, l) \ {s}
      /\ \A l \in ListIds : s \notin OnList(p, l) => u[l] = p.list[l]
      /\ \A l \in ListIds : p.list[l] # << >> /\ PointToHead(p, l) # s
             => u[l] # << >> /\ Head(u[l]) = PointToHead(p, l)
  BY UnlinkProperties
<1>6. q \in Pool
  BY <1>2, <1>3, <1>4, <1>5 DEF SlotFree, Pool
<1>. HIDE DEF q, u
<1>7. \A l \in ListIds : OnList(q, l) = OnList(p, l) \ {s}
  BY <1>3, <1>5 DEF OnList
<1>8. NoDuplicates(q)
  BY <1>3, <1>4, <1>5 DEF NoDuplicates
<1>9. FreeXorListed(q)
  BY <1>4, <1>7, <1>1, <1>2 DEF WellFormed, FreeXorListed
<1>10. MetaNamesList(q) /\ ListedHasMemory(q)
  BY <1>3, <1>7 DEF WellFormed, MetaNamesList, ListedHasMemory
<1>. QED BY <1>3, <1>5, <1>6, <1>7, <1>8, <1>9, <1>10 DEF WellFormed, PointToHead, q

(* The list a slot joins, at its tail or at its head. *)
LEMMA RelinkedList ==
  ASSUME NEW p, WellFormed(p), NEW s \in Allocated(p), NEW l \in ListIds, NEW new,
         new = Append(Unlink(p, s)[l], s) \/ new = <<s>> \o Unlink(p, s)[l]
  PROVE  /\ new \in Seq(SlotIds) /\ IsInjective(new)
         /\ Range(new) = OnList(p, l) \cup {s}
<1>. DEFINE v == Unlink(p, s)[l]
<1>1. v \in Seq(SlotIds) /\ IsInjective(v) /\ Range(v) = OnList(p, l) \ {s}
  BY UnlinkProperties
<1>2. s \in SlotIds
  BY DEF Allocated
<1>3. new = Append(v, s) \/ new = <<s>> \o v
  OBVIOUS
<1>. HIDE DEF v
<1>4. CASE new = Append(v, s)
  BY <1>1, <1>2, <1>4, AppendInj
<1>5. CASE new = <<s>> \o v
  BY <1>1, <1>2, <1>5, ConsInj
<1>. QED BY <1>3, <1>4, <1>5

(* A slot leaves its list and joins another: what SwitchToTail, Switch and *)
(* PointToHeadAndSwitch have in common.                                    *)
LEMMA RelinkWF ==
  ASSUME NEW p, WellFormed(p), NEW s \in Allocated(p), NEW l \in ListIds, NEW new,
         new \in Seq(SlotIds), IsInjective(new), Range(new) = OnList(p, l) \cup {s},
         NEW inUse, inUse = p.bits \cup {s}
  PROVE  LET q == Relink(p, s, l, new, inUse)
         IN  /\ WellFormed(q)
             /\ OnList(q, l) = OnList(p, l) \cup {s}
             /\ \A m \in ListIds \ {l} : OnList(q, m) = OnList(p, m) \ {s}
<1>. DEFINE q == Relink(p, s, l, new, inUse)
<1>0. /\ q.free = p.free
      /\ q.list = [Unlink(p, s) EXCEPT ![l] = new]
      /\ q.cur = [p.cur EXCEPT ![s] = l]
      /\ q.bits = p.bits \cup {s}
      /\ q = [free |-> q.free, list |-> q.list, cur |-> q.cur, bits |-> q.bits]
  BY DEF Relink
<1>. HIDE DEF q
<1>. DEFINE u == Unlink(p, s)
<1>1. PICK k \in ListIds : s \in OnList(p, k)
  BY DEF Allocated
<1>2. s \in SlotIds /\ p \in Pool
  BY <1>1, OnListIsSlot DEF WellFormed
<1>3. /\ u \in [ListIds -> Seq(SlotIds)]
      /\ \A m \in ListIds : IsInjective(u[m]) /\ Range(u[m]) = OnList(p, m) \ {s}
  BY UnlinkProperties
<1>. HIDE DEF u
<1>5. q.list \in [ListIds -> Seq(SlotIds)]
  BY <1>0, <1>3 DEF u
<1>6. q.list[l] = new /\ \A m \in ListIds \ {l} : q.list[m] = u[m]
  BY <1>0, <1>3 DEF u
<1>7. OnList(q, l) = OnList(p, l) \cup {s}
  BY <1>6 DEF OnList
<1>8. \A m \in ListIds \ {l} : OnList(q, m) = OnList(p, m) \ {s}
  BY <1>3, <1>6 DEF OnList
<1>9. q \in Pool
  <2>1. q.cur \in [SlotIds -> ListIds] /\ q.bits \in SUBSET SlotIds /\ q.free \in Seq(SlotIds)
    BY <1>0, <1>2 DEF Pool
  <2>. QED BY <2>1, <1>0, <1>5 DEF Pool
<1>10. NoDuplicates(q)
  BY <1>0, <1>3, <1>6 DEF NoDuplicates, WellFormed
<1>11. FreeXorListed(q)
  BY <1>0, <1>1, <1>7, <1>8 DEF WellFormed, FreeXorListed, FreeIds
<1>12. MetaNamesList(q)
  <2>1. \A t \in SlotIds : q.cur[t] = IF t = s THEN l ELSE p.cur[t]
    BY <1>0, <1>2 DEF Pool
  <2>2. \A m \in ListIds : OnList(p, m) \subseteq SlotIds
    BY OnListIsSlot
  <2>. QED BY <2>1, <2>2, <1>2, <1>7, <1>8 DEF WellFormed, MetaNamesList
<1>13. ListedHasMemory(q)
  BY <1>0, <1>7, <1>8 DEF WellFormed, ListedHasMemory
<1>. QED BY <1>7, <1>8, <1>9, <1>10, <1>11, <1>12, <1>13 DEF WellFormed, q

(* MemSlotBaseSlotListIDSwitchToTail *)
LEMMA SwitchToTailWF ==
  ASSUME NEW p, WellFormed(p), NEW s \in Allocated(p), NEW l \in ListIds
  PROVE  LET q == SwitchToTail(p, s, l)
         IN  /\ WellFormed(q)
             /\ OnList(q, l) = OnList(p, l) \cup {s}
             /\ \A m \in ListIds \ {l} : OnList(q, m) = OnList(p, m) \ {s}
             /\ q.bits = p.bits \cup {s}
<1>. DEFINE new == Append(Unlink(p, s)[l], s)
<1>1. /\ new \in Seq(SlotIds) /\ IsInjective(new)
      /\ Range(new) = OnList(p, l) \cup {s}
  BY RelinkedList
<1>2. PICK inUse : inUse = p.bits \cup {s}
  OBVIOUS
<1>3. SwitchToTail(p, s, l) = Relink(p, s, l, new, inUse)
  BY <1>2 DEF SwitchToTail
<1>. HIDE DEF new
<1>4. Relink(p, s, l, new, inUse).bits = inUse
  BY DEF Relink
<1>5. /\ WellFormed(Relink(p, s, l, new, inUse))
      /\ OnList(Relink(p, s, l, new, inUse), l) = OnList(p, l) \cup {s}
      /\ \A m \in ListIds \ {l} : OnList(Relink(p, s, l, new, inUse), m) = OnList(p, m) \ {s}
  BY <1>1, <1>2, RelinkWF
<1>. QED BY <1>2, <1>3, <1>4, <1>5

LEMMA SwitchToTailKeeps ==
  ASSUME NEW p, WellFormed(p), NEW s \in Allocated(p), NEW l \in ListIds, s \notin OnList(p, l)
  PROVE  LET q == SwitchToTail(p, s, l)
         IN  /\ q.list[l] = Append(p.list[l], s)
             /\ \A m \in ListIds \ {l} : s \notin OnList(p, m) => q.list[m] = p.list[m]
<1>. DEFINE u == Unlink(p, s)
            new == Append(u[l], s)
<1>1. /\ u \in [ListIds -> Seq(SlotIds)]
      /\ \A m \in ListIds : s \notin OnList(p, m) => u[m] = p.list[m]
  BY UnlinkProperties
<1>2. SwitchToTail(p, s, l).list = [u EXCEPT ![l] = new]
  BY DEF SwitchToTail, Relink
<1>3. new = Append(p.list[l], s)
  BY <1>1
<1>. HIDE DEF u, new
<1>. QED BY <1>1, <1>2, <1>3

(* MemSlotBaseSlotListIDSwitch *)
LEMMA SwitchWF ==
  ASSUME NEW p, WellFormed(p), NEW s \in Allocated(p), NEW l \in ListIds
  PROVE  LET q == Switch(p, s, l)
         IN  /\ WellFormed(q)
             /\ OnList(q, l) = OnList(p, l) \cup {s}
             /\ \A m \in ListIds \ {l} : OnList(q, m) = OnList(p, m) \ {s}
             /\ q.bits = p.bits \cup {s}
<1>. DEFINE new == <<s>> \o Unlink(p, s)[l]
<1>1. /\ new \in Seq(SlotIds) /\ IsInjective(new)
      /\ Range(new) = OnList(p, l) \cup {s}
  BY RelinkedList
<1>2. PICK inUse : inUse = p.bits \cup {s}
  OBVIOUS
<1>3. Switch(p, s, l) = Relink(p, s, l, new, inUse)
  BY <1>2 DEF Switch
<1>. HIDE DEF new
<1>4. Relink(p, s, l, new, inUse).bits = inUse
  BY DEF Relink
<1>5. /\ WellFormed(Relink(p, s, l, new, inUse))
      /\ OnList(Relink(p, s, l, new, inUse), l) = OnList(p, l) \cup {s}
      /\ \A m \in ListIds \ {l} : OnList(Relink(p, s, l, new, inUse), m) = OnList(p, m) \ {s}
  BY <1>1, <1>2, RelinkWF
<1>. QED BY <1>2, <1>3, <1>4, <1>5

(* MemSlotBaseSlotPointToHeadAndSwitchListID *)
LEMMA HeadSwitchWF ==
  ASSUME NEW p, WellFormed(p), NEW from \in ListIds, NEW to \in ListIds,
         ~ IsEmptyList(p, from)
  PROVE  LET q == HeadSwitch(p, from, to)
             s == PointToHead(p, from)
         IN  /\ s \in OnList(p, from) /\ s \in SlotIds
             /\ WellFormed(q)
             /\ OnList(q, to) = OnList(p, to) \cup {s}
             /\ \A m \in ListIds \ {to} : OnList(q, m) = OnList(p, m) \ {s}
             /\ \A m \in ListIds \ {from, to} : q.list[m] = p.list[m]
             /\ q.bits = p.bits
<1>. DEFINE s == PointToHead(p, from)
            new == Append(Unlink(p, s)[to], s)
            q == Relink(p, s, to, new, p.bits)
<1>1. s \in OnList(p, from) /\ s \in SlotIds /\ s \in Allocated(p)
  BY OnListIsSlot, TailInj DEF IsEmptyList, PointToHead, OnList
<1>2. HeadSwitch(p, from, to) = q
  BY DEF HeadSwitch
<1>3. /\ new \in Seq(SlotIds) /\ IsInjective(new)
      /\ Range(new) = OnList(p, to) \cup {s}
  BY <1>1, RelinkedList
<1>. HIDE DEF new, s
<1>4. p.bits = p.bits \cup {s}
  BY <1>1 DEF WellFormed, ListedHasMemory
<1>5. /\ WellFormed(q)
      /\ OnList(q, to) = OnList(p, to) \cup {s}
      /\ \A m \in ListIds \ {to} : OnList(q, m) = OnList(p, m) \ {s}
  BY <1>1, <1>3, <1>4, RelinkWF
<1>6. /\ Unlink(p, s) \in [ListIds -> Seq(SlotIds)]
      /\ \A m \in ListIds : s \notin OnList(p, m) => Unlink(p, s)[m] = p.list[m]
  BY <1>1, UnlinkProperties
<1>7. q.list = [Unlink(p, s) EXCEPT ![to] = new] /\ q.bits = p.bits
  BY DEF Relink
<1>. HIDE DEF q
<1>8. \A m \in ListIds \ {from, to} : q.list[m] = p.list[m]
  BY <1>1, <1>6, <1>7, ListsDisjoint
<1>. QED BY <1>1, <1>2, <1>5, <1>7, <1>8 DEF s

\* What it leaves on the list it takes the head of.
LEMMA HeadSwitchTail ==
  ASSUME NEW p, WellFormed(p), NEW from \in ListIds, NEW to \in ListIds,
         ~ IsEmptyList(p, from), from # to
  PROVE  HeadSwitch(p, from, to).list[from] = Tail(p.list[from])
<1>. DEFINE s == PointToHead(p, from)
            new == Append(Unlink(p, s)[to], s)
<1>0. p.list \in [ListIds -> Seq(SlotIds)] /\ MetaNamesList(p)
  BY DEF WellFormed, Pool
<1>1. s \in OnList(p, from) /\ p.cur[s] = from
  <2>1. s \in OnList(p, from)
    BY HeadSwitchWF
  <2>. QED BY <2>1, <1>0 DEF MetaNamesList
<1>2. RemoveFirst(p.list[from], s) = Tail(p.list[from])
  BY <1>1, OnListIsSlot, RemoveFirstInj DEF OnList, PointToHead
<1>. HIDE DEF s
<1>3. Unlink(p, s) = [p.list EXCEPT ![from] = Tail(p.list[from])]
  BY <1>1, <1>2 DEF Unlink
<1>. HIDE DEF new
<1>4. HeadSwitch(p, from, to).list = [Unlink(p, s) EXCEPT ![to] = new]
  BY DEF HeadSwitch, Relink, s, new
<1>. QED BY <1>0, <1>3, <1>4

(* MemArenaGrabByID *)
LEMMA GrabByIDWF ==
  ASSUME NEW p, WellFormed(p), NEW s \in SlotIds
  PROVE  LET q == GrabByID(p, s)
         IN  /\ WellFormed(q)
             /\ q.free = p.free /\ q.list = p.list /\ q.cur = p.cur
             /\ q.bits = p.bits \cup {s}
<1>. DEFINE q == GrabByID(p, s)
<1>1. /\ q.free = p.free /\ q.list = p.list /\ q.cur = p.cur
      /\ q.bits = p.bits \cup {s} /\ q \in Pool
  BY DEF WellFormed, Pool, GrabByID
<1>. HIDE DEF q
<1>2. NoDuplicates(q) /\ FreeXorListed(q) /\ MetaNamesList(q) /\ ListedHasMemory(q)
  BY <1>1 DEF WellFormed, NoDuplicates, FreeXorListed, MetaNamesList, ListedHasMemory,
              OnList, FreeIds
<1>. QED BY <1>1, <1>2 DEF WellFormed, q

(* An end of a list is unlinked and freed: what PopHead and PopTail share. *)
LEMMA CutEndWF ==
  ASSUME NEW p, WellFormed(p), NEW l \in ListIds, NEW s \in OnList(p, l), NEW rest,
         rest \in Seq(SlotIds), IsInjective(rest), Range(rest) = OnList(p, l) \ {s}
  PROVE  LET q == CutEnd(p, s, l, rest)
         IN  /\ WellFormed(q)
             /\ \A m \in ListIds : OnList(q, m) = OnList(p, m) \ {s}
             /\ q.bits = p.bits
<1>. DEFINE q == CutEnd(p, s, l, rest)
<1>1. s \in SlotIds /\ s \notin FreeIds(p) /\ p \in Pool
  BY OnListIsSlot DEF WellFormed, FreeXorListed
<1>2. /\ q.free = <<s>> \o p.free /\ q.list = [p.list EXCEPT ![l] = rest]
      /\ q.cur = p.cur /\ q.bits = p.bits
      /\ q = [free |-> q.free, list |-> q.list, cur |-> q.cur, bits |-> q.bits]
  BY DEF CutEnd
<1>. HIDE DEF q
<1>3. /\ q.free \in Seq(SlotIds) /\ IsInjective(q.free)
      /\ FreeIds(q) = FreeIds(p) \cup {s}
  BY <1>1, <1>2, OnListIsSlot, ConsInj DEF FreeIds
<1>4. q.list[l] = rest /\ \A m \in ListIds \ {l} : q.list[m] = p.list[m]
  BY <1>1, <1>2 DEF Pool
<1>5. \A m \in ListIds \ {l} : s \notin OnList(p, m)
  BY ListsDisjoint
<1>6. \A m \in ListIds : OnList(q, m) = OnList(p, m) \ {s}
  BY <1>4, <1>5 DEF OnList
<1>7. q \in Pool
  BY <1>1, <1>2, <1>3, ZenonT(40) DEF Pool
<1>8. NoDuplicates(q)
  BY <1>3, <1>4 DEF WellFormed, NoDuplicates
<1>9. FreeXorListed(q)
  BY <1>1, <1>3, <1>6 DEF WellFormed, FreeXorListed
<1>10. MetaNamesList(q) /\ ListedHasMemory(q)
  BY <1>2, <1>6 DEF WellFormed, MetaNamesList, ListedHasMemory
<1>. QED BY <1>2, <1>6, <1>7, <1>8, <1>9, <1>10 DEF WellFormed, q

(* MemSlotBaseSlotPopHead *)
LEMMA PopHeadWF ==
  ASSUME NEW p, WellFormed(p), NEW l \in ListIds, ~ IsEmptyList(p, l)
  PROVE  LET q == PopHead(p, l)
             s == PointToHead(p, l)
         IN  /\ s \in OnList(p, l) /\ s \in SlotIds
             /\ WellFormed(q)
             /\ \A m \in ListIds : OnList(q, m) = OnList(p, m) \ {s}
             /\ q.bits = p.bits
<1>. DEFINE s == PointToHead(p, l)
            rest == Tail(p.list[l])
<1>1. /\ s \in OnList(p, l) /\ s \in SlotIds
      /\ rest \in Seq(SlotIds) /\ IsInjective(rest) /\ Range(rest) = OnList(p, l) \ {s}
  BY OnListIsSlot, TailInj DEF IsEmptyList, PointToHead, OnList
<1>2. PopHead(p, l) = CutEnd(p, s, l, rest)
  BY DEF PopHead
<1>. HIDE DEF s, rest
<1>3. /\ WellFormed(CutEnd(p, s, l, rest))
      /\ \A m \in ListIds : OnList(CutEnd(p, s, l, rest), m) = OnList(p, m) \ {s}
      /\ CutEnd(p, s, l, rest).bits = p.bits
  BY <1>1, CutEndWF
<1>. QED BY <1>1, <1>2, <1>3 DEF s

(* MemSlotBaseSlotPopTail *)
LEMMA PopTailWF ==
  ASSUME NEW p, WellFormed(p), NEW l \in ListIds, ~ IsEmptyList(p, l)
  PROVE  LET q == PopTail(p, l)
             s == PointToTail(p, l)
         IN  /\ s \in OnList(p, l) /\ s \in SlotIds
             /\ WellFormed(q)
             /\ \A m \in ListIds : OnList(q, m) = OnList(p, m) \ {s}
             /\ q.bits = p.bits
<1>. DEFINE s == PointToTail(p, l)
            rest == Front(p.list[l])
<1>1. /\ s \in OnList(p, l) /\ s \in SlotIds
      /\ rest \in Seq(SlotIds) /\ IsInjective(rest) /\ Range(rest) = OnList(p, l) \ {s}
  BY OnListIsSlot, FrontInj DEF IsEmptyList, PointToTail, OnList
<1>2. PopTail(p, l) = CutEnd(p, s, l, rest)
  BY DEF PopTail
<1>. HIDE DEF s, rest
<1>3. /\ WellFormed(CutEnd(p, s, l, rest))
      /\ \A m \in ListIds : OnList(CutEnd(p, s, l, rest), m) = OnList(p, m) \ {s}
      /\ CutEnd(p, s, l, rest).bits = p.bits
  BY <1>1, CutEndWF
<1>. QED BY <1>1, <1>2, <1>3 DEF s

(* What an operation did to the lists tells what it did to Allocated. *)
LEMMA AllocatedJoins ==
  ASSUME NEW p, NEW q, NEW s \in SlotIds, NEW l \in ListIds,
         OnList(q, l) = OnList(p, l) \cup {s},
         \A m \in ListIds \ {l} : OnList(q, m) = OnList(p, m) \ {s}
  PROVE  Allocated(q) = Allocated(p) \cup {s}
BY DEF Allocated

LEMMA AllocatedLeaves ==
  ASSUME NEW p, NEW q, NEW s \in SlotIds,
         \A m \in ListIds : OnList(q, m) = OnList(p, m) \ {s}
  PROVE  Allocated(q) = Allocated(p) \ {s}
BY DEF Allocated

LEMMA GrabAllocates ==
  ASSUME NEW p, WellFormed(p), HasFree(p)
  PROVE  /\ Allocated(Grab(p)) = Allocated(p) \cup {GrabId(p)}
         /\ GrabId(p) \in SlotIds \ Allocated(p)
         /\ 0 \in ListIds
         /\ \A m \in ListIds \ {0} : OnList(Grab(p), m) = OnList(p, m) \ {GrabId(p)}
<1>1. 0 \in ListIds
  BY PoolAssumption DEF ListIds
<1>2. \A m \in ListIds \ {0} : OnList(Grab(p), m) = OnList(p, m) \ {GrabId(p)}
  BY GrabWF DEF OnList
<1>3. GrabId(p) \in SlotIds \ Allocated(p)
  BY GrabWF DEF Allocated
<1>4. OnList(Grab(p), 0) = OnList(p, 0) \cup {GrabId(p)}
  BY GrabWF
<1>. QED BY <1>1, <1>2, <1>3, <1>4, AllocatedJoins
=============================================================================
