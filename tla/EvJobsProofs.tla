---------------------------- MODULE EvJobsProofs -----------------------------
(***************************************************************************)
(* The jobs of the event loop, for every number of slots, jobs per walk,   *)
(* days and ticks: the slots are exactly the active jobs, a walk visits    *)
(* each job that waits for it and none twice although callbacks change the *)
(* list under it, unless one deletes the very job the walk goes to next,   *)
(* and a timed job runs at most once a day.                                *)
(***************************************************************************)
EXTENDS EvJobs, MemSlotLemmas

(***************************************************************************)
(* What a walk of a list that stands at node n has still before it.        *)
(***************************************************************************)
After(q, n) == {q[j] : j \in {k \in 1 .. Len(q) : \E i \in 1 .. k : q[i] = n}}

LEMMA InAfter ==
  ASSUME NEW q, NEW n, NEW x
  PROVE  x \in After(q, n) <=> \E j \in 1 .. Len(q) : \E i \in 1 .. j : q[i] = n /\ q[j] = x
BY DEF After

LEMMA AfterNothing ==
  ASSUME NEW S, NEW q \in Seq(S), NEW n, n \notin Range(q)
  PROVE  After(q, n) = {}
<1>1. Len(q) \in Nat
  OBVIOUS
<1>2. \A j \in 1 .. Len(q) : \A i \in 1 .. j : i \in 1 .. Len(q)
  BY <1>1
<1>. QED BY <1>2 DEF After, Range

LEMMA AfterInRange ==
  ASSUME NEW S, NEW q \in Seq(S), NEW n
  PROVE  After(q, n) \subseteq Range(q) /\ (n \in Range(q) => n \in After(q, n))
<1>1. Len(q) \in Nat
  OBVIOUS
<1>2. ASSUME n \in Range(q) PROVE n \in After(q, n)
  <2>1. PICK i \in 1 .. Len(q) : q[i] = n
    BY <1>2 DEF Range
  <2>. QED BY <1>1, <2>1, InAfter
<1>3. After(q, n) \subseteq Range(q)
  BY DEF After, Range
<1>. QED BY <1>2, <1>3

\* The walk begins at the head of the list.
LEMMA AfterHead ==
  ASSUME NEW S, NEW q \in Seq(S), q # << >>
  PROVE  After(q, Head(q)) = Range(q) /\ Head(q) \in Range(q)
<1>1. Len(q) \in Nat \ {0} /\ q[1] = Head(q)
  OBVIOUS
<1>2. ASSUME NEW x \in Range(q) PROVE x \in After(q, Head(q))
  <2>1. PICK j \in 1 .. Len(q) : q[j] = x
    BY <1>2 DEF Range
  <2>2. 1 \in 1 .. j
    BY <1>1
  <2>. QED BY <1>1, <2>1, <2>2, InAfter
<1>3. Head(q) \in Range(q)
  BY <1>1 DEF Range
<1>. QED BY <1>2, <1>3, AfterInRange

\* One turn: the next node, and what is left but the node visited.
LEMMA AfterNext ==
  ASSUME NEW S, NEW q \in Seq(S), IsInjective(q), NEW i \in 1 .. Len(q)
  PROVE  /\ i = Len(q) => After(q, q[i]) = {q[i]}
         /\ i # Len(q) => /\ q[i + 1] \in Range(q) /\ q[i + 1] # q[i]
                          /\ After(q, q[i + 1]) = After(q, q[i]) \ {q[i]}
<1>1. Len(q) \in Nat
  OBVIOUS
<1>2. ASSUME NEW m \in 1 .. Len(q), NEW x
      PROVE  x \in After(q, q[m]) <=> \E j \in m .. Len(q) : x = q[j]
  <2>1. ASSUME x \in After(q, q[m]) PROVE \E j \in m .. Len(q) : x = q[j]
    <3>1. PICK j \in 1 .. Len(q) : \E h \in 1 .. j : q[h] = q[m] /\ q[j] = x
      BY <2>1, InAfter
    <3>2. PICK h \in 1 .. j : q[h] = q[m] /\ q[j] = x
      BY <3>1
    <3>3. h \in 1 .. Len(q)
      BY <1>1
    <3>4. h = m
      BY <3>2, <3>3 DEF IsInjective
    <3>5. j \in m .. Len(q)
      BY <1>1, <3>4
    <3>. QED BY <3>2, <3>5
  <2>2. ASSUME NEW j \in m .. Len(q), x = q[j] PROVE x \in After(q, q[m])
    <3>1. j \in 1 .. Len(q) /\ m \in 1 .. j
      BY <1>1
    <3>. QED BY <3>1, <2>2, InAfter
  <2>. QED BY <2>1, <2>2
<1>3. ASSUME i = Len(q) PROVE After(q, q[i]) = {q[i]}
  <2>1. i .. Len(q) = {i}
    BY <1>1, <1>3
  <2>. QED BY <2>1, <1>2
<1>4. ASSUME i # Len(q)
      PROVE  /\ q[i + 1] \in Range(q) /\ q[i + 1] # q[i]
             /\ After(q, q[i + 1]) = After(q, q[i]) \ {q[i]}
  <2>1. i + 1 \in 1 .. Len(q)
    BY <1>1, <1>4
  <2>2. q[i + 1] \in Range(q) /\ q[i + 1] # q[i]
    BY <2>1 DEF Range, IsInjective
  <2>3. ASSUME NEW x
        PROVE  x \in After(q, q[i + 1]) <=> x \in After(q, q[i]) /\ x # q[i]
    <3>1. ASSUME NEW j \in (i + 1) .. Len(q) PROVE j \in i .. Len(q) /\ q[j] # q[i]
      <4>1. j \in 1 .. Len(q) /\ j # i /\ j \in i .. Len(q)
        BY <1>1
      <4>. QED BY <4>1 DEF IsInjective
    <3>2. ASSUME NEW j \in i .. Len(q), q[j] # q[i] PROVE j \in (i + 1) .. Len(q)
      BY <1>1, <3>2
    <3>3. x \in After(q, q[i + 1]) <=> \E j \in (i + 1) .. Len(q) : x = q[j]
      BY <2>1, <1>2
    <3>4. x \in After(q, q[i]) <=> \E j \in i .. Len(q) : x = q[j]
      BY <1>2
    <3>5. ASSUME x \in After(q, q[i + 1]) PROVE x \in After(q, q[i]) /\ x # q[i]
      <4>1. PICK j \in (i + 1) .. Len(q) : x = q[j]
        BY <3>3, <3>5
      <4>. QED BY <4>1, <3>1, <3>4
    <3>6. ASSUME x \in After(q, q[i]), x # q[i] PROVE x \in After(q, q[i + 1])
      <4>1. PICK j \in i .. Len(q) : x = q[j]
        BY <3>4, <3>6
      <4>. QED BY <4>1, <3>6, <3>2, <3>3
    <3>. QED BY <3>5, <3>6
  <2>. QED BY <2>2, <2>3
<1>. QED BY <1>3, <1>4

\* A slot joins at the tail, at the head, or leaves: DLinkedListAddTail, DLinkedListAdd,
\* DLinkedListDelete.
LEMMA AfterAppend ==
  ASSUME NEW S, NEW q \in Seq(S), NEW n, NEW e \in S, e # n
  PROVE  After(Append(q, e), n) \subseteq After(q, n) \cup {e}
         /\ After(q, n) \subseteq After(Append(q, e), n)
<1>. DEFINE r == Append(q, e)
<1>1. /\ Len(q) \in Nat /\ Len(r) = Len(q) + 1 /\ r[Len(q) + 1] = e
      /\ \A i \in 1 .. Len(q) : r[i] = q[i]
  BY AppendProperties
<1>. HIDE DEF r
<1>2. ASSUME NEW x \in After(r, n), x # e PROVE x \in After(q, n)
  <2>1. PICK j \in 1 .. Len(r) : \E i \in 1 .. j : r[i] = n /\ r[j] = x
    BY <1>2, InAfter
  <2>2. PICK i \in 1 .. j : r[i] = n /\ r[j] = x
    BY <2>1
  <2>3. j \in 1 .. Len(q) /\ i \in 1 .. Len(q)
    BY <1>1, <1>2, <2>2
  <2>. QED BY <1>1, <2>2, <2>3, InAfter
<1>3. ASSUME NEW x \in After(q, n) PROVE x \in After(r, n)
  <2>1. PICK j \in 1 .. Len(q) : \E i \in 1 .. j : q[i] = n /\ q[j] = x
    BY <1>3, InAfter
  <2>2. PICK i \in 1 .. j : q[i] = n /\ q[j] = x
    BY <2>1
  <2>3. j \in 1 .. Len(r) /\ i \in 1 .. Len(q)
    BY <1>1
  <2>4. r[i] = n /\ r[j] = x
    BY <1>1, <2>2, <2>3
  <2>. QED BY <2>3, <2>4, InAfter
<1>. QED BY <1>2, <1>3 DEF r

LEMMA AfterCons ==
  ASSUME NEW S, NEW q \in Seq(S), NEW n, NEW e \in S, e # n
  PROVE  After(<<e>> \o q, n) = After(q, n)
<1>. DEFINE r == <<e>> \o q
<1>1. Len(q) \in Nat /\ Len(r) = Len(q) + 1
  OBVIOUS
<1>2. r[1] = e /\ \A i \in 1 .. Len(q) : r[i + 1] = q[i]
  OBVIOUS
<1>. HIDE DEF r
<1>3. ASSUME NEW x \in After(r, n) PROVE x \in After(q, n)
  <2>1. PICK j \in 1 .. Len(r) : \E i \in 1 .. j : r[i] = n /\ r[j] = x
    BY <1>3, InAfter
  <2>2. PICK i \in 1 .. j : r[i] = n /\ r[j] = x
    BY <2>1
  <2>3. i # 1
    BY <1>2, <2>2
  <2>4. j - 1 \in 1 .. Len(q) /\ i - 1 \in 1 .. (j - 1) /\ i - 1 \in 1 .. Len(q)
        /\ (j - 1) + 1 = j /\ (i - 1) + 1 = i
    BY <1>1, <2>3
  <2>5. q[i - 1] = n /\ q[j - 1] = x
    BY <1>2, <2>2, <2>4
  <2>. QED BY <2>4, <2>5, InAfter
<1>4. ASSUME NEW x \in After(q, n) PROVE x \in After(r, n)
  <2>1. PICK j \in 1 .. Len(q) : \E i \in 1 .. j : q[i] = n /\ q[j] = x
    BY <1>4, InAfter
  <2>2. PICK i \in 1 .. j : q[i] = n /\ q[j] = x
    BY <2>1
  <2>3. j + 1 \in 1 .. Len(r) /\ i + 1 \in 1 .. (j + 1) /\ i \in 1 .. Len(q)
    BY <1>1
  <2>4. r[i + 1] = n /\ r[j + 1] = x
    BY <1>2, <2>2, <2>3
  <2>. QED BY <2>3, <2>4, InAfter
<1>. QED BY <1>3, <1>4 DEF r

LEMMA AfterRemove ==
  ASSUME NEW S, NEW q \in Seq(S), IsInjective(q), NEW s \in Range(q), NEW n, n # s
  PROVE  After(RemoveFirst(q, s), n) = After(q, n) \ {s}
<1>. DEFINE r == RemoveFirst(q, s)
<1>1. PICK k \in 1 .. Len(q) :
              /\ q[k] = s
              /\ r \in Seq(S) /\ Len(r) = Len(q) - 1
              /\ \A i \in 1 .. Len(q) - 1 : r[i] = IF i < k THEN q[i] ELSE q[i + 1]
  BY RemoveFirstIndex
<1>. HIDE DEF r
<1>2. Len(q) \in Nat
  OBVIOUS
<1>. DEFINE m(h) == IF h < k THEN h ELSE h + 1
<1>3. \A h \in 1 .. Len(r) : m(h) \in 1 .. Len(q) /\ m(h) # k /\ r[h] = q[m(h)]
  BY <1>1, <1>2
<1>4. \A h \in 1 .. Len(r) : \A g \in 1 .. h : m(g) \in 1 .. m(h)
  BY <1>1, <1>2
<1>5. \A h \in 1 .. Len(q) : h # k => \E g \in 1 .. Len(r) : m(g) = h
  <2>. TAKE h \in 1 .. Len(q)
  <2>. HAVE h # k
  <2>1. CASE h < k
    <3>1. h \in 1 .. Len(r) /\ m(h) = h
      BY <1>1, <1>2, <2>1
    <3>. QED BY <3>1
  <2>2. CASE h > k
    <3>1. h - 1 \in 1 .. Len(r) /\ m(h - 1) = h
      BY <1>1, <1>2, <2>2
    <3>. QED BY <3>1
  <2>. QED BY <1>2, <2>1, <2>2
<1>6. \A g, h \in 1 .. Len(r) : m(g) <= m(h) => g <= h
  BY <1>1, <1>2
<1>7. Len(r) \in Nat /\ \A h \in 1 .. Len(r) : m(h) \in Nat
  BY <1>1, <1>2
<1>. HIDE DEF m
<1>8. ASSUME NEW x \in After(r, n) PROVE x \in After(q, n) /\ x # s
  <2>1. PICK j \in 1 .. Len(r) : \E i \in 1 .. j : r[i] = n /\ r[j] = x
    BY <1>8, InAfter
  <2>2. PICK i \in 1 .. j : r[i] = n /\ r[j] = x
    BY <2>1
  <2>3. i \in 1 .. Len(r)
    BY <1>7
  <2>4. q[m(i)] = n /\ q[m(j)] = x /\ m(j) \in 1 .. Len(q) /\ m(i) \in 1 .. m(j) /\ m(j) # k
    BY <1>3, <1>4, <2>2, <2>3
  <2>5. x # s
    BY <1>1, <2>4 DEF IsInjective
  <2>. QED BY <2>4, <2>5, InAfter
<1>9. ASSUME NEW x \in After(q, n), x # s PROVE x \in After(r, n)
  <2>1. PICK j \in 1 .. Len(q) : \E i \in 1 .. j : q[i] = n /\ q[j] = x
    BY <1>9, InAfter
  <2>2. PICK i \in 1 .. j : q[i] = n /\ q[j] = x
    BY <2>1
  <2>3. i \in 1 .. Len(q) /\ i <= j /\ i # k /\ j # k
    BY <1>1, <1>2, <1>9, <2>2
  <2>4. PICK g \in 1 .. Len(r) : m(g) = i
    BY <1>5, <2>3
  <2>5. PICK h \in 1 .. Len(r) : m(h) = j
    BY <1>5, <2>3
  <2>6. g \in 1 .. h
    BY <1>6, <1>7, <2>3, <2>4, <2>5
  <2>7. r[g] = n /\ r[h] = x
    BY <1>3, <2>2, <2>4, <2>5
  <2>. QED BY <2>6, <2>7, InAfter
<1>. QED BY <1>8, <1>9 DEF r

-----------------------------------------------------------------------------
(***************************************************************************)
(* The same of the operations on the MEM_SLOT.                             *)
(***************************************************************************)
LEMMA GrabAfter ==
  ASSUME NEW p, WellFormed(p), HasFree(p), NEW l \in ListIds, NEW n, n # GrabId(p)
  PROVE  /\ After(Grab(p).list[l], n) \subseteq After(p.list[l], n) \cup {GrabId(p)}
         /\ After(p.list[l], n) \subseteq After(Grab(p).list[l], n)
<1>. DEFINE g == GrabId(p)
<1>1. p.list \in [ListIds -> Seq(SlotIds)] /\ 0 \in ListIds
  BY PoolAssumption DEF WellFormed, Pool, ListIds
<1>2. g \in SlotIds
  BY GrabWF
<1>. HIDE DEF g
<1>3. Grab(p).list = [p.list EXCEPT ![0] = Append(p.list[0], g)]
  BY DEF Grab, g
<1>4. CASE l = 0
  <2>1. Grab(p).list[l] = Append(p.list[l], g)
    BY <1>1, <1>3, <1>4
  <2>. QED BY <2>1, <1>1, <1>2, AfterAppend DEF g
<1>5. CASE l # 0
  BY <1>1, <1>3, <1>5
<1>. QED BY <1>4, <1>5

LEMMA UnlinkAfter ==
  ASSUME NEW p, WellFormed(p), NEW s \in Allocated(p), NEW l \in ListIds, NEW n, n # s
  PROVE  After(Unlink(p, s)[l], n) = After(p.list[l], n) \ {s}
<1>1. PICK k \in ListIds : s \in OnList(p, k)
  BY DEF Allocated
<1>2. p.cur[s] = k /\ p.list \in [ListIds -> Seq(SlotIds)]
  BY <1>1 DEF WellFormed, MetaNamesList, Pool
<1>3. Unlink(p, s) = [p.list EXCEPT ![k] = RemoveFirst(p.list[k], s)]
  BY <1>2 DEF Unlink
<1>4. CASE l = k
  <2>1. Unlink(p, s)[l] = RemoveFirst(p.list[l], s)
    BY <1>2, <1>3, <1>4
  <2>2. p.list[l] \in Seq(SlotIds) /\ IsInjective(p.list[l]) /\ s \in Range(p.list[l])
    BY <1>1, <1>4, OnListIsSlot DEF OnList
  <2>. QED BY <2>1, <2>2, AfterRemove
<1>5. CASE l # k
  <2>1. Unlink(p, s)[l] = p.list[l] /\ p.list[l] \in Seq(SlotIds)
    BY <1>2, <1>3, <1>5
  <2>2. s \notin Range(p.list[l])
    BY <1>1, <1>5, ListsDisjoint DEF OnList
  <2>3. After(p.list[l], n) \subseteq Range(p.list[l])
    BY <2>1, AfterInRange
  <2>. QED BY <2>1, <2>2, <2>3
<1>. QED BY <1>4, <1>5

LEMMA SlotFreeAfter ==
  ASSUME NEW p, WellFormed(p), NEW s \in Allocated(p), NEW l \in ListIds, NEW n, n # s
  PROVE  After(SlotFree(p, s).list[l], n) = After(p.list[l], n) \ {s}
<1>1. SlotFree(p, s).list = Unlink(p, s)
  BY DEF SlotFree, WellFormed, Pool
<1>. QED BY <1>1, UnlinkAfter

LEMMA SwitchAfter ==
  ASSUME NEW p, WellFormed(p), NEW s \in Allocated(p), NEW to \in ListIds, NEW l \in ListIds,
         NEW n, n # s
  PROVE  After(Switch(p, s, to).list[l], n) = After(p.list[l], n) \ {s}
<1>. DEFINE u == Unlink(p, s)
<1>1. u \in [ListIds -> Seq(SlotIds)] /\ s \in SlotIds
  BY UnlinkProperties DEF Allocated
<1>2. Switch(p, s, to).list = [u EXCEPT ![to] = <<s>> \o u[to]]
  BY DEF Switch, Relink
<1>3. After(u[l], n) = After(p.list[l], n) \ {s}
  BY UnlinkAfter
<1>. HIDE DEF u
<1>4. CASE l = to
  <2>1. Switch(p, s, to).list[l] = <<s>> \o u[l]
    BY <1>1, <1>2, <1>4
  <2>. QED BY <2>1, <1>1, <1>3, AfterCons
<1>5. CASE l # to
  BY <1>1, <1>2, <1>3, <1>5
<1>. QED BY <1>4, <1>5

(***************************************************************************)
(* A tick that does not end the day leaves the day of the week.            *)
(***************************************************************************)
LEMMA TimesGrows ==
  ASSUME NEW a \in Nat, NEW b \in Nat, NEW d \in Nat, a <= b
  PROVE  d * a <= d * b
<1>1. d * b = d * a + d * (b - a) /\ d * (b - a) >= 0
  OBVIOUS
<1>. QED BY <1>1

LEMMA DayAndTick ==
  ASSUME NEW a \in Nat, NEW d \in Nat \ {0}
  PROVE  /\ a % d \in 0 .. (d - 1)
         /\ \E q \in Nat, r \in 0 .. (d - 1) : a \div d = q /\ a % d = r /\ a = d * q + r
<1>1. a \div d \in Nat /\ a % d \in 0 .. (d - 1)
  OBVIOUS
<1>2. a = d * (a \div d) + (a % d)
  OBVIOUS
<1>. QED BY <1>1, <1>2

LEMMA DayIsUnique ==
  ASSUME NEW q \in Nat, NEW d \in Nat \ {0}, NEW r \in 0 .. (d - 1), NEW a \in Nat,
         a = d * q + r
  PROVE  a \div d = q
<1>1. PICK x \in Nat, y \in 0 .. (d - 1) : a \div d = x /\ a = d * x + y
  BY DayAndTick
<1>2. ~ (x < q)
  <2>. SUFFICES ASSUME x < q PROVE FALSE
    OBVIOUS
  <2>1. d * (x + 1) <= d * q /\ d * (x + 1) = d * x + d
    BY <1>1, TimesGrows
  <2>. QED BY <1>1, <2>1
<1>3. ~ (q < x)
  <2>. SUFFICES ASSUME q < x PROVE FALSE
    OBVIOUS
  <2>1. d * (q + 1) <= d * x /\ d * (q + 1) = d * q + d
    BY <1>1, TimesGrows
  <2>. QED BY <1>1, <2>1
<1>4. x = q
  BY <1>1, <1>2, <1>3
<1>. QED BY <1>1, <1>4

LEMMA WeekDayIsDay ==
  ASSUME TypeOK
  PROVE  week_day \in 0 .. (DaysOfWeek - 1) /\ week_day \in Days
<1>0. /\ DaysOfWeek \in Nat \ {0} /\ DayTicks \in Nat \ {0} /\ clock \in Nat
      /\ clock < DaysOfWeek * DayTicks
  BY JobsAssumption DEF TypeOK
<1>1. PICK x \in Nat, y \in 0 .. (DayTicks - 1) : week_day = x /\ clock = DayTicks * x + y
  BY <1>0, DayAndTick DEF week_day
<1>2. x < DaysOfWeek
  <2>. SUFFICES ASSUME DaysOfWeek <= x PROVE FALSE
    BY <1>0, <1>1
  <2>1. DayTicks * DaysOfWeek <= DayTicks * x
    BY <1>0, <1>1, TimesGrows
  <2>2. DayTicks * DaysOfWeek = DaysOfWeek * DayTicks
    BY <1>0
  <2>. QED BY <1>0, <1>1, <2>1, <2>2
<1>. QED BY <1>0, <1>1, <1>2 DEF Days, EVERYDAY

LEMMA TickStaysInDay ==
  ASSUME TypeOK, clock' = (clock + 1) % (DaysOfWeek * DayTicks)
  PROVE  /\ clock' \in 0 .. (DaysOfWeek * DayTicks - 1)
         /\ TickOfDay # DayTicks - 1 => week_day' = week_day
<1>. PICK week : week = DaysOfWeek * DayTicks
  OBVIOUS
<1>0. /\ DaysOfWeek \in Nat \ {0} /\ DayTicks \in Nat \ {0} /\ clock \in Nat
      /\ week \in Nat \ {0} /\ week = DayTicks * DaysOfWeek
  BY JobsAssumption DEF TypeOK
<1>1. PICK x \in Nat, y \in 0 .. (DayTicks - 1) :
             week_day = x /\ TickOfDay = y /\ clock = DayTicks * x + y
  BY <1>0, DayAndTick DEF week_day, TickOfDay
<1>2. x \in 0 .. (DaysOfWeek - 1)
  BY <1>1, WeekDayIsDay
<1>3. clock' \in 0 .. (week - 1)
  <2>1. clock' = (clock + 1) % week /\ clock + 1 \in Nat
    BY <1>0
  <2>2. (clock + 1) % week \in 0 .. (week - 1)
    BY <1>0, <2>1, DayAndTick
  <2>. QED BY <2>1, <2>2
<1>4. ASSUME y # DayTicks - 1 PROVE week_day' = x
  <2>1. clock + 1 = DayTicks * x + (y + 1) /\ y + 1 \in 0 .. (DayTicks - 1)
    BY <1>0, <1>1, <1>4
  <2>2. clock + 1 < week
    <3>1. DayTicks * (x + 1) <= DayTicks * DaysOfWeek
      BY <1>0, <1>1, <1>2, TimesGrows
    <3>2. DayTicks * (x + 1) = DayTicks * x + DayTicks
      BY <1>0, <1>1
    <3>. QED BY <3>1, <3>2, <2>1, <1>0, <1>1
  <2>3. clock' = clock + 1
    <3>1. clock + 1 = week * 0 + (clock + 1) /\ clock + 1 \in 0 .. (week - 1)
      BY <1>0, <2>2
    <3>2. (clock + 1) \div week = 0
      BY <3>1, <1>0, DayIsUnique
    <3>3. PICK q \in Nat, r \in 0 .. (week - 1) :
                 (clock + 1) \div week = q /\ (clock + 1) % week = r /\ clock + 1 = week * q + r
      BY <1>0, DayAndTick
    <3>4. week * 0 = 0
      BY <1>0
    <3>. QED BY <3>2, <3>3, <3>4, <1>0
  <2>4. clock' \div DayTicks = x
    BY <1>0, <1>1, <2>1, <2>3, DayIsUnique
  <2>. QED BY <2>4 DEF week_day
<1>. QED BY <1>1, <1>3, <1>4

-----------------------------------------------------------------------------
(***************************************************************************)
(* The inductive invariant.  As long as no callback deleted the job the    *)
(* walk goes to next, what the walk still has before it holds what it has  *)
(* to visit and nothing that it visited; the job whose callback runs is    *)
(* not visited again, and is active unless it was deleted; and a timed job *)
(* that ran today says so, or is running, or was run by a walk led astray. *)
(***************************************************************************)
ToVisit == After(pool.list[list], node)
WalkInv == pc \in {"walk", "callback"} /\ "node" \notin cut =>
               /\ node # None => node \in OnList(pool, list)
               /\ todo \subseteq ToVisit
               /\ ToVisit \cap seen = {}
RunInv == /\ pc = "callback" => /\ run \in SlotIds /\ run # node /\ run \notin todo
                                /\ "run" \notin cut => job[run].active
          /\ pc = "stopped" => cut # {}
RanToday(id) == job[id].invoke_day = week_day \/ (pc \in {"callback", "stopped"} /\ run = id /\ list = TIMED)
DayInv == \A id \in SlotIds \ astray :
             /\ today[id] <= 1
             /\ job[id].active /\ job[id].timed /\ today[id] > 0 => RanToday(id)

JInv == JobSlotsExact /\ WalkInv /\ RunInv /\ DayInv

LEMMA ListsOfJobs ==
  /\ IOLOOP \in ListIds /\ TIMED \in ListIds /\ ListIds = {IOLOOP, TIMED}
  /\ IOLOOP = 0 /\ TIMED = 1 /\ None \notin SlotIds
BY JobsAssumption, PoolAssumption DEF ListIds, IOLOOP, TIMED, None, SlotIds

LEMMA ActiveIsAllocated ==
  ASSUME JobSlotsExact
  PROVE  Allocated(pool) = {id \in SlotIds : job[id].active}
BY ListsOfJobs DEF JobSlotsExact, Allocated

\* Steps that leave the pool, the walk and the days of the jobs.
LEMMA QuietJobs ==
  ASSUME JInv, TypeOK', pool' = pool, list' = list, node' = node, run' = run,
         pc' = pc, todo' = todo, seen' = seen, today' = today, week_day' = week_day,
         astray' = astray, cut' = cut,
         \A id \in SlotIds : /\ job'[id].active = job[id].active
                             /\ job'[id].timed = job[id].timed
                             /\ job'[id].invoke_day = job[id].invoke_day
  PROVE  JInv'
<1>1. JobSlotsExact'
  BY DEF JInv, JobSlotsExact
<1>2. WalkInv' /\ RunInv'
  BY DEF JInv, WalkInv, RunInv, ToVisit, JobSlotsExact, TypeOK
<1>3. DayInv'
  BY DEF JInv, DayInv, RanToday
<1>. QED BY <1>1, <1>2, <1>3 DEF JInv

LEMMA CtlFlagJInv ==
  ASSUME JInv, NEW id \in SlotIds, EvKQJobsCtl(id), Enable(id) \/ Disable(id)
  PROVE  JInv'
<1>1. /\ pool' = pool /\ todo' = todo /\ timer' = timer /\ pc' = pc /\ list' = list
      /\ node' = node /\ added' = added /\ run' = run /\ clock' = clock /\ polled' = polled
      /\ seen' = seen /\ today' = today /\ astray' = astray /\ cut' = cut
      /\ dangling' = dangling
  BY DEF EvKQJobsCtl, Enable, Disable, walk, time, held
<1>2. PICK b \in BOOLEAN : job' = [job EXCEPT ![id].enabled = b]
  BY DEF Enable, Disable
<1>3. TypeOK /\ job \in [SlotIds -> Job]
  BY DEF JInv, JobSlotsExact, TypeOK
<1>4. /\ job' \in [SlotIds -> Job]
      /\ \A x \in SlotIds : /\ job'[x].active = job[x].active
                            /\ job'[x].timed = job[x].timed
                            /\ job'[x].invoke_day = job[x].invoke_day
  BY <1>2, <1>3 DEF Job
<1>5. TypeOK'
  BY <1>1, <1>3, <1>4 DEF TypeOK
<1>6. week_day' = week_day
  BY <1>1 DEF week_day
<1>. QED BY <1>1, <1>4, <1>5, <1>6, QuietJobs

(***************************************************************************)
(* Adding: the new slot was on no list; the walk meets it if it joins      *)
(* behind the node the walk stands at.                                     *)
(***************************************************************************)
LEMMA AddJInv ==
  ASSUME JInv, NEW g, g = GrabId(pool), NEW new \in Job, new.active, NewJob(new),
         WellFormed(pool'), timer' \in BOOLEAN, pool'.bits = pool.bits \cup {g},
         OnList(pool', IOLOOP) = OnList(pool, IOLOOP) \cup (IF new.timed THEN {} ELSE {g}),
         OnList(pool', TIMED) = OnList(pool, TIMED) \cup (IF new.timed THEN {g} ELSE {}),
         \A l \in ListIds : \A n : n # g =>
             /\ After(pool'.list[l], n) \subseteq After(pool.list[l], n) \cup {g}
             /\ After(pool.list[l], n) \subseteq After(pool'.list[l], n)
  PROVE  JInv'
<1>0. /\ TypeOK /\ WellFormed(pool) /\ job \in [SlotIds -> Job] /\ list \in ListIds
      /\ today \in [SlotIds -> Nat]
  BY ListsOfJobs DEF JInv, JobSlotsExact, TypeOK
<1>1. /\ g \in SlotIds /\ \A l \in ListIds : g \notin OnList(pool, l)
  BY <1>0, GrabWF DEF NewJob
<1>2. /\ job' = [job EXCEPT ![g] = new] /\ today' = [today EXCEPT ![g] = 0]
      /\ seen' = seen \ {g} /\ todo' = todo
      /\ pc' = pc /\ list' = list /\ node' = node /\ run' = run /\ clock' = clock
      /\ polled' = polled /\ astray' = astray \ {g} /\ cut' = cut /\ dangling' = dangling
  BY DEF NewJob, time, held
<1>3. /\ job'[g] = new /\ \A id \in SlotIds \ {g} : job'[id] = job[id]
      /\ today'[g] = 0 /\ \A id \in SlotIds \ {g} : today'[id] = today[id]
      /\ job' \in [SlotIds -> Job] /\ today' \in [SlotIds -> Nat]
  BY <1>0, <1>1, <1>2
<1>4. JobSlotsExact'
  <2>1. added' \in 0 .. AddsPerWalk
    BY <1>0, JobsAssumption DEF NewJob, TypeOK
  <2>2. TypeOK'
    BY <1>0, <1>2, <1>3, <2>1 DEF TypeOK, WellFormed
  <2>3. ~ job[g].active
    BY <1>1, ListsOfJobs DEF JInv, JobSlotsExact
  <2>4. OnList(pool', TIMED) = {id \in SlotIds : job'[id].active /\ job'[id].timed}
    BY <1>1, <1>3, <2>3 DEF JInv, JobSlotsExact
  <2>5. OnList(pool', IOLOOP) = {id \in SlotIds : job'[id].active /\ ~ job'[id].timed}
    BY <1>1, <1>3, <2>3 DEF JInv, JobSlotsExact
  <2>6. Allocated(pool') = Allocated(pool) \cup {g}
    BY <1>1, ListsOfJobs DEF Allocated
  <2>. QED BY <2>2, <2>4, <2>5, <2>6 DEF JInv, JobSlotsExact
<1>5. pc \in {"walk", "callback"} /\ "node" \notin cut => node # g
  BY <1>0, <1>1, ListsOfJobs DEF JInv, WalkInv
<1>6. WalkInv'
  <2>. SUFFICES ASSUME pc \in {"walk", "callback"}, "node" \notin cut
                PROVE  /\ node # None => node \in OnList(pool', list)
                       /\ todo \subseteq After(pool'.list[list], node)
                       /\ After(pool'.list[list], node) \cap seen' = {}
    BY <1>2 DEF WalkInv, ToVisit
  <2>1. /\ node # None => node \in OnList(pool, list)
        /\ todo \subseteq After(pool.list[list], node)
        /\ After(pool.list[list], node) \cap seen = {}
    BY DEF JInv, WalkInv, ToVisit
  <2>2. OnList(pool, list) \subseteq OnList(pool', list)
    BY <1>0, ListsOfJobs
  <2>3. /\ After(pool'.list[list], node) \subseteq After(pool.list[list], node) \cup {g}
        /\ After(pool.list[list], node) \subseteq After(pool'.list[list], node)
    BY <1>0, <1>5
  <2>. QED BY <1>2, <2>1, <2>2, <2>3
<1>7. RunInv'
  BY <1>2, <1>3 DEF JInv, RunInv
<1>8. DayInv'
  BY <1>2, <1>3 DEF JInv, DayInv, RanToday, week_day
<1>. QED BY <1>4, <1>6, <1>7, <1>8 DEF JInv

LEMMA BlankIsJob ==
  /\ BlankJob \in Job /\ ~ BlankJob.active
  /\ \A persist \in BOOLEAN, count \in Counts :
        LET new == [BlankJob EXCEPT !.active = TRUE, !.enabled = TRUE, !.persist = persist,
                                    !.target = count, !.left = count]
        IN  new \in Job /\ new.active /\ ~ new.timed
  /\ \A persist \in BOOLEAN, day \in TimedDays, at \in Ats :
        LET new == [BlankJob EXCEPT !.active = TRUE, !.enabled = TRUE, !.persist = persist,
                                    !.timed = TRUE, !.day = day, !.at = at]
        IN  new \in Job /\ new.active /\ new.timed
<1>1. 0 \in Days /\ Recent \in 0 .. Recent /\ Counts \subseteq Nat /\ TimedDays \subseteq Days
  BY JobsAssumption DEF Days, EVERYDAY
<1>. QED BY <1>1 DEF BlankJob, Job, Never

LEMMA EvKQJobsAddJInv ==
  ASSUME JInv, NEW persist \in BOOLEAN, NEW count \in Counts, EvKQJobsAdd(persist, count)
  PROVE  JInv'
<1>. DEFINE new == [BlankJob EXCEPT !.active = TRUE, !.enabled = TRUE, !.persist = persist,
                                    !.target = count, !.left = count]
<1>1. NewJob(new) /\ HasFree(pool) /\ pool' = Grab(pool) /\ timer' = timer
  BY DEF EvKQJobsAdd, NewJob
<1>2. new \in Job /\ new.active /\ ~ new.timed
  BY BlankIsJob
<1>. HIDE DEF new
<1>3. WellFormed(pool) /\ timer \in BOOLEAN
  BY DEF JInv, JobSlotsExact, TypeOK
<1>. PICK g : g = GrabId(pool)
  OBVIOUS
<1>4. /\ WellFormed(pool') /\ pool'.bits = pool.bits \cup {g}
      /\ OnList(pool', 0) = OnList(pool, 0) \cup {g}
      /\ pool'.list[TIMED] = pool.list[TIMED]
  BY <1>1, <1>3, GrabWF, ListsOfJobs
<1>5. /\ OnList(pool', IOLOOP) = OnList(pool, IOLOOP) \cup (IF new.timed THEN {} ELSE {g})
      /\ OnList(pool', TIMED) = OnList(pool, TIMED) \cup (IF new.timed THEN {g} ELSE {})
  BY <1>2, <1>4, ListsOfJobs DEF OnList
<1>6. \A l \in ListIds : \A n : n # g =>
         /\ After(pool'.list[l], n) \subseteq After(pool.list[l], n) \cup {g}
         /\ After(pool.list[l], n) \subseteq After(pool'.list[l], n)
  BY <1>1, <1>3, GrabAfter
<1>. QED BY <1>1, <1>2, <1>3, <1>4, <1>5, <1>6, AddJInv

LEMMA EvKQJobsAddTimedJInv ==
  ASSUME JInv, NEW persist \in BOOLEAN, NEW day \in TimedDays, NEW at \in Ats,
         EvKQJobsAddTimed(persist, day, at)
  PROVE  JInv'
<1>. DEFINE new == [BlankJob EXCEPT !.active = TRUE, !.enabled = TRUE, !.persist = persist,
                                    !.timed = TRUE, !.day = day, !.at = at]
<1>. PICK g : g = GrabId(pool)
  OBVIOUS
<1>. PICK p : p = Grab(pool)
  OBVIOUS
<1>1. NewJob(new) /\ HasFree(pool) /\ pool' = Switch(p, g, TIMED) /\ timer' \in {TRUE, timer}
  BY DEF EvKQJobsAddTimed, NewJob
<1>2. new \in Job /\ new.active /\ new.timed
  BY BlankIsJob
<1>. HIDE DEF new
<1>3. WellFormed(pool) /\ timer' \in BOOLEAN
  BY <1>1 DEF JInv, JobSlotsExact, TypeOK
<1>4. /\ WellFormed(p) /\ p.bits = pool.bits \cup {g} /\ g \in SlotIds
      /\ OnList(p, IOLOOP) = OnList(pool, IOLOOP) \cup {g}
      /\ p.list[TIMED] = pool.list[TIMED]
      /\ \A l \in ListIds : g \notin OnList(pool, l)
  BY <1>1, <1>3, GrabWF, ListsOfJobs
<1>5. g \in Allocated(p)
  BY <1>4, ListsOfJobs DEF Allocated
<1>6. /\ WellFormed(pool') /\ pool'.bits = p.bits \cup {g}
      /\ OnList(pool', TIMED) = OnList(p, TIMED) \cup {g}
      /\ OnList(pool', IOLOOP) = OnList(p, IOLOOP) \ {g}
  BY <1>1, <1>4, <1>5, SwitchWF, ListsOfJobs
<1>7. /\ OnList(pool', IOLOOP) = OnList(pool, IOLOOP) \cup (IF new.timed THEN {} ELSE {g})
      /\ OnList(pool', TIMED) = OnList(pool, TIMED) \cup (IF new.timed THEN {g} ELSE {})
      /\ pool'.bits = pool.bits \cup {g}
  <2>1. g \notin OnList(pool, IOLOOP) /\ OnList(p, TIMED) = OnList(pool, TIMED)
    BY <1>4, ListsOfJobs DEF OnList
  <2>. QED BY <1>2, <1>4, <1>6, <2>1
<1>8. ASSUME NEW l \in ListIds, NEW n, n # g
      PROVE  /\ After(pool'.list[l], n) \subseteq After(pool.list[l], n) \cup {g}
             /\ After(pool.list[l], n) \subseteq After(pool'.list[l], n)
  <2>1. After(pool'.list[l], n) = After(p.list[l], n) \ {g}
    BY <1>1, <1>4, <1>5, <1>8, SwitchAfter, ListsOfJobs
  <2>2. /\ After(p.list[l], n) \subseteq After(pool.list[l], n) \cup {g}
        /\ After(pool.list[l], n) \subseteq After(p.list[l], n)
    BY <1>1, <1>3, <1>8, GrabAfter
  <2>3. g \notin After(pool.list[l], n)
    <3>1. pool.list[l] \in Seq(SlotIds)
      BY <1>3, OnListIsSlot
    <3>. QED BY <3>1, <1>4, AfterInRange DEF OnList
  <2>. QED BY <2>1, <2>2, <2>3
<1>. QED BY <1>1, <1>2, <1>3, <1>6, <1>7, <1>8, AddJInv

(***************************************************************************)
(* A job leaves: deleted by a call, or cleared after its callback.         *)
(***************************************************************************)
LEMMA FreedJob ==
  ASSUME JInv, NEW id \in SlotIds, job[id].active,
         job' = [job EXCEPT ![id] = BlankJob], pool' = SlotFree(pool, id)
  PROVE  /\ id \in Allocated(pool) /\ WellFormed(pool) /\ WellFormed(pool')
         /\ job' \in [SlotIds -> Job]
         /\ \A x \in SlotIds \ {id} : job'[x] = job[x]
         /\ ~ job'[id].active
         /\ \A l \in ListIds : OnList(pool', l) = OnList(pool, l) \ {id}
         /\ TypeOK' => JobSlotsExact'
         /\ \A l \in ListIds : \A n : n # id =>
                After(pool'.list[l], n) = After(pool.list[l], n) \ {id}
<1>1. WellFormed(pool) /\ job \in [SlotIds -> Job] /\ id \in Allocated(pool)
  BY ActiveIsAllocated DEF JInv, JobSlotsExact, TypeOK
<1>2. /\ WellFormed(pool') /\ pool'.bits = pool.bits \ {id}
      /\ \A l \in ListIds : OnList(pool', l) = OnList(pool, l) \ {id}
  BY <1>1, SlotFreeWF
<1>3. /\ job' \in [SlotIds -> Job] /\ \A x \in SlotIds \ {id} : job'[x] = job[x]
      /\ job'[id] = BlankJob /\ ~ job'[id].active
  BY <1>1, BlankIsJob
<1>4. \A l \in ListIds : \A n : n # id =>
         After(pool'.list[l], n) = After(pool.list[l], n) \ {id}
  BY <1>1, SlotFreeAfter
<1>5. ASSUME TypeOK' PROVE JobSlotsExact'
  <2>1. Allocated(pool') = Allocated(pool) \ {id}
    BY <1>2, AllocatedLeaves
  <2>2. OnList(pool', TIMED) = {x \in SlotIds : job'[x].active /\ job'[x].timed}
    BY <1>2, <1>3, ListsOfJobs DEF JInv, JobSlotsExact
  <2>3. OnList(pool', IOLOOP) = {x \in SlotIds : job'[x].active /\ ~ job'[x].timed}
    BY <1>2, <1>3, ListsOfJobs DEF JInv, JobSlotsExact
  <2>. QED BY <1>2, <1>5, <2>1, <2>2, <2>3 DEF JInv, JobSlotsExact
<1>. QED BY <1>1, <1>2, <1>3, <1>4, <1>5

LEMMA DeleteJInv ==
  ASSUME JInv, NEW id \in SlotIds, EvKQJobsCtl(id), Delete(id)
  PROVE  JInv'
<1>1. /\ timer' = timer /\ pc' = pc /\ list' = list /\ node' = node /\ added' = added
      /\ run' = run /\ clock' = clock /\ polled' = polled /\ seen' = seen /\ today' = today
      /\ astray' = astray
  BY DEF EvKQJobsCtl, walk, time
<1>2. /\ job[id].active /\ job' = [job EXCEPT ![id] = BlankJob]
      /\ pool' = SlotFree(pool, id) /\ todo' = todo \ {id}
  BY DEF EvKQJobsCtl, Delete
<1>3. /\ WellFormed(pool') /\ job' \in [SlotIds -> Job]
      /\ \A x \in SlotIds \ {id} : job'[x] = job[x]
      /\ ~ job'[id].active
      /\ \A l \in ListIds : OnList(pool', l) = OnList(pool, l) \ {id}
      /\ TypeOK' => JobSlotsExact'
      /\ \A l \in ListIds : \A n : n # id =>
                After(pool'.list[l], n) = After(pool.list[l], n) \ {id}
  BY <1>2, FreedJob
<1>4. /\ cut \subseteq cut' /\ cut' \subseteq Pointers /\ dangling' \subseteq cut'
      /\ run = id => "run" \in cut'
      /\ node = id => "node" \in cut'
  <2>1. cut' = cut \cup {w \in Pointers : PointsTo(w) = id}
    BY DEF Delete
  <2>2. dangling' = dangling \cup {w \in cut' : ~ Live(pool', PointsTo(w))}
    BY DEF Delete
  <2>3. cut \subseteq Pointers /\ dangling \subseteq cut
    BY DEF JInv, JobSlotsExact, TypeOK
  <2>4. PointsTo("run") = run /\ PointsTo("node") = node
    BY DEF PointsTo
  <2>. QED BY <2>1, <2>2, <2>3, <2>4 DEF Pointers
<1>5. TypeOK' /\ list \in ListIds
  BY <1>1, <1>2, <1>3, <1>4, ListsOfJobs DEF JInv, JobSlotsExact, TypeOK, WellFormed
<1>6. WalkInv'
  <2>. SUFFICES ASSUME pc \in {"walk", "callback"}, "node" \notin cut'
                PROVE  /\ node # None => node \in OnList(pool', list)
                       /\ todo' \subseteq After(pool'.list[list], node)
                       /\ After(pool'.list[list], node) \cap seen = {}
    BY <1>1 DEF WalkInv, ToVisit
  <2>1. node # id /\ "node" \notin cut
    BY <1>4
  <2>2. After(pool'.list[list], node) = After(pool.list[list], node) \ {id}
    BY <1>3, <1>5, <2>1
  <2>3. /\ node # None => node \in OnList(pool, list)
        /\ todo \subseteq After(pool.list[list], node)
        /\ After(pool.list[list], node) \cap seen = {}
    BY <2>1 DEF JInv, WalkInv, ToVisit
  <2>. QED BY <1>2, <1>3, <1>5, <2>1, <2>2, <2>3
<1>7. RunInv'
  BY <1>1, <1>2, <1>3, <1>4 DEF JInv, RunInv
<1>8. DayInv'
  BY <1>1, <1>3 DEF JInv, DayInv, RanToday, week_day
<1>. QED BY <1>3, <1>5, <1>6, <1>7, <1>8 DEF JInv

(***************************************************************************)
(* The walk: it begins at the head with all that is on the list.           *)
(***************************************************************************)
LEMMA WalkJInv ==
  ASSUME JInv, NEW l \in ListIds, Walk(l), polled' \in BOOLEAN, pc \in {"loop", "events"}
  PROVE  JInv'
<1>1. /\ list' = l /\ node' = HeadOf(l) /\ added' = 0 /\ todo' = OnList(pool, l) /\ seen' = {}
      /\ pc' = "walk" /\ pool' = pool /\ job' = job /\ timer' = timer /\ run' = run
      /\ clock' = clock /\ today' = today /\ astray' = astray /\ cut' = {} /\ dangling' = {}
  BY DEF Walk
<1>2. /\ TypeOK /\ WellFormed(pool) /\ pool.list[l] \in Seq(SlotIds)
      /\ OnList(pool, l) = Range(pool.list[l]) /\ OnList(pool, l) \subseteq SlotIds
  BY OnListIsSlot DEF JInv, JobSlotsExact, OnList
<1>3. /\ node' # None => node' \in OnList(pool, l)
      /\ OnList(pool, l) \subseteq After(pool.list[l], node')
  <2>1. CASE pool.list[l] = << >>
    <3>1. Range(pool.list[l]) = {} /\ node' = None
      BY <1>1, <2>1 DEF Range, HeadOf, IsEmptyList
    <3>. QED BY <3>1, <1>2
  <2>2. CASE pool.list[l] # << >>
    <3>1. node' = Head(pool.list[l])
      BY <1>1, <2>2 DEF HeadOf, IsEmptyList, PointToHead
    <3>. QED BY <3>1, <2>2, <1>2, AfterHead
  <2>. QED BY <2>1, <2>2
<1>4. TypeOK'
  BY <1>1, <1>2, <1>3, ListsOfJobs, JobsAssumption DEF TypeOK
<1>5. JobSlotsExact'
  BY <1>1, <1>4 DEF JInv, JobSlotsExact
<1>6. WalkInv' /\ RunInv'
  BY <1>1, <1>3 DEF WalkInv, RunInv, ToVisit
<1>7. DayInv'
  BY <1>1 DEF JInv, DayInv, RanToday, week_day
<1>. QED BY <1>4, <1>5, <1>6, <1>7 DEF JInv

LEMMA NodeAfterIsNext ==
  ASSUME WellFormed(pool), NEW l \in ListIds, NEW n \in OnList(pool, l)
  PROVE  /\ NodeAfter(n) # None => NodeAfter(n) \in OnList(pool, l)
         /\ After(pool.list[l], NodeAfter(n)) = After(pool.list[l], n) \ {n}
<1>. PICK q : q = pool.list[l]
  OBVIOUS
<1>1. q \in Seq(SlotIds) /\ IsInjective(q) /\ n \in Range(q) /\ OnList(pool, l) = Range(q)
  BY OnListIsSlot DEF OnList
<1>2. pool.cur[n] = l
  BY DEF WellFormed, MetaNamesList
<1>3. PICK i \in 1 .. Len(q) : q[i] = n
  BY <1>1 DEF Range
<1>4. { k \in 1 .. Len(q) : q[k] = n } = {i}
  BY <1>1, <1>3 DEF IsInjective
<1>5. Min({i}) = i
  BY <1>3 DEF Min
<1>6. SelectInSeq(q, LAMBDA s : s = n) = i
  BY <1>4, <1>5 DEF SelectInSeq
<1>7. NodeAfter(n) = IF i = 0 \/ i = Len(q) THEN None ELSE q[i + 1]
  BY <1>2, <1>6 DEF NodeAfter
<1>8. i # 0 /\ None \notin Range(q)
  BY <1>1, <1>3, OnListIsSlot, ListsOfJobs
<1>9. /\ i = Len(q) => After(q, q[i]) = {q[i]}
      /\ i # Len(q) => q[i + 1] \in Range(q) /\ After(q, q[i + 1]) = After(q, q[i]) \ {q[i]}
  BY <1>1, AfterNext
<1>10. CASE i = Len(q)
  <2>1. NodeAfter(n) = None
    BY <1>7, <1>10
  <2>2. After(q, None) = {}
    BY <1>1, <1>8, AfterNothing
  <2>. QED BY <1>3, <1>9, <1>10, <2>1, <2>2
<1>11. CASE i # Len(q)
  BY <1>1, <1>3, <1>7, <1>8, <1>9, <1>11
<1>. QED BY <1>10, <1>11

\* A node that no callback deleted is on the list walked; one that was deleted and
\* added again is on one of the two.
LEMMA VisitJInv ==
  ASSUME JInv, Visit
  PROVE  JInv'
<1>1. /\ pc = "walk" /\ node # None /\ job[node].active /\ node' = NodeAfter(node)
      /\ todo' = todo \ {node} /\ seen' = seen \cup {node}
      /\ pool' = pool /\ timer' = timer /\ list' = list /\ added' = added
      /\ clock' = clock /\ polled' = polled /\ cut' = cut /\ dangling' = {}
  BY DEF Visit, time
<1>2. /\ TypeOK /\ WellFormed(pool) /\ list \in ListIds /\ job \in [SlotIds -> Job]
      /\ today \in [SlotIds -> Nat] /\ node \in SlotIds /\ cut \subseteq Pointers
      /\ astray \subseteq SlotIds
  BY <1>1, ListsOfJobs DEF JInv, JobSlotsExact, TypeOK
<1>. PICK l \in ListIds : node \in OnList(pool, l)
  BY <1>1, <1>2, ActiveIsAllocated DEF JInv, Allocated
<1>3. "node" \notin cut => l = list
  <2>. SUFFICES ASSUME "node" \notin cut PROVE l = list
    OBVIOUS
  <2>1. node \in OnList(pool, list)
    BY <1>1 DEF JInv, WalkInv
  <2>. QED BY <1>2, <2>1, ListsDisjoint
<1>4. /\ node' # None => node' \in OnList(pool, l)
      /\ After(pool.list[l], node') = After(pool.list[l], node) \ {node}
  BY <1>1, <1>2, NodeAfterIsNext
<1>5. node' \in SlotIds \cup {None} /\ node' # node
  <2>1. node' \in SlotIds \cup {None}
    BY <1>2, <1>4, OnListIsSlot
  <2>2. pool.list[l] \in Seq(SlotIds) /\ OnList(pool, l) = Range(pool.list[l])
    BY <1>2, OnListIsSlot DEF OnList
  <2>3. ASSUME node' = node PROVE FALSE
    <3>1. node \in After(pool.list[l], node)
      BY <2>2, AfterInRange
    <3>. QED BY <3>1, <1>4, <2>3
  <2>. QED BY <2>1, <2>3
<1>6. WalkInv'
  <2>. SUFFICES ASSUME "node" \notin cut
                PROVE  /\ node' # None => node' \in OnList(pool, list)
                       /\ todo \ {node} \subseteq After(pool.list[list], node')
                       /\ After(pool.list[list], node') \cap (seen \cup {node}) = {}
    BY <1>1 DEF WalkInv, ToVisit
  <2>1. /\ todo \subseteq After(pool.list[list], node)
        /\ After(pool.list[list], node) \cap seen = {}
    BY <1>1 DEF JInv, WalkInv, ToVisit
  <2>. QED BY <1>3, <1>4, <2>1
<1>7. week_day' = week_day
  BY <1>1 DEF week_day
<1>8. CASE WillRun(node)
  <2>1. /\ pc' = "callback" /\ run' = node /\ job' = job
        /\ today' = [today EXCEPT ![node] = IF job[node].timed THEN @ + 1 ELSE @]
        /\ astray' = IF job[node].timed /\ list = IOLOOP THEN astray \cup {node} ELSE astray
    BY <1>8 DEF Visit
  <2>2. /\ today'[node] = (IF job[node].timed THEN today[node] + 1 ELSE today[node])
        /\ \A x \in SlotIds \ {node} : today'[x] = today[x]
        /\ today' \in [SlotIds -> Nat]
    BY <1>2, <2>1
  <2>3. TypeOK'
    BY <1>1, <1>2, <1>5, <2>1, <2>2 DEF TypeOK
  <2>4. JobSlotsExact'
    BY <1>1, <2>1, <2>3 DEF JInv, JobSlotsExact
  <2>5. RunInv'
    BY <1>1, <1>2, <1>5, <2>1 DEF RunInv
  <2>6. ASSUME node \notin astray' PROVE today'[node] <= 1
    <3>1. CASE job[node].timed
      <4>1. list = TIMED /\ node \notin astray
        BY <1>2, <2>1, <2>6, <3>1, ListsOfJobs
      <4>2. job[node].invoke_day # week_day
        BY <1>8, <4>1 DEF WillRun, EvKQJobsTimedWillDispatch
      <4>3. ~ (today[node] > 0) /\ today[node] \in Nat
        BY <1>1, <1>2, <3>1, <4>1, <4>2 DEF JInv, DayInv, RanToday
      <4>. QED BY <4>3, <2>2, <3>1
    <3>2. CASE ~ job[node].timed
      BY <1>2, <2>1, <2>2, <2>6, <3>2 DEF JInv, DayInv
    <3>. QED BY <3>1, <3>2
  <2>7. DayInv'
    <3>1. \A x \in SlotIds \ (astray \cup {node}) :
             /\ today'[x] <= 1
             /\ job'[x].active /\ job'[x].timed /\ today'[x] > 0 => RanToday(x)'
      BY <1>1, <1>7, <2>1, <2>2 DEF JInv, DayInv, RanToday
    <3>2. astray \subseteq astray'
      BY <2>1
    <3>. SUFFICES ASSUME NEW x \in SlotIds \ astray'
                  PROVE  /\ today'[x] <= 1
                         /\ job'[x].active /\ job'[x].timed /\ today'[x] > 0 => RanToday(x)'
      BY DEF DayInv
    <3>3. CASE x = node
      <4>1. today'[x] <= 1 /\ pc' = "callback" /\ run' = x /\ list' = list
        BY <1>1, <2>1, <2>6, <3>3
      <4>2. job'[x].timed => list = TIMED
        BY <1>2, <2>1, <3>3, ListsOfJobs
      <4>. QED BY <4>1, <4>2 DEF RanToday
    <3>4. CASE x # node
      BY <3>1, <3>2, <3>4
    <3>. QED BY <3>3, <3>4
  <2>. QED BY <1>6, <2>4, <2>5, <2>7 DEF JInv
<1>9. CASE ~ WillRun(node)
  <2>1. /\ pc' = pc /\ run' = run /\ today' = today /\ astray' = astray
        /\ job' = [job EXCEPT ![node].left =
                      IF list = IOLOOP /\ job[node].enabled THEN @ - 1 ELSE @]
    BY <1>9 DEF Visit
  <2>. PICK left : left = IF list = IOLOOP /\ job[node].enabled THEN job[node].left - 1
                                                               ELSE job[node].left
    OBVIOUS
  <2>2. left \in Nat
    <3>1. job[node].left \in Nat
      BY <1>2 DEF Job
    <3>2. list = IOLOOP /\ job[node].enabled => job[node].left # 0
      BY <1>9, ListsOfJobs DEF WillRun
    <3>. QED BY <3>1, <3>2
  <2>3. job' = [job EXCEPT ![node].left = left]
    BY <1>2, <2>1
  <2>4. /\ job' \in [SlotIds -> Job]
        /\ \A x \in SlotIds : /\ job'[x].active = job[x].active
                              /\ job'[x].timed = job[x].timed
                              /\ job'[x].invoke_day = job[x].invoke_day
    BY <1>2, <2>2, <2>3 DEF Job
  <2>5. TypeOK'
    BY <1>1, <1>2, <1>5, <2>1, <2>4 DEF TypeOK
  <2>6. JobSlotsExact'
    BY <1>1, <2>4, <2>5 DEF JInv, JobSlotsExact
  <2>7. RunInv'
    BY <1>1, <2>1 DEF RunInv
  <2>8. DayInv'
    BY <1>1, <1>7, <2>1, <2>4 DEF JInv, DayInv, RanToday
  <2>. QED BY <1>6, <2>6, <2>7, <2>8 DEF JInv
<1>. QED BY <1>8, <1>9

(***************************************************************************)
(* After the callback: a persistent job waits again, another one is freed. *)
(***************************************************************************)
LEMMA InvokedIsJob ==
  ASSUME TypeOK, NEW j \in Job
  PROVE  /\ Invoked(j) \in Job /\ Invoked(j).active = j.active /\ Invoked(j).timed = j.timed
         /\ list = TIMED => Invoked(j).invoke_day = week_day
         /\ list # TIMED => Invoked(j).invoke_day = j.invoke_day
<1>1. week_day \in Days /\ 0 \in 0 .. Recent /\ Counts \subseteq Nat
  BY WeekDayIsDay, JobsAssumption
<1>. PICK d : d = week_day
  OBVIOUS
<1>2. CASE list = TIMED
  <2>1. Invoked(j) = [j EXCEPT !.since = 0, !.invoke_day = d]
    BY <1>2 DEF Invoked
  <2>. QED BY <1>1, <1>2, <2>1 DEF Job
<1>3. CASE list # TIMED
  <2>1. Invoked(j) = [j EXCEPT !.left = j.target]
    BY <1>3 DEF Invoked
  <2>. QED BY <1>1, <1>3, <2>1 DEF Job
<1>. QED BY <1>2, <1>3

LEMMA CallbackReturnJInv ==
  ASSUME JInv, CallbackReturn
  PROVE  JInv'
<1>. PICK r : r = run
  OBVIOUS
<1>1. /\ pc = "callback" /\ pc' = "walk" /\ run' = None
      /\ timer' = timer /\ list' = list /\ node' = node /\ added' = added
      /\ clock' = clock /\ polled' = polled /\ todo' = todo /\ seen' = seen /\ today' = today
      /\ astray' = astray /\ cut' = cut \ {"run"} /\ dangling' = dangling \ {"run"}
      /\ job[run].active
  BY DEF CallbackReturn, walk, time
<1>2. /\ TypeOK /\ WellFormed(pool) /\ list \in ListIds /\ list \in {IOLOOP, TIMED}
      /\ job \in [SlotIds -> Job]
  BY ListsOfJobs DEF JInv, JobSlotsExact, TypeOK
<1>3. r # node /\ r \notin todo
  BY <1>1 DEF JInv, RunInv
<1>4. r \in SlotIds /\ job[r].active
  BY <1>1 DEF JInv, RunInv
<1>5. week_day' = week_day
  BY <1>1 DEF week_day
<1>6. WalkInv /\ DayInv
  BY DEF JInv
<1>7. RunInv'
  BY <1>1 DEF RunInv
<1>8. CASE job[r].persist
  <2>1. pool' = pool /\ job' = [job EXCEPT ![r] = Invoked(@)]
    BY <1>8 DEF CallbackReturn
  <2>. PICK new : new = Invoked(job[r])
    OBVIOUS
  <2>2. /\ new \in Job /\ new.active = job[r].active /\ new.timed = job[r].timed
        /\ list = TIMED => new.invoke_day = week_day
        /\ list # TIMED => new.invoke_day = job[r].invoke_day
    BY <1>2, <1>4, InvokedIsJob
  <2>3. /\ job'[r] = new /\ \A x \in SlotIds \ {r} : job'[x] = job[x]
        /\ job' \in [SlotIds -> Job]
    BY <1>2, <1>4, <2>1, <2>2
  <2>4. TypeOK'
    BY <1>1, <1>2, <2>1, <2>3 DEF TypeOK
  <2>5. JobSlotsExact'
    BY <2>1, <2>2, <2>3, <2>4 DEF JInv, JobSlotsExact
  <2>6. WalkInv'
    BY <1>1, <1>6, <2>1 DEF WalkInv, ToVisit
  <2>7. DayInv'
    <3>1. ASSUME NEW x \in SlotIds \ {r}, x \notin astray
          PROVE  /\ today'[x] <= 1
                 /\ job'[x].active /\ job'[x].timed /\ today'[x] > 0 => RanToday(x)'
      BY <1>1, <1>5, <1>6, <2>3, <3>1 DEF DayInv, RanToday
    <3>2. ASSUME r \notin astray
          PROVE  /\ today'[r] <= 1
                 /\ job'[r].active /\ job'[r].timed /\ today'[r] > 0 => RanToday(r)'
      <4>1. today'[r] <= 1
        BY <1>1, <1>4, <1>6, <3>2 DEF DayInv
      <4>2. CASE list = TIMED
        BY <1>1, <1>5, <2>2, <2>3, <4>1, <4>2 DEF RanToday
      <4>3. CASE list # TIMED
        BY <1>1, <1>4, <1>5, <1>6, <2>2, <2>3, <3>2, <4>1, <4>3 DEF DayInv, RanToday
      <4>. QED BY <4>2, <4>3
    <3>. QED BY <1>1, <3>1, <3>2 DEF DayInv
  <2>. QED BY <1>7, <2>5, <2>6, <2>7 DEF JInv
<1>9. CASE ~ job[r].persist
  <2>1. job' = [job EXCEPT ![r] = BlankJob] /\ pool' = SlotFree(pool, r)
    BY <1>9 DEF CallbackReturn
  <2>2. /\ WellFormed(pool') /\ job' \in [SlotIds -> Job]
        /\ \A x \in SlotIds \ {r} : job'[x] = job[x]
        /\ ~ job'[r].active
        /\ \A l \in ListIds : OnList(pool', l) = OnList(pool, l) \ {r}
        /\ TypeOK' => JobSlotsExact'
        /\ \A l \in ListIds : \A n : n # r =>
                  After(pool'.list[l], n) = After(pool.list[l], n) \ {r}
    BY <1>4, <2>1, FreedJob
  <2>3. TypeOK'
    BY <1>1, <1>2, <2>2 DEF TypeOK, WellFormed
  <2>7. WalkInv'
    <3>. SUFFICES ASSUME "node" \notin cut
                  PROVE  /\ node # None => node \in OnList(pool', list)
                         /\ todo \subseteq After(pool'.list[list], node)
                         /\ After(pool'.list[list], node) \cap seen = {}
      BY <1>1 DEF WalkInv, ToVisit
    <3>1. After(pool'.list[list], node) = After(pool.list[list], node) \ {r}
      BY <1>2, <1>3, <2>2
    <3>2. /\ node # None => node \in OnList(pool, list)
          /\ todo \subseteq After(pool.list[list], node)
          /\ After(pool.list[list], node) \cap seen = {}
      BY <1>1, <1>6 DEF WalkInv, ToVisit
    <3>. QED BY <1>2, <1>3, <2>2, <3>1, <3>2
  <2>8. DayInv'
    BY <1>1, <1>5, <1>6, <2>2 DEF DayInv, RanToday
  <2>. QED BY <1>7, <2>2, <2>3, <2>7, <2>8 DEF JInv
<1>. QED BY <1>8, <1>9

LEMMA EndsJInv ==
  ASSUME JInv, EndOfWalk \/ EndOfEvents
  PROVE  JInv'
<1>1. /\ pc' \in {"loop", "events"} /\ pc \in {"walk", "events"}
      /\ pool' = pool /\ job' = job /\ timer' = timer /\ list' = list
      /\ node' = node /\ added' = added /\ run' = run /\ clock' = clock /\ polled' = polled
      /\ todo' \in {{}, todo} /\ seen' \in {{}, seen} /\ today' = today
      /\ astray' = astray /\ <<cut', dangling'>> \in {<<{}, {}>>, <<cut, dangling>>}
  BY DEF EndOfWalk, EndOfEvents, walk, time, held
<1>2. TypeOK'
  BY <1>1 DEF JInv, JobSlotsExact, TypeOK
<1>3. JobSlotsExact'
  BY <1>1, <1>2 DEF JInv, JobSlotsExact
<1>4. WalkInv' /\ RunInv'
  BY <1>1 DEF WalkInv, RunInv
<1>5. DayInv'
  BY <1>1 DEF JInv, DayInv, RanToday, week_day
<1>. QED BY <1>3, <1>4, <1>5 DEF JInv

\* The program ends in a walk only where a callback deleted the job pointed to.
LEMMA WalkStopsJInv ==
  ASSUME JInv, WalkStops
  PROVE  JInv'
<1>1. /\ pc' = "stopped" /\ pc \in {"walk", "callback"}
      /\ pool' = pool /\ job' = job /\ timer' = timer /\ list' = list
      /\ node' = node /\ added' = added /\ run' = run /\ clock' = clock /\ polled' = polled
      /\ todo' = todo /\ seen' = seen /\ today' = today /\ astray' = astray
      /\ cut' = cut /\ dangling' = dangling
  BY DEF WalkStops, walk, time, held
<1>2. TypeOK'
  BY <1>1 DEF JInv, JobSlotsExact, TypeOK
<1>3. JobSlotsExact'
  BY <1>1, <1>2 DEF JInv, JobSlotsExact
<1>4. cut # {}
  <2>0. dangling \subseteq cut
    BY DEF JInv, JobSlotsExact, TypeOK
  <2>1. CASE pc = "callback" /\ Spoilt("run")
    BY <2>0, <2>1 DEF JInv, RunInv, Spoilt, PointsTo
  <2>2. CASE pc = "walk" /\ node # None /\ Spoilt("node")
    <3>. SUFFICES ASSUME "node" \notin cut PROVE FALSE
      OBVIOUS
    <3>1. ~ job[node].active
      BY <2>0, <2>2 DEF Spoilt, PointsTo
    <3>2. node \in OnList(pool, list) /\ list \in ListIds
      BY <2>2, ListsOfJobs DEF JInv, WalkInv, JobSlotsExact, TypeOK
    <3>. QED BY <3>1, <3>2, ListsOfJobs DEF JInv, JobSlotsExact
  <2>. QED BY <2>1, <2>2 DEF WalkStops
<1>5. WalkInv' /\ RunInv'
  BY <1>1, <1>4 DEF WalkInv, RunInv
<1>6. DayInv'
  BY <1>1 DEF JInv, DayInv, RanToday, week_day
<1>. QED BY <1>3, <1>5, <1>6 DEF JInv

(***************************************************************************)
(* Time: at midnight the day is forgotten, and before that it is the same. *)
(***************************************************************************)
LEMMA TickJInv ==
  ASSUME JInv, Tick
  PROVE  JInv'
<1>1. /\ pc = "loop" /\ clock' = (clock + 1) % (DaysOfWeek * DayTicks) /\ polled' = FALSE
      /\ pool' = pool /\ timer' = timer /\ pc' = pc /\ list' = list /\ node' = node
      /\ added' = added /\ run' = run /\ todo' = todo /\ seen' = seen
      /\ cut' = cut /\ dangling' = dangling
  BY DEF Tick, walk, held
<1>2. TypeOK /\ job \in [SlotIds -> Job] /\ today \in [SlotIds -> Nat]
  BY DEF JInv, JobSlotsExact, TypeOK
<1>3. /\ clock' \in 0 .. (DaysOfWeek * DayTicks - 1)
      /\ TickOfDay # DayTicks - 1 => week_day' = week_day
  BY <1>1, <1>2, TickStaysInDay
<1>4. job' = [id \in SlotIds |-> [job[id] EXCEPT !.since = IF @ < Recent THEN @ + 1 ELSE @]]
  BY DEF Tick
<1>5. /\ job' \in [SlotIds -> Job]
      /\ \A x \in SlotIds : /\ job'[x].active = job[x].active
                            /\ job'[x].timed = job[x].timed
                            /\ job'[x].invoke_day = job[x].invoke_day
  <2>. SUFFICES ASSUME NEW x \in SlotIds
                PROVE  /\ job'[x] \in Job
                       /\ job'[x].active = job[x].active /\ job'[x].timed = job[x].timed
                       /\ job'[x].invoke_day = job[x].invoke_day
    BY <1>4
  <2>. PICK n : n = IF job[x].since < Recent THEN job[x].since + 1 ELSE job[x].since
    OBVIOUS
  <2>1. job[x] \in Job /\ job[x].since \in 0 .. Recent /\ Recent \in Nat
    BY <1>2, JobsAssumption DEF Job
  <2>2. n \in 0 .. Recent
    BY <2>1
  <2>3. job'[x] = [job[x] EXCEPT !.since = n]
    BY <1>4, <2>1
  <2>. QED BY <2>1, <2>2, <2>3 DEF Job
<1>6. /\ today' = (IF TickOfDay = DayTicks - 1 THEN [id \in SlotIds |-> 0] ELSE today)
      /\ astray' = (IF TickOfDay = DayTicks - 1 THEN {} ELSE astray)
      /\ today' \in [SlotIds -> Nat] /\ astray' \subseteq SlotIds
  BY <1>2 DEF Tick, TypeOK
<1>7. TypeOK'
  BY <1>1, <1>2, <1>3, <1>5, <1>6 DEF TypeOK
<1>8. CASE TickOfDay # DayTicks - 1
  BY <1>1, <1>3, <1>5, <1>6, <1>7, <1>8, QuietJobs
<1>9. CASE TickOfDay = DayTicks - 1
  <2>1. \A x \in SlotIds : today'[x] = 0
    BY <1>6, <1>9
  <2>2. DayInv'
    BY <2>1 DEF DayInv
  <2>3. JobSlotsExact'
    BY <1>1, <1>5, <1>7 DEF JInv, JobSlotsExact
  <2>4. WalkInv' /\ RunInv'
    BY <1>1 DEF WalkInv, RunInv
  <2>. QED BY <2>2, <2>3, <2>4 DEF JInv
<1>. QED BY <1>8, <1>9

-----------------------------------------------------------------------------
LEMMA InitJInv ==
  ASSUME Init
  PROVE  JInv
<1>1. /\ WellFormed(pool) /\ \A l \in ListIds : OnList(pool, l) = {}
      /\ pool.bits = {} /\ Allocated(pool) = {}
  <2>1. pool = NewPool
    BY DEF Init
  <2>2. WellFormed(pool) /\ \A l \in ListIds : OnList(pool, l) = {}
    BY <2>1, NewPoolWF
  <2>. QED BY <2>1, <2>2 DEF NewPool, Allocated
<1>2. \A id \in SlotIds : job[id] = BlankJob /\ ~ job[id].active /\ today[id] = 0
  BY BlankIsJob DEF Init
<1>3. TypeOK
  <2>1. DaysOfWeek * DayTicks \in Nat \ {0}
    <3>. PICK w, t : w = DaysOfWeek /\ t = DayTicks
      OBVIOUS
    <3>1. w \in Nat \ {0} /\ t \in Nat \ {0}
      BY JobsAssumption
    <3>2. t * 1 <= t * w /\ t * 1 = t /\ t * w = w * t
      BY <3>1, TimesGrows
    <3>. QED BY <3>1, <3>2
  <2>2. 0 \in 0 .. (DaysOfWeek * DayTicks - 1) /\ 0 \in 0 .. AddsPerWalk
    BY <2>1, JobsAssumption
  <2>. QED BY <1>1, <2>2, BlankIsJob DEF Init, TypeOK, WellFormed
<1>4. JobSlotsExact
  BY <1>1, <1>2, <1>3, ListsOfJobs DEF JobSlotsExact
<1>5. WalkInv /\ RunInv
  BY DEF Init, WalkInv, RunInv
<1>6. DayInv
  BY <1>2 DEF DayInv
<1>. QED BY <1>4, <1>5, <1>6 DEF JInv

LEMMA NextJInv ==
  ASSUME JInv, [Next]_vars
  PROVE  JInv'
<1>1. CASE EvKQJobsDispatch
  <2>1. Walk(IOLOOP) /\ polled' \in BOOLEAN /\ pc \in {"loop", "events"}
    BY <1>1 DEF EvKQJobsDispatch, JInv, JobSlotsExact, TypeOK
  <2>. QED BY <2>1, WalkJInv, ListsOfJobs
<1>2. CASE EvKQJobsTimerEvent
  <2>1. Walk(TIMED) /\ polled' \in BOOLEAN /\ pc \in {"loop", "events"}
    BY <1>2 DEF EvKQJobsTimerEvent
  <2>. QED BY <2>1, WalkJInv, ListsOfJobs
<1>3. CASE Visit
  BY <1>3, VisitJInv
<1>4. CASE CallbackReturn
  BY <1>4, CallbackReturnJInv
<1>5. CASE EndOfWalk \/ EndOfEvents
  BY <1>5, EndsJInv
<1>11. CASE WalkStops
  BY <1>11, WalkStopsJInv
<1>6. CASE Tick
  BY <1>6, TickJInv
<1>7. ASSUME NEW persist \in BOOLEAN, NEW count \in Counts, EvKQJobsAdd(persist, count)
      PROVE  JInv'
  BY <1>7, EvKQJobsAddJInv
<1>8. ASSUME NEW persist \in BOOLEAN, NEW day \in TimedDays, NEW at \in Ats,
             EvKQJobsAddTimed(persist, day, at)
      PROVE  JInv'
  BY <1>8, EvKQJobsAddTimedJInv
<1>9. ASSUME NEW id \in SlotIds, EvKQJobsCtl(id)
      PROVE  JInv'
  <2>1. CASE Enable(id) \/ Disable(id)
    BY <1>9, <2>1, CtlFlagJInv
  <2>2. CASE Delete(id)
    BY <1>9, <2>2, DeleteJInv
  <2>. QED BY <1>9, <2>1, <2>2 DEF EvKQJobsCtl
<1>10. CASE UNCHANGED vars
  <2>1. /\ pool' = pool /\ job' = job /\ timer' = timer /\ pc' = pc /\ list' = list
        /\ node' = node /\ run' = run /\ added' = added /\ clock' = clock
        /\ polled' = polled /\ todo' = todo /\ seen' = seen /\ today' = today
        /\ astray' = astray /\ cut' = cut /\ dangling' = dangling
    BY <1>10 DEF vars
  <2>2. TypeOK' /\ week_day' = week_day
    BY <2>1 DEF JInv, JobSlotsExact, TypeOK, week_day
  <2>. QED BY <2>1, <2>2, QuietJobs
<1>. QED BY <1>1, <1>2, <1>3, <1>4, <1>5, <1>6, <1>7, <1>8, <1>9, <1>10, <1>11
         DEF Next, LoopStep, ClientCall

\* A walk that is over met all it had to, and the next node was not met before.
LEMMA JInvGives ==
  ASSUME JInv
  PROVE  JobSlotsExact /\ EachOnce /\ OncePerDay
<1>1. JobSlotsExact /\ OncePerDay
  <2>1. today \in [SlotIds -> Nat]
    BY DEF JInv, JobSlotsExact, TypeOK
  <2>. QED BY <2>1 DEF JInv, DayInv, OncePerDay
<1>2. ASSUME pc = "walk", node = None, "node" \notin cut PROVE todo = {}
  <2>1. /\ WellFormed(pool) /\ list \in ListIds
    BY ListsOfJobs DEF JInv, JobSlotsExact, TypeOK
  <2>2. pool.list[list] \in Seq(SlotIds) /\ None \notin Range(pool.list[list])
    BY <2>1, OnListIsSlot, ListsOfJobs DEF OnList
  <2>3. ToVisit = {}
    BY <1>2, <2>2, AfterNothing DEF ToVisit
  <2>. QED BY <1>2, <2>3 DEF JInv, WalkInv
<1>3. ASSUME pc = "walk", node # None, "node" \notin cut PROVE node \notin seen
  <2>1. node \in OnList(pool, list) /\ ToVisit \cap seen = {}
    BY <1>3 DEF JInv, WalkInv
  <2>2. pool.list[list] \in Seq(SlotIds)
    BY ListsOfJobs, OnListIsSlot DEF JInv, JobSlotsExact, TypeOK
  <2>. QED BY <2>1, <2>2, AfterInRange DEF ToVisit, OnList
<1>4. pc = "stopped" => cut # {}
  BY DEF JInv, RunInv
<1>. QED BY <1>1, <1>2, <1>3, <1>4 DEF EachOnce

(***************************************************************************)
(* Whatever a program adds, enables, disables and deletes, between walks   *)
(* and from the callbacks of a walk, the inductive invariant holds.        *)
(***************************************************************************)
THEOREM EventJobsInvariant == Spec => []JInv
<1>1. Init => JInv
  BY InitJInv
<1>2. JInv /\ [Next]_vars => JInv'
  BY NextJInv
<1>. QED BY <1>1, <1>2, PTL DEF Spec

(***************************************************************************)
(* The slots of the job pool are exactly the active jobs, on the list of   *)
(* their kind: EvKQJobsAddInternal, EvKQJobsCtl and the end of a callback  *)
(* leak no slot and free none twice (ev_kq_jobs.c:132-145, 240-247,        *)
(* 340-341).                                                               *)
(***************************************************************************)
THEOREM SlotsAreActiveJobs == Spec => []JobSlotsExact
<1>1. JInv => JobSlotsExact
  BY JInvGives
<1>. QED BY <1>1, EventJobsInvariant, PTL

(***************************************************************************)
(* A walk visits every job that was on its list when it began and is not   *)
(* deleted first, and none twice, although callbacks add to the list and   *)
(* take from it: EvKQJobsDispatch and EvKQJobsDispatchTimed save the next  *)
(* node before the callback (ev_kq_jobs.c:103-159, 515-554).  This holds   *)
(* until a callback deletes the very job the walk goes to next; only such  *)
(* a callback, or one that deletes its own job, can end the program here.  *)
(***************************************************************************)
THEOREM WalkVisitsEachOnce == Spec => []EachOnce
<1>1. JInv => EachOnce
  BY JInvGives
<1>. QED BY <1>1, EventJobsInvariant, PTL

(***************************************************************************)
(* A timed job runs at most once between two midnights, however long the   *)
(* minute it asked for and however often the timer fires, unless a walk of *)
(* the I/O loop jobs was led to it (ev_kq_jobs.c:458-474, 541-545).        *)
(***************************************************************************)
THEOREM TimedJobRunsOncePerDay == Spec => []OncePerDay
<1>1. JInv => OncePerDay
  BY JInvGives
<1>. QED BY <1>1, EventJobsInvariant, PTL
=============================================================================
