-------------------------- MODULE FileMappedProofs --------------------------
(***************************************************************************)
(* The mapped file (event/utils/ev_kq_file_mapped.c), for every size of    *)
(* page and file and any number of requests, owners and calls: whenever    *)
(* the process dies, the pages that the metadata tell of are in the file.  *)
(*                                                                         *)
(* The bitmap travels: from memory into the snapshot a request writes, or  *)
(* into the buffer that waits for that request, into the metadata file,    *)
(* and back into memory when the file is loaded.  The inductive invariant  *)
(* Sound says of all these copies what DiskTellsTruth says of two, and of  *)
(* a request that writes data that it begins at a page or stays within     *)
(* one, and that what it reports as written is in the file.                *)
(*                                                                         *)
(* And whatever the program does when it is called back, the file is freed *)
(* with the last that refers to it.  The inductive invariant Live counts   *)
(* the references, gives each request of a call a state that waits for it, *)
(* keeps the marks of who cancelled, and says of the partial buffers that  *)
(* a write under way shares no page with another, so that the end of one   *)
(* drops no buffer the other is written from.                              *)
(***************************************************************************)
EXTENDS FileMapped, FiniteSetTheorems, WellFoundedInduction, TLAPS

Fields == DOMAIN Fresh
RequestFields == {"id", "kind", "off", "n", "src", "snap", "cancelled", "ret"}

\* The bytes in the data file, and those it lost when it was emptied.
Bytes(g) == g.have \cup g.erased
\* The pages that some copy of the bitmap tells of.
Told(g) == g.bits \cup g.saved.bits \cup g.lastRaw.bits \cup UNION {r.snap.bits : r \in g.reqs}
Covers(g) == \A i \in Told(g) \ g.early : Page(i) \subseteq Bytes(g)

\* A write does not begin within a page and end in another one.
Paged(off, n) == off \in Int /\ n \in Nat /\ (off % PageSize = 0 \/ n < PageSize)
LastPage(off, n) == off = FileSize - (FileSize % PageSize) /\ n = FileSize % PageSize
Aims(g, r) ==
    /\ DOMAIN r = RequestFields /\ r.snap.cur \in Int /\ r.ret \in {"none", "ok", "fail"}
    /\ r.kind = "raw" => /\ Paged(r.off, r.n)
                         /\ r.ret = "ok" => r.off .. r.off + r.n - 1 \subseteq Bytes(g)
    /\ r.kind = "unlock" /\ "appended" \notin g.odd => LastPage(r.off, r.n)

Sound(g) ==
    /\ DOMAIN g = Fields
    /\ g.cur \in Int /\ g.saved.cur \in Int /\ g.lastRaw.cur \in Int
    /\ \A r \in g.reqs : Aims(g, r)
    /\ "appended" \notin g.odd => Covers(g)

-----------------------------------------------------------------------------
(* Steps that tell of no new page.  R: the requests they submit.           *)

Keeps(g, h, R) ==
    /\ DOMAIN h = DOMAIN g
    /\ h.bits \subseteq g.bits /\ h.saved = g.saved /\ h.lastRaw \in {g.lastRaw, None}
    /\ h.reqs \subseteq g.reqs \cup R
    /\ h.early = g.early /\ h.have = g.have /\ h.erased = g.erased
    /\ g.cur \in Int => h.cur \in Int
    /\ g.odd \subseteq h.odd

(***************************************************************************)
(* The record of a mapped file has all its fields, and no metadata tell of *)
(* no page.                                                                *)
(***************************************************************************)
LEMMA FieldsOfFresh ==
  /\ Fields = {"truncate", "erased", "opened", "closeReq", "destroyed", "wants", "complete", "loading", "refs", "rawWriting",
               "auxWriting", "auxDirty", "lastRaw", "lastAux", "bits", "higher", "parts", "cur", "states",
               "rawPending", "reqs", "bad", "have", "saved", "owner", "freed", "gone", "late", "stale",
               "early", "calls", "odd"}
  /\ None.bits = {} /\ None.cur \in Int
BY DEF Fields, Fresh, None

(***************************************************************************)
(* A step that only submits requests whose snapshots tell of nothing new   *)
(* keeps the file sound.                                                   *)
(***************************************************************************)
LEMMA Kept ==
  ASSUME NEW g, NEW h, NEW R, Sound(g), Keeps(g, h, R),
         \A r \in R : Aims(g, r) /\ r.snap.bits \subseteq Told(g)
  PROVE  Sound(h)
<1>1. DOMAIN h = Fields /\ h.cur \in Int /\ h.saved.cur \in Int /\ h.lastRaw.cur \in Int
  BY FieldsOfFresh DEF Sound, Keeps
<1>2. ASSUME NEW r \in h.reqs PROVE Aims(h, r)
  <2>1. Aims(g, r)
    BY <1>2 DEF Sound, Keeps
  <2> QED BY <2>1 DEF Aims, Keeps, Bytes
<1>3. Told(h) \subseteq Told(g)
  <2>1. h.bits \cup h.saved.bits \cup h.lastRaw.bits \subseteq Told(g)
    BY FieldsOfFresh DEF Keeps, Told
  <2>2. ASSUME NEW r \in h.reqs PROVE r.snap.bits \subseteq Told(g)
    BY <2>2 DEF Keeps, Told
  <2> QED BY <2>1, <2>2 DEF Told
<1>4. "appended" \notin h.odd => Covers(h)
  BY <1>3 DEF Sound, Keeps, Covers, Bytes
<1> QED BY <1>1, <1>2, <1>4 DEF Sound

(***************************************************************************)
(* The same for a step that submits nothing.                               *)
(***************************************************************************)
LEMMA Quiet ==
  ASSUME NEW g, NEW h, Sound(g), Keeps(g, h, {})
  PROVE  Sound(h)
BY Kept

(***************************************************************************)
(* What Request makes of its arguments.                                    *)
(***************************************************************************)
LEMMA RequestMade ==
  ASSUME NEW g, NEW kind, NEW off, NEW n, NEW src
  PROVE  LET r == Request(g, kind, off, n, src)
         IN /\ DOMAIN r = RequestFields
            /\ r.kind = kind /\ r.off = off /\ r.n = n /\ r.ret = "none" /\ r.snap = None
            /\ kind \notin {"raw", "unlock"} => Aims(g, r)
            /\ r.snap.bits = {}
BY FieldsOfFresh DEF Request, RequestFields, Aims

(***************************************************************************)
(* A request is put into a slot of ThreadAIO, with or without a reference. *)
(***************************************************************************)
LEMMA Submitted ==
  ASSUME NEW g, NEW r, Sound(g), Aims(g, r), r.snap.bits \subseteq Told(g)
  PROVE  Sound(SubmitUnlocked(g, r)) /\ Sound(Submit(g, r))
<1>1. Keeps(g, SubmitUnlocked(g, r), {r})
  BY FieldsOfFresh DEF Keeps, SubmitUnlocked, Sound
<1>2. Keeps(g, Submit(g, r), {r})
  BY FieldsOfFresh DEF Keeps, Submit, EvKQFileMappedLock, Sound
<1> QED BY <1>1, <1>2, Kept

(***************************************************************************)
(* References, states and notes of odd uses are not told of.               *)
(***************************************************************************)
LEMMA Unlocked ==
  ASSUME NEW g, Sound(g)
  PROVE  Sound(EvKQFileMappedUnlock(g)) /\ Sound(EvKQFileMappedDestroy(g))
<1>1. Keeps(g, EvKQFileMappedUnlock(g), {})
  BY FieldsOfFresh DEF Keeps, EvKQFileMappedUnlock, InternalClean, Sound
<1>2. Keeps(g, EvKQFileMappedDestroy(g), {})
  BY FieldsOfFresh DEF Keeps, EvKQFileMappedDestroy, EvKQFileMappedUnlock, InternalClean, Sound
<1> QED BY <1>1, <1>2, Quiet

(***************************************************************************)
(* An odd use is noted and nothing else changes.                           *)
(***************************************************************************)
LEMMA OddStep ==
  ASSUME NEW g, NEW why, Sound(g)
  PROVE  Sound(Odd(g, why))
<1>1. Keeps(g, Odd(g, why), {})
  BY FieldsOfFresh DEF Keeps, Odd, Sound
<1> QED BY <1>1, Quiet

-----------------------------------------------------------------------------
(* Metadata: a snapshot tells of the bitmap it was taken of.               *)

(***************************************************************************)
(* The request that writes a snapshot already told of.                     *)
(***************************************************************************)
LEMMA SnapshotAims ==
  ASSUME NEW g, NEW a, NEW s, s.cur \in Int
  PROVE  LET r == [Request(a, "meta", 0, 1, -1) EXCEPT !.snap = s] IN Aims(g, r) /\ r.snap = s
BY DEF Request, RequestFields, Aims

(***************************************************************************)
(* MetaDataRawUpdate writes the bitmap, or keeps it for when the write     *)
(* under way is done.                                                      *)
(***************************************************************************)
LEMMA RawUpdated ==
  ASSUME NEW g, Sound(g)
  PROVE  Sound(MetaDataRawUpdate(g))
<1> DEFINE r == [Request(g, "meta", 0, 1, -1) EXCEPT !.snap = Snapshot(g)]
           later == [g EXCEPT !.lastRaw = Snapshot(g)]
           sent == [Submit(g, r) EXCEPT !.rawWriting = TRUE]
<1>1. Snapshot(g).bits = g.bits /\ Snapshot(g).cur \in Int
  BY DEF Snapshot, Sound
<1>2. Sound(later)
  <2>1. /\ DOMAIN later = DOMAIN g /\ later.lastRaw = Snapshot(g)
        /\ later.bits = g.bits /\ later.saved = g.saved /\ later.reqs = g.reqs /\ later.early = g.early
        /\ later.have = g.have /\ later.erased = g.erased /\ later.cur = g.cur /\ later.odd = g.odd
    BY FieldsOfFresh DEF Sound
  <2> HIDE DEF later
  <2>2. \A q \in later.reqs : Aims(later, q)
    BY <2>1 DEF Sound, Aims, Bytes
  <2>3. Told(later) \subseteq Told(g)
    BY <1>1, <2>1 DEF Told
  <2> QED BY <1>1, <2>1, <2>2, <2>3 DEF Sound, Covers, Bytes
<1>3. Sound(sent)
  <2>1. Aims(g, r) /\ r.snap.bits \subseteq Told(g)
    BY <1>1, SnapshotAims DEF Told
  <2>2. Sound(Submit(g, r))
    BY <2>1, Submitted
  <2>3. Keeps(Submit(g, r), sent, {})
    BY <2>2, FieldsOfFresh DEF Keeps, Sound
  <2> QED BY <2>2, <2>3, Quiet
<1>4. Sound(Odd(g, "refused"))
  BY OddStep
<1> QED BY <1>2, <1>3, <1>4 DEF MetaDataRawUpdate

(***************************************************************************)
(* The auxiliary metadata hold no bitmap.                                  *)
(***************************************************************************)
LEMMA AuxUpdated ==
  ASSUME NEW g, Sound(g)
  PROVE  Sound(MetaDataAuxUpdate(g)) /\ Sound(EvKQFileMappedMetaAuxWrite(g))
<1>1. ASSUME NEW a, Sound(a) PROVE Sound(MetaDataAuxUpdate(a))
  <2> DEFINE r == Request(a, "aux", 0, 1, -1)
             sent == [Submit(a, r) EXCEPT !.auxWriting = TRUE, !.auxDirty = FALSE]
  <2>1. Aims(a, r) /\ r.snap.bits \subseteq Told(a)
    BY RequestMade
  <2>2. Sound(Submit(a, r))
    BY <1>1, <2>1, Submitted
  <2>3. Keeps(Submit(a, r), sent, {})
    BY <2>2, FieldsOfFresh DEF Keeps, Sound
  <2>4. Sound(sent)
    BY <2>2, <2>3, Quiet
  <2>5. Sound(Odd(a, "refused"))
    BY <1>1, OddStep
  <2> QED BY <1>1, <2>4, <2>5 DEF MetaDataAuxUpdate
<1>2. Keeps(g, [g EXCEPT !.lastAux = TRUE], {}) /\ Keeps(g, [g EXCEPT !.auxDirty = TRUE], {})
  BY FieldsOfFresh DEF Keeps, Sound
<1>3. Sound([g EXCEPT !.lastAux = TRUE]) /\ Sound([g EXCEPT !.auxDirty = TRUE])
  BY <1>2, Quiet
<1> QED BY <1>1, <1>3 DEF EvKQFileMappedMetaAuxWrite

(***************************************************************************)
(* EvKQFileMappedMetaDataUpdateAll submits both kinds of metadata; a close *)
(* asks for it before the files are closed.                                *)
(***************************************************************************)
LEMMA AllUpdated ==
  ASSUME NEW g, Sound(g)
  PROVE  Sound(MetaDataUpdateAll(g)) /\ Sound(EvKQFileMappedClose(g))
<1>1. Keeps(g, [g EXCEPT !.closeReq = TRUE], {})
  BY FieldsOfFresh DEF Keeps, Sound
<1>2. Sound([g EXCEPT !.closeReq = TRUE])
  BY <1>1, Quiet
<1> QED BY <1>2, RawUpdated, AuxUpdated DEF MetaDataUpdateAll, EvKQFileMappedClose

(***************************************************************************)
(* Closing and opening leave the file's bytes alone, unless                *)
(* flags.truncate_file empties it: then they are noted as erased.          *)
(***************************************************************************)
LEMMA OpenedAndClosed ==
  ASSUME NEW g, Sound(g)
  PROVE  Sound(CloseFiles(g)) /\ Sound(EvKQFileMappedOpen(g))
<1>1. Keeps(g, CloseFiles(g), {})
  BY FieldsOfFresh DEF Keeps, CloseFiles, Sound
<1>2. Sound(OpenFiles(g))
  <2> DEFINE e == Emptied(g)
  <2>1. Sound(e)
    <3>1. /\ DOMAIN e = Fields /\ e.cur = g.cur /\ e.saved = None /\ e.lastRaw = g.lastRaw
          /\ e.bits = g.bits /\ e.reqs = g.reqs /\ e.odd = g.odd /\ e.early = g.early
          /\ e.have = {} /\ e.erased = g.erased \cup g.have
      BY FieldsOfFresh DEF Emptied, Sound
    <3> HIDE DEF e
    <3>2. Bytes(e) = Bytes(g)
      BY <3>1 DEF Bytes
    <3>3. ASSUME NEW r \in e.reqs PROVE Aims(e, r)
      <4>1. Aims(g, r)
        BY <3>1, <3>3 DEF Sound
      <4> QED BY <3>1, <3>2, <4>1 DEF Aims
    <3>4. Told(e) \subseteq Told(g)
      BY <3>1, FieldsOfFresh DEF Told
    <3> QED BY <3>1, <3>2, <3>3, <3>4, FieldsOfFresh DEF Sound, Covers
  <2> HIDE DEF e
  <2>2. ASSUME NEW h, Sound(h) PROVE Sound([h EXCEPT !.opened = TRUE])
    <3>1. Keeps(h, [h EXCEPT !.opened = TRUE], {})
      BY <2>2, FieldsOfFresh DEF Keeps, Sound
    <3> QED BY <2>2, <3>1, Quiet
  <2> QED BY <2>1, <2>2 DEF OpenFiles, e
<1>3. Sound(Odd(g, "reopen"))
  BY OddStep
<1> QED BY <1>1, <1>2, <1>3, Quiet DEF EvKQFileMappedOpen

-----------------------------------------------------------------------------
(* Writing: what a call asks for is cut at the pages.                      *)

(***************************************************************************)
(* Division by the size of a page.                                         *)
(***************************************************************************)
LEMMA Divides ==
  ASSUME NEW a \in Int, NEW c \in Nat \ {0}
  PROVE  /\ a \div c \in Int /\ a % c \in 0 .. c - 1
         /\ a = ((a \div c) * c) + (a % c)
         /\ a >= 0 => a % c <= a
OBVIOUS

(***************************************************************************)
(* Multiplication by the size of a page keeps order.                       *)
(***************************************************************************)
LEMMA Scales ==
  ASSUME NEW a \in Int, NEW b \in Int, NEW c \in Nat, a <= b
  PROVE  a * c <= b * c
OBVIOUS

(***************************************************************************)
(* Multiplication spreads over a sum: the pages before, and those of a run. *)
(***************************************************************************)
LEMMA Spreads ==
  ASSUME NEW a \in Int, NEW b \in Int, NEW c \in Nat
  PROVE  (a + b) * c = (a * c) + (b * c)
OBVIOUS

(***************************************************************************)
(* Division undoes it: a whole number of pages starts at a page.           *)
(***************************************************************************)
LEMMA Multiple ==
  ASSUME NEW q \in Int, NEW c \in Nat \ {0}
  PROVE  q * c \in Int /\ (q * c) % c = 0 /\ (q * c) \div c = q
OBVIOUS

(***************************************************************************)
(* RawWrite submits a write, or notes that there is no slot for it.        *)
(***************************************************************************)
LEMMA Written ==
  ASSUME NEW g, NEW sid, NEW off, NEW n, NEW src, Sound(g), Paged(off, n)
  PROVE  Sound(RawWrite(g, sid, off, n, src)) /\ Sound(RawWriteUnlocked(g, sid, off, n, src))
<1> DEFINE r == Request(g, "raw", off, n, src)
           a == [StatePendingAdd(SubmitUnlocked(g, r), sid, r.id) EXCEPT !.rawPending = @ + 1]
           b == [StatePendingAdd(Submit(g, r), sid, r.id) EXCEPT !.rawPending = @ + 1]
<1>1. Aims(g, r) /\ r.snap.bits \subseteq Told(g)
  <2>1. /\ DOMAIN r = RequestFields /\ r.kind = "raw" /\ r.off = off /\ r.n = n /\ r.ret = "none"
        /\ r.snap = None /\ r.snap.bits = {}
    BY RequestMade
  <2> HIDE DEF r
  <2> QED BY <2>1, FieldsOfFresh DEF Aims
<1>2. Sound(SubmitUnlocked(g, r)) /\ Sound(Submit(g, r))
  BY <1>1, Submitted
<1>3. Keeps(SubmitUnlocked(g, r), a, {}) /\ Keeps(Submit(g, r), b, {})
  <2> HIDE DEF r
  <2>1. ASSUME NEW h, Sound(h)
        PROVE  Keeps(h, [StatePendingAdd(h, sid, r.id) EXCEPT !.rawPending = @ + 1], {})
    BY <2>1, FieldsOfFresh DEF Keeps, StatePendingAdd, Sound
  <2> QED BY <1>2, <2>1
<1>4. Sound(a) /\ Sound(b)
  BY <1>2, <1>3, Quiet
<1>5. Sound([g EXCEPT !.bad = TRUE])
  <2>1. Keeps(g, [g EXCEPT !.bad = TRUE], {})
    BY FieldsOfFresh DEF Keeps, Sound
  <2> QED BY <2>1, Quiet
<1> QED BY <1>4, <1>5 DEF RawWrite, RawWriteUnlocked

(***************************************************************************)
(* A write of whole pages begins at a page.                                *)
(***************************************************************************)
LEMMA AlignedWritten ==
  ASSUME NEW g, NEW sid, NEW i \in Int, NEW n \in Nat, NEW src, Sound(g)
  PROVE  Sound(AlignedWrite(g, sid, i, n, src))
<1>1. i * PageSize \in Int /\ (i * PageSize) % PageSize = 0
  BY Multiple, FileAssumption
<1>2. Paged(i * PageSize, n)
  BY <1>1 DEF Paged
<1> QED BY <1>2, Written DEF AlignedWrite

(***************************************************************************)
(* PartialDataProcess writes the bytes it is given, which are less than a  *)
(* page, or the page that they complete.                                   *)
(***************************************************************************)
LEMMA PartialProcessed ==
  ASSUME NEW g, NEW sid, NEW i \in Int, NEW rel \in Nat, NEW n \in Nat, n < PageSize, Sound(g)
  PROVE  Sound(PartialDataProcess(g, sid, i, rel, n))
<1> DEFINE has == PartialGetByIdx(g, i)
           old == IF has = {} THEN [idx |-> i, off |-> rel, size |-> 0] ELSE CHOOSE p \in has : TRUE
           part == PartialGrow(old, rel, n)
           kept == PartialStore(g, old, part)
           h == IF has # {} /\ rel > old.size THEN Odd(kept, "gap") ELSE kept
<1>1. Sound(kept)
  <2> HIDE DEF old, part
  <2>1. Keeps(g, kept, {})
    BY FieldsOfFresh DEF Keeps, PartialStore, Sound
  <2> QED BY <2>1, Quiet
<1>2. Sound(h)
  BY <1>1, OddStep
<1>3. Sound(PartialWrite(h, sid, i, part, rel, n))
  <2> HIDE DEF h, part
  <2>1. i * PageSize \in Int
    BY Multiple, FileAssumption
  <2>2. Paged(i * PageSize + rel, n)
    BY <2>1 DEF Paged
  <2> QED BY <1>2, <2>2, AlignedWritten, Written, FileAssumption DEF PartialWrite
<1> QED BY <1>3 DEF PartialDataProcess

(***************************************************************************)
(* What is called back may close the file, let it go or cancel: none of it *)
(* tells of a page.                                                        *)
(***************************************************************************)
LEMMA CalledBack ==
  ASSUME NEW g, NEW sid, NEW owner, NEW re, Sound(g)
  PROVE  Sound(CancelAllByOwner(g, owner)) /\ Sound(InvokeAndDestroy(g, sid, re))
<1>1. ASSUME NEW a, NEW w, Sound(a) PROVE Sound(CancelAllByOwner(a, w))
  <2>1. Keeps(a, CancelAllByOwner(a, w), {})
    BY <1>1, FieldsOfFresh DEF Keeps, CancelAllByOwner, Sound
  <2> QED BY <1>1, <2>1, Quiet
<1>2. ASSUME NEW a, NEW s, Sound(a) PROVE Sound(React(a, s, re))
  <2> DEFINE other == CHOOSE w \in Owners : w # s.owner
             h == CancelAllByOwner(a, other)
  <2>1. Sound(h) /\ Sound(Odd(h, "cancel"))
    BY <1>1, <1>2, OddStep
  <2>2. Sound(EvKQFileMappedClose(a)) /\ Sound(EvKQFileMappedDestroy(a))
    BY <1>2, AllUpdated, Unlocked
  <2>3. React(a, s, re) \in {EvKQFileMappedClose(a), EvKQFileMappedDestroy(a), h, Odd(h, "cancel"), a}
    BY DEF React
  <2> HIDE DEF h
  <2> QED BY <1>2, <2>1, <2>2, <2>3
<1>3. ASSUME NEW a, NEW s, Sound(a) PROVE Sound(NotifyInvokeAll(a, s))
  <2>1. Keeps(a, NotifyInvokeAll(a, s), {})
    BY <1>3, FieldsOfFresh DEF Keeps, NotifyInvokeAll, Sound
  <2> QED BY <1>3, <2>1, Quiet
<1> DEFINE s == State(g, sid)
           h == AIOStateDestroy(g, sid)
           k == [h EXCEPT !.late = @ \/ s.owner \in g.gone]
<1>4. Sound(h)
  <2>1. Keeps(g, h, {})
    BY FieldsOfFresh DEF Keeps, AIOStateDestroy, Sound
  <2> QED BY <2>1, Quiet
<1>5. Sound(k)
  <2>1. Keeps(h, k, {})
    <3> HIDE DEF h
    <3> QED BY <1>4, FieldsOfFresh DEF Keeps, Sound
  <2> QED BY <1>4, <2>1, Quiet
<1>6. Sound(IF s.cancelled THEN h ELSE React(k, s, re))
  BY <1>2, <1>4, <1>5
<1> QED BY <1>1, <1>3, <1>6 DEF InvokeAndDestroy

(***************************************************************************)
(* A call writes the whole pages, the bytes before them and the bytes      *)
(* after, each from the start of a page or within one.                     *)
(***************************************************************************)
LEMMA PagesWritten ==
  ASSUME NEW g, NEW sid, NEW o \in Int, NEW n \in Nat, Sound(g)
  PROVE  Sound(PagesWrite(g, sid, o, n))
<1> DEFINE rel == o % PageSize
           lower == o \div PageSize
           higher == (o + n) \div PageSize
           trail == IF rel = 0 THEN 0 ELSE IF PageSize - rel > n THEN n ELSE PageSize - rel
           finish == (n - trail) % PageSize
           whole == n - trail - finish
           begin == IF trail > 0 THEN lower + 1 ELSE lower
           a == IF whole = 0 THEN g ELSE AlignedWrite(g, sid, begin, whole, -1)
           t == IF trail = 0 THEN a ELSE PartialDataProcess(a, sid, lower, rel, trail)
           w == IF finish = 0 THEN t ELSE PartialDataProcess(t, sid, higher, 0, finish)
<1>1. rel \in 0 .. PageSize - 1 /\ lower \in Int /\ higher \in Int
  BY Divides, FileAssumption
<1>2. trail \in Nat /\ trail <= n /\ trail < PageSize /\ begin \in Int
  <2> HIDE DEF rel, lower
  <2> QED BY <1>1, FileAssumption
<1>3. finish \in 0 .. PageSize - 1 /\ whole \in Nat
  <2> HIDE DEF trail
  <2> DEFINE m == n - trail
  <2>1. m \in Int /\ m >= 0
    BY <1>2
  <2>2. finish \in 0 .. PageSize - 1 /\ finish <= m
    <3>1. finish = m % PageSize
      OBVIOUS
    <3> HIDE DEF m, finish
    <3> QED BY <2>1, <3>1, Divides, FileAssumption
  <2> HIDE DEF finish
  <2> QED BY <1>2, <2>2
<1> HIDE DEF rel, lower, higher, trail, finish, whole, begin
<1>4. Sound(a)
  BY <1>2, <1>3, AlignedWritten
<1>5. Sound(t)
  <2> HIDE DEF a
  <2> QED BY <1>1, <1>2, <1>4, PartialProcessed
<1>6. Sound(w)
  <2> HIDE DEF t
  <2> QED BY <1>1, <1>3, <1>5, PartialProcessed, FileAssumption
<1> QED BY <1>6 DEF PagesWrite, rel, lower, higher, trail, finish, whole, begin

(***************************************************************************)
(* EvKQFileMappedAIOWrite, which cancels what it has asked for when there  *)
(* is no slot for the rest.                                                *)
(***************************************************************************)
LEMMA AIOWritten ==
  ASSUME NEW g0, NEW o \in Int, NEW n \in Nat, NEW owner, NEW re, Sound(g0)
  PROVE  Sound(EvKQFileMappedAIOWrite(g0, o, n, owner, re))
<1> DEFINE g == AIOStateNew([g0 EXCEPT !.bad = FALSE], owner)
           sid == g0.calls
           w == PagesWrite(g, sid, o, n)
           h == [w EXCEPT !.cur = Greater(@, o + n)]
           z == IF Overlaps(g, o, n) THEN Odd(h, "overlap") ELSE h
<1>1. Sound(g)
  <2>1. Keeps(g0, g, {})
    BY FieldsOfFresh DEF Keeps, AIOStateNew, Sound
  <2> QED BY <2>1, Quiet
<1>2. Sound(w)
  <2> HIDE DEF g, sid
  <2> QED BY <1>1, PagesWritten
<1>3. Sound(h)
  <2> HIDE DEF w
  <2>1. Keeps(w, h, {})
    BY <1>2, FieldsOfFresh DEF Keeps, Greater, Sound
  <2> QED BY <1>2, <2>1, Quiet
<1>4. Sound(z)
  <2> HIDE DEF g, h
  <2> QED BY <1>3, OddStep
<1>5. Sound(AIOStateDestroy(PendingCancelAll(z, sid), sid))
  <2> HIDE DEF z, sid
  <2> DEFINE ids == State(z, sid).wait
             c == [z EXCEPT !.reqs = {IF r.id \in ids THEN [r EXCEPT !.cancelled = TRUE] ELSE r : r \in @}]
             d == [c EXCEPT !.refs = @ - Cardinality(ids)]
             e == PendingCancelAll(z, sid)
  <2>1. Sound(c)
    <3> HIDE DEF ids
    <3>1. /\ DOMAIN c = DOMAIN z
          /\ c.reqs = {IF r.id \in ids THEN [r EXCEPT !.cancelled = TRUE] ELSE r : r \in z.reqs}
          /\ c.bits = z.bits /\ c.saved = z.saved /\ c.lastRaw = z.lastRaw /\ c.early = z.early
          /\ c.have = z.have /\ c.erased = z.erased /\ c.cur = z.cur /\ c.odd = z.odd
      BY <1>4, FieldsOfFresh DEF Sound
    <3> HIDE DEF c
    <3>2. ASSUME NEW q \in c.reqs
          PROVE  Aims(c, q) /\ q.snap.bits \subseteq Told(z)
      <4>1. PICK r \in z.reqs : q = IF r.id \in ids THEN [r EXCEPT !.cancelled = TRUE] ELSE r
        BY <3>1
      <4>2. Aims(z, r)
        BY <1>4 DEF Sound
      <4>3. /\ DOMAIN q = RequestFields /\ q.kind = r.kind /\ q.off = r.off /\ q.n = r.n
            /\ q.ret = r.ret /\ q.snap = r.snap
        BY <4>1, <4>2 DEF Aims, RequestFields
      <4>4. Aims(c, q)
        BY <3>1, <4>2, <4>3 DEF Aims, Bytes
      <4> QED BY <4>3, <4>4 DEF Told
    <3>3. Told(c) \subseteq Told(z)
      <4>1. c.bits \cup c.saved.bits \cup c.lastRaw.bits \subseteq Told(z)
        BY <3>1 DEF Told
      <4> QED BY <3>2, <4>1 DEF Told
    <3> QED BY <1>4, <3>1, <3>2, <3>3 DEF Sound, Covers, Bytes
  <2>2. Sound(d)
    <3> HIDE DEF c
    <3>1. Keeps(c, d, {})
      BY <2>1, FieldsOfFresh DEF Keeps, Sound
    <3> QED BY <2>1, <3>1, Quiet
  <2>3. Sound(e)
    <3>1. Sound(Odd(d, "refused"))
      <4> HIDE DEF d
      <4> QED BY <2>2, OddStep
    <3>2. e = IF ids = {} THEN z ELSE Odd(d, "refused")
      BY Zenon DEF PendingCancelAll
    <3> HIDE DEF d, e
    <3> QED BY <1>4, <3>1, <3>2
  <2>4. Keeps(e, AIOStateDestroy(e, sid), {})
    <3> HIDE DEF e
    <3> QED BY <2>3, FieldsOfFresh DEF Keeps, AIOStateDestroy, Sound
  <2> HIDE DEF e
  <2>5. Sound(AIOStateDestroy(e, sid))
    BY <2>3, <2>4, Quiet
  <2> QED BY <2>5 DEF e
<1>6. Sound(InvokeAndDestroy(z, sid, re))
  <2> HIDE DEF z, sid
  <2> QED BY <1>4, CalledBack
<1> QED BY <1>4, <1>5, <1>6 DEF EvKQFileMappedAIOWrite

(***************************************************************************)
(* EvKQFileMappedAIOAdd writes at the current offset.                      *)
(***************************************************************************)
LEMMA AIOAdded ==
  ASSUME NEW g, NEW n \in Nat, NEW owner, NEW re, Sound(g)
  PROVE  Sound(EvKQFileMappedAIOAdd(g, n, owner, re))
<1> DEFINE h == EvKQFileMappedAIOWrite(g, g.cur, n, owner, re)
           k == [h EXCEPT !.cur = @ + n]
<1>1. Sound(h)
  BY AIOWritten DEF Sound
<1>2. Sound(Odd(k, "skip"))
  <2> HIDE DEF h
  <2>1. Keeps(h, k, {})
    BY <1>1, FieldsOfFresh DEF Keeps, Sound
  <2> QED BY <1>1, <2>1, Quiet, OddStep
<1> QED BY <1>1, <1>2 DEF EvKQFileMappedAIOAdd

(***************************************************************************)
(* A read submits a request that writes no data.                           *)
(***************************************************************************)
LEMMA AIOReadAsked ==
  ASSUME NEW g0, NEW owner, Sound(g0)
  PROVE  Sound(EvKQFileMappedAIORead(g0, owner))
<1> DEFINE g == AIOStateNew(g0, owner)
           r == Request(g, "read", 0, 1, -1)
           h == Submit(g, r)
           k == StatePendingAdd(h, g0.calls, r.id)
<1>1. Sound(g)
  <2>1. Keeps(g0, g, {})
    BY FieldsOfFresh DEF Keeps, AIOStateNew, Sound
  <2> QED BY <2>1, Quiet
<1>2. Sound(h)
  <2> HIDE DEF g
  <2>1. Aims(g, r) /\ r.snap.bits \subseteq Told(g)
    BY RequestMade
  <2> QED BY <1>1, <2>1, Submitted
<1>3. Sound(k)
  <2> HIDE DEF h, r
  <2>1. Keeps(h, k, {})
    BY <1>2, FieldsOfFresh DEF Keeps, StatePendingAdd, Sound
  <2> QED BY <1>2, <2>1, Quiet
<1> QED BY <1>3 DEF EvKQFileMappedAIORead

-----------------------------------------------------------------------------
(* Pages are marked: when a write is done, and the last one before.        *)

(***************************************************************************)
(* Marking pages that are in the file, or that are noted as early, and     *)
(* nothing else.                                                           *)
(***************************************************************************)
LEMMA Marked ==
  ASSUME NEW g, NEW h, NEW pages, Sound(g),
         DOMAIN h = DOMAIN g, h.bits \subseteq g.bits \cup pages, h.saved = g.saved, h.lastRaw = g.lastRaw,
         h.reqs = g.reqs, g.early \subseteq h.early, h.have = g.have, h.erased = g.erased,
         h.cur = g.cur, g.odd \subseteq h.odd,
         "appended" \notin h.odd => \A i \in pages \ h.early : Page(i) \subseteq Bytes(g)
  PROVE  Sound(h)
<1>1. ASSUME NEW r \in h.reqs PROVE Aims(h, r)
  <2>1. Aims(g, r)
    BY <1>1 DEF Sound
  <2> QED BY <2>1 DEF Aims, Bytes
<1>2. Told(h) \subseteq Told(g) \cup pages
  BY DEF Told
<1>3. "appended" \notin h.odd => Covers(h)
  BY <1>2 DEF Covers, Sound, Bytes
<1> QED BY <1>1, <1>3 DEF Sound

(***************************************************************************)
(* EvKQFileMappedCheckLastBlock marks the last page when its write is      *)
(* submitted; the write begins at that page and ends with the file.        *)
(***************************************************************************)
LEMMA LastBlockChecked ==
  ASSUME NEW g, Sound(g)
  PROVE  Sound(EvKQFileMappedCheckLastBlock(g, FileSize))
<1> DEFINE i == FileSize \div PageSize
           last == FileSize % PageSize
           r == Request(g, "unlock", FileSize - last, last, i)
           h == Submit(g, r)
           k == [h EXCEPT !.bits = @ \cup {i}, !.higher = Greater(@, i), !.early = @ \cup {i}]
<1>1. Sound(h)
  <2>1. /\ DOMAIN r = RequestFields /\ r.kind = "unlock" /\ r.off = FileSize - last /\ r.n = last
        /\ r.ret = "none" /\ r.snap = None /\ r.snap.bits = {}
    BY RequestMade
  <2>2. Aims(g, r)
    <3> HIDE DEF r
    <3> QED BY <2>1, FieldsOfFresh DEF Aims, LastPage
  <2> HIDE DEF r
  <2> QED BY <2>1, <2>2, Submitted
<1>2. Sound(k)
  <2> HIDE DEF h, i
  <2>1. /\ DOMAIN k = DOMAIN h /\ k.bits = h.bits \cup {i} /\ k.saved = h.saved /\ k.lastRaw = h.lastRaw
        /\ k.reqs = h.reqs /\ k.early = h.early \cup {i} /\ k.have = h.have
        /\ k.erased = h.erased /\ k.cur = h.cur /\ k.odd = h.odd
    BY <1>1, FieldsOfFresh DEF Sound
  <2> HIDE DEF k
  <2> QED BY <1>1, <2>1, Marked
<1> HIDE DEF k
<1>3. EvKQFileMappedCheckLastBlock(g, FileSize) \in {g, k}
  BY DEF EvKQFileMappedCheckLastBlock, k
<1> QED BY <1>2, <1>3

(***************************************************************************)
(* EvKQFileMappedCompleted marks a last page that is written behind the    *)
(* end of the file, and that use is noted.                                 *)
(***************************************************************************)
LEMMA CompletedSound ==
  ASSUME NEW g, Sound(g)
  PROVE  Sound(EvKQFileMappedCompleted(g))
<1> DEFINE last == CHOOSE p \in g.parts : TRUE
           r == Request(g, "unlock", g.cur, last.size, last.idx)
           h == Odd(Submit(g, r), "appended")
           k == [h EXCEPT !.bits = @ \cup {last.idx}, !.complete = TRUE]
           b == [g EXCEPT !.wants = TRUE]
           c == [g EXCEPT !.complete = TRUE]
<1>1. Sound(b) /\ Sound(MetaDataUpdateAll(c))
  <2>1. Keeps(g, b, {}) /\ Keeps(g, c, {})
    BY FieldsOfFresh DEF Keeps, Sound
  <2> HIDE DEF b, c
  <2> QED BY <2>1, Quiet, AllUpdated
<1>2. Sound(MetaDataUpdateAll(k))
  <2>1. /\ DOMAIN r = RequestFields /\ r.kind = "unlock" /\ r.ret = "none" /\ r.snap = None
        /\ r.snap.bits = {}
    BY RequestMade
  <2> HIDE DEF r
  <2>2. /\ DOMAIN k = DOMAIN g /\ k.bits = g.bits \cup {last.idx} /\ k.saved = g.saved
        /\ k.lastRaw = g.lastRaw /\ k.reqs = g.reqs \cup {r} /\ k.have = g.have
        /\ k.erased = g.erased /\ k.cur = g.cur /\ k.odd = g.odd \cup {"appended"}
    BY FieldsOfFresh DEF Sound, Odd, Submit, EvKQFileMappedLock
  <2> HIDE DEF k
  <2>3. ASSUME NEW q \in k.reqs PROVE Aims(k, q)
    <3>1. CASE q \in g.reqs
      <4>1. Aims(g, q)
        BY <3>1 DEF Sound
      <4> QED BY <2>2, <4>1 DEF Aims, Bytes
    <3>2. CASE q = r
      BY <2>1, <2>2, <3>2, FieldsOfFresh DEF Aims
    <3> QED BY <2>2, <3>1, <3>2
  <2>4. Sound(k)
    BY <2>2, <2>3 DEF Sound
  <2> QED BY <2>4, AllUpdated
<1> HIDE DEF b, c, k
<1>3. EvKQFileMappedCompleted(g) \in {g, b, MetaDataUpdateAll(c), MetaDataUpdateAll(k)}
  BY DEF EvKQFileMappedCompleted, b, c, k
<1> QED BY <1>1, <1>2, <1>3

(***************************************************************************)
(* MarkWritten marks the pages that a finished write filled: each begins   *)
(* and ends in it.                                                         *)
(***************************************************************************)
LEMMA WrittenMarked ==
  ASSUME NEW g, NEW r \in g.reqs, r.kind = "raw", r.ret = "ok", Sound(g)
  PROVE  Sound(MarkWritten(g, r))
<1> DEFINE pages == {i \in r.off \div PageSize .. (r.off + r.n) \div PageSize - 1 :
                       i < r.off \div PageSize + r.n \div PageSize}
           h == MarkWritten(g, r)
<1>1. Paged(r.off, r.n) /\ r.off .. r.off + r.n - 1 \subseteq Bytes(g)
  BY DEF Sound, Aims
<1>2. ASSUME NEW i \in pages PROVE Page(i) \subseteq Bytes(g)
  <2> DEFINE off == r.off
             n == r.n
             q == off \div PageSize
             m == n \div PageSize
  <2> HIDE DEF off, n
  <2>1. off \in Int /\ n \in Nat /\ (off % PageSize = 0 \/ n < PageSize)
    BY <1>1 DEF Paged, off, n
  <2>2. q \in Int /\ m \in Int /\ off = (q * PageSize) + (off % PageSize) /\ n = (m * PageSize) + (n % PageSize)
        /\ off % PageSize \in 0 .. PageSize - 1 /\ n % PageSize \in 0 .. PageSize - 1
    <3>1. n \in Int
      BY <2>1
    <3> QED BY <2>1, <3>1, Divides, FileAssumption, Zenon
  <2>3. i \in Int /\ q <= i /\ i < q + m
    BY <1>2, <2>1, <2>2 DEF off, n
  <2> HIDE DEF q, m
  <2>4. off % PageSize = 0
    <3>1. m >= 1
      BY <2>2, <2>3
    <3>2. 1 * PageSize <= m * PageSize
      BY <2>2, <3>1, Scales, FileAssumption
    <3>3. 1 * PageSize = PageSize /\ m * PageSize \in Int
      BY <2>2, Multiple, FileAssumption
    <3>4. n >= PageSize
      <4> DEFINE x == m * PageSize
      <4>1. x \in Int /\ PageSize <= x /\ n = x + (n % PageSize)
        BY <2>2, <3>2, <3>3
      <4> HIDE DEF x
      <4> QED BY <2>2, <4>1, FileAssumption
    <3> QED BY <2>1, <3>4, FileAssumption
  <2>5. q * PageSize <= i * PageSize /\ (i + 1) * PageSize <= (q + m) * PageSize
    BY <2>2, <2>3, Scales, FileAssumption
  <2>6. (q + m) * PageSize = (q * PageSize) + (m * PageSize)
    BY <2>2, Spreads, FileAssumption
  <2>7. i * PageSize \in Int /\ (i + 1) * PageSize \in Int /\ q * PageSize \in Int /\ m * PageSize \in Int
    BY <2>2, <2>3, Multiple, FileAssumption
  <2>8. i * PageSize .. (i + 1) * PageSize - 1 \subseteq off .. off + n - 1
    BY <2>1, <2>2, <2>4, <2>5, <2>6, <2>7, FileAssumption
  <2> QED BY <1>1, <1>2, <2>8 DEF Page, off, n
<1>3. /\ DOMAIN h = DOMAIN g /\ h.bits = g.bits \cup pages /\ h.saved = g.saved /\ h.lastRaw = g.lastRaw
      /\ h.reqs = g.reqs /\ h.early = g.early /\ h.have = g.have /\ h.erased = g.erased
      /\ h.cur = g.cur /\ h.odd = g.odd
  BY FieldsOfFresh DEF Sound, MarkWritten, PartialDrop
<1> HIDE DEF h, pages
<1>4. Sound(h)
  BY <1>2, <1>3, Marked
<1> QED BY <1>4 DEF h

-----------------------------------------------------------------------------
(* A request is done.                                                      *)

(***************************************************************************)
(* A state that waits for no more requests is called back and destroyed.   *)
(***************************************************************************)
LEMMA FinishChecked ==
  ASSUME NEW g, NEW r, NEW re, Sound(g)
  PROVE  Sound(CheckFinish(g, r, re))
<1> DEFINE s == CHOOSE t \in g.states : r.id \in t.wait
           h == [g EXCEPT !.states = {IF t = s THEN [t EXCEPT !.wait = @ \ {r.id}] ELSE t : t \in @},
                          !.loading = @ /\ s.wait # {r.id}]
<1>1. Sound(h)
  <2> HIDE DEF s
  <2>1. Keeps(g, h, {})
    BY FieldsOfFresh DEF Keeps, Sound
  <2> QED BY <2>1, Quiet
<1>2. Sound(InvokeAndDestroy(h, s.sid, re))
  <2> HIDE DEF h, s
  <2> QED BY <1>1, CalledBack
<1> QED BY <1>1, <1>2 DEF CheckFinish

(***************************************************************************)
(* When a metadata write is done the snapshot that waited is written.      *)
(***************************************************************************)
LEMMA MetaFinished ==
  ASSUME NEW g, NEW r, Sound(g)
  PROVE  Sound(AIOWriteMetaRawDataFinishCB(g, r)) /\ Sound(AIOWriteMetaAuxDataFinishCB(g, r))
<1> DEFINE meta == [g EXCEPT !.rawWriting = FALSE]
           aux == [g EXCEPT !.auxWriting = FALSE]
           told == [g EXCEPT !.lastRaw = None]
           done == [g EXCEPT !.lastAux = FALSE]
           next == [Request(g, "meta", 0, 1, -1) EXCEPT !.snap = g.lastRaw]
           more == Request(g, "aux", 0, 1, -1)
<1>1. Sound(meta) /\ Sound(aux) /\ Sound(told) /\ Sound(done)
  <2>1. Keeps(g, meta, {}) /\ Keeps(g, aux, {}) /\ Keeps(g, told, {}) /\ Keeps(g, done, {})
    BY FieldsOfFresh DEF Keeps, Sound
  <2> HIDE DEF meta, aux, told, done
  <2> QED BY <2>1, Quiet
<1>2. Sound(CloseFiles(meta)) /\ Sound(CloseFiles(aux))
  <2> HIDE DEF meta, aux
  <2> QED BY <1>1, OpenedAndClosed
<1>3. Sound(SubmitUnlocked(told, next))
  <2>1. g.lastRaw.cur \in Int
    BY DEF Sound
  <2>2. Aims(g, next) /\ next.snap = g.lastRaw
    BY <2>1, SnapshotAims
  <2> HIDE DEF next
  <2>3. Keeps(g, SubmitUnlocked(told, next), {next})
    BY FieldsOfFresh DEF Keeps, SubmitUnlocked, Sound
  <2>4. next.snap.bits \subseteq Told(g)
    BY <2>2 DEF Told
  <2> QED BY <2>2, <2>3, <2>4, Kept
<1>4. Sound(SubmitUnlocked(done, more))
  <2>1. Aims(done, more) /\ more.snap.bits \subseteq Told(done)
    <3> HIDE DEF done
    <3>1. more.snap.bits = {} /\ more.kind = "aux"
      BY RequestMade
    <3>2. Aims(g, more)
      BY RequestMade
    <3> HIDE DEF more
    <3> QED BY <3>1, <3>2 DEF Aims
  <2> HIDE DEF done, more
  <2> QED BY <1>1, <2>1, Submitted
<1>5. Sound(Odd(told, "refused")) /\ Sound(Odd(done, "refused"))
  <2> HIDE DEF told, done
  <2> QED BY <1>1, OddStep
<1>6. Sound(AIOWriteMetaRawDataFinishCB(g, r))
  <2> DEFINE idle == IF g.closeReq THEN CloseFiles(meta) ELSE meta
  <2> HIDE DEF meta, aux, told, done, next, more
  <2>1. Sound(EvKQFileMappedUnlock(idle))
    BY <1>1, <1>2, Unlocked
  <2> HIDE DEF idle
  <2>2. AIOWriteMetaRawDataFinishCB(g, r)
           \in {EvKQFileMappedUnlock(idle), Odd(told, "refused"), SubmitUnlocked(told, next)}
    BY DEF AIOWriteMetaRawDataFinishCB, FinishMeta, idle, meta, told, next
  <2> QED BY <1>3, <1>5, <2>1, <2>2
<1>7. Sound(AIOWriteMetaAuxDataFinishCB(g, r))
  <2> DEFINE idle == IF g.closeReq THEN CloseFiles(aux) ELSE aux
  <2> HIDE DEF meta, aux, told, done, next, more
  <2>1. Sound(EvKQFileMappedUnlock(idle))
    BY <1>1, <1>2, Unlocked
  <2> HIDE DEF idle
  <2>2. AIOWriteMetaAuxDataFinishCB(g, r)
           \in {EvKQFileMappedUnlock(idle), Odd(done, "refused"), SubmitUnlocked(done, more)}
    BY DEF AIOWriteMetaAuxDataFinishCB, idle, aux, done, more
  <2> QED BY <1>4, <1>5, <2>1, <2>2
<1> QED BY <1>6, <1>7

(***************************************************************************)
(* When a write of data is done its pages are marked and the bitmap is     *)
(* written; a write that failed marks nothing.                             *)
(***************************************************************************)
LEMMA RawFinished ==
  ASSUME NEW g0, NEW r \in g0.reqs, NEW re, r.kind = "raw", r.ret # "none", Sound(g0)
  PROVE  Sound(AIOWriteRawDataFinishCB(g0, r, re))
<1> DEFINE g == [g0 EXCEPT !.rawPending = @ - 1]
           m == MarkWritten(g, r)
           h == CheckFinish(m, r, re)
           d == EvKQFileMappedCompleted(h)
           c == [d EXCEPT !.wants = FALSE]
           bad == CheckFinish(Odd(g, "failed"), r, re)
<1>1. Sound(g) /\ g.reqs = g0.reqs
  <2>1. Keeps(g0, g, {}) /\ g.reqs = g0.reqs
    BY FieldsOfFresh DEF Keeps, Sound
  <2> QED BY <2>1, Quiet
<1>2. r.ret = "ok" \/ r.ret = "fail"
  BY DEF Sound, Aims
<1>3. Sound(bad)
  <2> HIDE DEF g
  <2> QED BY <1>1, OddStep, FinishChecked
<1>4. ASSUME r.ret = "ok" PROVE Sound(h)
  <2> HIDE DEF g
  <2>1. Sound(m)
    BY <1>1, <1>4, WrittenMarked
  <2> HIDE DEF m
  <2> QED BY <2>1, FinishChecked
<1> HIDE DEF h
<1>5. ASSUME r.ret = "ok" PROVE Sound(MetaDataUpdateAll(h)) /\ Sound(c) /\ Sound(Odd(c, "forgotten"))
  <2>1. Sound(d)
    BY <1>4, <1>5, CompletedSound
  <2>2. Sound(c)
    <3> HIDE DEF d
    <3>1. Keeps(d, c, {})
      BY <2>1, FieldsOfFresh DEF Keeps, Sound
    <3> QED BY <2>1, <3>1, Quiet
  <2> HIDE DEF c
  <2> QED BY <1>4, <1>5, <2>2, AllUpdated, OddStep
<1>6. AIOWriteRawDataFinishCB(g0, r, re)
        \in IF r.ret = "fail" THEN {EvKQFileMappedUnlock(bad)}
            ELSE {EvKQFileMappedUnlock(x) : x \in {h, MetaDataUpdateAll(h), c, Odd(c, "forgotten")}}
  BY DEF AIOWriteRawDataFinishCB, h
<1> HIDE DEF c, bad
<1> QED BY <1>2, <1>3, <1>4, <1>5, <1>6, Unlocked

(***************************************************************************)
(* What is read back from the metadata file was told of by it.             *)
(***************************************************************************)
LEMMA LoadFinished ==
  ASSUME NEW g, NEW r, NEW re, Sound(g)
  PROVE  /\ Sound(AIOReadMetaDataFinishCB(g, r, re))
         /\ Sound(AIOReadMetaAuxDataFinishCB(g, r, re))
<1> DEFINE loaded == [g EXCEPT !.bits = g.saved.bits, !.higher = g.saved.higher, !.cur = g.saved.cur,
                               !.complete = g.saved.complete]
<1>1. Sound(loaded)
  <2>1. /\ DOMAIN loaded = DOMAIN g /\ loaded.bits = g.saved.bits /\ loaded.saved = g.saved
        /\ loaded.lastRaw = g.lastRaw /\ loaded.reqs = g.reqs /\ loaded.early = g.early
        /\ loaded.have = g.have /\ loaded.erased = g.erased /\ loaded.cur = g.saved.cur /\ loaded.odd = g.odd
    BY FieldsOfFresh DEF Sound
  <2> HIDE DEF loaded
  <2>2. \A q \in loaded.reqs : Aims(loaded, q)
    BY <2>1 DEF Sound, Aims, Bytes
  <2>3. Told(loaded) \subseteq Told(g)
    BY <2>1 DEF Told
  <2> QED BY <2>1, <2>2, <2>3 DEF Sound, Covers, Bytes
<1>2. Sound(CheckFinish(IF r.ret = "fail" THEN Odd(g, "unloaded") ELSE loaded, r, re))
  <2> HIDE DEF loaded
  <2> QED BY <1>1, OddStep, FinishChecked
<1>3. Sound(EvKQFileMappedUnlock(CheckFinish(IF r.ret = "fail" THEN Odd(g, "unloaded") ELSE loaded, r, re)))
  BY <1>2, Unlocked
<1>4. Sound(AIOReadMetaAuxDataFinishCB(g, r, re))
  BY FinishChecked, Unlocked DEF AIOReadMetaAuxDataFinishCB
<1> QED BY <1>3, <1>4 DEF AIOReadMetaDataFinishCB

(***************************************************************************)
(* The end of a read, or of a write without a state, tells of no page.     *)
(***************************************************************************)
LEMMA OthersFinished ==
  ASSUME NEW g, NEW r, NEW re, Sound(g)
  PROVE  Sound(AIOReadRawDataFinishCB(g, r, re)) /\ Sound(AIOGenericUnlockCB(g, r))
<1>1. ASSUME NEW a, NEW h, Sound(h) PROVE Sound(ClosesNothing(a, h))
  BY <1>1, OddStep DEF ClosesNothing
<1>2. Sound(EvKQFileMappedUnlock(g)) /\ Sound(EvKQFileMappedUnlock(CheckFinish(g, r, re)))
  BY FinishChecked, Unlocked
<1> QED BY <1>1, <1>2 DEF AIOReadRawDataFinishCB, AIOGenericUnlockCB

-----------------------------------------------------------------------------
(* Workers, death, and the whole.                                          *)

(***************************************************************************)
(* A worker executes a request: its bytes are then in the file, its        *)
(* snapshot in the metadata file, and the last page is no longer early.    *)
(***************************************************************************)
LEMMA Executed ==
  ASSUME NEW r \in f.reqs, NEW ret \in {"ok", "fail"}, Sound(f), Execute(r, ret)
  PROVE  Sound(f')
<1> DEFINE done == [r EXCEPT !.ret = ret]
           bytes == IF r.kind \in {"raw", "unlock"} /\ ret = "ok" THEN r.off .. r.off + r.n - 1 ELSE {}
           g == f'
<1>1. /\ DOMAIN g = Fields
      /\ g.reqs = (f.reqs \ {r}) \cup {done} /\ g.have = f.have \cup bytes
      /\ g.erased = f.erased \ bytes
      /\ g.saved = (IF r.kind = "meta" /\ ret = "ok" THEN r.snap ELSE f.saved)
      /\ g.early = (IF r.kind = "unlock" /\ ret = "ok" THEN f.early \ {r.off \div PageSize} ELSE f.early)
      /\ g.bits = f.bits /\ g.lastRaw = f.lastRaw /\ g.cur = f.cur
      /\ f.odd \subseteq g.odd
  BY FieldsOfFresh DEF Sound, Execute
<1>2. Aims(f, r)
  BY DEF Sound
<1>3. /\ DOMAIN done = RequestFields /\ done.kind = r.kind /\ done.off = r.off /\ done.n = r.n
      /\ done.snap = r.snap /\ done.ret = ret
  BY <1>2 DEF Aims, RequestFields
<1> HIDE DEF done, g
<1>8. Bytes(g) = Bytes(f) \cup bytes
  BY <1>1 DEF Bytes
<1>4. ASSUME NEW q \in g.reqs PROVE Aims(g, q)
  <2>1. CASE q \in f.reqs
    <3>1. Aims(f, q)
      BY <2>1 DEF Sound
    <3> QED BY <1>1, <1>8, <3>1 DEF Aims
  <2>2. CASE q = done
    BY <1>1, <1>2, <1>3, <1>8, <2>2 DEF Aims
  <2> QED BY <1>1, <1>4, <2>1, <2>2
<1>5. Told(g) \subseteq Told(f)
  <2>1. \A q \in g.reqs : q.snap.bits \subseteq Told(f)
    BY <1>1, <1>3 DEF Told
  <2>2. g.saved.bits \subseteq Told(f)
    BY <1>1 DEF Told
  <2>3. g.bits \cup g.lastRaw.bits \subseteq Told(f)
    BY <1>1 DEF Told
  <2> QED BY <2>1, <2>2, <2>3 DEF Told
<1>6. ASSUME "appended" \notin g.odd PROVE Covers(g)
  <2>1. Covers(f)
    BY <1>1, <1>6 DEF Sound
  <2>2. CASE r.kind = "unlock" /\ ret = "ok"
    <3> DEFINE i == FileSize \div PageSize
               last == FileSize % PageSize
    <3>1. LastPage(r.off, r.n)
      BY <1>1, <1>2, <1>6, <2>2 DEF Aims
    <3>2. i \in Int /\ last \in 0 .. PageSize - 1 /\ FileSize = (i * PageSize) + last
      BY Divides, FileAssumption
    <3>3. r.off = i * PageSize /\ r.off + r.n - 1 = FileSize - 1 /\ i * PageSize \in Int
      <4> DEFINE x == i * PageSize
      <4>1. x \in Int
        BY <3>2, Multiple, FileAssumption
      <4>2. FileSize = x + last /\ r.off = FileSize - last /\ r.n = last
        BY <3>1, <3>2 DEF LastPage
      <4> HIDE DEF x, i, last
      <4> QED BY <3>2, <4>1, <4>2 DEF x
    <3>4. r.off \div PageSize = i
      BY <3>2, <3>3, Multiple, FileAssumption
    <3> HIDE DEF i, last
    <3>5. bytes = i * PageSize .. FileSize - 1
      BY <2>2, <3>3
    <3>6. Page(i) \subseteq bytes
      <4> DEFINE x == i * PageSize
                 y == (i + 1) * PageSize
      <4>1. x \in Int /\ y \in Int
        BY <3>2, Multiple, FileAssumption
      <4>2. Page(i) = {p \in x .. y - 1 : p < FileSize} /\ bytes = x .. FileSize - 1
        BY <3>5 DEF Page
      <4> HIDE DEF x, y, bytes
      <4> QED BY <4>1, <4>2, FileAssumption
    <3> QED BY <1>1, <1>5, <1>8, <2>1, <2>2, <3>4, <3>6 DEF Covers
  <2>3. CASE ~(r.kind = "unlock" /\ ret = "ok")
    BY <1>1, <1>5, <1>8, <2>1, <2>3 DEF Covers
  <2> QED BY <2>2, <2>3
<1>7. g.cur \in Int /\ g.saved.cur \in Int /\ g.lastRaw.cur \in Int
  BY <1>1, <1>2 DEF Sound, Aims
<1> QED BY <1>1, <1>4, <1>6, <1>7 DEF Sound, g

(***************************************************************************)
(* The loop finishes a request, which leaves its slot.                     *)
(***************************************************************************)
LEMMA Finished ==
  ASSUME NEW r \in f.reqs, NEW re, Sound(f), Finish(r, re)
  PROVE  Sound(f')
<1> DEFINE cb == CASE r.kind = "raw" -> AIOWriteRawDataFinishCB(f, r, re)
                   [] r.kind = "read" -> AIOReadRawDataFinishCB(f, r, re)
                   [] r.kind = "meta" -> AIOWriteMetaRawDataFinishCB(f, r)
                   [] r.kind = "aux" -> AIOWriteMetaAuxDataFinishCB(f, r)
                   [] r.kind = "load" -> AIOReadMetaDataFinishCB(f, r, re)
                   [] r.kind = "loadaux" -> AIOReadMetaAuxDataFinishCB(f, r, re)
                   [] OTHER -> AIOGenericUnlockCB(f, r)
           g == IF r.cancelled THEN f ELSE cb
<1>1. r.ret # "none" /\ f' = [g EXCEPT !.reqs = @ \ {r}]
  BY DEF Finish
<1>2. Sound(cb)
  <2>1. r.kind = "raw" => Sound(AIOWriteRawDataFinishCB(f, r, re))
    BY <1>1, RawFinished
  <2>2. Sound(AIOReadRawDataFinishCB(f, r, re)) /\ Sound(AIOGenericUnlockCB(f, r))
    BY OthersFinished
  <2>3. Sound(AIOWriteMetaRawDataFinishCB(f, r)) /\ Sound(AIOWriteMetaAuxDataFinishCB(f, r))
    BY MetaFinished
  <2>4. Sound(AIOReadMetaDataFinishCB(f, r, re)) /\ Sound(AIOReadMetaAuxDataFinishCB(f, r, re))
    BY LoadFinished
  <2> QED BY <2>1, <2>2, <2>3, <2>4
<1> HIDE DEF cb
<1>3. Sound(g)
  BY <1>2
<1> HIDE DEF g
<1>4. Keeps(g, f', {})
  BY <1>1, <1>3, FieldsOfFresh DEF Keeps, Sound
<1> QED BY <1>3, <1>4, Quiet

(***************************************************************************)
(* The process dies and the file is loaded: what is left is on the disk.   *)
(***************************************************************************)
LEMMA Loaded ==
  ASSUME NEW g, NEW owner, Sound(g)
  PROVE  Sound(EvKQFileMappedAIOLoad(g, owner))
<1> DEFINE a == [Fresh EXCEPT !.have = g.have, !.saved = g.saved, !.early = g.early,
                              !.erased = g.erased, !.calls = g.calls, !.odd = g.odd]
           n == AIOStateNew(a, owner)
           load == Request(a, "load", 0, 1, -1)
           b == Submit(n, load)
           d == StatePendingAdd(b, g.calls, load.id)
           loadaux == Request(d, "loadaux", 0, 1, -1)
           c == Submit(d, loadaux)
           l == [StatePendingAdd(c, g.calls, loadaux.id) EXCEPT !.loading = TRUE]
<1>1. Sound(a)
  <2>1. /\ DOMAIN a = Fields /\ a.bits = {} /\ a.lastRaw = None /\ a.reqs = {} /\ a.cur = 0
        /\ a.saved = g.saved /\ a.have = g.have /\ a.erased = g.erased /\ a.early = g.early
        /\ a.odd = g.odd
    BY DEF Fields, Fresh
  <2> HIDE DEF a
  <2>2. Told(a) \subseteq Told(g)
    BY <2>1, FieldsOfFresh DEF Told
  <2> QED BY <2>1, <2>2, FieldsOfFresh DEF Sound, Covers, Bytes
<1>2. Sound(n)
  <2> HIDE DEF a
  <2>1. Keeps(a, n, {})
    BY <1>1, FieldsOfFresh DEF Keeps, AIOStateNew, Sound
  <2> QED BY <1>1, <2>1, Quiet
<1>3. ASSUME NEW u, NEW v, NEW kind \in {"load", "loadaux"}, Sound(u)
      PROVE  Sound(Submit(u, Request(v, kind, 0, 1, -1)))
  <2> DEFINE r == Request(v, kind, 0, 1, -1)
  <2>1. Aims(v, r) /\ r.kind = kind /\ r.snap.bits = {}
    BY RequestMade
  <2> HIDE DEF r
  <2>2. Aims(u, r) /\ r.snap.bits \subseteq Told(u)
    BY <2>1 DEF Aims
  <2>3. Sound(Submit(u, r))
    BY <1>3, <2>2, Submitted
  <2> QED BY <2>3 DEF r
<1>4. Sound(b)
  <2> HIDE DEF a, n
  <2> QED BY <1>2, <1>3
<1>5. Sound(d)
  <2> HIDE DEF b, load
  <2>1. Keeps(b, d, {})
    BY <1>4, FieldsOfFresh DEF Keeps, StatePendingAdd, Sound
  <2> QED BY <1>4, <2>1, Quiet
<1>6. Sound(c)
  <2> HIDE DEF d
  <2> QED BY <1>3, <1>5
<1>7. Sound(l)
  <2> HIDE DEF c, loadaux
  <2>1. Keeps(c, l, {})
    BY <1>6, FieldsOfFresh DEF Keeps, StatePendingAdd, Sound
  <2> QED BY <1>6, <2>1, Quiet
<1> QED BY <1>7 DEF EvKQFileMappedAIOLoad

(***************************************************************************)
(* A program's note about when a state is finished.                        *)
(***************************************************************************)
LEMMA NotifyAdded ==
  ASSUME NEW g, NEW sid, NEW owner, Sound(g)
  PROVE  Sound(NotifyFinishAdd(g, sid, owner))
<1>1. Keeps(g, NotifyFinishAdd(g, sid, owner), {})
  BY FieldsOfFresh DEF Keeps, NotifyFinishAdd, Sound
<1> QED BY <1>1, Quiet

(***************************************************************************)
(* The file begun is sound.                                                *)
(***************************************************************************)
LEMMA SoundInitially == Init => Sound(f)
<1> SUFFICES ASSUME NEW conf \in BOOLEAN, f = EvKQFileMappedInit(conf) PROVE Sound(f)
  BY DEF Init
<1>1. /\ DOMAIN f = Fields /\ f.cur = 0 /\ f.saved = None /\ f.lastRaw = None /\ f.reqs = {}
      /\ f.bits = {}
  BY DEF EvKQFileMappedInit, Fields, Fresh
<1> QED BY <1>1, FieldsOfFresh DEF Sound, Told, Covers

(***************************************************************************)
(* Every step of Next keeps the file sound.                                *)
(***************************************************************************)
LEMMA SoundKept ==
  ASSUME Sound(f), [Next]_f
  PROVE  Sound(f')
<1>1. ASSUME NEW g, Sound(g), Do(g) PROVE Sound(f')
  <2>1. Keeps(g, f', {})
    BY <1>1, FieldsOfFresh DEF Keeps, Do, Sound
  <2> QED BY <1>1, <2>1, Quiet
<1>2. CASE AIOWrite
  <2>0. PICK o \in 0 .. FileSize - 1 : \E n \in 1 .. FileSize - o, owner \in Working :
          Do(EvKQFileMappedAIOWrite(f, o, n, owner, "none"))
    BY <1>2 DEF AIOWrite
  <2>1. PICK n \in 1 .. FileSize - o, owner \in Working : Do(EvKQFileMappedAIOWrite(f, o, n, owner, "none"))
    BY <2>0
  <2>2. o \in Int /\ n \in Nat
    BY <2>1, FileAssumption
  <2>3. Sound(EvKQFileMappedAIOWrite(f, o, n, owner, "none"))
    BY <2>2, AIOWritten
  <2> QED BY <1>1, <2>1, <2>3
<1>3. CASE AIOAdd
  <2>1. PICK n \in 1 .. FileSize - f.cur, owner \in Working :
          Do(EvKQFileMappedAIOAdd(f, n, owner, "none"))
    BY <1>3 DEF AIOAdd
  <2>2. n \in Nat
    BY <2>1 DEF Sound
  <2>3. Sound(EvKQFileMappedAIOAdd(f, n, owner, "none"))
    BY <2>2, AIOAdded
  <2> QED BY <1>1, <2>1, <2>3
<1>4. CASE AIORead
  BY <1>1, <1>4, AIOReadAsked DEF AIORead
<1>5. CASE Notify
  BY <1>1, <1>5, NotifyAdded DEF Notify
<1>6. CASE Cancel
  BY <1>1, <1>6, CalledBack DEF Cancel
<1>7. CASE CheckLastBlock
  BY <1>1, <1>7, LastBlockChecked DEF CheckLastBlock
<1>8. CASE Completed
  BY <1>1, <1>8, CompletedSound DEF Completed
<1>9. CASE MetaAuxWrite
  BY <1>1, <1>9, AuxUpdated DEF MetaAuxWrite
<1>10. CASE Close
  BY <1>1, <1>10, AllUpdated DEF Close
<1>11. CASE Open
  BY <1>1, <1>11, OpenedAndClosed DEF Open
<1>12. CASE Destroy
  BY <1>1, <1>12, Unlocked DEF Destroy
<1>13. CASE Crash
  BY <1>1, <1>13, Loaded DEF Crash
<1>14. CASE \E r \in f.reqs, ret \in {"ok", "fail"} : Execute(r, ret)
  BY <1>14, Executed
<1>15. CASE \E r \in f.reqs, re \in Reactions : Finish(r, re)
  BY <1>15, Finished
<1>16. CASE UNCHANGED f
  BY <1>16
<1> QED
  BY <1>2, <1>3, <1>4, <1>5, <1>6, <1>7, <1>8, <1>9, <1>10, <1>11, <1>12, <1>13, <1>14, <1>15, <1>16
  DEF Next

(***************************************************************************)
(* The bitmap may be trusted after a crash: whenever the process dies, in  *)
(* whatever order the workers executed the requests and the loop collected *)
(* them (ev_kq_file_mapped.c:2609-2758), a page that is marked, in memory  *)
(* or in the metadata file, is in the data file with all its bytes, but    *)
(* for a last page whose write is under way; for pages and files of any    *)
(* size and any number of owners, requests and calls, and whether or not   *)
(* the file is configured with truncate_file.  Such a file, when it is     *)
(* closed and opened again, loses its data and keeps its bitmap            *)
(* (1656-1720): the theorem then excepts exactly the bytes erased and not  *)
(* written since.                                                          *)
(***************************************************************************)
THEOREM MarkedPagesAreOnDisk == Spec => []DiskTellsTruth
<1>1. Init => Sound(f)
  BY SoundInitially
<1>2. Sound(f) /\ [Next]_f => Sound(f)'
  <2> SUFFICES ASSUME Sound(f), [Next]_f PROVE Sound(f')
    BY DEF Sound, Covers, Told, Aims, Bytes, Paged, LastPage, Page
  <2> QED BY SoundKept
<1>3. Sound(f) => DiskTellsTruth
  BY DEF Sound, Covers, Bytes, Told, DiskTellsTruth
<1> QED BY <1>1, <1>2, <1>3, PTL DEF Spec

-----------------------------------------------------------------------------
(* The file lives as long as it is referred to: what is said of a file.    *)

StateFields == {"sid", "owner", "wait", "cancelled", "notes"}
Awaited == {"raw", "read", "load", "loadaux"}
PagesOf(off, n) == {p \div PageSize : p \in off .. off + n - 1}

\* A slot holds one request; none of them is cancelled.
Slots(g) ==
    /\ IsFiniteSet(g.reqs)
    /\ \A r \in g.reqs : DOMAIN r = RequestFields /\ r.id \in 0 .. MaxReq - 1 /\ ~r.cancelled
    /\ \A r, q \in g.reqs : r.id = q.id => r = q
\* The program and each request refer to the file; d requests that are done no longer do.
Counts(g, d) ==
    /\ g.owner \in BOOLEAN /\ g.freed = FALSE /\ g.refs \in Nat
    /\ g.refs = Cardinality(g.reqs) - d - (IF g.owner THEN 0 ELSE 1)
\* Each request of a call has a state that waits for it, but for those in X; N: the
\* number of the call that is being made.
Waits(g, X, N) ==
    /\ g.calls \in Nat /\ X \subseteq g.reqs /\ N \subseteq {g.calls}
    /\ \A s \in g.states : DOMAIN s = StateFields /\ s.sid \in (0 .. g.calls - 1) \cup N
    /\ \A s, t \in g.states : s.sid = t.sid => s = t
    /\ \A q \in g.reqs \ X : q.kind \in Awaited => \E s \in g.states : q.id \in s.wait
\* Whoever cancelled is marked wherever it would be called back from.
Silent(g, n) == /\ DOMAIN n = {"owner", "cancelled"} /\ n.cancelled \in BOOLEAN
                /\ n.owner \in g.gone => n.cancelled
Hushed(g) ==
    /\ g.late = FALSE
    /\ \A s \in g.states : /\ s.cancelled \in BOOLEAN
                           /\ s.owner \in g.gone => s.cancelled
                           /\ \A n \in DOMAIN s.notes : Silent(g, s.notes[n])
\* Partials lie within the file.
Within(p) == /\ DOMAIN p = {"idx", "off", "size"}
             /\ p.idx \in Int /\ p.off \in Nat /\ p.size \in Nat
             /\ p.idx * PageSize + p.size <= FileSize
\* A write from a partial is one of its whole page, or that of the last page; two
\* writes have no page in common, so that the end of one drops no partial the
\* other is written from.
Fits(r) ==
    /\ r.kind = "raw" => /\ r.off \in Int /\ r.n \in Nat \ {0} /\ r.off + r.n <= FileSize
                         /\ r.src # -1 => r.src \in Int /\ r.off = r.src * PageSize /\ r.n = PageSize
    /\ r.kind = "unlock" => r.src = FileSize \div PageSize
Held(g) ==
    /\ g.stale = FALSE
    /\ \A p \in g.parts : Within(p)
    /\ \A r \in g.reqs : Fits(r) /\ (r.kind \in {"raw", "unlock"} /\ r.ret = "none" => Holds(g, r))
    /\ \A r, q \in g.reqs : r.kind = "raw" /\ q.kind = "raw" /\ r # q
                               => PagesOf(r.off, r.n) \cap PagesOf(q.off, q.n) = {}
Live(g, X, N, d) ==
    /\ DOMAIN g = Fields
    /\ g.odd = {} => Slots(g) /\ Counts(g, d) /\ Waits(g, X, N) /\ Hushed(g) /\ Held(g)

-----------------------------------------------------------------------------
(* Steps that touch no request, state, partial or reference.               *)

Calm(g, h) ==
    /\ DOMAIN h = DOMAIN g
    /\ h.reqs = g.reqs /\ h.states = g.states /\ h.parts = g.parts /\ h.refs = g.refs
    /\ h.owner = g.owner /\ h.freed = g.freed /\ h.gone = g.gone /\ h.late = g.late
    /\ h.stale = g.stale /\ h.calls = g.calls /\ g.odd \subseteq h.odd

(***************************************************************************)
(* Such a step keeps the file alive.                                       *)
(***************************************************************************)
LEMMA LiveCalm ==
  ASSUME NEW g, NEW h, NEW X, NEW N, NEW d, Live(g, X, N, d), Calm(g, h)
  PROVE  Live(h, X, N, d)
<1> SUFFICES ASSUME h.odd = {}
             PROVE  Slots(h) /\ Counts(h, d) /\ Waits(h, X, N) /\ Hushed(h) /\ Held(h)
  BY DEF Live, Calm
<1>1. Slots(g) /\ Counts(g, d) /\ Waits(g, X, N) /\ Hushed(g) /\ Held(g)
  BY DEF Live, Calm
<1>2. Slots(h) /\ Counts(h, d) /\ Waits(h, X, N)
  BY <1>1 DEF Calm, Slots, Counts, Waits
<1>3. Hushed(h)
  BY <1>1 DEF Calm, Hushed, Silent
<1>4. Held(h)
  BY <1>1 DEF Calm, Held, Holds
<1> QED BY <1>2, <1>3, <1>4

(***************************************************************************)
(* After an odd use nothing is said of the file.                           *)
(***************************************************************************)
LEMMA LiveOdd ==
  ASSUME NEW g, NEW why, NEW X, NEW N, NEW d, DOMAIN g = Fields
  PROVE  Live(Odd(g, why), X, N, d)
BY FieldsOfFresh DEF Live, Odd

-----------------------------------------------------------------------------
(* Requests.                                                               *)

(***************************************************************************)
(* A set of naturals has a least element.                                  *)
(***************************************************************************)
LEMMA LeastNat ==
  ASSUME NEW T, T \subseteq Nat, T # {}
  PROVE  \E x \in T : \A y \in T : x <= y
<1> DEFINE R == OpToRel(<, Nat)
<1>1. IsWellFoundedOn(R, Nat)
  BY NatLessThanWellFounded
<1>2. \A x, y \in Nat : <<y, x>> \in R <=> y < x
  BY DEF OpToRel
<1> HIDE DEF R
<1>3. PICK x \in T : \A y \in T : ~ (<<y, x>> \in R)
  BY <1>1, WFMin
<1>4. ASSUME NEW y \in T PROVE x <= y
  <2>1. x \in Nat /\ y \in Nat /\ ~ (<<y, x>> \in R)
    BY <1>3
  <2>2. ~ (y < x)
    BY <1>2, <2>1
  <2> QED BY <2>1, <2>2
<1> QED BY <1>4

(***************************************************************************)
(* When ThreadAIO is not full it has a slot that no request is in.         *)
(***************************************************************************)
LEMMA FreeSlot ==
  ASSUME NEW g, Slots(g), ~Full(g)
  PROVE  FreeId(g) \in 0 .. MaxReq - 1 /\ \A r \in g.reqs : r.id # FreeId(g)
<1> DEFINE all == 0 .. MaxReq - 1
           used == {r.id : r \in g.reqs}
           free == all \ used
<1>1. free # {}
  <2> SUFFICES ASSUME free = {} PROVE FALSE
    OBVIOUS
  <2> DEFINE F == [r \in g.reqs |-> r.id]
  <2>1. F \in Surjection(g.reqs, used)
    BY DEF Surjection
  <2>2. IsFiniteSet(used) /\ Cardinality(used) <= Cardinality(g.reqs)
    BY <2>1, FS_Surjection DEF Slots
  <2>3. IsFiniteSet(all) /\ Cardinality(all) = MaxReq
    BY FS_Interval, FileAssumption
  <2>4. Cardinality(all) <= Cardinality(used)
    BY <2>2, FS_Subset
  <2>5. Cardinality(used) \in Nat /\ Cardinality(g.reqs) \in Nat
    BY <2>2, FS_CardinalityType DEF Slots
  <2>6. Cardinality(g.reqs) < MaxReq
    BY <2>5, FileAssumption DEF Full
  <2> QED BY <2>2, <2>3, <2>4, <2>5, <2>6, FileAssumption
<1>2. PICK x \in free : \A y \in free : x <= y
  <2>1. free \subseteq Nat
    OBVIOUS
  <2> QED BY <1>1, <2>1, LeastNat
<1>3. FreeId(g) \in free
  BY <1>2 DEF FreeId
<1> QED BY <1>3

\* A request that is submitted to g.
New(g, r) ==
    /\ DOMAIN r = RequestFields /\ ~r.cancelled /\ r.ret = "none" /\ Fits(r)
    /\ r.id \in 0 .. MaxReq - 1 /\ \A q \in g.reqs : q.id # r.id
    /\ r.kind \in {"raw", "unlock"} => Holds(g, r)
    /\ r.kind = "raw" => \A q \in g.reqs : q.kind = "raw" => PagesOf(r.off, r.n) \cap PagesOf(q.off, q.n) = {}

(***************************************************************************)
(* Request makes such a request, for metadata or a read, when there is a   *)
(* slot.                                                                   *)
(***************************************************************************)
LEMMA RequestNew ==
  ASSUME NEW g, NEW kind \in {"meta", "aux", "read", "load", "loadaux"}, Slots(g), ~Full(g)
  PROVE  New(g, Request(g, kind, 0, 1, -1))
BY FreeSlot DEF Request, New, RequestFields, Fits

(***************************************************************************)
(* A new request takes a slot; Submit counts a reference for it, and       *)
(* SubmitUnlocked gives it that of a request that is done.                 *)
(***************************************************************************)
LEMMA LiveSubmit ==
  ASSUME NEW g, NEW r, NEW X, NEW N, NEW d \in Nat, Live(g, X, N, d),
         g.odd = {} => New(g, r)
  PROVE  /\ Live(Submit(g, r), X \cup {r}, N, d)
         /\ Live(SubmitUnlocked(g, r), X \cup {r}, N, d + 1)
         /\ r.kind \notin Awaited => /\ Live(Submit(g, r), X, N, d)
                                     /\ Live(SubmitUnlocked(g, r), X, N, d + 1)
<1>1. ASSUME NEW h, DOMAIN h = Fields, g.odd = {}, h.reqs = g.reqs \cup {r}, h.states = g.states, h.parts = g.parts,
             h.owner = g.owner, h.freed = g.freed, h.gone = g.gone, h.late = g.late, h.stale = g.stale,
             h.calls = g.calls
      PROVE  /\ Slots(h) /\ Waits(h, X \cup {r}, N) /\ Hushed(h) /\ Held(h)
             /\ r.kind \notin Awaited => Waits(h, X, N)
             /\ Cardinality(h.reqs) = Cardinality(g.reqs) + 1 /\ Cardinality(g.reqs) \in Nat
  <2>1. Slots(g) /\ Waits(g, X, N) /\ Hushed(g) /\ Held(g) /\ New(g, r)
    BY <1>1 DEF Live
  <2>2. IsFiniteSet(h.reqs) /\ Cardinality(h.reqs) = Cardinality(g.reqs) + 1 /\ Cardinality(g.reqs) \in Nat
    <3>1. r \notin g.reqs
      BY <2>1 DEF New
    <3> QED BY <1>1, <2>1, <3>1, FS_AddElement, FS_CardinalityType DEF Slots
  <2>3. Slots(h)
    BY <1>1, <2>1, <2>2 DEF Slots, New
  <2>4. Waits(h, X \cup {r}, N) /\ (r.kind \notin Awaited => Waits(h, X, N))
    BY <1>1, <2>1 DEF Waits
  <2>5. Hushed(h)
    BY <1>1, <2>1 DEF Hushed, Silent
  <2>6. Held(h)
    BY <1>1, <2>1 DEF Held, New, Holds
  <2> QED BY <2>2, <2>3, <2>4, <2>5, <2>6
<1> DEFINE a == Submit(g, r)
           b == SubmitUnlocked(g, r)
<1>2. /\ DOMAIN a = Fields /\ a.reqs = g.reqs \cup {r} /\ a.states = g.states /\ a.parts = g.parts
      /\ a.owner = g.owner /\ a.freed = g.freed /\ a.gone = g.gone /\ a.late = g.late /\ a.stale = g.stale
      /\ a.calls = g.calls /\ a.odd = g.odd /\ a.refs = g.refs + 1
  BY FieldsOfFresh DEF Live, Submit, EvKQFileMappedLock
<1>3. /\ DOMAIN b = Fields /\ b.reqs = g.reqs \cup {r} /\ b.states = g.states /\ b.parts = g.parts
      /\ b.owner = g.owner /\ b.freed = g.freed /\ b.gone = g.gone /\ b.late = g.late /\ b.stale = g.stale
      /\ b.calls = g.calls /\ b.odd = g.odd /\ b.refs = g.refs
  BY FieldsOfFresh DEF Live, SubmitUnlocked
<1> HIDE DEF a, b
<1>4. ASSUME g.odd = {} PROVE Counts(a, d) /\ Counts(b, d + 1)
  <2>1. Counts(g, d)
    BY <1>4 DEF Live
  <2>2. Cardinality(a.reqs) = Cardinality(g.reqs) + 1 /\ Cardinality(g.reqs) \in Nat /\ b.reqs = a.reqs
    BY <1>1, <1>2, <1>3, <1>4
  <2> QED BY <1>2, <1>3, <2>1, <2>2 DEF Counts
<1>5. Live(a, X \cup {r}, N, d) /\ (r.kind \notin Awaited => Live(a, X, N, d))
  BY <1>1, <1>2, <1>4 DEF Live
<1>6. Live(b, X \cup {r}, N, d + 1) /\ (r.kind \notin Awaited => Live(b, X, N, d + 1))
  BY <1>1, <1>3, <1>4 DEF Live
<1> QED BY <1>5, <1>6 DEF a, b

\* The call sid waits, unless there was an odd use.
Has(g, sid) == g.odd = {} => \E s \in g.states : s.sid = sid

(***************************************************************************)
(* A state waits for a request.                                            *)
(***************************************************************************)
LEMMA LivePending ==
  ASSUME NEW g, NEW sid, NEW r, NEW X, NEW N, NEW d, Live(g, X, N, d), Has(g, sid)
  PROVE  /\ Live(StatePendingAdd(g, sid, r.id), X \ {r}, N, d)
         /\ \A i : Has(g, i) => Has(StatePendingAdd(g, sid, r.id), i)
<1> DEFINE more(s) == IF s.sid = sid THEN [s EXCEPT !.wait = @ \cup {r.id}] ELSE s
           h == StatePendingAdd(g, sid, r.id)
<1>1. /\ DOMAIN h = Fields /\ h.reqs = g.reqs /\ h.parts = g.parts /\ h.states = {more(s) : s \in g.states}
      /\ h.owner = g.owner /\ h.freed = g.freed /\ h.gone = g.gone /\ h.late = g.late /\ h.stale = g.stale
      /\ h.calls = g.calls /\ h.odd = g.odd /\ h.refs = g.refs
  BY FieldsOfFresh DEF Live, StatePendingAdd
<1> HIDE DEF h
<1>2. ASSUME g.odd = {}, NEW s \in g.states
      PROVE  /\ DOMAIN more(s) = StateFields /\ more(s).sid = s.sid /\ more(s).owner = s.owner
             /\ more(s).cancelled = s.cancelled /\ more(s).notes = s.notes /\ s.wait \subseteq more(s).wait
             /\ s.sid = sid => r.id \in more(s).wait
  <2>1. DOMAIN s = StateFields
    BY <1>2 DEF Live, Waits
  <2> QED BY <2>1 DEF StateFields
<1> HIDE DEF more
<1>3. ASSUME g.odd = {} PROVE Waits(h, X \ {r}, N) /\ Hushed(h)
  <2>1. Waits(g, X, N) /\ Hushed(g)
    BY <1>3 DEF Live
  <2>2. PICK t \in g.states : t.sid = sid
    BY <1>3 DEF Has
  <2>3. ASSUME NEW q \in h.reqs \ (X \ {r}), q.kind \in Awaited PROVE \E s \in h.states : q.id \in s.wait
    <3>1. CASE q = r
      BY <1>1, <1>2, <1>3, <2>2, <3>1
    <3>2. CASE q # r
      <4>1. PICK s \in g.states : q.id \in s.wait
        BY <1>1, <2>1, <2>3, <3>2 DEF Waits
      <4> QED BY <1>1, <1>2, <1>3, <4>1
    <3> QED BY <3>1, <3>2
  <2>4. \A s \in h.states : DOMAIN s = StateFields /\ s.sid \in (0 .. h.calls - 1) \cup N
    BY <1>1, <1>2, <1>3, <2>1 DEF Waits
  <2>5. \A s, t2 \in h.states : s.sid = t2.sid => s = t2
    BY <1>1, <1>2, <1>3, <2>1 DEF Waits
  <2>6. Waits(h, X \ {r}, N)
    BY <1>1, <2>1, <2>3, <2>4, <2>5 DEF Waits
  <2>7. Hushed(h)
    BY <1>1, <1>2, <1>3, <2>1 DEF Hushed, Silent
  <2> QED BY <2>6, <2>7
<1>4. ASSUME g.odd = {} PROVE Slots(h) /\ Counts(h, d) /\ Held(h)
  BY <1>1, <1>4 DEF Live, Slots, Counts, Held, Holds
<1>5. \A i : Has(g, i) => Has(h, i)
  BY <1>1, <1>2 DEF Has
<1> QED BY <1>1, <1>3, <1>4, <1>5 DEF Live, h

(***************************************************************************)
(* A call makes a state, under the number of the call.                     *)
(***************************************************************************)
LEMMA LiveStateNew ==
  ASSUME NEW g, NEW owner, NEW X, NEW d, Live(g, X, {}, d), owner \notin g.gone
  PROVE  LET h == AIOStateNew(g, owner)
         IN  Live(h, X, {g.calls}, d) /\ Has(h, g.calls) /\ h.calls = g.calls /\ h.reqs = g.reqs /\ h.odd = g.odd
<1> DEFINE new == [sid |-> g.calls, owner |-> owner, wait |-> {}, cancelled |-> FALSE, notes |-> <<>>]
           h == AIOStateNew(g, owner)
<1>1. /\ DOMAIN h = Fields /\ h.reqs = g.reqs /\ h.parts = g.parts /\ h.states = g.states \cup {new}
      /\ h.owner = g.owner /\ h.freed = g.freed /\ h.gone = g.gone /\ h.late = g.late /\ h.stale = g.stale
      /\ h.calls = g.calls /\ h.odd = g.odd /\ h.refs = g.refs
  BY FieldsOfFresh DEF Live, AIOStateNew
<1>2. /\ DOMAIN new = StateFields /\ new.sid = g.calls /\ new.owner = owner /\ new.cancelled = FALSE
      /\ DOMAIN new.notes = {}
  BY DEF StateFields
<1> HIDE DEF h, new
<1>3. ASSUME g.odd = {} PROVE Waits(h, X, {g.calls}) /\ Hushed(h)
  <2>1. Waits(g, X, {}) /\ Hushed(g)
    BY <1>3 DEF Live
  <2>2. \A s \in g.states : s.sid # g.calls
    BY <2>1 DEF Waits
  <2>3. Waits(h, X, {g.calls})
    BY <1>1, <1>2, <2>1, <2>2 DEF Waits
  <2>4. Hushed(h)
    BY <1>1, <1>2, <2>1 DEF Hushed, Silent
  <2> QED BY <2>3, <2>4
<1>4. ASSUME g.odd = {} PROVE Slots(h) /\ Counts(h, d) /\ Held(h)
  BY <1>1, <1>4 DEF Live, Slots, Counts, Held, Holds
<1>5. Has(h, g.calls)
  BY <1>1, <1>2 DEF Has
<1> QED BY <1>1, <1>3, <1>4, <1>5 DEF Live, h

(***************************************************************************)
(* A state that waits for nothing may go.                                  *)
(***************************************************************************)
LEMMA LiveStateDestroy ==
  ASSUME NEW g, NEW sid, NEW X, NEW N, NEW d, Live(g, X, N, d),
         g.odd = {} => \A s \in g.states : s.sid = sid => s.wait = {}
  PROVE  Live(AIOStateDestroy(g, sid), X, N, d)
<1> DEFINE h == AIOStateDestroy(g, sid)
<1>1. /\ DOMAIN h = Fields /\ h.reqs = g.reqs /\ h.parts = g.parts /\ h.states = {s \in g.states : s.sid # sid}
      /\ h.owner = g.owner /\ h.freed = g.freed /\ h.gone = g.gone /\ h.late = g.late /\ h.stale = g.stale
      /\ h.calls = g.calls /\ h.odd = g.odd /\ h.refs = g.refs
  BY FieldsOfFresh DEF Live, AIOStateDestroy
<1> HIDE DEF h
<1>2. ASSUME g.odd = {} PROVE Slots(h) /\ Counts(h, d) /\ Waits(h, X, N) /\ Hushed(h) /\ Held(h)
  <2>1. Slots(h) /\ Counts(h, d) /\ Held(h)
    BY <1>1, <1>2 DEF Live, Slots, Counts, Held, Holds
  <2>2. Waits(h, X, N)
    BY <1>1, <1>2 DEF Live, Waits
  <2>3. Hushed(h)
    BY <1>1, <1>2 DEF Live, Hushed, Silent
  <2> QED BY <2>1, <2>2, <2>3
<1> QED BY <1>1, <1>2 DEF Live, h

-----------------------------------------------------------------------------
(* Metadata, closing and opening.                                          *)

(***************************************************************************)
(* A snapshot is part of a request like another.                           *)
(***************************************************************************)
LEMMA SnapshotNew ==
  ASSUME NEW g, NEW a, NEW s, New(g, Request(a, "meta", 0, 1, -1))
  PROVE  LET r == [Request(a, "meta", 0, 1, -1) EXCEPT !.snap = s] IN New(g, r) /\ r.kind = "meta"
BY DEF Request, New, RequestFields, Fits, Holds

\* Nobody is cancelled, and no odd use forgotten.
Steady(g, h) == h.gone = g.gone /\ g.odd \subseteq h.odd

(***************************************************************************)
(* Metadata are written by requests of which no call waits.                *)
(***************************************************************************)
LEMMA LiveMeta ==
  ASSUME NEW g, NEW X, NEW N, NEW d \in Nat, Live(g, X, N, d)
  PROVE  /\ Live(MetaDataRawUpdate(g), X, N, d) /\ Steady(g, MetaDataRawUpdate(g))
         /\ Live(MetaDataAuxUpdate(g), X, N, d) /\ Steady(g, MetaDataAuxUpdate(g))
<1>1. ASSUME NEW r, r.kind \notin Awaited, g.odd = {} => New(g, r)
      PROVE  /\ Live(Submit(g, r), X, N, d)
             /\ Live([Submit(g, r) EXCEPT !.rawWriting = TRUE], X, N, d)
             /\ Live([Submit(g, r) EXCEPT !.auxWriting = TRUE, !.auxDirty = FALSE], X, N, d)
             /\ Steady(g, [Submit(g, r) EXCEPT !.rawWriting = TRUE])
             /\ Steady(g, [Submit(g, r) EXCEPT !.auxWriting = TRUE, !.auxDirty = FALSE])
  <2> DEFINE h == Submit(g, r)
  <2>1. Live(h, X, N, d)
    BY <1>1, LiveSubmit
  <2>2. Steady(g, h)
    BY FieldsOfFresh DEF Live, Submit, EvKQFileMappedLock, Steady
  <2> HIDE DEF h
  <2>3. Calm(h, [h EXCEPT !.rawWriting = TRUE]) /\ Steady(h, [h EXCEPT !.rawWriting = TRUE])
    BY <2>1, FieldsOfFresh DEF Calm, Live, Steady
  <2>4. /\ Calm(h, [h EXCEPT !.auxWriting = TRUE, !.auxDirty = FALSE])
        /\ Steady(h, [h EXCEPT !.auxWriting = TRUE, !.auxDirty = FALSE])
    BY <2>1, FieldsOfFresh DEF Calm, Live, Steady
  <2> QED BY <2>1, <2>2, <2>3, <2>4, LiveCalm DEF h, Steady
<1>2. Live(Odd(g, "refused"), X, N, d) /\ Steady(g, Odd(g, "refused"))
  <2>1. Steady(g, Odd(g, "refused"))
    BY FieldsOfFresh DEF Live, Odd, Steady
  <2> QED BY <2>1, LiveOdd DEF Live
<1>3. Live(MetaDataRawUpdate(g), X, N, d) /\ Steady(g, MetaDataRawUpdate(g))
  <2> DEFINE r == [Request(g, "meta", 0, 1, -1) EXCEPT !.snap = Snapshot(g)]
             h == [g EXCEPT !.lastRaw = Snapshot(g)]
  <2>1. Live(h, X, N, d) /\ Steady(g, h)
    <3>1. Calm(g, h) /\ Steady(g, h)
      BY FieldsOfFresh DEF Calm, Live, Steady
    <3> QED BY <3>1, LiveCalm
  <2>2. r.kind = "meta" /\ (~Full(g) /\ g.odd = {} => New(g, r))
    <3>1. r.kind = "meta"
      BY DEF Request
    <3>2. ~Full(g) /\ g.odd = {} => New(g, Request(g, "meta", 0, 1, -1))
      BY RequestNew DEF Live
    <3> QED BY <3>1, <3>2, SnapshotNew
  <2> HIDE DEF r, h
  <2> QED BY <1>1, <1>2, <2>1, <2>2 DEF MetaDataRawUpdate, Awaited, r, h
<1>4. Live(MetaDataAuxUpdate(g), X, N, d) /\ Steady(g, MetaDataAuxUpdate(g))
  <2> DEFINE r == Request(g, "aux", 0, 1, -1)
  <2>1. r.kind = "aux" /\ (~Full(g) /\ g.odd = {} => New(g, r))
    BY RequestNew DEF Live, Request
  <2> HIDE DEF r
  <2> QED BY <1>1, <1>2, <2>1 DEF MetaDataAuxUpdate, Awaited, Steady, r
<1> QED BY <1>3, <1>4

(***************************************************************************)
(* Both kinds of metadata are written, at a close too.                     *)
(***************************************************************************)
LEMMA LiveClose ==
  ASSUME NEW g, NEW X, NEW N, NEW d \in Nat, Live(g, X, N, d)
  PROVE  /\ Live(MetaDataUpdateAll(g), X, N, d) /\ Steady(g, MetaDataUpdateAll(g))
         /\ Live(EvKQFileMappedMetaAuxWrite(g), X, N, d)
         /\ Live(EvKQFileMappedClose(g), X, N, d) /\ Steady(g, EvKQFileMappedClose(g))
<1>1. ASSUME NEW h, Live(h, X, N, d)
      PROVE  Live(MetaDataUpdateAll(h), X, N, d) /\ Steady(h, MetaDataUpdateAll(h))
  BY <1>1, LiveMeta DEF MetaDataUpdateAll, Steady
<1> DEFINE c == [g EXCEPT !.closeReq = TRUE]
           l == [g EXCEPT !.lastAux = TRUE]
           a == [g EXCEPT !.auxDirty = TRUE]
<1>2. Calm(g, c) /\ Calm(g, l) /\ Calm(g, a)
  BY FieldsOfFresh DEF Calm, Live
<1>3. Live(c, X, N, d) /\ Live(l, X, N, d) /\ Live(a, X, N, d) /\ Steady(g, c)
  BY <1>2, LiveCalm DEF Calm, Steady
<1> HIDE DEF c, l, a
<1>4. Live(MetaDataAuxUpdate(a), X, N, d)
  BY <1>3, LiveMeta
<1> QED BY <1>1, <1>3, <1>4 DEF EvKQFileMappedMetaAuxWrite, EvKQFileMappedClose, c, l, a, Steady

(***************************************************************************)
(* Closing and opening the files touches no reference.                     *)
(***************************************************************************)
LEMMA LiveOpen ==
  ASSUME NEW g, NEW X, NEW N, NEW d, Live(g, X, N, d)
  PROVE  Live(CloseFiles(g), X, N, d) /\ Live(EvKQFileMappedOpen(g), X, N, d)
<1>1. Calm(g, CloseFiles(g))
  BY FieldsOfFresh DEF Calm, CloseFiles, Live
<1>2. Calm(g, OpenFiles(g))
  <2> DEFINE e == Emptied(g)
  <2>1. DOMAIN g = Fields
    BY DEF Live
  <2>2. Calm(g, e)
    BY <2>1, FieldsOfFresh DEF Calm, Emptied
  <2>3. DOMAIN e = Fields
    BY <2>1, <2>2, FieldsOfFresh DEF Emptied
  <2> HIDE DEF e
  <2>4. Calm(g, [e EXCEPT !.opened = TRUE])
    BY <2>2, <2>3, FieldsOfFresh DEF Calm
  <2>5. Calm(g, [g EXCEPT !.opened = TRUE])
    BY <2>1, FieldsOfFresh DEF Calm
  <2> QED BY <2>4, <2>5 DEF OpenFiles, e
<1>3. Live(Odd(g, "reopen"), X, N, d)
  BY LiveOdd DEF Live
<1> QED BY <1>1, <1>2, <1>3, LiveCalm DEF EvKQFileMappedOpen

-----------------------------------------------------------------------------
(* References and callbacks.                                               *)

(***************************************************************************)
(* The program lets the file go while requests still refer to it.          *)
(***************************************************************************)
LEMMA LiveDestroy ==
  ASSUME NEW g, NEW X, NEW N, Live(g, X, N, 0), g.odd = {} => g.reqs # {}, g.owner
  PROVE  Live(EvKQFileMappedDestroy(g), X, N, 0) /\ Steady(g, EvKQFileMappedDestroy(g))
<1> DEFINE h == [g EXCEPT !.destroyed = TRUE, !.owner = FALSE]
           k == EvKQFileMappedDestroy(g)
<1>1. /\ DOMAIN h = Fields /\ h.reqs = g.reqs /\ h.parts = g.parts /\ h.states = g.states
      /\ h.owner = FALSE /\ h.freed = g.freed /\ h.gone = g.gone /\ h.late = g.late /\ h.stale = g.stale
      /\ h.calls = g.calls /\ h.odd = g.odd /\ h.refs = g.refs
  BY FieldsOfFresh DEF Live
<1>2. k = EvKQFileMappedUnlock(h)
  BY DEF EvKQFileMappedDestroy
<1> HIDE DEF h, k
<1>3. DOMAIN k = Fields /\ k.odd = h.odd /\ k.gone = h.gone
  BY <1>1, <1>2, FieldsOfFresh DEF EvKQFileMappedUnlock, InternalClean
<1>4. ASSUME g.odd = {} PROVE Live(k, X, N, 0)
  <2>1. Slots(g) /\ Counts(g, 0) /\ Waits(g, X, N) /\ Hushed(g) /\ Held(g)
    BY <1>4 DEF Live
  <2>2. Cardinality(g.reqs) \in Nat /\ Cardinality(g.reqs) # 0
    BY <1>4, <2>1, FS_CardinalityType, FS_EmptySet DEF Slots, Waits
  <2>3. g.refs = Cardinality(g.reqs) /\ g.refs > 0
    BY <2>1, <2>2 DEF Counts
  <2>4. k = [h EXCEPT !.refs = @ - 1]
    BY <1>1, <1>2, <2>3 DEF EvKQFileMappedUnlock
  <2>5. /\ k.reqs = g.reqs /\ k.parts = g.parts /\ k.states = g.states
        /\ k.owner = FALSE /\ k.freed = g.freed /\ k.gone = g.gone /\ k.late = g.late /\ k.stale = g.stale
        /\ k.calls = g.calls /\ k.refs = g.refs - 1
    BY <1>1, <2>4, FieldsOfFresh
  <2>6. Counts(k, 0)
    <3>1. k.refs = Cardinality(k.reqs) - 0 - 1
      BY <2>2, <2>3, <2>5
    <3>2. k.refs \in Nat
      BY <2>1, <2>3, <2>5 DEF Counts
    <3> QED BY <2>1, <2>5, <3>1, <3>2 DEF Counts
  <2>7. Slots(k) /\ Waits(k, X, N)
    BY <2>1, <2>5 DEF Slots, Waits
  <2>8. Hushed(k)
    BY <2>1, <2>5 DEF Hushed, Silent
  <2>9. Held(k)
    BY <2>1, <2>5 DEF Held, Holds
  <2> QED BY <1>3, <2>6, <2>7, <2>8, <2>9 DEF Live
<1> QED BY <1>1, <1>3, <1>4 DEF Live, Steady, k

(***************************************************************************)
(* An owner that cancels is marked in every state and every notification.  *)
(***************************************************************************)
LEMMA LiveCancel ==
  ASSUME NEW g, NEW owner, NEW X, NEW N, NEW d, Live(g, X, N, d)
  PROVE  LET h == CancelAllByOwner(g, owner)
         IN  Live(h, X, N, d) /\ h.gone = g.gone \cup {owner} /\ h.odd = g.odd
<1> DEFINE note(s, n) == CancelNote(s.notes[n], owner)
           mark(s) == CancelState(s, owner)
           h == CancelAllByOwner(g, owner)
<1>1. /\ DOMAIN h = Fields /\ h.reqs = g.reqs /\ h.parts = g.parts
      /\ h.owner = g.owner /\ h.freed = g.freed /\ h.gone = g.gone \cup {owner} /\ h.late = g.late
      /\ h.stale = g.stale /\ h.calls = g.calls /\ h.odd = g.odd /\ h.refs = g.refs
  BY FieldsOfFresh DEF Live, CancelAllByOwner
<1>2. ASSUME g.odd = {}, NEW s \in g.states
      PROVE  /\ DOMAIN mark(s) = StateFields /\ mark(s).sid = s.sid /\ mark(s).owner = s.owner
             /\ mark(s).wait = s.wait
             /\ mark(s).cancelled \in BOOLEAN /\ (mark(s).cancelled <=> s.cancelled \/ s.owner = owner)
             /\ DOMAIN mark(s).notes = DOMAIN s.notes
             /\ \A n \in DOMAIN s.notes :
                  /\ mark(s).notes[n].owner = s.notes[n].owner
                  /\ DOMAIN mark(s).notes[n] = {"owner", "cancelled"}
                  /\ mark(s).notes[n].cancelled \in BOOLEAN
                  /\ mark(s).notes[n].cancelled <=> s.notes[n].cancelled \/ s.notes[n].owner = owner
  <2>1. DOMAIN s = StateFields /\ s.cancelled \in BOOLEAN /\ \A n \in DOMAIN s.notes : Silent(g, s.notes[n])
    BY <1>2 DEF Live, Waits, Hushed
  <2>2. \A n \in DOMAIN s.notes :
          /\ note(s, n).owner = s.notes[n].owner /\ DOMAIN note(s, n) = {"owner", "cancelled"}
          /\ note(s, n).cancelled \in BOOLEAN
          /\ note(s, n).cancelled <=> s.notes[n].cancelled \/ s.notes[n].owner = owner
    BY <2>1 DEF Silent, CancelNote
  <2>3. /\ DOMAIN mark(s) = StateFields /\ mark(s).sid = s.sid /\ mark(s).owner = s.owner
        /\ mark(s).wait = s.wait /\ mark(s).notes = [n \in DOMAIN s.notes |-> note(s, n)]
        /\ mark(s).cancelled = (s.cancelled \/ s.owner = owner)
    BY <2>1 DEF StateFields, CancelState
  <2> HIDE DEF note, mark
  <2> QED BY <2>2, <2>3
<1>3. h.states = {mark(s) : s \in g.states}
  BY FieldsOfFresh DEF Live, CancelAllByOwner
<1> HIDE DEF h, mark
<1>4. ASSUME g.odd = {} PROVE Slots(h) /\ Counts(h, d) /\ Waits(h, X, N) /\ Hushed(h) /\ Held(h)
  <2>1. Slots(h) /\ Counts(h, d) /\ Held(h)
    BY <1>1, <1>4 DEF Live, Slots, Counts, Held, Holds
  <2>2. Waits(g, X, N) /\ Hushed(g)
    BY <1>4 DEF Live
  <2>3. Waits(h, X, N)
    <3>1. \A q \in h.reqs \ X : q.kind \in Awaited => \E s \in h.states : q.id \in s.wait
      BY <1>1, <1>2, <1>3, <1>4, <2>2 DEF Waits
    <3>2. \A s, t \in h.states : s.sid = t.sid => s = t
      BY <1>2, <1>3, <1>4, <2>2 DEF Waits
    <3> QED BY <1>1, <1>2, <1>3, <1>4, <2>2, <3>1, <3>2 DEF Waits
  <2>4. Hushed(h)
    <3>1. ASSUME NEW s \in h.states
          PROVE  /\ s.cancelled \in BOOLEAN /\ (s.owner \in h.gone => s.cancelled)
                 /\ \A n \in DOMAIN s.notes : Silent(h, s.notes[n])
      <4>1. PICK t \in g.states : s = mark(t)
        BY <1>3, <3>1
      <4>2. /\ t.cancelled \in BOOLEAN /\ (t.owner \in g.gone => t.cancelled)
            /\ \A n \in DOMAIN t.notes : Silent(g, t.notes[n])
        BY <2>2 DEF Hushed
      <4>3. s.cancelled \in BOOLEAN /\ (s.owner \in h.gone => s.cancelled)
        BY <1>1, <1>2, <1>4, <4>1, <4>2
      <4>4. ASSUME NEW n \in DOMAIN s.notes PROVE Silent(h, s.notes[n])
        BY <1>1, <1>2, <1>4, <4>1, <4>2, <4>4 DEF Silent
      <4> QED BY <4>3, <4>4
    <3> QED BY <1>1, <2>2, <3>1 DEF Hushed
  <2> QED BY <2>1, <2>3, <2>4
<1> QED BY <1>1, <1>4 DEF Live, h

(***************************************************************************)
(* What the program does when it is called back: nothing of it frees the   *)
(* file while a request is being done, and it cancels none of those that   *)
(* the same state still has to notify.                                     *)
(***************************************************************************)
LEMMA LiveReact ==
  ASSUME NEW g, NEW s, NEW re, NEW X, NEW N, Live(g, X, N, 0), X # {} \/ re = "none"
  PROVE  LET h == React(g, s, re)
         IN  /\ Live(h, X, N, 0) /\ g.odd \subseteq h.odd
             /\ h.odd = {} => \A n \in DOMAIN s.notes : s.notes[n].owner \in h.gone => s.notes[n].owner \in g.gone
<1> DEFINE other == CHOOSE w \in Owners : w # s.owner
           c == CancelAllByOwner(g, other)
<1>1. CASE re = "close" /\ g.opened /\ g.owner
  <2>1. React(g, s, re) = EvKQFileMappedClose(g)
    BY <1>1 DEF React
  <2> QED BY <2>1, LiveClose DEF Steady
<1>2. CASE re = "destroy" /\ g.owner
  <2>1. React(g, s, re) = EvKQFileMappedDestroy(g)
    BY <1>2 DEF React
  <2>2. g.odd = {} => g.reqs # {}
    BY <1>2 DEF Live, Waits
  <2> QED BY <1>2, <2>1, <2>2, LiveDestroy DEF Steady
<1>3. CASE re = "cancel" /\ Owners \ {s.owner} # {}
  <2>1. React(g, s, re) = IF \E n \in DOMAIN s.notes : s.notes[n].owner = other THEN Odd(c, "cancel") ELSE c
    BY <1>3 DEF React
  <2>2. Live(c, X, N, 0) /\ c.gone = g.gone \cup {other} /\ c.odd = g.odd
    BY LiveCancel
  <2> HIDE DEF other, c
  <2>3. Live(Odd(c, "cancel"), X, N, 0) /\ Odd(c, "cancel").odd # {} /\ c.odd \subseteq Odd(c, "cancel").odd
    BY <2>2, LiveOdd, FieldsOfFresh DEF Live, Odd
  <2> QED BY <2>1, <2>2, <2>3
<1>4. CASE React(g, s, re) = g
  BY <1>4
<1>5. \/ re = "close" /\ g.opened /\ g.owner
      \/ re = "destroy" /\ g.owner
      \/ re = "cancel" /\ Owners \ {s.owner} # {}
      \/ React(g, s, re) = g
  BY DEF React
<1> QED BY <1>1, <1>2, <1>3, <1>4, <1>5

(***************************************************************************)
(* A state that waits for nothing is called back and destroyed: nobody is  *)
(* called back who cancelled.                                              *)
(***************************************************************************)
LEMMA LiveInvoke ==
  ASSUME NEW g, NEW sid, NEW re, NEW X, NEW N, Live(g, X, N, 0), X # {} \/ re = "none",
         Has(g, sid), g.odd = {} => \A s \in g.states : s.sid = sid => s.wait = {}
  PROVE  Live(InvokeAndDestroy(g, sid, re), X, N, 0)
<1> DEFINE s == State(g, sid)
           h == AIOStateDestroy(g, sid)
           k == [h EXCEPT !.late = @ \/ s.owner \in g.gone]
           y == IF s.cancelled THEN h ELSE React(k, s, re)
           z == NotifyInvokeAll(y, s)
<1>1. Live(h, X, N, 0) /\ h.odd = g.odd /\ h.gone = g.gone
  <2>1. h.odd = g.odd /\ h.gone = g.gone
    BY FieldsOfFresh DEF Live, AIOStateDestroy
  <2> QED BY <2>1, LiveStateDestroy
<1>2. ASSUME g.odd = {}
      PROVE  s \in g.states /\ s.cancelled \in BOOLEAN /\ (s.owner \in g.gone => s.cancelled)
             /\ \A n \in DOMAIN s.notes : Silent(g, s.notes[n])
  <2>1. s \in g.states
    BY <1>2 DEF Has, State
  <2> QED BY <1>2, <2>1 DEF Live, Hushed
<1> HIDE DEF s, h
<1>3. ASSUME ~s.cancelled PROVE Live(k, X, N, 0) /\ k.odd = g.odd /\ k.gone = g.gone
  <2>1. DOMAIN k = Fields /\ k.odd = g.odd /\ k.gone = g.gone
    BY <1>1, FieldsOfFresh DEF Live
  <2>2. CASE g.odd = {}
    <3>1. h.late = FALSE
      BY <1>1, <2>2 DEF Live, Hushed
    <3>2. Calm(h, k)
      BY <1>1, <1>2, <1>3, <2>2, <3>1, FieldsOfFresh DEF Calm, Live
    <3> QED BY <1>1, <2>1, <3>2, LiveCalm
  <2>3. CASE g.odd # {}
    BY <2>1, <2>3 DEF Live
  <2> QED BY <2>1, <2>2, <2>3
<1> HIDE DEF k
<1>4. /\ Live(y, X, N, 0) /\ g.odd \subseteq y.odd
      /\ y.odd = {} => \A n \in DOMAIN s.notes : s.notes[n].owner \in y.gone => s.notes[n].owner \in g.gone
  <2>1. CASE s.cancelled
    BY <1>1, <2>1
  <2>2. CASE ~s.cancelled
    BY <1>3, <2>2, LiveReact
  <2> QED BY <2>1, <2>2
<1> HIDE DEF y
<1>5. Live(z, X, N, 0)
  <2>1. DOMAIN z = Fields /\ z.odd = y.odd
    BY <1>4, FieldsOfFresh DEF Live, NotifyInvokeAll
  <2>2. CASE y.odd = {}
    <3>1. g.odd = {} /\ y.late = FALSE
      BY <1>4, <2>2 DEF Live, Hushed
    <3>2. ~ \E n \in DOMAIN s.notes : ~s.notes[n].cancelled /\ s.notes[n].owner \in y.gone
      BY <1>2, <1>4, <2>2, <3>1 DEF Silent
    <3>3. Calm(y, z)
      BY <1>4, <3>1, <3>2, FieldsOfFresh DEF Calm, Live, NotifyInvokeAll
    <3> QED BY <1>4, <3>3, LiveCalm
  <2>3. CASE y.odd # {}
    BY <2>1, <2>3 DEF Live
  <2> QED BY <2>2, <2>3
<1>6. InvokeAndDestroy(g, sid, re) = z
  BY DEF InvokeAndDestroy, z, y, k, h, s
<1> QED BY <1>5, <1>6

(***************************************************************************)
(* A request is taken off the state that waits for it.                     *)
(***************************************************************************)
LEMMA LiveCheckFinish ==
  ASSUME NEW g, NEW r, NEW re, NEW N, Live(g, {}, N, 0), g.odd = {} => r \in g.reqs, r.kind \in Awaited
  PROVE  Live(CheckFinish(g, r, re), {r}, N, 0)
<1> DEFINE s == CHOOSE t \in g.states : r.id \in t.wait
           less(t) == IF t = s THEN [t EXCEPT !.wait = @ \ {r.id}] ELSE t
           h == [g EXCEPT !.states = {less(t) : t \in @}, !.loading = @ /\ s.wait # {r.id}]
<1>1. /\ DOMAIN h = Fields /\ h.reqs = g.reqs /\ h.parts = g.parts /\ h.states = {less(t) : t \in g.states}
      /\ h.owner = g.owner /\ h.freed = g.freed /\ h.gone = g.gone /\ h.late = g.late
      /\ h.stale = g.stale /\ h.calls = g.calls /\ h.odd = g.odd /\ h.refs = g.refs
  BY FieldsOfFresh DEF Live
<1>2. CheckFinish(g, r, re) = IF s.wait = {r.id} THEN InvokeAndDestroy(h, s.sid, re) ELSE h
  BY DEF CheckFinish
<1>3. g.odd = {} => s \in g.states /\ r.id \in s.wait
  BY DEF Live, Waits
<1> HIDE DEF h, s
<1>4. ASSUME g.odd = {}, NEW t \in g.states
      PROVE  /\ DOMAIN less(t) = StateFields /\ less(t).sid = t.sid /\ less(t).owner = t.owner
             /\ less(t).cancelled = t.cancelled /\ less(t).notes = t.notes
             /\ t.wait \ {r.id} \subseteq less(t).wait
             /\ t = s => less(t).wait = t.wait \ {r.id}
  <2>1. DOMAIN t = StateFields
    BY <1>4 DEF Live, Waits
  <2> QED BY <2>1 DEF StateFields
<1> HIDE DEF less
<1>5. Live(h, {r}, N, 0)
  <2> SUFFICES ASSUME g.odd = {} PROVE Slots(h) /\ Counts(h, 0) /\ Waits(h, {r}, N) /\ Hushed(h) /\ Held(h)
    BY <1>1 DEF Live
  <2>1. Slots(g) /\ Waits(g, {}, N) /\ Hushed(g)
    BY DEF Live
  <2>2. Slots(h) /\ Counts(h, 0) /\ Held(h)
    BY <1>1 DEF Live, Slots, Counts, Held, Holds
  <2>3. Hushed(h)
    BY <1>1, <1>4, <2>1 DEF Hushed, Silent
  <2>4. ASSUME NEW q \in h.reqs \ {r}, q.kind \in Awaited PROVE \E t \in h.states : q.id \in t.wait
    <3>1. q.id # r.id
      BY <1>1, <2>1, <2>4 DEF Slots
    <3>2. PICK t \in g.states : q.id \in t.wait
      BY <1>1, <2>1, <2>4 DEF Waits
    <3> QED BY <1>1, <1>4, <3>1, <3>2
  <2>5. \A t, u \in h.states : t.sid = u.sid => t = u
    BY <1>1, <1>4, <2>1 DEF Waits
  <2>6. Waits(h, {r}, N)
    BY <1>1, <1>4, <2>1, <2>4, <2>5 DEF Waits
  <2> QED BY <2>2, <2>3, <2>6
<1>6. ASSUME s.wait = {r.id} PROVE Live(InvokeAndDestroy(h, s.sid, re), {r}, N, 0)
  <2>1. Has(h, s.sid)
    BY <1>1, <1>3, <1>4 DEF Has
  <2>2. ASSUME h.odd = {}, NEW t \in h.states, t.sid = s.sid PROVE t.wait = {}
    <3>1. PICK u \in g.states : t = less(u)
      BY <1>1, <2>2
    <3>2. u = s
      BY <1>1, <1>3, <1>4, <2>2, <3>1 DEF Live, Waits
    <3> QED BY <1>1, <1>4, <1>6, <2>2, <3>1, <3>2
  <2> QED BY <1>5, <2>1, <2>2, LiveInvoke
<1> QED BY <1>2, <1>5, <1>6

-----------------------------------------------------------------------------
(* Writing.                                                                *)

\* No write under way touches these pages.
Clear(g, P) == g.odd = {} => \A r \in g.reqs : r.kind = "raw" => PagesOf(r.off, r.n) \cap P = {}
\* What is known of a file in the middle of a call sid.
Writes(g, sid, X, N, P) == Live(g, X, N, 0) /\ Has(g, sid) /\ Clear(g, P)

(***************************************************************************)
(* Changes of flags keep a call going.                                     *)
(***************************************************************************)
LEMMA CalmWrites ==
  ASSUME NEW g, NEW h, NEW sid, NEW X, NEW N, NEW P, Writes(g, sid, X, N, P), Calm(g, h)
  PROVE  Writes(h, sid, X, N, P)
BY LiveCalm DEF Writes, Has, Clear, Calm

(***************************************************************************)
(* After an odd use nothing is said of a call.                             *)
(***************************************************************************)
LEMMA OddWrites ==
  ASSUME NEW g, NEW why, NEW sid, NEW X, NEW N, NEW P, DOMAIN g = Fields
  PROVE  Writes(Odd(g, why), sid, X, N, P)
<1>1. Odd(g, why).odd # {}
  BY FieldsOfFresh DEF Odd
<1> QED BY <1>1, LiveOdd DEF Writes, Has, Clear

(***************************************************************************)
(* RawWrite takes pages that no write under way touches.                   *)
(***************************************************************************)
LEMMA LiveRawWrite ==
  ASSUME NEW g, NEW sid, NEW off \in Int, NEW n \in Nat \ {0}, NEW src, NEW X, NEW N, NEW P, NEW Q,
         Writes(g, sid, X, N, P), off + n <= FileSize, PagesOf(off, n) \subseteq Q, Q \subseteq P,
         src # -1 => src \in Int /\ off = src * PageSize /\ n = PageSize
                     /\ (g.odd = {} => \E p \in g.parts : p.idx = src)
  PROVE  Writes(RawWrite(g, sid, off, n, src), sid, X, N, P \ Q)
<1> DEFINE r == Request(g, "raw", off, n, src)
           a == Submit(g, r)
           b == StatePendingAdd(a, sid, r.id)
           c == [b EXCEPT !.rawPending = @ + 1]
           bad == [g EXCEPT !.bad = TRUE]
<1>1. /\ DOMAIN r = RequestFields /\ r.kind = "raw" /\ r.off = off /\ r.n = n /\ r.src = src /\ r.ret = "none"
      /\ r.cancelled = FALSE /\ r.id = FreeId(g)
  BY DEF Request, RequestFields
<1> HIDE DEF r
<1>2. ASSUME ~Full(g), g.odd = {} PROVE New(g, r)
  <2>1. Slots(g)
    BY <1>2 DEF Writes, Live
  <2>2. r.id \in 0 .. MaxReq - 1 /\ \A q \in g.reqs : q.id # r.id
    BY <1>1, <1>2, <2>1, FreeSlot
  <2>3. Fits(r)
    BY <1>1 DEF Fits
  <2>4. Holds(g, r)
    BY <1>1, <1>2 DEF Holds
  <2>5. \A q \in g.reqs : q.kind = "raw" => PagesOf(r.off, r.n) \cap PagesOf(q.off, q.n) = {}
    BY <1>1, <1>2 DEF Writes, Clear
  <2> QED BY <1>1, <2>2, <2>3, <2>4, <2>5 DEF New
<1>3. a.odd = g.odd /\ a.states = g.states /\ a.reqs = g.reqs \cup {r}
  BY FieldsOfFresh DEF Writes, Live, Submit, EvKQFileMappedLock
<1>4. ASSUME ~Full(g) PROVE Live(a, X \cup {r}, N, 0)
  BY <1>2, <1>4, LiveSubmit DEF Writes
<1> HIDE DEF a
<1>5. ASSUME ~Full(g) PROVE Writes(b, sid, X, N, P \ Q)
  <2>1. Has(a, sid)
    BY <1>3 DEF Writes, Has
  <2>2. Live(b, (X \cup {r}) \ {r}, N, 0) /\ Has(b, sid)
    BY <1>4, <1>5, <2>1, LivePending
  <2>3. b.reqs = g.reqs \cup {r} /\ b.odd = g.odd
    BY <1>3, <1>4, <1>5, FieldsOfFresh DEF Live, StatePendingAdd
  <2>4. Clear(b, P \ Q)
    BY <1>1, <2>3 DEF Writes, Clear
  <2>5. Live(b, X, N, 0)
    <3>1. CASE g.odd = {}
      <4>1. X \subseteq g.reqs /\ r \notin g.reqs
        BY <1>2, <1>5, <3>1 DEF Writes, Live, Waits, New
      <4>2. (X \cup {r}) \ {r} = X
        BY <4>1
      <4> QED BY <2>2, <4>2
    <3>2. CASE g.odd # {}
      BY <2>2, <2>3, <3>2 DEF Live
    <3> QED BY <3>1, <3>2
  <2> QED BY <2>2, <2>4, <2>5 DEF Writes
<1> HIDE DEF b
<1>6. ASSUME ~Full(g) PROVE Writes(c, sid, X, N, P \ Q)
  <2>1. Calm(b, c)
    BY <1>5, <1>6, FieldsOfFresh DEF Calm, Writes, Live
  <2> QED BY <1>5, <1>6, <2>1, CalmWrites
<1>7. Writes(bad, sid, X, N, P \ Q)
  <2>1. Calm(g, bad)
    BY FieldsOfFresh DEF Calm, Writes, Live
  <2>2. Writes(bad, sid, X, N, P)
    BY <2>1, CalmWrites
  <2> QED BY <2>2 DEF Writes, Clear
<1>8. RawWrite(g, sid, off, n, src) = IF Full(g) THEN bad ELSE c
  BY DEF RawWrite, c, b, a, r
<1> QED BY <1>6, <1>7, <1>8

(***************************************************************************)
(* The partial of a page is replaced by a longer one, within the file.     *)
(***************************************************************************)
LEMMA StoreWrites ==
  ASSUME NEW g, NEW old, NEW part, NEW sid, NEW X, NEW N, NEW P, Writes(g, sid, X, N, P),
         g.odd = {} => Within(part), old.idx = part.idx
  PROVE  LET h == PartialStore(g, old, part)
         IN  Writes(h, sid, X, N, P) /\ h.odd = g.odd /\ part \in h.parts
<1> DEFINE h == PartialStore(g, old, part)
<1>1. /\ DOMAIN h = Fields /\ h.reqs = g.reqs /\ h.parts = (g.parts \ {old}) \cup {part} /\ h.states = g.states
      /\ h.owner = g.owner /\ h.freed = g.freed /\ h.gone = g.gone /\ h.late = g.late
      /\ h.stale = g.stale /\ h.calls = g.calls /\ h.odd = g.odd /\ h.refs = g.refs
  BY FieldsOfFresh DEF Writes, Live, PartialStore
<1> HIDE DEF h
<1>2. ASSUME g.odd = {} PROVE Slots(h) /\ Counts(h, 0) /\ Waits(h, X, N) /\ Hushed(h) /\ Held(h)
  <2>1. Slots(g) /\ Counts(g, 0) /\ Waits(g, X, N) /\ Hushed(g) /\ Held(g)
    BY <1>2 DEF Writes, Live
  <2>2. Slots(h) /\ Counts(h, 0) /\ Waits(h, X, N)
    BY <1>1, <2>1 DEF Slots, Counts, Waits
  <2>3. Hushed(h)
    BY <1>1, <2>1 DEF Hushed, Silent
  <2>4. \A r \in g.reqs : Holds(g, r) => Holds(h, r)
    BY <1>1 DEF Holds
  <2>5. Held(h)
    BY <1>1, <1>2, <2>1, <2>4 DEF Held
  <2> QED BY <2>2, <2>3, <2>5
<1>3. Has(h, sid) /\ Clear(h, P)
  BY <1>1 DEF Writes, Has, Clear
<1> QED BY <1>1, <1>2, <1>3 DEF Writes, Live, h

(***************************************************************************)
(* A byte between two page boundaries is on a page between them.           *)
(***************************************************************************)
LEMMA Between ==
  ASSUME NEW p \in Int, NEW i \in Int, NEW j \in Int, i * PageSize <= p, p < j * PageSize
  PROVE  p \div PageSize \in Int /\ i <= p \div PageSize /\ p \div PageSize < j
<1> DEFINE q == p \div PageSize
           m == p % PageSize
           x == q * PageSize
           y == (q + 1) * PageSize
           a == i * PageSize
           b == j * PageSize
<1>1. q \in Int /\ m \in 0 .. PageSize - 1 /\ p = x + m
  BY Divides, FileAssumption
<1> HIDE DEF q, m
<1>2. x \in Int /\ y \in Int /\ a \in Int /\ b \in Int
  BY <1>1, Multiple, FileAssumption
<1>3. y = x + PageSize
  <2>1. y = x + (1 * PageSize)
    BY <1>1, Spreads, FileAssumption
  <2>2. 1 * PageSize = PageSize
    BY FileAssumption
  <2> QED BY <2>1, <2>2
<1>4. q + 1 <= i => y <= a
  BY <1>1, Scales, FileAssumption
<1>5. j <= q => b <= x
  BY <1>1, Scales, FileAssumption
<1>6. a <= p /\ p < b
  OBVIOUS
<1> HIDE DEF x, y, a, b
<1>7. i <= q /\ q < j
  BY <1>1, <1>2, <1>3, <1>4, <1>5, <1>6, FileAssumption
<1> QED BY <1>1, <1>7 DEF q

(***************************************************************************)
(* A byte is on the page that div tells.                                   *)
(***************************************************************************)
LEMMA PageBounds ==
  ASSUME NEW p \in Int
  PROVE  /\ p \div PageSize \in Int
         /\ (p \div PageSize) * PageSize <= p /\ p < ((p \div PageSize) + 1) * PageSize
<1> DEFINE q == p \div PageSize
           m == p % PageSize
           x == q * PageSize
           y == (q + 1) * PageSize
<1>1. q \in Int /\ m \in 0 .. PageSize - 1 /\ p = x + m
  BY Divides, FileAssumption
<1> HIDE DEF q, m
<1>2. x \in Int /\ y = x + (1 * PageSize) /\ 1 * PageSize = PageSize
  BY <1>1, Multiple, Spreads, FileAssumption
<1>3. y = x + PageSize
  BY <1>2
<1> HIDE DEF x, y
<1>4. x <= p /\ p < y
  BY <1>1, <1>2, <1>3, FileAssumption
<1> QED BY <1>1, <1>4 DEF x, y, q

(***************************************************************************)
(* Pages come in the order of their bytes.                                 *)
(***************************************************************************)
LEMMA PagesInOrder ==
  ASSUME NEW p \in Int, NEW q \in Int, p <= q
  PROVE  p \div PageSize <= q \div PageSize
<1> DEFINE i == p \div PageSize
           j == q \div PageSize
           x == i * PageSize
           y == (j + 1) * PageSize
<1>1. i \in Int /\ j \in Int /\ x <= p /\ q < y
  BY PageBounds
<1> HIDE DEF i
<1>2. x \in Int
  BY <1>1, Multiple, FileAssumption
<1>3. x <= q
  <2> HIDE DEF x, y
  <2> QED BY <1>1, <1>2
<1>4. i <= q \div PageSize
  BY <1>1, <1>3, Between
<1> QED BY <1>4 DEF i

(***************************************************************************)
(* The bytes within one page are on that page.                             *)
(***************************************************************************)
LEMMA OnePage ==
  ASSUME NEW i \in Int, NEW rel \in Nat, NEW n \in Nat, rel + n <= PageSize
  PROVE  i * PageSize \in Int /\ PagesOf((i * PageSize) + rel, n) \subseteq {i}
<1> DEFINE x == i * PageSize
           y == (i + 1) * PageSize
<1>1. x \in Int /\ y = x + PageSize
  <2>1. x \in Int /\ y = x + (1 * PageSize) /\ 1 * PageSize = PageSize
    BY Multiple, Spreads, FileAssumption
  <2> QED BY <2>1
<1>2. ASSUME NEW p \in x + rel .. x + rel + n - 1 PROVE p \div PageSize = i
  <2>1. p \in Int /\ x <= p /\ p < y
    <3> HIDE DEF x, y
    <3> QED BY <1>1, <1>2, FileAssumption
  <2>2. p \div PageSize \in Int /\ i <= p \div PageSize /\ p \div PageSize < i + 1
    BY <2>1, Between
  <2> QED BY <2>2
<1>3. PagesOf(x + rel, n) \subseteq {i}
  BY <1>2 DEF PagesOf
<1> QED BY <1>1, <1>3

(***************************************************************************)
(* Whole pages are those from the first to the last.                       *)
(***************************************************************************)
LEMMA WholePages ==
  ASSUME NEW i \in Int, NEW w \in Nat
  PROVE  PagesOf(i * PageSize, w * PageSize) \subseteq i .. i + w - 1
<1> DEFINE x == i * PageSize
           y == w * PageSize
           z == (i + w) * PageSize
<1>1. x \in Int /\ y \in Int /\ z = x + y
  BY Multiple, Spreads, FileAssumption
<1>2. ASSUME NEW p \in x .. x + y - 1 PROVE p \div PageSize \in i .. i + w - 1
  <2>1. p \in Int /\ x <= p /\ p < z
    <3> HIDE DEF x, y, z
    <3> QED BY <1>1, <1>2
  <2>2. p \div PageSize \in Int /\ i <= p \div PageSize /\ p \div PageSize < i + w
    BY <2>1, Between
  <2> QED BY <2>2
<1> QED BY <1>2 DEF PagesOf

(***************************************************************************)
(* PartialDataProcess writes bytes of one page, or that whole page from    *)
(* its partial, which then exists and ends within the file.                *)
(***************************************************************************)
LEMMA LivePartial ==
  ASSUME NEW g, NEW sid, NEW i \in Int, NEW rel \in Nat, NEW n \in Nat \ {0}, NEW X, NEW N, NEW P,
         Writes(g, sid, X, N, P), rel + n <= PageSize, (i * PageSize) + rel + n <= FileSize, i \in P
  PROVE  Writes(PartialDataProcess(g, sid, i, rel, n), sid, X, N, P \ {i})
<1> DEFINE has == PartialGetByIdx(g, i)
           old == IF has = {} THEN [idx |-> i, off |-> rel, size |-> 0] ELSE CHOOSE p \in has : TRUE
           part == PartialGrow(old, rel, n)
           kept == PartialStore(g, old, part)
           h == IF has # {} /\ rel > old.size THEN Odd(kept, "gap") ELSE kept
           x == i * PageSize
<1>0. x \in Int /\ x + rel + n <= FileSize
  BY Multiple, FileAssumption
<1>1. has # {} => old \in g.parts /\ old.idx = i
  BY DEF PartialGetByIdx
<1>2. old.idx = i
  BY <1>1
<1>3. ASSUME g.odd = {} PROVE Within(part) /\ part.idx = i
  <2>1. Within(old)
    <3>1. CASE has # {}
      BY <1>1, <1>3, <3>1 DEF Writes, Live, Held
    <3>2. CASE has = {}
      <4>1. x + 0 <= FileSize
        BY <1>0, FileAssumption
      <4> QED BY <3>2, <4>1 DEF Within
    <3> QED BY <3>1, <3>2
  <2> HIDE DEF old
  <2>2. /\ DOMAIN part = {"idx", "off", "size"} /\ part.idx = i
        /\ part.off = (IF rel > old.off THEN old.off ELSE rel) /\ part.size = Greater(old.size, rel + n)
    BY <1>2, <2>1 DEF Within, PartialGrow
  <2>3. part.off \in Nat /\ part.size \in Nat /\ part.size \in {old.size, rel + n}
    BY <2>1, <2>2 DEF Within, Greater
  <2>4. x + old.size <= FileSize
    BY <1>2, <2>1 DEF Within
  <2>5. x + part.size <= FileSize
    <3> HIDE DEF x, part
    <3> QED BY <1>0, <2>3, <2>4
  <2> QED BY <2>2, <2>3, <2>5 DEF Within
<1>4. part.idx = i
  <2> HIDE DEF old
  <2> QED BY <1>2 DEF PartialGrow
<1>5. Writes(kept, sid, X, N, P) /\ kept.odd = g.odd /\ part \in kept.parts
  <2> HIDE DEF old, part
  <2> QED BY <1>2, <1>3, <1>4, StoreWrites
<1> HIDE DEF kept, part
<1>6. Writes(h, sid, X, N, P) /\ (h.odd = {} => g.odd = {} /\ part \in h.parts)
  <2>1. Writes(Odd(kept, "gap"), sid, X, N, P) /\ Odd(kept, "gap").odd # {}
    BY <1>5, OddWrites, FieldsOfFresh DEF Writes, Live, Odd
  <2> HIDE DEF has, old
  <2> QED BY <1>5, <2>1
<1> HIDE DEF h
<1>7. Writes(PartialWrite(h, sid, i, part, rel, n), sid, X, N, P \ {i})
  <2>1. CASE h.odd = {} /\ part.size - part.off >= PageSize
    <3>1. Within(part)
      BY <1>3, <1>6, <2>1
    <3>2. part.size >= PageSize /\ x + part.size <= FileSize
      BY <1>4, <2>1, <3>1, FileAssumption DEF Within
    <3>3. x + PageSize <= FileSize
      <4> HIDE DEF x
      <4> QED BY <1>0, <3>1, <3>2, FileAssumption DEF Within
    <3>4. PagesOf(x, PageSize) \subseteq {i}
      <4>1. 0 \in Nat /\ PageSize \in Nat /\ 0 + PageSize <= PageSize
        BY FileAssumption
      <4>2. PagesOf((i * PageSize) + 0, PageSize) \subseteq {i}
        BY <4>1, OnePage
      <4>3. x + 0 = x
        BY <1>0
      <4> QED BY <4>2, <4>3
    <3>5. \E p \in h.parts : p.idx = i
      BY <1>4, <1>6, <2>1
    <3>6. Writes(RawWrite(h, sid, x, PageSize, i), sid, X, N, P \ {i})
      BY <1>0, <1>6, <3>3, <3>4, <3>5, LiveRawWrite, FileAssumption
    <3> QED BY <2>1, <3>6 DEF PartialWrite, AlignedWrite
  <2>2. CASE ~(part.size - part.off >= PageSize)
    <3>1. x + rel \in Int /\ (x + rel) + n <= FileSize
      <4> HIDE DEF x
      <4> QED BY <1>0
    <3>2. PagesOf(x + rel, n) \subseteq {i}
      BY OnePage
    <3>3. Writes(RawWrite(h, sid, x + rel, n, -1), sid, X, N, P \ {i})
      BY <1>6, <3>1, <3>2, LiveRawWrite
    <3> QED BY <2>2, <3>3 DEF PartialWrite
  <2>3. CASE h.odd # {}
    <3>1. ASSUME NEW off, NEW m, NEW src
          PROVE  LET w == RawWrite(h, sid, off, m, src) IN DOMAIN w = Fields /\ w.odd = h.odd
      BY <1>6, FieldsOfFresh DEF Writes, Live, RawWrite, StatePendingAdd, Submit, EvKQFileMappedLock
    <3> DEFINE w == PartialWrite(h, sid, i, part, rel, n)
    <3>2. DOMAIN w = Fields /\ w.odd = h.odd
      BY <3>1 DEF PartialWrite, AlignedWrite
    <3> HIDE DEF w
    <3>3. Writes(w, sid, X, N, P \ {i})
      BY <2>3, <3>2 DEF Writes, Live, Has, Clear
    <3> QED BY <3>3 DEF w
  <2> QED BY <2>1, <2>2, <2>3
<1>8. Writes(g, sid, X, N, P \ {i})
  BY DEF Writes, Clear
<1>9. PartialDataProcess(g, sid, i, rel, n) \in {g, PartialWrite(h, sid, i, part, rel, n)}
  BY DEF PartialDataProcess, h, kept, part
<1> QED BY <1>7, <1>8, <1>9

(***************************************************************************)
(* PagesWrite cuts the bytes at the pages: what is before the whole pages, *)
(* the whole pages and what is after lie on different pages, all of them   *)
(* among those of the call.                                                *)
(***************************************************************************)
LEMMA LivePages ==
  ASSUME NEW g, NEW sid, NEW o \in Int, NEW n \in Nat \ {0}, NEW X, NEW N, o + n <= FileSize,
         Writes(g, sid, X, N, o \div PageSize .. (o + n - 1) \div PageSize)
  PROVE  Writes(PagesWrite(g, sid, o, n), sid, X, N, {})
<1> DEFINE rel == o % PageSize
           lower == o \div PageSize
           higher == (o + n) \div PageSize
           final == (o + n - 1) \div PageSize
           trail == IF rel = 0 THEN 0 ELSE IF PageSize - rel > n THEN n ELSE PageSize - rel
           rest == n - trail
           w == rest \div PageSize
           finish == rest % PageSize
           whole == n - trail - finish
           begin == IF trail > 0 THEN lower + 1 ELSE lower
           a == IF whole = 0 THEN g ELSE AlignedWrite(g, sid, begin, whole, -1)
           t == IF trail = 0 THEN a ELSE PartialDataProcess(a, sid, lower, rel, trail)
           z == IF finish = 0 THEN t ELSE PartialDataProcess(t, sid, higher, 0, finish)
           P == lower .. final
           Q == begin .. begin + w - 1
           A == P \ Q
           T == IF trail = 0 THEN A ELSE A \ {lower}
<1>1. /\ rel \in 0 .. PageSize - 1 /\ lower \in Int /\ higher \in Int /\ final \in Int
      /\ o = (lower * PageSize) + rel
  BY Divides, FileAssumption
<1>2. /\ trail \in 0 .. n /\ rest \in Nat /\ n = trail + rest
      /\ trail = 0 <=> rel = 0
      /\ rel + trail <= PageSize
      /\ rest > 0 => rel + trail = IF trail > 0 THEN PageSize ELSE 0
  <2> HIDE DEF rel
  <2> QED BY <1>1, FileAssumption
<1>3. /\ w \in Int /\ finish \in 0 .. PageSize - 1 /\ rest = (w * PageSize) + finish /\ w * PageSize \in Int
      /\ finish <= rest
  <2>1. rest \in Int /\ rest >= 0
    BY <1>2
  <2> HIDE DEF rest
  <2>2. w \in Int /\ finish \in 0 .. PageSize - 1 /\ rest = (w * PageSize) + finish /\ finish <= rest
    BY <2>1, Divides, FileAssumption
  <2> HIDE DEF w
  <2>3. w * PageSize \in Int
    BY <2>2, Multiple, FileAssumption
  <2> QED BY <2>2, <2>3
<1> HIDE DEF rel, trail, rest, w, finish, lower, higher, final
<1>4. w \in Nat
  <2>1. ASSUME w <= -1 PROVE FALSE
    <3>1. w * PageSize <= (-1) * PageSize
      BY <1>3, <2>1, Scales, FileAssumption
    <3>2. (-1) * PageSize = - PageSize
      BY FileAssumption
    <3> DEFINE y == w * PageSize
    <3>3. y <= - PageSize /\ y \in Int /\ rest = y + finish
      BY <1>3, <3>1, <3>2
    <3> HIDE DEF y
    <3> QED BY <1>2, <1>3, <3>3, FileAssumption
  <2> QED BY <1>3, <2>1
<1>5. whole = w * PageSize
  <2> DEFINE y == w * PageSize
  <2>1. y \in Int /\ rest = y + finish
    BY <1>3
  <2> HIDE DEF y
  <2>2. whole = y
    BY <1>2, <1>3, <2>1 DEF rest
  <2> QED BY <2>2 DEF y
<1>6. /\ begin \in Int /\ (rest > 0 => o + trail = begin * PageSize)
      /\ begin * PageSize \in Int /\ lower * PageSize \in Int
  <2> DEFINE x == lower * PageSize
  <2>1. begin \in Int /\ begin * PageSize \in Int /\ x \in Int
    BY <1>1, Multiple, FileAssumption
  <2>2. ASSUME rest > 0, trail > 0 PROVE o + trail = begin * PageSize
    <3> DEFINE y == begin * PageSize
    <3>1. y = x + (1 * PageSize) /\ 1 * PageSize = PageSize
      BY <1>1, <2>2, Spreads, FileAssumption
    <3>2. /\ y = x + PageSize /\ o = x + rel /\ rel + trail = PageSize
          /\ x \in Int /\ rel \in Int /\ trail \in Int
      BY <1>1, <1>2, <2>1, <2>2, <3>1
    <3> HIDE DEF x, y
    <3>3. o + trail = y
      BY <3>2
    <3> QED BY <3>3 DEF y
  <2>3. ASSUME rest > 0, trail = 0 PROVE o + trail = begin * PageSize
    <3>1. begin = lower
      BY <2>3
    <3>2. o = x + rel /\ rel = 0
      BY <1>1, <1>2, <2>3
    <3> QED BY <2>1, <2>3, <3>1, <3>2
  <2> QED BY <1>2, <2>1, <2>2, <2>3
<1>7. /\ (begin + w) * PageSize = (begin * PageSize) + (w * PageSize)
      /\ ((begin + w) + 1) * PageSize = ((begin + w) * PageSize) + PageSize
      /\ (begin + w) * PageSize \in Int /\ begin + w \in Int
  <2> HIDE DEF begin
  <2>1. (begin + w) * PageSize = (begin * PageSize) + (w * PageSize)
    BY <1>4, <1>6, Spreads, FileAssumption
  <2>2. begin + w \in Int /\ (begin + w) * PageSize \in Int
    BY <1>4, <1>6, Multiple, FileAssumption
  <2>3. ((begin + w) + 1) * PageSize = ((begin + w) * PageSize) + (1 * PageSize) /\ 1 * PageSize = PageSize
    BY <2>2, Spreads, FileAssumption
  <2> QED BY <2>1, <2>2, <2>3
\* The end of the call, counted from the page after the whole ones.
<1>8. ASSUME rest > 0 PROVE o + n = ((begin + w) * PageSize) + finish
  <2> DEFINE x == begin * PageSize
             y == w * PageSize
             u == (begin + w) * PageSize
  <2>1. o + trail = x /\ u = x + y /\ rest = y + finish /\ x \in Int /\ y \in Int /\ u \in Int
    BY <1>3, <1>6, <1>7, <1>8
  <2>2. n = trail + rest /\ trail \in Int /\ rest \in Int /\ finish \in Int
    BY <1>2, <1>3
  <2> HIDE DEF x, y, u
  <2>3. o + n = u + finish
    BY <2>1, <2>2
  <2> QED BY <2>3 DEF u
<1>9. lower <= final
  <2>1. o + n - 1 \in Int /\ o <= o + n - 1
    OBVIOUS
  <2> QED BY <2>1, PagesInOrder DEF lower, final
<1>10. ASSUME finish > 0 PROVE higher = begin + w /\ final = begin + w /\ rest > 0
  <2>1. rest > 0
    BY <1>2, <1>3, <1>10
  <2> DEFINE u == (begin + w) * PageSize
             v == ((begin + w) + 1) * PageSize
             q == begin + w
  <2>2. u \in Int /\ v = u + PageSize /\ o + n = u + finish /\ q \in Int
    BY <1>7, <1>8, <2>1
  <2>3. u <= o + n /\ o + n < v /\ u <= o + n - 1 /\ o + n - 1 < v /\ o + n \in Int /\ o + n - 1 \in Int
    <3> HIDE DEF u, v
    <3> QED BY <1>3, <1>10, <2>2, FileAssumption
  <2>4. q * PageSize <= o + n /\ o + n < (q + 1) * PageSize /\ q * PageSize <= o + n - 1
        /\ o + n - 1 < (q + 1) * PageSize
    BY <2>3
  <2> HIDE DEF q
  <2>5. q <= higher /\ higher < q + 1 /\ q <= final /\ final < q + 1
    BY <2>2, <2>3, <2>4, Between DEF higher, final
  <2>6. higher = q /\ final = q
    BY <1>1, <2>2, <2>5
  <2> QED BY <2>1, <2>6 DEF q
<1>11. ASSUME w > 0 PROVE begin + w - 1 <= final /\ rest > 0
  <2>1. rest > 0
    <3>1. 1 * PageSize <= w * PageSize /\ 1 * PageSize = PageSize
      BY <1>4, <1>11, Scales, FileAssumption
    <3> DEFINE y == w * PageSize
    <3>2. PageSize <= y /\ y \in Int /\ rest = y + finish
      BY <1>3, <3>1
    <3> HIDE DEF y
    <3> QED BY <1>3, <3>2, FileAssumption
  <2> DEFINE q == begin + w - 1
             u == (begin + w) * PageSize
             x == q * PageSize
  <2>2. q \in Int /\ x \in Int /\ u = x + PageSize
    <3>1. q \in Int /\ q + 1 = begin + w
      BY <1>4, <1>6
    <3> HIDE DEF q
    <3>2. (q + 1) * PageSize = x + (1 * PageSize) /\ 1 * PageSize = PageSize /\ x \in Int
      BY <3>1, Multiple, Spreads, FileAssumption
    <3> QED BY <3>1, <3>2
  <2>3. o + n = u + finish
    BY <1>8, <2>1
  <2>4. x <= o + n - 1
    <3> HIDE DEF x, u
    <3> QED BY <1>3, <2>2, <2>3, FileAssumption
  <2>5. q <= final
    <3>1. o + n - 1 \in Int /\ o + n - 1 < (final + 1) * PageSize
      BY PageBounds DEF final
    <3> HIDE DEF q
    <3>2. q <= final
      BY <1>1, <2>2, <2>4, <3>1, Between DEF final
    <3> QED BY <3>2
  <2> QED BY <2>1, <2>5
<1> HIDE DEF begin
<1>12. Writes(a, sid, X, N, A)
  <2>0. Writes(g, sid, X, N, P)
    BY DEF P, lower, final
  <2>1. CASE whole = 0
    <3> HIDE DEF P, Q, whole
    <3> QED BY <2>0, <2>1 DEF Writes, Clear
  <2>2. CASE whole # 0
    <3>1. w > 0
      <4>1. 0 * PageSize = 0
        BY FileAssumption
      <4> QED BY <1>4, <1>5, <2>2, <4>1
    <3>2. whole \in Nat \ {0} /\ rest > 0 /\ whole <= rest
      <4> DEFINE y == w * PageSize
      <4>1. whole = y /\ rest = y + finish /\ y \in Int /\ rest > 0 /\ whole # 0
        BY <1>3, <1>5, <1>11, <2>2, <3>1
      <4>2. 0 <= y
        <5>1. 0 * PageSize <= w * PageSize /\ 0 * PageSize = 0
          BY <1>4, Scales, FileAssumption
        <5> QED BY <5>1
      <4> HIDE DEF whole, y
      <4> QED BY <1>3, <4>1, <4>2
    <3>3. (begin * PageSize) + whole <= FileSize
      <4> DEFINE x == begin * PageSize
      <4>1. x \in Int /\ o + trail = x
        BY <1>6, <3>2
      <4> HIDE DEF x, whole
      <4>2. x + whole <= FileSize
        BY <1>2, <3>2, <4>1, FileAssumption
      <4> QED BY <4>2 DEF x
    <3>4. PagesOf(begin * PageSize, whole) \subseteq Q
      BY <1>4, <1>5, <1>6, WholePages
    <3>5. Q \subseteq P
      BY <1>1, <1>4, <1>6, <1>11, <3>1 DEF begin
    <3> HIDE DEF whole, Q, P
    <3>6. Writes(RawWrite(g, sid, begin * PageSize, whole, -1), sid, X, N, P \ Q)
      BY <1>6, <2>0, <3>2, <3>3, <3>4, <3>5, LiveRawWrite
    <3> QED BY <2>2, <3>6 DEF AlignedWrite, whole, Q, P
  <2> QED BY <2>1, <2>2
<1> HIDE DEF a
<1>13. Writes(t, sid, X, N, T)
  <2>1. CASE trail = 0
    BY <1>12, <2>1
  <2>2. CASE trail # 0
    <3>1. lower \in A
      BY <1>1, <1>2, <1>9, <2>2 DEF begin
    <3>2. rel + trail <= PageSize /\ trail \in Nat \ {0} /\ rel \in Nat
      BY <1>1, <1>2, <2>2
    <3>3. (lower * PageSize) + rel + trail <= FileSize
      <4> DEFINE x == lower * PageSize
      <4>1. o = x + rel /\ x \in Int
        BY <1>1, <1>6
      <4> HIDE DEF x
      <4>2. x + rel + trail <= FileSize
        BY <1>1, <1>2, <4>1, FileAssumption
      <4> QED BY <4>2 DEF x
    <3> HIDE DEF A
    <3> QED BY <1>1, <1>12, <2>2, <3>1, <3>2, <3>3, LivePartial
  <2> QED BY <2>1, <2>2
<1> HIDE DEF t
<1>14. Writes(z, sid, X, N, {})
  <2>1. CASE finish = 0
    BY <1>13, <2>1 DEF Writes, Clear
  <2>2. CASE finish # 0
    <3>1. higher \in T
      <4>1. higher = begin + w /\ higher = final
        BY <1>3, <1>10, <2>2
      <4>2. higher \in P
        BY <1>1, <1>9, <4>1
      <4>3. higher \notin Q
        BY <1>4, <1>6, <4>1
      <4>4. trail # 0 => higher # lower
        BY <1>1, <1>2, <1>4, <4>1 DEF begin
      <4> HIDE DEF P, Q
      <4> QED BY <4>2, <4>3, <4>4
    <3>2. finish \in Nat \ {0} /\ 0 + finish <= PageSize /\ 0 \in Nat
      BY <1>3, <2>2, FileAssumption
    <3>3. (higher * PageSize) + 0 + finish <= FileSize
      <4> DEFINE u == (begin + w) * PageSize
      <4>1. higher * PageSize = u /\ u \in Int /\ o + n = u + finish
        BY <1>3, <1>7, <1>8, <1>10, <2>2
      <4>2. u + 0 + finish <= FileSize
        <5> HIDE DEF u
        <5> QED BY <1>3, <4>1, FileAssumption
      <4> QED BY <4>1, <4>2
    <3> HIDE DEF T
    <3>4. Writes(PartialDataProcess(t, sid, higher, 0, finish), sid, X, N, T \ {higher})
      BY <1>1, <1>13, <3>1, <3>2, <3>3, LivePartial
    <3> QED BY <2>2, <3>4 DEF Writes, Clear
  <2> QED BY <2>1, <2>2
<1> HIDE DEF z
<1>15. PagesWrite(g, sid, o, n) = z
  BY DEF PagesWrite, z, t, a, begin, whole, finish, rest, trail, higher, lower, rel
<1> QED BY <1>14, <1>15

-----------------------------------------------------------------------------
(* A request is done.                                                      *)

\* What its callback leaves, while r is still in its slot: the file was freed with
\* its last reference, or it lives and r no longer refers to it.
Ends(h, r) ==
    /\ DOMAIN h = Fields
    /\ h.odd = {} => \/ /\ h.freed = TRUE /\ h.owner = FALSE /\ h.reqs = {r}
                        /\ h.late = FALSE /\ h.stale = FALSE
                     \/ Live(h, {r}, {}, 1)

(***************************************************************************)
(* The callback drops the reference of the request; it is the last one     *)
(* when the program has let the file go and no other request is there.     *)
(***************************************************************************)
LEMMA LiveUnlock ==
  ASSUME NEW g, NEW r, Live(g, {r}, {}, 0)
  PROVE  Ends(EvKQFileMappedUnlock(g), r)
<1> DEFINE h == EvKQFileMappedUnlock(g)
           k == [g EXCEPT !.refs = @ - 1]
<1>1. /\ DOMAIN k = Fields /\ k.reqs = g.reqs /\ k.parts = g.parts /\ k.states = g.states
      /\ k.owner = g.owner /\ k.freed = g.freed /\ k.gone = g.gone /\ k.late = g.late /\ k.stale = g.stale
      /\ k.calls = g.calls /\ k.odd = g.odd /\ k.refs = g.refs - 1
  BY FieldsOfFresh DEF Live
<1>2. h = IF g.refs > 0 THEN k ELSE InternalClean(k)
  BY DEF EvKQFileMappedUnlock
<1> HIDE DEF k, h
<1>3. DOMAIN h = Fields /\ h.odd = g.odd /\ h.owner = g.owner /\ h.reqs = g.reqs
      /\ h.late = g.late /\ h.stale = g.stale
  BY <1>1, <1>2, FieldsOfFresh DEF InternalClean
<1>4. ASSUME g.odd = {}
      PROVE  \/ h.freed = TRUE /\ h.owner = FALSE /\ h.reqs = {r} /\ h.late = FALSE /\ h.stale = FALSE
             \/ Live(h, {r}, {}, 1)
  <2>1. Slots(g) /\ Counts(g, 0) /\ Waits(g, {r}, {}) /\ Hushed(g) /\ Held(g)
    BY <1>4 DEF Live
  <2>2. Cardinality(g.reqs) \in Nat /\ r \in g.reqs /\ IsFiniteSet(g.reqs)
    BY <2>1, FS_CardinalityType DEF Slots, Waits
  <2>3. CASE g.refs > 0
    <3>1. h = k
      BY <1>2, <2>3
    <3>2. Counts(k, 1)
      BY <1>1, <2>1, <2>2, <2>3 DEF Counts
    <3>3. Slots(k) /\ Waits(k, {r}, {})
      BY <1>1, <2>1 DEF Slots, Waits
    <3>4. Hushed(k)
      BY <1>1, <2>1 DEF Hushed, Silent
    <3>5. Held(k)
      BY <1>1, <2>1 DEF Held, Holds
    <3> QED BY <1>1, <3>1, <3>2, <3>3, <3>4, <3>5 DEF Live
  <2>4. CASE ~(g.refs > 0)
    <3>1. Cardinality(g.reqs) # 0
      BY <2>2, FS_EmptySet
    <3>2. g.owner = FALSE /\ Cardinality(g.reqs) = 1
      BY <2>1, <2>2, <2>4, <3>1 DEF Counts
    <3>3. g.reqs = {r}
      BY <2>2, <3>2, FS_Singleton
    <3>4. h = InternalClean(k)
      BY <1>2, <2>4
    <3>5. h.freed = TRUE
      BY <1>1, <3>4, FieldsOfFresh DEF InternalClean
    <3> QED BY <1>3, <2>1, <3>2, <3>3, <3>5 DEF Hushed, Held
  <2> QED BY <2>3, <2>4
<1> QED BY <1>3, <1>4 DEF Ends, h

(***************************************************************************)
(* An odd use ends a request too.                                          *)
(***************************************************************************)
LEMMA EndsOdd ==
  ASSUME NEW g, NEW r, NEW why, DOMAIN g = Fields
  PROVE  Ends(Odd(g, why), r)
BY FieldsOfFresh DEF Ends, Odd

(***************************************************************************)
(* A new request of which no call waits takes the reference over.          *)
(***************************************************************************)
LEMMA EndsHandedOver ==
  ASSUME NEW g, NEW r, NEW q, Live(g, {r}, {}, 0), q.kind \notin Awaited, g.odd = {} => New(g, q)
  PROVE  Ends(SubmitUnlocked(g, q), r)
<1>1. Live(SubmitUnlocked(g, q), {r}, {}, 0 + 1)
  BY LiveSubmit
<1> QED BY <1>1 DEF Ends, Live

(***************************************************************************)
(* What a request may be submitted to depends on the slots and partials.   *)
(***************************************************************************)
LEMMA NewCalm ==
  ASSUME NEW g, NEW h, NEW r, New(g, r), Calm(g, h)
  PROVE  New(h, r)
BY DEF New, Calm, Holds

(***************************************************************************)
(* A request of which no call waits need not be looked for.                *)
(***************************************************************************)
LEMMA LiveLoose ==
  ASSUME NEW g, NEW r, NEW N, NEW d, Live(g, {}, N, d), g.odd = {} => r \in g.reqs
  PROVE  Live(g, {r}, N, d)
BY DEF Live, Waits

(***************************************************************************)
(* The end of a write of metadata: the next write takes its reference.     *)
(***************************************************************************)
LEMMA EndsMeta ==
  ASSUME NEW g, NEW r, Live(g, {}, {}, 0), g.odd = {} => r \in g.reqs
  PROVE  Ends(AIOWriteMetaRawDataFinishCB(g, r), r) /\ Ends(AIOWriteMetaAuxDataFinishCB(g, r), r)
<1>1. Live(g, {r}, {}, 0)
  BY LiveLoose
<1> DEFINE meta == [g EXCEPT !.rawWriting = FALSE]
           aux == [g EXCEPT !.auxWriting = FALSE]
           told == [g EXCEPT !.lastRaw = None]
           done == [g EXCEPT !.lastAux = FALSE]
           first == Request(g, "meta", 0, 1, -1)
           next == [first EXCEPT !.snap = g.lastRaw]
           more == Request(g, "aux", 0, 1, -1)
<1>2. Calm(g, meta) /\ Calm(g, aux) /\ Calm(g, told) /\ Calm(g, done)
  BY FieldsOfFresh DEF Calm, Live
<1>3. told.odd = g.odd /\ done.odd = g.odd
  BY FieldsOfFresh DEF Live
<1> HIDE DEF meta, aux, told, done
<1>4. Live(meta, {r}, {}, 0) /\ Live(aux, {r}, {}, 0) /\ Live(told, {r}, {}, 0) /\ Live(done, {r}, {}, 0)
  BY <1>1, <1>2, LiveCalm
<1>5. /\ Ends(EvKQFileMappedUnlock(meta), r) /\ Ends(EvKQFileMappedUnlock(CloseFiles(meta)), r)
      /\ Ends(EvKQFileMappedUnlock(aux), r) /\ Ends(EvKQFileMappedUnlock(CloseFiles(aux)), r)
  BY <1>4, LiveOpen, LiveUnlock
<1>6. Ends(Odd(told, "refused"), r) /\ Ends(Odd(done, "refused"), r)
  BY <1>4, EndsOdd DEF Live
<1>7. ASSUME ~Full(g) PROVE Ends(SubmitUnlocked(told, next), r) /\ Ends(SubmitUnlocked(done, more), r)
  <2>1. ASSUME g.odd = {} PROVE New(g, first) /\ New(g, more)
    BY <1>7, <2>1, RequestNew DEF Live
  <2>2. next.kind = "meta" /\ more.kind = "aux"
    BY DEF Request
  <2> HIDE DEF more
  <2>3. ASSUME g.odd = {} PROVE New(g, next)
    BY <2>1, <2>3, SnapshotNew
  <2> HIDE DEF first, next
  <2>4. g.odd = {} => New(told, next) /\ New(done, more)
    BY <1>2, <2>1, <2>3, NewCalm
  <2> QED BY <1>3, <1>4, <2>2, <2>4, EndsHandedOver DEF Awaited
<1> HIDE DEF first, more
<1>8. Ends(AIOWriteMetaRawDataFinishCB(g, r), r)
  <2>1. AIOWriteMetaRawDataFinishCB(g, r) =
          IF g.lastRaw # None THEN IF Full(g) THEN Odd(told, "refused") ELSE SubmitUnlocked(told, next)
          ELSE EvKQFileMappedUnlock(IF g.closeReq THEN CloseFiles(meta) ELSE meta)
    BY DEF AIOWriteMetaRawDataFinishCB, FinishMeta, meta, told, next, first
  <2> HIDE DEF next
  <2> QED BY <1>5, <1>6, <1>7, <2>1
<1>9. Ends(AIOWriteMetaAuxDataFinishCB(g, r), r)
  <2>1. AIOWriteMetaAuxDataFinishCB(g, r) =
          IF g.lastAux THEN IF Full(g) THEN Odd(done, "refused") ELSE SubmitUnlocked(done, more)
          ELSE EvKQFileMappedUnlock(IF g.closeReq THEN CloseFiles(aux) ELSE aux)
    BY DEF AIOWriteMetaAuxDataFinishCB, aux, done, more
  <2> HIDE DEF next
  <2> QED BY <1>5, <1>6, <1>7, <2>1
<1> QED BY <1>8, <1>9

(***************************************************************************)
(* A page that begins or goes on in a write, and ends in it, is one of its *)
(* pages.                                                                  *)
(***************************************************************************)
LEMMA PageOfWrite ==
  ASSUME NEW off \in Int, NEW n \in Nat \ {0}, NEW i \in Int,
         off \div PageSize <= i, i < (off + n) \div PageSize
  PROVE  i \in PagesOf(off, n)
<1> DEFINE low == off \div PageSize
           top == (off + n) \div PageSize
<1>1. CASE i = low
  <2>1. off \in off .. off + n - 1
    OBVIOUS
  <2> QED BY <1>1, <2>1 DEF PagesOf
<1>2. CASE i # low
  <2> DEFINE x == i * PageSize
             y == (i + 1) * PageSize
  <2>1. x \in Int /\ y = x + PageSize /\ x \div PageSize = i
    <3>1. x \in Int /\ y = x + (1 * PageSize) /\ 1 * PageSize = PageSize /\ x \div PageSize = i
      BY Multiple, Spreads, FileAssumption
    <3> QED BY <3>1
  <2>2. low \in Int /\ top \in Int /\ off < (low + 1) * PageSize /\ top * PageSize <= off + n
    BY PageBounds
  <2>3. (low + 1) * PageSize \in Int /\ top * PageSize \in Int
    BY <2>2, Multiple, FileAssumption
  <2>4. (low + 1) * PageSize <= x /\ y <= top * PageSize
    <3>1. low \in Int /\ top \in Int /\ low + 1 <= i /\ i + 1 <= top
      BY <1>2, <2>2
    <3> HIDE DEF low, top
    <3> QED BY <3>1, Scales, FileAssumption
  <2>5. x \in off .. off + n - 1
    <3> DEFINE a == (low + 1) * PageSize
               b == top * PageSize
    <3>1. a \in Int /\ b \in Int /\ off < a /\ b <= off + n /\ a <= x /\ y <= b
      BY <2>2, <2>3, <2>4
    <3> HIDE DEF a, b, x, y
    <3> QED BY <2>1, <3>1, FileAssumption
  <2> QED BY <2>1, <2>5 DEF PagesOf
<1> QED BY <1>1, <1>2

(***************************************************************************)
(* The pages that are marked when a write is done are its own: no partial  *)
(* that another write is written from is dropped with them.                *)
(***************************************************************************)
LEMMA LiveMark ==
  ASSUME NEW g, NEW r, NEW d, Live(g, {}, {}, d), r.kind = "raw", r.ret # "none", g.odd = {} => r \in g.reqs
  PROVE  Live(MarkWritten(g, r), {}, {}, d) /\ MarkWritten(g, r).reqs = g.reqs /\ MarkWritten(g, r).odd = g.odd
<1> DEFINE pages == {i \in r.off \div PageSize .. (r.off + r.n) \div PageSize - 1 :
                       i < r.off \div PageSize + r.n \div PageSize}
           h == MarkWritten(g, r)
<1>1. /\ DOMAIN h = Fields /\ h.reqs = g.reqs /\ h.parts = {p \in g.parts : p.idx \notin pages} /\ h.states = g.states
      /\ h.owner = g.owner /\ h.freed = g.freed /\ h.gone = g.gone /\ h.late = g.late
      /\ h.stale = g.stale /\ h.calls = g.calls /\ h.odd = g.odd /\ h.refs = g.refs
  BY FieldsOfFresh DEF Live, MarkWritten, PartialDrop
<1> HIDE DEF h
<1>2. ASSUME g.odd = {} PROVE Slots(h) /\ Counts(h, d) /\ Waits(h, {}, {}) /\ Hushed(h) /\ Held(h)
  <2>1. Slots(g) /\ Counts(g, d) /\ Waits(g, {}, {}) /\ Hushed(g) /\ Held(g) /\ r \in g.reqs
    BY <1>2 DEF Live
  <2>2. Slots(h) /\ Counts(h, d) /\ Waits(h, {}, {})
    BY <1>1, <2>1 DEF Slots, Counts, Waits
  <2>3. Hushed(h)
    BY <1>1, <2>1 DEF Hushed, Silent
  <2>4. Fits(r)
    BY <2>1 DEF Held
  <2>5. r.off \in Int /\ r.n \in Nat \ {0} /\ r.off + r.n <= FileSize
    BY <2>4 DEF Fits
  <2>6. ASSUME NEW i \in pages PROVE i \in PagesOf(r.off, r.n) /\ i < FileSize \div PageSize
    <3>1. r.off \div PageSize \in Int /\ (r.off + r.n) \div PageSize \in Int /\ FileSize \div PageSize \in Int
          /\ (r.off + r.n) \div PageSize <= FileSize \div PageSize
      BY <2>5, PageBounds, PagesInOrder, FileAssumption
    <3>2. i \in Int /\ r.off \div PageSize <= i /\ i < (r.off + r.n) \div PageSize
      BY <2>6, <3>1
    <3>3. i < FileSize \div PageSize
      BY <3>1, <3>2
    <3>4. i \in PagesOf(r.off, r.n)
      BY <2>5, <3>2, PageOfWrite
    <3> QED BY <3>3, <3>4
  <2> HIDE DEF pages
  <2>7. ASSUME NEW q \in g.reqs, q.kind \in {"raw", "unlock"}, q.ret = "none" PROVE Holds(h, q)
    <3>1. q # r /\ Fits(q) /\ Holds(g, q)
      BY <2>1, <2>7 DEF Held
    <3>2. ASSUME q.src \in pages, q.src # -1 PROVE FALSE
      <4>1. CASE q.kind = "unlock"
        <5>1. q.src = FileSize \div PageSize /\ FileSize \div PageSize \in Int
          BY <3>1, <4>1, PageBounds, FileAssumption DEF Fits
        <5>2. q.src < FileSize \div PageSize
          BY <2>6, <3>2
        <5> QED BY <5>1, <5>2
      <4>2. CASE q.kind = "raw"
        <5>1. q.src \in Int /\ q.off = q.src * PageSize /\ q.off \in Int /\ q.n \in Nat \ {0}
          BY <3>1, <3>2, <4>2 DEF Fits
        <5>2. q.off \div PageSize = q.src
          BY <5>1, Multiple, FileAssumption
        <5>3. q.off \in q.off .. q.off + q.n - 1
          BY <5>1
        <5>4. q.src \in PagesOf(q.off, q.n)
          BY <5>2, <5>3 DEF PagesOf
        <5>5. PagesOf(r.off, r.n) \cap PagesOf(q.off, q.n) = {}
          BY <2>1, <3>1, <4>2 DEF Held
        <5> QED BY <2>6, <3>2, <5>4, <5>5
      <4> QED BY <2>7, <4>1, <4>2
    <3> QED BY <1>1, <3>1, <3>2 DEF Holds
  <2>8. Held(h)
    BY <1>1, <2>1, <2>7 DEF Held
  <2> QED BY <2>2, <2>3, <2>8
<1> QED BY <1>1, <1>2 DEF Live, h

(***************************************************************************)
(* The last page is written from its partial, which is there.              *)
(***************************************************************************)
LEMMA LiveCheckLastBlock ==
  ASSUME NEW g, NEW N, Live(g, {}, N, 0)
  PROVE  Live(EvKQFileMappedCheckLastBlock(g, FileSize), {}, N, 0)
<1> DEFINE i == FileSize \div PageSize
           last == FileSize % PageSize
           has == PartialGetByIdx(g, i)
           r == Request(g, "unlock", FileSize - last, last, i)
           h == Submit(g, r)
           k == [h EXCEPT !.bits = @ \cup {i}, !.higher = Greater(@, i), !.early = @ \cup {i}]
<1>1. /\ DOMAIN r = RequestFields /\ r.kind = "unlock" /\ r.src = i /\ r.ret = "none"
      /\ r.cancelled = FALSE /\ r.id = FreeId(g)
  BY DEF Request, RequestFields
<1> HIDE DEF r
<1>2. ASSUME ~Full(g), has # {} PROVE Live(k, {}, N, 0)
  <2>1. ASSUME g.odd = {} PROVE New(g, r)
    <3>1. Slots(g)
      BY <2>1 DEF Live
    <3>2. r.id \in 0 .. MaxReq - 1 /\ \A q \in g.reqs : q.id # r.id
      BY <1>1, <1>2, <3>1, FreeSlot
    <3>3. Fits(r) /\ Holds(g, r)
      BY <1>1, <1>2 DEF Fits, Holds, PartialGetByIdx
    <3> QED BY <1>1, <3>2, <3>3 DEF New
  <2>2. Live(h, {}, N, 0)
    BY <1>1, <2>1, LiveSubmit DEF Awaited
  <2> HIDE DEF h, i
  <2>3. Calm(h, k)
    BY <2>2, FieldsOfFresh DEF Calm, Live
  <2> QED BY <2>2, <2>3, LiveCalm
<1> HIDE DEF k
<1>3. CASE has = {} \/ Full(g)
  <2>1. EvKQFileMappedCheckLastBlock(g, FileSize) = g
    BY <1>3 DEF EvKQFileMappedCheckLastBlock
  <2> QED BY <2>1
<1>4. EvKQFileMappedCheckLastBlock(g, FileSize) \in {g, k}
  BY DEF EvKQFileMappedCheckLastBlock, k, h, r
<1> QED BY <1>2, <1>3, <1>4

(***************************************************************************)
(* A file that is complete has its metadata written; an end that is        *)
(* appended is an odd use.                                                 *)
(***************************************************************************)
LEMMA LiveCompleted ==
  ASSUME NEW g, NEW X, NEW N, NEW d \in Nat, Live(g, X, N, d)
  PROVE  Live(EvKQFileMappedCompleted(g), X, N, d)
<1> DEFINE last == CHOOSE p \in g.parts : TRUE
           r == Request(g, "unlock", g.cur, last.size, last.idx)
           u == Submit(g, r)
           h == Odd(u, "appended")
           k == [h EXCEPT !.bits = @ \cup {last.idx}, !.complete = TRUE]
           b == [g EXCEPT !.wants = TRUE]
           c == [g EXCEPT !.complete = TRUE]
<1>1. Live(b, X, N, d) /\ Live(MetaDataUpdateAll(c), X, N, d)
  <2>1. Calm(g, b) /\ Calm(g, c)
    BY FieldsOfFresh DEF Calm, Live
  <2> HIDE DEF b, c
  <2> QED BY <2>1, LiveCalm, LiveClose
<1>2. Live(MetaDataUpdateAll(k), X, N, d)
  <2> HIDE DEF r
  <2>1. DOMAIN u = Fields
    BY FieldsOfFresh DEF Live, Submit, EvKQFileMappedLock
  <2> HIDE DEF u
  <2>2. DOMAIN h = Fields /\ h.odd # {}
    BY <2>1, FieldsOfFresh DEF Odd
  <2> HIDE DEF h, last
  <2>3. DOMAIN k = Fields /\ k.odd # {}
    BY <2>2, FieldsOfFresh
  <2> HIDE DEF k
  <2>4. Live(k, X, N, d)
    BY <2>3 DEF Live
  <2> QED BY <2>4, LiveClose
<1> HIDE DEF b, c, k
<1>3. EvKQFileMappedCompleted(g) \in {g, b, MetaDataUpdateAll(c), MetaDataUpdateAll(k)}
  BY DEF EvKQFileMappedCompleted, b, c, k, h, u
<1> QED BY <1>1, <1>2, <1>3

(***************************************************************************)
(* The end of a write of data.                                             *)
(***************************************************************************)
LEMMA EndsRaw ==
  ASSUME NEW g0, NEW r, NEW re, Live(g0, {}, {}, 0), r.kind = "raw", r.ret # "none", g0.odd = {} => r \in g0.reqs
  PROVE  Ends(AIOWriteRawDataFinishCB(g0, r, re), r)
<1> DEFINE g == [g0 EXCEPT !.rawPending = @ - 1]
           bad == CheckFinish(Odd(g, "failed"), r, re)
           m == MarkWritten(g, r)
           h == CheckFinish(m, r, re)
           e == EvKQFileMappedCompleted(h)
           c == [e EXCEPT !.wants = FALSE]
<1>1. Live(g, {}, {}, 0) /\ (g.odd = {} => r \in g.reqs)
  <2>1. Calm(g0, g)
    BY FieldsOfFresh DEF Calm, Live
  <2>2. g.odd = g0.odd /\ g.reqs = g0.reqs
    BY FieldsOfFresh DEF Live
  <2> HIDE DEF g
  <2> QED BY <2>1, <2>2, LiveCalm
<1>2. Live(bad, {r}, {}, 0)
  <2> HIDE DEF g
  <2>1. Live(Odd(g, "failed"), {}, {}, 0) /\ Odd(g, "failed").odd # {}
    BY <1>1, LiveOdd, FieldsOfFresh DEF Live, Odd
  <2> QED BY <2>1, LiveCheckFinish DEF Awaited
<1>3. Live(h, {r}, {}, 0)
  <2> HIDE DEF g
  <2>1. Live(m, {}, {}, 0) /\ (m.odd = {} => r \in m.reqs)
    BY <1>1, LiveMark
  <2> HIDE DEF m
  <2> QED BY <2>1, LiveCheckFinish DEF Awaited
<1> HIDE DEF bad, h
<1>4. Live(e, {r}, {}, 0)
  BY <1>3, LiveCompleted
<1> HIDE DEF e
<1>5. Live(c, {r}, {}, 0) /\ Live(Odd(c, "forgotten"), {r}, {}, 0)
  <2>1. Calm(e, c)
    BY <1>4, FieldsOfFresh DEF Calm, Live
  <2> HIDE DEF c
  <2>2. Live(c, {r}, {}, 0)
    BY <1>4, <2>1, LiveCalm
  <2> QED BY <2>2, LiveOdd DEF Live
<1> HIDE DEF c
<1>6. Live(MetaDataUpdateAll(h), {r}, {}, 0)
  BY <1>3, LiveClose
<1>7. AIOWriteRawDataFinishCB(g0, r, re)
        \in {EvKQFileMappedUnlock(x) : x \in {bad, h, MetaDataUpdateAll(h), c, Odd(c, "forgotten")}}
  BY DEF AIOWriteRawDataFinishCB, h, bad, c, e
<1> QED BY <1>2, <1>3, <1>5, <1>6, <1>7, LiveUnlock

(***************************************************************************)
(* The end of a read, of metadata or data, and of a write of a last page.  *)
(***************************************************************************)
LEMMA EndsOthers ==
  ASSUME NEW g, NEW r, NEW re, Live(g, {}, {}, 0), g.odd = {} => r \in g.reqs
  PROVE  /\ r.kind \in Awaited => /\ Ends(AIOReadRawDataFinishCB(g, r, re), r)
                                  /\ Ends(AIOReadMetaDataFinishCB(g, r, re), r)
                                  /\ Ends(AIOReadMetaAuxDataFinishCB(g, r, re), r)
         /\ r.kind \notin Awaited => Ends(AIOGenericUnlockCB(g, r), r)
<1>1. ASSUME NEW a, NEW h, Ends(h, r) PROVE Ends(ClosesNothing(a, h), r)
  BY <1>1, EndsOdd DEF ClosesNothing, Ends
<1> DEFINE loaded == [g EXCEPT !.bits = g.saved.bits, !.higher = g.saved.higher, !.cur = g.saved.cur,
                               !.complete = g.saved.complete]
           read == IF r.ret = "fail" THEN Odd(g, "unloaded") ELSE loaded
<1>2. Live(read, {}, {}, 0) /\ (read.odd = {} => r \in read.reqs)
  <2>1. Calm(g, loaded) /\ loaded.odd = g.odd
    BY FieldsOfFresh DEF Calm, Live
  <2> HIDE DEF loaded
  <2>2. Live(loaded, {}, {}, 0) /\ (loaded.odd = {} => r \in loaded.reqs)
    BY <2>1, LiveCalm DEF Calm
  <2>3. Live(Odd(g, "unloaded"), {}, {}, 0) /\ Odd(g, "unloaded").odd # {}
    BY LiveOdd, FieldsOfFresh DEF Live, Odd
  <2> QED BY <2>2, <2>3
<1> HIDE DEF read
<1>3. ASSUME r.kind \in Awaited
      PROVE  /\ Ends(EvKQFileMappedUnlock(CheckFinish(g, r, re)), r)
             /\ Ends(EvKQFileMappedUnlock(CheckFinish(read, r, re)), r)
  BY <1>2, <1>3, LiveCheckFinish, LiveUnlock
<1>4. Ends(EvKQFileMappedUnlock(g), r)
  BY LiveLoose, LiveUnlock
<1> QED
  BY <1>1, <1>3, <1>4
  DEF AIOReadRawDataFinishCB, AIOReadMetaDataFinishCB, AIOReadMetaAuxDataFinishCB, AIOGenericUnlockCB, read

\* The inductive invariant: unless there was an odd use, either the file was freed
\* with its last reference, or it lives.
Lives(g) ==
    /\ DOMAIN g = Fields
    /\ g.odd = {} => \/ /\ g.freed = TRUE /\ g.owner = FALSE /\ g.reqs = {}
                        /\ g.late = FALSE /\ g.stale = FALSE
                     \/ Live(g, {}, {}, 0)

(***************************************************************************)
(* A request that is done leaves its slot.                                 *)
(***************************************************************************)
LEMMA RequestLeaves ==
  ASSUME NEW h, NEW r, Ends(h, r)
  PROVE  Lives([h EXCEPT !.reqs = @ \ {r}])
<1> DEFINE k == [h EXCEPT !.reqs = @ \ {r}]
<1>1. /\ DOMAIN k = Fields /\ k.reqs = h.reqs \ {r} /\ k.parts = h.parts /\ k.states = h.states
      /\ k.owner = h.owner /\ k.freed = h.freed /\ k.gone = h.gone /\ k.late = h.late /\ k.stale = h.stale
      /\ k.calls = h.calls /\ k.odd = h.odd /\ k.refs = h.refs
  BY FieldsOfFresh DEF Ends
<1> HIDE DEF k
<1>2. ASSUME h.odd = {}, Live(h, {r}, {}, 1) PROVE Live(k, {}, {}, 0)
  <2>1. Slots(h) /\ Counts(h, 1) /\ Waits(h, {r}, {}) /\ Hushed(h) /\ Held(h)
    BY <1>2 DEF Live
  <2>2. r \in h.reqs /\ IsFiniteSet(h.reqs)
    BY <2>1 DEF Slots, Waits
  <2>3. IsFiniteSet(k.reqs) /\ Cardinality(k.reqs) = Cardinality(h.reqs) - 1 /\ Cardinality(h.reqs) \in Nat
    BY <1>1, <2>2, FS_RemoveElement, FS_CardinalityType
  <2>4. Counts(k, 0)
    BY <1>1, <2>1, <2>3 DEF Counts
  <2>5. Slots(k) /\ Waits(k, {}, {})
    BY <1>1, <2>1, <2>3 DEF Slots, Waits
  <2>6. Hushed(k)
    BY <1>1, <2>1 DEF Hushed, Silent
  <2>7. Held(k)
    BY <1>1, <2>1 DEF Held, Holds
  <2> QED BY <1>1, <2>4, <2>5, <2>6, <2>7 DEF Live
<1> QED BY <1>1, <1>2 DEF Ends, Lives, k

(***************************************************************************)
(* The loop finishes a request.                                            *)
(***************************************************************************)
LEMMA LiveFinish ==
  ASSUME NEW r \in f.reqs, NEW re, Lives(f), Finish(r, re)
  PROVE  Lives(f')
<1> DEFINE cb == CASE r.kind = "raw" -> AIOWriteRawDataFinishCB(f, r, re)
                   [] r.kind = "read" -> AIOReadRawDataFinishCB(f, r, re)
                   [] r.kind = "meta" -> AIOWriteMetaRawDataFinishCB(f, r)
                   [] r.kind = "aux" -> AIOWriteMetaAuxDataFinishCB(f, r)
                   [] r.kind = "load" -> AIOReadMetaDataFinishCB(f, r, re)
                   [] r.kind = "loadaux" -> AIOReadMetaAuxDataFinishCB(f, r, re)
                   [] OTHER -> AIOGenericUnlockCB(f, r)
           g == IF r.cancelled THEN f ELSE cb
<1>1. r.ret # "none" /\ f' = [g EXCEPT !.reqs = @ \ {r}]
  BY DEF Finish
<1>2. Live(f, {}, {}, 0)
  BY DEF Lives, Live
<1>3. Ends(cb, r)
  <2>1. r.kind = "raw" => Ends(AIOWriteRawDataFinishCB(f, r, re), r)
    BY <1>1, <1>2, EndsRaw
  <2>2. /\ r.kind \in Awaited => /\ Ends(AIOReadRawDataFinishCB(f, r, re), r)
                                 /\ Ends(AIOReadMetaDataFinishCB(f, r, re), r)
                                 /\ Ends(AIOReadMetaAuxDataFinishCB(f, r, re), r)
        /\ r.kind \notin Awaited => Ends(AIOGenericUnlockCB(f, r), r)
    BY <1>2, EndsOthers
  <2>3. Ends(AIOWriteMetaRawDataFinishCB(f, r), r) /\ Ends(AIOWriteMetaAuxDataFinishCB(f, r), r)
    BY <1>2, EndsMeta
  <2> QED BY <2>1, <2>2, <2>3 DEF Awaited
<1> HIDE DEF cb
<1>4. Ends(g, r)
  <2>1. CASE f.odd = {}
    <3>1. ~r.cancelled
      BY <1>2, <2>1 DEF Live, Slots
    <3> QED BY <1>3, <3>1
  <2>2. CASE f.odd # {}
    BY <1>3, <2>2 DEF Ends, Lives
  <2> QED BY <2>1, <2>2
<1> HIDE DEF g
<1> QED BY <1>1, <1>4, RequestLeaves

(***************************************************************************)
(* A worker executes a request: it stays in its slot, and what it is       *)
(* written from is there.                                                  *)
(***************************************************************************)
LEMMA LiveExecute ==
  ASSUME NEW r \in f.reqs, NEW ret \in {"ok", "fail"}, Lives(f), Execute(r, ret)
  PROVE  Lives(f')
<1> DEFINE done == [r EXCEPT !.ret = ret]
           g == f'
<1>1. /\ DOMAIN g = Fields /\ f.odd \subseteq g.odd
      /\ g.reqs = (f.reqs \ {r}) \cup {done} /\ g.parts = f.parts /\ g.states = f.states
      /\ g.owner = f.owner /\ g.freed = f.freed /\ g.gone = f.gone /\ g.late = f.late
      /\ g.calls = f.calls /\ g.refs = f.refs
      /\ g.stale = (f.stale \/ (r.kind \in {"raw", "unlock"} /\ ~Holds(f, r)))
  BY FieldsOfFresh DEF Lives, Execute
<1>2. r.ret = "none"
  BY DEF Execute
<1> HIDE DEF g
<1>3. ASSUME g.odd = {} PROVE Live(g, {}, {}, 0)
  <2>1. Slots(f) /\ Counts(f, 0) /\ Waits(f, {}, {}) /\ Hushed(f) /\ Held(f) /\ f.odd = {}
    BY <1>1, <1>3 DEF Lives, Live
  <2>2. /\ DOMAIN done = RequestFields /\ done.id = r.id /\ done.kind = r.kind /\ done.off = r.off
        /\ done.n = r.n /\ done.src = r.src /\ done.cancelled = r.cancelled /\ done.ret = ret
    BY <2>1 DEF Slots, RequestFields
  <2> HIDE DEF done
  <2>3. done \notin f.reqs
    BY <1>2, <2>1, <2>2 DEF Slots
  <2>4. IsFiniteSet(g.reqs) /\ Cardinality(g.reqs) = Cardinality(f.reqs)
    <3> DEFINE R == f.reqs \ {r}
    <3>1. IsFiniteSet(f.reqs) /\ Cardinality(f.reqs) \in Nat
      BY <2>1, FS_CardinalityType DEF Slots
    <3>2. IsFiniteSet(R) /\ Cardinality(R) = Cardinality(f.reqs) - 1
      BY <3>1, FS_RemoveElement
    <3>3. done \notin R
      BY <2>3
    <3> HIDE DEF R
    <3>4. IsFiniteSet(R \cup {done}) /\ Cardinality(R \cup {done}) = Cardinality(R) + 1
      BY <3>2, <3>3, FS_AddElement
    <3> QED BY <1>1, <3>1, <3>2, <3>4 DEF R
  <2>5. Slots(g)
    BY <1>1, <2>1, <2>2, <2>4 DEF Slots
  <2>6. Counts(g, 0)
    BY <1>1, <2>1, <2>4 DEF Counts
  <2>7. Waits(g, {}, {})
    BY <1>1, <2>1, <2>2 DEF Waits
  <2>8. Hushed(g)
    BY <1>1, <2>1 DEF Hushed, Silent
  <2>9. Held(g)
    <3>1. g.stale = FALSE
      BY <1>1, <1>2, <2>1 DEF Held
    <3>2. \A q \in g.reqs : Fits(q) /\ (q.kind \in {"raw", "unlock"} /\ q.ret = "none" => Holds(g, q))
      BY <1>1, <2>1, <2>2 DEF Held, Fits, Holds
    <3>3. \A q \in g.reqs \ {done} : q \in f.reqs /\ q # r
      BY <1>1
    <3>4. \A p, q \in g.reqs : p.kind = "raw" /\ q.kind = "raw" /\ p # q
                                 => PagesOf(p.off, p.n) \cap PagesOf(q.off, q.n) = {}
      BY <2>1, <2>2, <3>3 DEF Held
    <3> QED BY <1>1, <2>1, <3>1, <3>2, <3>4 DEF Held
  <2> QED BY <1>1, <2>5, <2>6, <2>7, <2>8, <2>9 DEF Live
<1> QED BY <1>1, <1>3 DEF Lives, g

-----------------------------------------------------------------------------
(* The calls of the program.                                               *)

(***************************************************************************)
(* The call that is being made is counted.                                 *)
(***************************************************************************)
LEMMA LiveDone ==
  ASSUME NEW g, Live(g, {}, {f.calls}, 0), Do(g)
  PROVE  Lives(f')
<1> DEFINE h == f'
<1>1. /\ DOMAIN h = Fields /\ h.reqs = g.reqs /\ h.parts = g.parts /\ h.states = g.states
      /\ h.owner = g.owner /\ h.freed = g.freed /\ h.gone = g.gone /\ h.late = g.late /\ h.stale = g.stale
      /\ h.calls = f.calls + 1 /\ h.odd = g.odd /\ h.refs = g.refs
  BY FieldsOfFresh DEF Live, Do
<1> HIDE DEF h
<1>2. ASSUME h.odd = {} PROVE Live(h, {}, {}, 0)
  <2>1. Slots(g) /\ Counts(g, 0) /\ Waits(g, {}, {f.calls}) /\ Hushed(g) /\ Held(g)
    BY <1>1, <1>2 DEF Live
  <2>2. Slots(h) /\ Counts(h, 0)
    BY <1>1, <2>1 DEF Slots, Counts
  <2>3. Waits(h, {}, {})
    <3>1. f.calls \in Nat /\ f.calls = g.calls
      BY <2>1 DEF Waits
    <3>2. \A s \in h.states : s.sid \in 0 .. h.calls - 1
      BY <1>1, <2>1, <3>1 DEF Waits
    <3> QED BY <1>1, <2>1, <3>1, <3>2 DEF Waits
  <2>4. Hushed(h)
    BY <1>1, <2>1 DEF Hushed, Silent
  <2>5. Held(h)
    BY <1>1, <2>1 DEF Held, Holds
  <2> QED BY <1>1, <2>2, <2>3, <2>4, <2>5 DEF Live
<1> QED BY <1>1, <1>2 DEF Lives, h

(***************************************************************************)
(* The number of the call that is about to be made may be named: no request *)
(* waits for a state of that number yet.                                   *)
(***************************************************************************)
LEMMA LiveWiden ==
  ASSUME NEW g, NEW X, NEW d, Live(g, X, {}, d)
  PROVE  Live(g, X, {g.calls}, d)
BY DEF Live, Waits

(***************************************************************************)
(* A call to write waits for its requests, and is called back at once when *)
(* it has none; one that found no slot for all of them is an odd use.      *)
(***************************************************************************)
LEMMA LiveAIOWrite ==
  ASSUME NEW g0, NEW o \in Int, NEW n \in Nat \ {0}, NEW owner, o + n <= FileSize,
         Sound(g0), Live(g0, {}, {}, 0), owner \notin g0.gone
  PROVE  Live(EvKQFileMappedAIOWrite(g0, o, n, owner, "none"), {}, {g0.calls}, 0)
<1> DEFINE b == [g0 EXCEPT !.bad = FALSE]
           g == AIOStateNew(b, owner)
           sid == g0.calls
           N == {g0.calls}
           w == PagesWrite(g, sid, o, n)
           h == [w EXCEPT !.cur = Greater(@, o + n)]
           z == IF Overlaps(g, o, n) THEN Odd(h, "overlap") ELSE h
           P == o \div PageSize .. (o + n - 1) \div PageSize
<1>1. Calm(g0, b) /\ Sound(b) /\ b.calls = g0.calls /\ b.gone = g0.gone
  <2>1. Keeps(g0, b, {}) /\ Calm(g0, b) /\ b.calls = g0.calls /\ b.gone = g0.gone
    BY FieldsOfFresh DEF Keeps, Calm, Sound
  <2> QED BY <2>1, Quiet
<1>2. Live(b, {}, {}, 0)
  BY <1>1, LiveCalm
<1> HIDE DEF b
<1>3. Live(g, {}, N, 0) /\ Has(g, sid) /\ Sound(g)
  <2>1. Keeps(b, g, {})
    BY <1>1, FieldsOfFresh DEF Keeps, AIOStateNew, Sound
  <2>2. Sound(g)
    BY <1>1, <2>1, Quiet
  <2> QED BY <1>1, <1>2, <2>2, LiveStateNew
<1> HIDE DEF g, sid, N
<1>4. Sound(w)
  BY <1>3, PagesWritten
<1>5. ASSUME ~Overlaps(g, o, n) PROVE Writes(w, sid, {}, N, {})
  <2>1. Clear(g, P)
    BY <1>5 DEF Clear, Overlaps, PagesOf
  <2>2. Writes(g, sid, {}, N, P)
    BY <1>3, <2>1 DEF Writes
  <2> QED BY <2>2, LivePages
<1> HIDE DEF w
<1>6. Live(z, {}, N, 0) /\ Has(z, sid) /\ z.states = h.states
  <2>1. Calm(w, h) /\ DOMAIN h = Fields
    BY <1>4, FieldsOfFresh DEF Calm, Sound
  <2> HIDE DEF h
  <2>2. CASE ~Overlaps(g, o, n)
    <3>1. Writes(h, sid, {}, N, {})
      BY <1>5, <2>1, <2>2, CalmWrites
    <3> QED BY <2>2, <3>1 DEF Writes
  <2>3. CASE Overlaps(g, o, n)
    <3>1. z = Odd(h, "overlap")
      BY <2>3
    <3>2. Writes(Odd(h, "overlap"), sid, {}, N, {})
      BY <2>1, OddWrites
    <3>3. Odd(h, "overlap").states = h.states
      BY <2>1, FieldsOfFresh DEF Odd
    <3> QED BY <3>1, <3>2, <3>3 DEF Writes
  <2> QED BY <2>2, <2>3
<1> HIDE DEF z, h
\* A state that waits for nothing is the only one of its call.
<1>7. ASSUME State(z, sid).wait = {}, z.odd = {}, NEW s \in z.states, s.sid = sid PROVE s.wait = {}
  <2>1. \A t \in z.states : t.sid = sid => t = s
    BY <1>6, <1>7 DEF Live, Waits
  <2>2. State(z, sid) = s
    BY <1>7, <2>1 DEF State
  <2> QED BY <1>7, <2>2
<1>8. Live(AIOStateDestroy(PendingCancelAll(z, sid), sid), {}, N, 0)
  <2>1. CASE State(z, sid).wait = {}
    <3>1. PendingCancelAll(z, sid) = z
      BY <2>1, Zenon DEF PendingCancelAll
    <3> QED BY <1>6, <1>7, <2>1, <3>1, LiveStateDestroy
  <2>2. CASE State(z, sid).wait # {}
    <3> DEFINE ids == State(z, sid).wait
               c == [z EXCEPT !.reqs = {IF r.id \in ids THEN [r EXCEPT !.cancelled = TRUE] ELSE r : r \in @}]
               d == [c EXCEPT !.refs = @ - Cardinality(ids)]
               e == Odd(d, "refused")
    <3>1. PendingCancelAll(z, sid) = e
      BY <2>2, Zenon DEF PendingCancelAll
    <3>2. DOMAIN d = Fields
      BY <1>6, FieldsOfFresh DEF Live
    <3> HIDE DEF d
    <3>3. DOMAIN e = Fields /\ e.odd # {}
      BY <3>2, FieldsOfFresh DEF Odd
    <3> HIDE DEF e
    <3>4. DOMAIN AIOStateDestroy(e, sid) = Fields /\ AIOStateDestroy(e, sid).odd # {}
      BY <3>3, FieldsOfFresh DEF AIOStateDestroy
    <3> QED BY <3>1, <3>4 DEF Live
  <2> QED BY <2>1, <2>2
<1>9. ASSUME State(h, sid).wait = {} PROVE Live(InvokeAndDestroy(z, sid, "none"), {}, N, 0)
  <2>1. State(z, sid) = State(h, sid)
    BY <1>6 DEF State
  <2> QED BY <1>6, <1>7, <1>9, <2>1, LiveInvoke
<1>10. EvKQFileMappedAIOWrite(g0, o, n, owner, "none") =
         IF h.bad THEN AIOStateDestroy(PendingCancelAll(z, sid), sid)
         ELSE IF State(h, sid).wait = {} THEN InvokeAndDestroy(z, sid, "none") ELSE z
  BY DEF EvKQFileMappedAIOWrite, z, h, w, sid, g, b
<1> QED BY <1>6, <1>8, <1>9, <1>10 DEF N

(***************************************************************************)
(* Writing at the current offset is writing, or an odd use.                *)
(***************************************************************************)
LEMMA LiveAIOAdd ==
  ASSUME NEW g, NEW n \in Nat \ {0}, NEW owner, g.cur + n <= FileSize,
         Sound(g), Live(g, {}, {}, 0), owner \notin g.gone
  PROVE  Live(EvKQFileMappedAIOAdd(g, n, owner, "none"), {}, {g.calls}, 0)
<1> DEFINE h == EvKQFileMappedAIOWrite(g, g.cur, n, owner, "none")
           k == [h EXCEPT !.cur = @ + n]
<1>1. Live(h, {}, {g.calls}, 0)
  BY LiveAIOWrite DEF Sound
<1> HIDE DEF h
<1>2. DOMAIN k = Fields
  BY <1>1, FieldsOfFresh DEF Live
<1> HIDE DEF k
<1>3. Live(Odd(k, "skip"), {}, {g.calls}, 0)
  BY <1>2, LiveOdd
<1> QED BY <1>1, <1>3 DEF EvKQFileMappedAIOAdd, h, k

(***************************************************************************)
(* A call to read waits for one request.                                   *)
(***************************************************************************)
LEMMA LiveAIORead ==
  ASSUME NEW g0, NEW owner, Live(g0, {}, {}, 0), owner \notin g0.gone
  PROVE  Live(EvKQFileMappedAIORead(g0, owner), {}, {g0.calls}, 0)
<1> DEFINE g == AIOStateNew(g0, owner)
           r == Request(g, "read", 0, 1, -1)
           h == Submit(g, r)
<1>1. Live(g, {}, {g0.calls}, 0) /\ Has(g, g0.calls)
  BY LiveStateNew
<1> HIDE DEF g
<1>2. ASSUME ~Full(g) PROVE Live(StatePendingAdd(h, g0.calls, r.id), {}, {g0.calls}, 0)
  <2>1. g.odd = {} => New(g, r)
    BY <1>1, <1>2, RequestNew DEF Live
  <2> HIDE DEF r
  <2>2. Live(h, {} \cup {r}, {g0.calls}, 0)
    BY <1>1, <2>1, LiveSubmit
  <2>3. Has(h, g0.calls)
    BY <1>1, FieldsOfFresh DEF Live, Has, Submit, EvKQFileMappedLock
  <2> HIDE DEF h
  <2>4. Live(StatePendingAdd(h, g0.calls, r.id), ({} \cup {r}) \ {r}, {g0.calls}, 0)
    BY <2>2, <2>3, LivePending
  <2>5. ({} \cup {r}) \ {r} = {}
    OBVIOUS
  <2> QED BY <2>4, <2>5
<1>3. EvKQFileMappedAIORead(g0, owner) = IF Full(g) THEN g0 ELSE StatePendingAdd(h, g0.calls, r.id)
  BY DEF EvKQFileMappedAIORead, g
<1> QED BY <1>2, <1>3, LiveWiden

(***************************************************************************)
(* An owner that has not cancelled asks to be notified of a call.          *)
(***************************************************************************)
LEMMA LiveNotify ==
  ASSUME NEW g, NEW u \in g.states, NEW owner, NEW N, Live(g, {}, N, 0), owner \notin g.gone, u.notes = <<>>
  PROVE  Live(NotifyFinishAdd(g, u.sid, owner), {}, N, 0)
<1> DEFINE note == [owner |-> owner, cancelled |-> FALSE]
           more(s) == IF s.sid = u.sid /\ ~s.cancelled THEN [s EXCEPT !.notes = Append(@, note)] ELSE s
           h == NotifyFinishAdd(g, u.sid, owner)
<1>1. /\ DOMAIN h = Fields /\ h.reqs = g.reqs /\ h.parts = g.parts /\ h.states = {more(s) : s \in g.states}
      /\ h.owner = g.owner /\ h.freed = g.freed /\ h.gone = g.gone /\ h.late = g.late /\ h.stale = g.stale
      /\ h.calls = g.calls /\ h.odd = g.odd /\ h.refs = g.refs
  BY FieldsOfFresh DEF Live, NotifyFinishAdd
<1> HIDE DEF h
<1>2. ASSUME g.odd = {}, NEW s \in g.states
      PROVE  /\ DOMAIN more(s) = StateFields /\ more(s).sid = s.sid /\ more(s).owner = s.owner
             /\ more(s).cancelled = s.cancelled /\ more(s).wait = s.wait
             /\ \A k \in DOMAIN more(s).notes : Silent(g, more(s).notes[k])
  <2>1. DOMAIN s = StateFields /\ \A k \in DOMAIN s.notes : Silent(g, s.notes[k])
    BY <1>2 DEF Live, Waits, Hushed
  <2>2. Silent(g, note)
    BY DEF Silent
  <2>3. CASE s.sid = u.sid /\ ~s.cancelled
    <3>1. s = u
      BY <1>2, <2>3 DEF Live, Waits
    <3> HIDE DEF note
    <3>2. Append(s.notes, note) = <<note>>
      <4>1. s.notes = <<>>
        BY <3>1
      <4>2. Append(<<>>, note) = <<note>>
        OBVIOUS
      <4> QED BY <4>1, <4>2
    <3>3. /\ DOMAIN more(s) = StateFields /\ more(s).sid = s.sid /\ more(s).owner = s.owner
          /\ more(s).cancelled = s.cancelled /\ more(s).wait = s.wait /\ more(s).notes = <<note>>
      BY <2>1, <2>3, <3>2 DEF StateFields
    <3>4. DOMAIN <<note>> = {1} /\ <<note>>[1] = note
      OBVIOUS
    <3> HIDE DEF more
    <3> QED BY <2>2, <3>3, <3>4
  <2>4. CASE ~(s.sid = u.sid /\ ~s.cancelled)
    BY <2>1, <2>4
  <2> QED BY <2>3, <2>4
<1> HIDE DEF more
<1>3. ASSUME g.odd = {} PROVE Slots(h) /\ Counts(h, 0) /\ Waits(h, {}, N) /\ Hushed(h) /\ Held(h)
  <2>1. Waits(g, {}, N) /\ Hushed(g)
    BY <1>3 DEF Live
  <2>2. Slots(h) /\ Counts(h, 0) /\ Held(h)
    BY <1>1, <1>3 DEF Live, Slots, Counts, Held, Holds
  <2>3. \A s, t \in h.states : s.sid = t.sid => s = t
    BY <1>1, <1>2, <1>3, <2>1 DEF Waits
  <2>4. \A q \in h.reqs : q.kind \in Awaited => \E s \in h.states : q.id \in s.wait
    BY <1>1, <1>2, <1>3, <2>1 DEF Waits
  <2>5. Waits(h, {}, N)
    BY <1>1, <1>2, <1>3, <2>1, <2>3, <2>4 DEF Waits
  <2>6. Hushed(h)
    BY <1>1, <1>2, <1>3, <2>1 DEF Hushed, Silent
  <2> QED BY <2>2, <2>5, <2>6
<1> QED BY <1>1, <1>3 DEF Live, h

(***************************************************************************)
(* The program lets the file go: it is freed at once when no request       *)
(* refers to it.                                                           *)
(***************************************************************************)
LEMMA LiveLetGo ==
  ASSUME Live(f, {}, {}, 0), f.odd = {}, f.owner, Do(EvKQFileMappedDestroy(f))
  PROVE  Lives(f')
<1>1. CASE f.reqs # {}
  <2>1. Live(EvKQFileMappedDestroy(f), {}, {f.calls}, 0)
    BY <1>1, LiveWiden, LiveDestroy
  <2> QED BY <2>1, LiveDone
<1>2. CASE f.reqs = {}
  <2> DEFINE h == [f EXCEPT !.destroyed = TRUE, !.owner = FALSE]
             g == EvKQFileMappedDestroy(f)
  <2>1. ~(f.refs > 0) /\ f.late = FALSE /\ f.stale = FALSE
    BY <1>2, FS_EmptySet DEF Live, Counts, Hushed, Held
  <2>2. DOMAIN h = Fields /\ h.refs = f.refs /\ h.owner = FALSE /\ h.reqs = {} /\ h.late = FALSE /\ h.stale = FALSE
    BY <1>2, <2>1, FieldsOfFresh DEF Live
  <2>3. g = InternalClean([h EXCEPT !.refs = @ - 1])
    BY <2>1, <2>2 DEF EvKQFileMappedDestroy, EvKQFileMappedUnlock
  <2> HIDE DEF h, g
  <2>4. /\ DOMAIN g = Fields /\ g.freed = TRUE /\ g.owner = FALSE /\ g.reqs = {}
        /\ g.late = FALSE /\ g.stale = FALSE
    BY <2>2, <2>3, FieldsOfFresh DEF InternalClean
  <2>5. f' = [g EXCEPT !.calls = f.calls + 1]
    BY DEF Do, g
  <2>6. /\ DOMAIN f' = Fields /\ f'.freed = TRUE /\ f'.owner = FALSE /\ f'.reqs = {}
        /\ f'.late = FALSE /\ f'.stale = FALSE
    BY <2>4, <2>5, FieldsOfFresh
  <2> QED BY <2>6 DEF Lives
<1> QED BY <1>1, <1>2

(***************************************************************************)
(* A file of which only the program knows lives.                           *)
(***************************************************************************)
LEMMA LiveFresh ==
  ASSUME NEW g, DOMAIN g = Fields, g.reqs = {}, g.states = {}, g.parts = {}, g.refs = 0, g.owner = TRUE,
         g.freed = FALSE, g.late = FALSE, g.stale = FALSE, g.calls \in Nat
  PROVE  Live(g, {}, {}, 0)
<1>1. IsFiniteSet({}) /\ Cardinality({}) = 0
  BY FS_EmptySet
<1>2. Slots(g) /\ Waits(g, {}, {}) /\ Hushed(g) /\ Held(g)
  <2>1. Slots(g)
    BY <1>1 DEF Slots
  <2>2. Waits(g, {}, {})
    BY DEF Waits
  <2>3. Hushed(g) /\ Held(g)
    BY DEF Hushed, Held
  <2> QED BY <2>1, <2>2, <2>3
<1>3. Cardinality(g.reqs) = 0 /\ (IF g.owner THEN 0 ELSE 1) = 0
  BY <1>1
<1>4. 0 = 0 - 0 - 0 /\ 0 \in Nat
  OBVIOUS
<1>5. g.refs = Cardinality(g.reqs) - 0 - (IF g.owner THEN 0 ELSE 1)
  BY <1>3, <1>4, Zenon
<1>6. Counts(g, 0)
  BY <1>4, <1>5, Zenon DEF Counts
<1> QED BY <1>2, <1>6 DEF Live

(***************************************************************************)
(* After death the file is a new one, that waits for both its metadata.    *)
(***************************************************************************)
LEMMA LiveLoad ==
  ASSUME NEW g, NEW owner, Live(g, {}, {}, 0), g.odd = {}
  PROVE  Live(EvKQFileMappedAIOLoad(g, owner), {}, {g.calls}, 0)
<1> DEFINE a == [Fresh EXCEPT !.have = g.have, !.saved = g.saved, !.early = g.early,
                              !.erased = g.erased, !.calls = g.calls, !.odd = g.odd]
           n == AIOStateNew(a, owner)
           load == Request(a, "load", 0, 1, -1)
           b == Submit(n, load)
           d == StatePendingAdd(b, g.calls, load.id)
           loadaux == Request(d, "loadaux", 0, 1, -1)
           c == Submit(d, loadaux)
           e == StatePendingAdd(c, g.calls, loadaux.id)
           l == [e EXCEPT !.loading = TRUE]
           N == {g.calls}
<1>1. g.calls \in Nat
  BY DEF Live, Waits
<1>2. Live(a, {}, {}, 0) /\ a.calls = g.calls /\ a.reqs = {} /\ a.gone = {}
  <2>1. /\ DOMAIN a = Fields /\ a.reqs = {} /\ a.states = {} /\ a.parts = {} /\ a.refs = 0 /\ a.owner = TRUE
        /\ a.freed = FALSE /\ a.gone = {} /\ a.late = FALSE /\ a.stale = FALSE /\ a.calls = g.calls
    BY DEF Fields, Fresh
  <2> HIDE DEF a
  <2> QED BY <1>1, <2>1, LiveFresh
<1> HIDE DEF a
<1>3. Live(n, {}, N, 0) /\ Has(n, g.calls) /\ n.reqs = {}
  BY <1>2, LiveStateNew
<1>4. n.odd = {} => New(n, load)
  <2>1. ~Full(n)
    BY <1>3, FS_EmptySet, FileAssumption DEF Full
  <2>2. load = Request(n, "load", 0, 1, -1)
    BY <1>2, <1>3 DEF Request, FreeId
  <2> HIDE DEF n, load
  <2> QED BY <1>3, <2>1, <2>2, RequestNew DEF Live
<1> HIDE DEF n, load
<1>5. Live(b, {} \cup {load}, N, 0) /\ Has(b, g.calls) /\ b.reqs = {load}
  <2>1. b.reqs = {load} /\ b.states = n.states /\ b.odd = n.odd
    BY <1>3, FieldsOfFresh DEF Live, Submit, EvKQFileMappedLock
  <2> QED BY <1>3, <1>4, <2>1, LiveSubmit DEF Has
<1> HIDE DEF b
<1>6. Live(d, {}, N, 0) /\ Has(d, g.calls) /\ d.reqs = {load}
  <2>1. d.reqs = {load}
    BY <1>5, FieldsOfFresh DEF Live, StatePendingAdd
  <2>2. Live(d, ({} \cup {load}) \ {load}, N, 0) /\ Has(d, g.calls)
    BY <1>5, LivePending
  <2>3. ({} \cup {load}) \ {load} = {}
    OBVIOUS
  <2> QED BY <2>1, <2>2, <2>3
<1>7. d.odd = {} => New(d, loadaux)
  <2> HIDE DEF d
  <2>1. ~Full(d)
    <3>1. Cardinality(d.reqs) = 1
      BY <1>6, FS_Singleton
    <3> QED BY <3>1, FileAssumption DEF Full
  <2> QED BY <1>6, <2>1, RequestNew DEF Live
<1> HIDE DEF d, loadaux
<1>8. Live(c, {} \cup {loadaux}, N, 0) /\ Has(c, g.calls)
  <2>1. c.states = d.states /\ c.odd = d.odd
    BY <1>6, FieldsOfFresh DEF Live, Submit, EvKQFileMappedLock
  <2> QED BY <1>6, <1>7, <2>1, LiveSubmit DEF Has
<1> HIDE DEF c
<1>9. Live(e, {}, N, 0)
  <2>1. Live(e, ({} \cup {loadaux}) \ {loadaux}, N, 0)
    BY <1>8, LivePending
  <2>2. ({} \cup {loadaux}) \ {loadaux} = {}
    OBVIOUS
  <2> QED BY <2>1, <2>2
<1> HIDE DEF e
<1>10. Live(l, {}, N, 0)
  <2>1. Calm(e, l)
    BY <1>9, FieldsOfFresh DEF Calm, Live
  <2> QED BY <1>9, <2>1, LiveCalm
<1>11. EvKQFileMappedAIOLoad(g, owner) = l
  BY DEF EvKQFileMappedAIOLoad, l, e, c, loadaux, d, b, load, n, a
<1> QED BY <1>10, <1>11

-----------------------------------------------------------------------------
(* The whole.                                                              *)

(***************************************************************************)
(* The file begun lives: the program refers to it.                         *)
(***************************************************************************)
LEMMA LivesInitially == Init => Lives(f)
<1> SUFFICES ASSUME Init PROVE Lives(f)
  OBVIOUS
<1>1. /\ DOMAIN f = Fields /\ f.reqs = {} /\ f.states = {} /\ f.parts = {} /\ f.refs = 0 /\ f.owner = TRUE
      /\ f.freed = FALSE /\ f.gone = {} /\ f.late = FALSE /\ f.stale = FALSE /\ f.calls = 0
  <2>1. PICK conf \in BOOLEAN : f = EvKQFileMappedInit(conf)
    BY DEF Init
  <2> QED BY <2>1 DEF Fields, Fresh, EvKQFileMappedInit
<1>2. Live(f, {}, {}, 0)
  <2>1. f.calls \in Nat
    BY <1>1
  <2> QED BY <1>1, <2>1, LiveFresh
<1> QED BY <1>1, <1>2 DEF Lives

(***************************************************************************)
(* Every step of Next keeps it so.                                         *)
(***************************************************************************)
LEMMA LivesKept ==
  ASSUME Sound(f), Lives(f), [Next]_f
  PROVE  Lives(f')
<1>1. ASSUME Call PROVE f.odd = {} /\ f.owner /\ Live(f, {}, {}, 0) /\ Live(f, {}, {f.calls}, 0)
  <2>1. Live(f, {}, {}, 0)
    BY <1>1 DEF Call, Lives, Live
  <2> QED BY <1>1, <2>1, LiveWiden DEF Call
<1>2. \A owner \in Working : owner \notin f.gone
  BY DEF Working
<1>3. CASE AIOWrite
  <2>1. PICK o \in 0 .. FileSize - 1 : \E n \in 1 .. FileSize - o : \E owner \in Working :
          Usable /\ Do(EvKQFileMappedAIOWrite(f, o, n, owner, "none"))
    BY <1>3 DEF AIOWrite
  <2>2. PICK n \in 1 .. FileSize - o, owner \in Working :
          Usable /\ Do(EvKQFileMappedAIOWrite(f, o, n, owner, "none"))
    BY <2>1
  <2>3. o \in Int /\ n \in Nat \ {0} /\ o + n <= FileSize
    BY <2>1, <2>2, FileAssumption
  <2>4. Live(EvKQFileMappedAIOWrite(f, o, n, owner, "none"), {}, {f.calls}, 0)
    BY <1>1, <1>2, <2>2, <2>3, LiveAIOWrite DEF Usable
  <2> QED BY <2>2, <2>4, LiveDone
<1>4. CASE AIOAdd
  <2>1. PICK n \in 1 .. FileSize - f.cur, owner \in Working :
          Usable /\ Do(EvKQFileMappedAIOAdd(f, n, owner, "none"))
    BY <1>4 DEF AIOAdd
  <2>2. n \in Nat \ {0} /\ f.cur + n <= FileSize
    BY <2>1, FileAssumption DEF Sound
  <2>3. Live(EvKQFileMappedAIOAdd(f, n, owner, "none"), {}, {f.calls}, 0)
    BY <1>1, <1>2, <2>1, <2>2, LiveAIOAdd DEF Usable
  <2> QED BY <2>1, <2>3, LiveDone
<1>5. CASE AIORead
  BY <1>1, <1>2, <1>5, LiveAIORead, LiveDone DEF AIORead, Usable
<1>6. CASE Notify
  <2>1. PICK s \in f.states, owner \in Working : Usable /\ s.notes = <<>> /\ Do(NotifyFinishAdd(f, s.sid, owner))
    BY <1>6 DEF Notify
  <2>2. Live(NotifyFinishAdd(f, s.sid, owner), {}, {f.calls}, 0)
    BY <1>1, <1>2, <2>1, LiveNotify DEF Usable
  <2> QED BY <2>1, <2>2, LiveDone
<1>7. CASE Cancel
  BY <1>1, <1>7, LiveCancel, LiveDone DEF Cancel
<1>8. CASE CheckLastBlock
  BY <1>1, <1>8, LiveCheckLastBlock, LiveDone DEF CheckLastBlock, Usable
<1>9. CASE Completed
  BY <1>1, <1>9, LiveCompleted, LiveDone DEF Completed, Usable
<1>10. CASE MetaAuxWrite
  BY <1>1, <1>10, LiveClose, LiveDone DEF MetaAuxWrite, Usable
<1>11. CASE Close
  BY <1>1, <1>11, LiveClose, LiveDone DEF Close, Usable
<1>12. CASE Open
  BY <1>1, <1>12, LiveOpen, LiveDone DEF Open
<1>13. CASE Destroy
  BY <1>1, <1>13, LiveLetGo DEF Destroy
<1>14. CASE Crash
  BY <1>1, <1>14, LiveLoad, LiveDone DEF Crash
<1>15. CASE \E r \in f.reqs, ret \in {"ok", "fail"} : Execute(r, ret)
  BY <1>15, LiveExecute
<1>16. CASE \E r \in f.reqs, re \in Reactions : Finish(r, re)
  BY <1>16, LiveFinish
<1>17. CASE UNCHANGED f
  BY <1>17
<1> QED
  BY <1>3, <1>4, <1>5, <1>6, <1>7, <1>8, <1>9, <1>10, <1>11, <1>12, <1>13, <1>14, <1>15, <1>16, <1>17
  DEF Next

(***************************************************************************)
(* References are counted exactly (ev_kq_file_mapped.c:2609-2758): the     *)
(* file is freed with the last of the program and the requests that refer  *)
(* to it and not before, nobody is called back who cancelled, and no       *)
(* worker writes from a partial that was freed; in whatever order the      *)
(* requests are executed and collected, whatever the program does when it  *)
(* is called back and wherever the process dies, for pages and files of    *)
(* any size and any number of owners, requests and calls.  The uses that   *)
(* `odd' names are excepted, after which nothing more is asked of a file.  *)
(***************************************************************************)
THEOREM FileLivesAsReferred == Spec => []LivesAsReferred
<1> DEFINE Inv == Sound(f) /\ Lives(f)
<1>1. Init => Inv
  BY SoundInitially, LivesInitially
<1>2. Inv /\ [Next]_f => Inv'
  <2> SUFFICES ASSUME Inv, [Next]_f PROVE Sound(f') /\ Lives(f')
    BY DEF Sound, Covers, Told, Aims, Paged, LastPage, Page,
           Lives, Live, Slots, Counts, Waits, Hushed, Silent, Held, Within, Fits, Holds, PagesOf
  <2> QED BY SoundKept, LivesKept
<1>3. Inv => LivesAsReferred
  <2> SUFFICES ASSUME Lives(f), f.odd = {}
               PROVE  /\ ~f.freed => f.refs = Cardinality({r \in f.reqs : ~r.cancelled}) - (IF f.owner THEN 0 ELSE 1)
                      /\ f.freed <=> ~f.owner /\ {r \in f.reqs : ~r.cancelled} = {}
                      /\ ~f.late /\ ~f.stale
    BY DEF LivesAsReferred
  <2>1. CASE Live(f, {}, {}, 0)
    <3>1. Slots(f) /\ Counts(f, 0) /\ f.late = FALSE /\ f.stale = FALSE
      BY <2>1 DEF Live, Hushed, Held
    <3>2. {r \in f.reqs : ~r.cancelled} = f.reqs
      BY <3>1 DEF Slots
    <3>3. f.freed = FALSE /\ f.owner \in BOOLEAN /\ f.refs \in Nat
          /\ f.refs = Cardinality(f.reqs) - (IF f.owner THEN 0 ELSE 1)
      <4>1. Cardinality(f.reqs) \in Nat
        BY <3>1, FS_CardinalityType DEF Slots
      <4> QED BY <3>1, <4>1 DEF Counts
    <3>4. ~f.owner => f.reqs # {}
      BY <3>3, FS_EmptySet
    <3> QED BY <3>1, <3>2, <3>3, <3>4
  <2>2. CASE f.freed = TRUE /\ f.owner = FALSE /\ f.reqs = {} /\ f.late = FALSE /\ f.stale = FALSE
    BY <2>2
  <2> QED BY <2>1, <2>2 DEF Lives
<1> QED BY <1>1, <1>2, <1>3, PTL DEF Spec
=============================================================================
