----------------------------- MODULE FileMapped -----------------------------
(***************************************************************************)
(* EvKQFileMapped (event/utils/ev_kq_file_mapped.c): a file filled by      *)
(* writes at any offset in any order, through the threads of ThreadAIO.    *)
(* Whole pages on disk are marked in a bitmap, which is kept in a metadata *)
(* file of its own; pages begun are held as partial buffers; each call is  *)
(* an AIO state that waits for its requests and then calls back.           *)
(*                                                                         *)
(* Worker threads execute the requests in any order, the loop collects     *)
(* them in any order, and the process may die in between.                  *)
(***************************************************************************)
EXTENDS Integers, Sequences, FiniteSets

CONSTANTS PageSize, FileSize,  \* bytes of a page, of the file; its last page is short
          Owners,              \* owner_id of the calls
          MaxReq,              \* slots for requests in ThreadAIOBase
          MaxCalls             \* bound: calls of the program

\* A load needs two requests at once.
ASSUME FileAssumption ==
    /\ PageSize \in Nat \ {0} /\ FileSize \in Nat
    /\ MaxReq \in Nat \ {0, 1} /\ MaxCalls \in Nat

None == [bits |-> {}, higher |-> -1, cur |-> -1, complete |-> FALSE]    \* no metadata

(***************************************************************************)
(* f: the EvKQFileMapped (truncate, opened, closeReq, destroyed, wants,    *)
(* complete, loading, refs, the metadata flags and buffers, bits and       *)
(* higher of the bitmap, parts, cur, states, rawPending), the requests in  *)
(* ThreadAIO and the disk: have, the bytes in the data file, saved, the    *)
(* metadata file.  History: owner, the program has not released it; freed; *)
(* late, a call back to an owner that cancelled; stale, a write from freed *)
(* memory; early, pages marked before they are written; erased, the bytes  *)
(* lost when the file was opened again and not written since; calls; odd,  *)
(* the uses after which some of what follows does not hold.                *)
(***************************************************************************)
VARIABLE f

Fresh ==
    [truncate |-> FALSE, opened |-> TRUE, closeReq |-> FALSE, destroyed |-> FALSE, wants |-> FALSE, complete |-> FALSE,
     loading |-> FALSE, refs |-> 0, rawWriting |-> FALSE, auxWriting |-> FALSE, auxDirty |-> FALSE,
     lastRaw |-> None, lastAux |-> FALSE, bits |-> {}, higher |-> 0, parts |-> {}, cur |-> 0,
     states |-> {}, rawPending |-> 0, reqs |-> {}, bad |-> FALSE,
     have |-> {}, saved |-> None,
     owner |-> TRUE, freed |-> FALSE, gone |-> {}, late |-> FALSE, stale |-> FALSE, early |-> {},
     erased |-> {}, calls |-> 0, odd |-> {}]
\* truncate_file comes from the configuration.
EvKQFileMappedInit(conf) == [Fresh EXCEPT !.truncate = conf]
Init == \E conf \in BOOLEAN : f = EvKQFileMappedInit(conf)

Odd(g, why) == [g EXCEPT !.odd = @ \cup {why}]
Page(i) == {p \in i * PageSize .. (i + 1) * PageSize - 1 : p < FileSize}
Greater(i, j) == IF i < j THEN j ELSE i

-----------------------------------------------------------------------------
(* References and requests. *)

InternalClean(g) == [g EXCEPT !.freed = TRUE, !.states = {}, !.parts = {}]
EvKQFileMappedLock(g) == [g EXCEPT !.refs = @ + 1]
EvKQFileMappedUnlock(g) ==
    LET h == [g EXCEPT !.refs = @ - 1] IN IF g.refs > 0 THEN h ELSE InternalClean(h)
EvKQFileMappedDestroy(g) == EvKQFileMappedUnlock([g EXCEPT !.destroyed = TRUE, !.owner = FALSE])

Full(g) == Cardinality(g.reqs) >= MaxReq
FreeId(g) ==
    LET free == (0 .. MaxReq - 1) \ {r.id : r \in g.reqs}
    IN CHOOSE i \in free : \A j \in free : i <= j
\* A request in a slot of ThreadAIO; src is the page whose partial buffer it
\* is written from, -1 for memory of the program.
Request(g, kind, off, n, src) ==
    [id |-> FreeId(g), kind |-> kind, off |-> off, n |-> n, src |-> src, snap |-> None,
     cancelled |-> FALSE, ret |-> "none"]
\* Each pending request holds a reference.
SubmitUnlocked(g, r) == [g EXCEPT !.reqs = @ \cup {r}]
Submit(g, r) == EvKQFileMappedLock([g EXCEPT !.reqs = @ \cup {r}])

StatePendingAdd(g, sid, id) ==
    [g EXCEPT !.states = {IF s.sid = sid THEN [s EXCEPT !.wait = @ \cup {id}] ELSE s : s \in @}]
State(g, sid) == CHOOSE s \in g.states : s.sid = sid
AIOStateNew(g, owner) ==
    [g EXCEPT !.states = @ \cup {[sid |-> g.calls, owner |-> owner, wait |-> {}, cancelled |-> FALSE, notes |-> <<>>]}]
AIOStateDestroy(g, sid) == [g EXCEPT !.states = {s \in @ : s.sid # sid}]

-----------------------------------------------------------------------------
(* Metadata. *)

Snapshot(g) == [bits |-> g.bits, higher |-> g.higher, cur |-> g.cur, complete |-> g.complete]
\* One write at a time; what changes meanwhile is written after it.
MetaDataRawUpdate(g) ==
    LET r == [Request(g, "meta", 0, 1, -1) EXCEPT !.snap = Snapshot(g)]
    IN IF g.rawWriting THEN [g EXCEPT !.lastRaw = Snapshot(g)]
       ELSE IF Full(g) THEN Odd(g, "refused")
       ELSE [Submit(g, r) EXCEPT !.rawWriting = TRUE]
MetaDataAuxUpdate(g) ==
    IF ~g.auxDirty THEN g
    ELSE IF Full(g) THEN Odd(g, "refused")
    ELSE [Submit(g, Request(g, "aux", 0, 1, -1)) EXCEPT !.auxWriting = TRUE, !.auxDirty = FALSE]
MetaDataUpdateAll(g) == MetaDataAuxUpdate(MetaDataRawUpdate(g))
EvKQFileMappedMetaAuxWrite(g) ==
    IF g.auxWriting THEN [g EXCEPT !.lastAux = TRUE] ELSE MetaDataAuxUpdate([g EXCEPT !.auxDirty = TRUE])

CloseFiles(g) ==
    IF g.refs > 1 \/ g.rawWriting \/ ~g.opened THEN g ELSE [g EXCEPT !.opened = FALSE, !.closeReq = FALSE]
EvKQFileMappedClose(g) == MetaDataUpdateAll([g EXCEPT !.closeReq = TRUE])
\* A close that is asked for is not taken back: the file is still open.
\* With truncate_file the files are emptied again, and the bitmap in memory is kept.
Emptied(g) == [g EXCEPT !.have = {}, !.saved = None, !.erased = @ \cup g.have]
OpenFiles(g) == [(IF g.truncate THEN Emptied(g) ELSE g) EXCEPT !.opened = TRUE]
EvKQFileMappedOpen(g) ==
    IF g.opened THEN IF g.closeReq THEN Odd(g, "reopen") ELSE g ELSE OpenFiles(g)

-----------------------------------------------------------------------------
(* Writing. *)

\* The partial of a page, if it has one: a page never has two.
PartialGetByIdx(g, i) == {p \in g.parts : p.idx = i}
PartialDrop(g, pages) == [g EXCEPT !.parts = {p \in @ : p.idx \notin pages}]

RawWriteUnlocked(g, sid, off, n, src) ==
    LET r == Request(g, "raw", off, n, src)
    IN IF Full(g) THEN [g EXCEPT !.bad = TRUE]
       ELSE [StatePendingAdd(SubmitUnlocked(g, r), sid, r.id) EXCEPT !.rawPending = @ + 1]
RawWrite(g, sid, off, n, src) ==
    LET r == Request(g, "raw", off, n, src)
    IN IF Full(g) THEN [g EXCEPT !.bad = TRUE]
       ELSE [StatePendingAdd(Submit(g, r), sid, r.id) EXCEPT !.rawPending = @ + 1]
AlignedWrite(g, sid, i, n, src) == RawWrite(g, sid, i * PageSize, n, src)

\* The end of a partial counts its offset twice.
Touches(part, rel, n) ==
    /\ rel < part.off => rel + n >= part.off
    /\ rel <= part.off + part.size
    /\ rel > part.off => rel + n >= part.off + part.size
PartialGrow(part, rel, n) == [part EXCEPT !.off = IF rel > @ THEN @ ELSE rel, !.size = Greater(@, rel + n)]
PartialStore(g, old, part) == [g EXCEPT !.parts = (@ \ {old}) \cup {part}]
\* The page is written from its partial when it is whole, the bytes else.
PartialWrite(g, sid, i, part, rel, n) ==
    IF part.size - part.off >= PageSize THEN AlignedWrite(g, sid, i, PageSize, i)
    ELSE RawWrite(g, sid, i * PageSize + rel, n, -1)
\* Bytes are added to the partial of a page.
PartialDataProcess(g, sid, i, rel, n) ==
    LET has == PartialGetByIdx(g, i)
        old == IF has = {} THEN [idx |-> i, off |-> rel, size |-> 0] ELSE CHOOSE p \in has : TRUE
        part == PartialGrow(old, rel, n)
        kept == PartialStore(g, old, part)
        h == IF has # {} /\ rel > old.size THEN Odd(kept, "gap") ELSE kept
    IN IF i \in g.bits \/ (has # {} /\ ~Touches(old, rel, n)) THEN g ELSE PartialWrite(h, sid, i, part, rel, n)

\* The cancelled requests are still executed, and stay in pending_raw_write.
PendingCancelAll(g, sid) ==
    LET ids == State(g, sid).wait
        h == [g EXCEPT !.reqs = {IF r.id \in ids THEN [r EXCEPT !.cancelled = TRUE] ELSE r : r \in @}]
    IN IF ids = {} THEN g
       ELSE Odd([h EXCEPT !.refs = @ - Cardinality(ids)], "refused")

(* The program, called back: it does nothing, closes the file, lets it go  *)
(* or cancels what another owner waits for.                                *)
Reactions == {"none", "close", "destroy", "cancel"}
CancelNote(n, owner) == [n EXCEPT !.cancelled = @ \/ n.owner = owner]
CancelState(s, owner) ==
    [s EXCEPT !.cancelled = @ \/ s.owner = owner, !.notes = [k \in DOMAIN @ |-> CancelNote(s.notes[k], owner)]]
CancelAllByOwner(g, owner) ==
    [g EXCEPT !.gone = @ \cup {owner}, !.states = {CancelState(s, owner) : s \in @}]
React(g, s, re) ==
    CASE re = "close" /\ g.opened /\ g.owner -> EvKQFileMappedClose(g)
      [] re = "destroy" /\ g.owner -> EvKQFileMappedDestroy(g)
      [] re = "cancel" /\ Owners \ {s.owner} # {} ->
            LET other == CHOOSE w \in Owners : w # s.owner
                h == CancelAllByOwner(g, other)
            IN IF \E k \in DOMAIN s.notes : s.notes[k].owner = other THEN Odd(h, "cancel") ELSE h
      [] OTHER -> g
\* The state leaves the list first: what its callback cancels does not reach
\* the notifications of the same state.
NotifyInvokeAll(g, s) ==
    [g EXCEPT !.late = @ \/ \E k \in DOMAIN s.notes : ~s.notes[k].cancelled /\ s.notes[k].owner \in g.gone]
InvokeAndDestroy(g, sid, re) ==
    LET s == State(g, sid)
        h == AIOStateDestroy(g, sid)
        k == [h EXCEPT !.late = @ \/ s.owner \in g.gone]
    IN NotifyInvokeAll(IF s.cancelled THEN h ELSE React(k, s, re), s)

\* The whole pages, the bytes before them and the bytes after.
PagesWrite(g, sid, o, n) ==
    LET rel == o % PageSize
        lower == o \div PageSize
        trail == IF rel = 0 THEN 0 ELSE IF PageSize - rel > n THEN n ELSE PageSize - rel
        finish == (n - trail) % PageSize
        whole == n - trail - finish
        begin == IF trail > 0 THEN lower + 1 ELSE lower
        a == IF whole = 0 THEN g ELSE AlignedWrite(g, sid, begin, whole, -1)
        t == IF trail = 0 THEN a ELSE PartialDataProcess(a, sid, lower, rel, trail)
    IN IF finish = 0 THEN t ELSE PartialDataProcess(t, sid, (o + n) \div PageSize, 0, finish)
Overlaps(g, o, n) ==
    \E r \in g.reqs : /\ r.kind = "raw"
                      /\ \E p \in r.off .. r.off + r.n - 1 : p \div PageSize \in o \div PageSize .. (o + n - 1) \div PageSize
EvKQFileMappedAIOWrite(g0, o, n, owner, re) ==
    LET g == AIOStateNew([g0 EXCEPT !.bad = FALSE], owner)
        sid == g0.calls
        h == [PagesWrite(g, sid, o, n) EXCEPT !.cur = Greater(@, o + n)]
        z == IF Overlaps(g, o, n) THEN Odd(h, "overlap") ELSE h
    IN IF h.bad THEN AIOStateDestroy(PendingCancelAll(z, sid), sid)
       ELSE IF State(h, sid).wait = {} THEN InvokeAndDestroy(z, sid, re)
       ELSE z
\* The offset has moved already, unless the call ended at once.
EvKQFileMappedAIOAdd(g, n, owner, re) ==
    LET h == EvKQFileMappedAIOWrite(g, g.cur, n, owner, re)
    IN IF \E s \in h.states : s.sid = g.calls THEN Odd([h EXCEPT !.cur = @ + n], "skip") ELSE h
EvKQFileMappedAIORead(g0, owner) ==
    LET g == AIOStateNew(g0, owner)
        r == Request(g, "read", 0, 1, -1)
    IN IF Full(g) THEN g0 ELSE StatePendingAdd(Submit(g, r), g0.calls, r.id)

\* The page is marked before it is written.
EvKQFileMappedCheckLastBlock(g, total) ==
    LET i == total \div PageSize
        last == total % PageSize
        h == Submit(g, Request(g, "unlock", total - last, last, i))
    IN IF \A p \in PartialGetByIdx(g, i) : p.off > 0 \/ p.size < last THEN g
       ELSE IF Full(g) THEN g
       ELSE [h EXCEPT !.bits = @ \cup {i}, !.higher = Greater(@, i), !.early = @ \cup {i}]

Completes(g) == \A i \in 0 .. g.higher : i \in g.bits
\* A partial left is written again, behind the end of the file.
EvKQFileMappedCompleted(g) ==
    LET last == CHOOSE p \in g.parts : TRUE
        h == Odd(Submit(g, Request(g, "unlock", g.cur, last.size, last.idx)), "appended")
    IN IF ~Completes(g) \/ Cardinality(g.parts) > 1 THEN [g EXCEPT !.wants = TRUE]
       ELSE IF g.parts = {} THEN MetaDataUpdateAll([g EXCEPT !.complete = TRUE])
       ELSE IF g.higher # last.idx \/ Full(g) THEN g
       ELSE MetaDataUpdateAll([h EXCEPT !.bits = @ \cup {last.idx}, !.complete = TRUE])

NotifyFinishAdd(g, sid, owner) ==
    [g EXCEPT !.states = {IF s.sid = sid /\ ~s.cancelled
                          THEN [s EXCEPT !.notes = Append(@, [owner |-> owner, cancelled |-> FALSE])] ELSE s : s \in @}]

-----------------------------------------------------------------------------
(* A request is done.  It keeps its slot until its callback returns. *)

CheckFinish(g, r, re) ==
    LET s == CHOOSE t \in g.states : r.id \in t.wait
        h == [g EXCEPT !.states = {IF t = s THEN [t EXCEPT !.wait = @ \ {r.id}] ELSE t : t \in @},
                       !.loading = @ /\ s.wait # {r.id}]
    IN IF s.wait = {r.id} THEN InvokeAndDestroy(h, s.sid, re) ELSE h

FinishMeta(g, r) ==
    LET next == [Request(g, "meta", 0, 1, -1) EXCEPT !.snap = g.lastRaw]
        idle == [g EXCEPT !.rawWriting = FALSE]
    IN IF g.lastRaw # None THEN IF Full(g) THEN Odd([g EXCEPT !.lastRaw = None], "refused")
                                ELSE SubmitUnlocked([g EXCEPT !.lastRaw = None], next)
       ELSE EvKQFileMappedUnlock(IF g.closeReq THEN CloseFiles(idle) ELSE idle)
FinishMetaForgetsNext(g, r) ==
    LET idle == [g EXCEPT !.rawWriting = FALSE, !.lastRaw = None]
    IN EvKQFileMappedUnlock(IF g.closeReq THEN CloseFiles(idle) ELSE idle)
AIOWriteMetaRawDataFinishCB(g, r) == FinishMeta(g, r)
AIOWriteMetaAuxDataFinishCB(g, r) ==
    LET idle == [g EXCEPT !.auxWriting = FALSE]
    IN IF g.lastAux THEN IF Full(g) THEN Odd([g EXCEPT !.lastAux = FALSE], "refused")
                         ELSE SubmitUnlocked([g EXCEPT !.lastAux = FALSE], Request(g, "aux", 0, 1, -1))
       ELSE EvKQFileMappedUnlock(IF g.closeReq THEN CloseFiles(idle) ELSE idle)

MarkWrittenBegun(g, r) == [g EXCEPT !.bits = @ \cup (r.off \div PageSize .. (r.off + r.n - 1) \div PageSize)]
\* Pages wholly in the request are marked and their partials dropped.
MarkWritten(g, r) ==
    LET pages == {i \in r.off \div PageSize .. (r.off + r.n) \div PageSize - 1 :
                    i < r.off \div PageSize + r.n \div PageSize}
    IN [PartialDrop(g, pages) EXCEPT
           !.bits = @ \cup pages,
           !.higher = IF \A i \in pages : i <= @ THEN @ ELSE CHOOSE i \in pages : \A j \in pages : j <= i]
\* A failed write syncs nothing, and a completion asked for too early is
\* forgotten when it is tried again too early.
AIOWriteRawDataFinishCB(g0, r, re) ==
    LET g == [g0 EXCEPT !.rawPending = @ - 1]
        h == CheckFinish(MarkWritten(g, r), r, re)
        c == [EvKQFileMappedCompleted(h) EXCEPT !.wants = FALSE]
        s == IF h.rawPending # 0 THEN h
             ELSE IF ~h.wants THEN MetaDataUpdateAll(h)
             ELSE IF EvKQFileMappedCompleted(h).complete THEN c ELSE Odd(c, "forgotten")
    IN IF r.ret = "fail" THEN EvKQFileMappedUnlock(CheckFinish(Odd(g, "failed"), r, re)) ELSE EvKQFileMappedUnlock(s)
\* It does not look whether the file is to be closed.
ClosesNothing(g, h) == IF g.closeReq /\ h.opened /\ Cardinality(g.reqs) = 1 THEN Odd(h, "unclosed") ELSE h
AIOReadRawDataFinishCB(g, r, re) == LET h == CheckFinish(g, r, re) IN ClosesNothing(h, EvKQFileMappedUnlock(h))
AIOGenericUnlockCB(g, r) == ClosesNothing(g, EvKQFileMappedUnlock(g))

AIOReadMetaDataFinishCB(g, r, re) ==
    LET loaded == [g EXCEPT !.bits = g.saved.bits, !.higher = g.saved.higher, !.cur = g.saved.cur,
                            !.complete = g.saved.complete]
    IN EvKQFileMappedUnlock(CheckFinish(IF r.ret = "fail" THEN Odd(g, "unloaded") ELSE loaded, r, re))
AIOReadMetaAuxDataFinishCB(g, r, re) == EvKQFileMappedUnlock(CheckFinish(g, r, re))

-----------------------------------------------------------------------------
(* Threads, disk and death. *)

\* A worker writes what the buffer holds now; half of it may be all.
Holds(g, r) ==
    r.src = -1 \/ \E p \in g.parts : p.idx = r.src
Execute(r, ret) ==
    LET done == [r EXCEPT !.ret = ret]
        bytes == IF r.kind \in {"raw", "unlock"} /\ ret = "ok" THEN r.off .. r.off + r.n - 1 ELSE {}
    IN /\ r.ret = "none"
       /\ r.kind = "load" => (ret = "fail" <=> f.saved = None)
       /\ f' = [f EXCEPT !.reqs = (@ \ {r}) \cup {done},
                         !.have = @ \cup bytes,
                         !.erased = @ \ bytes,
                         !.saved = IF r.kind = "meta" /\ ret = "ok" THEN r.snap ELSE @,
                         !.stale = @ \/ (r.kind \in {"raw", "unlock"} /\ ~Holds(f, r)),
                         !.early = IF r.kind = "unlock" /\ ret = "ok" THEN @ \ {r.off \div PageSize} ELSE @,
                         !.odd = IF r.kind = "meta" /\ ret = "fail" THEN @ \cup {"failed"} ELSE @]

\* The loop calls the job back, unless it was cancelled, and frees its slot.
Finish(r, re) ==
    LET g == CASE r.kind = "raw" -> AIOWriteRawDataFinishCB(f, r, re)
               [] r.kind = "read" -> AIOReadRawDataFinishCB(f, r, re)
               [] r.kind = "meta" -> AIOWriteMetaRawDataFinishCB(f, r)
               [] r.kind = "aux" -> AIOWriteMetaAuxDataFinishCB(f, r)
               [] r.kind = "load" -> AIOReadMetaDataFinishCB(f, r, re)
               [] r.kind = "loadaux" -> AIOReadMetaAuxDataFinishCB(f, r, re)
               [] OTHER -> AIOGenericUnlockCB(f, r)
    IN /\ r.ret # "none" /\ ~f.freed
       /\ f' = [(IF r.cancelled THEN f ELSE g) EXCEPT !.reqs = @ \ {r}]

\* AIOLoad, which never truncates: the metadata is read again, and the state
\* waits for both reads.
EvKQFileMappedAIOLoad(g, owner) ==
    LET a == [Fresh EXCEPT !.have = g.have, !.saved = g.saved, !.early = g.early,
                            !.erased = g.erased, !.calls = g.calls, !.odd = g.odd]
        load == Request(a, "load", 0, 1, -1)
        b == StatePendingAdd(Submit(AIOStateNew(a, owner), load), g.calls, load.id)
        loadaux == Request(b, "loadaux", 0, 1, -1)
        c == StatePendingAdd(Submit(b, loadaux), g.calls, loadaux.id)
    IN [c EXCEPT !.loading = TRUE]

-----------------------------------------------------------------------------

\* Nothing more is asked of a file after an odd use.
Call == f.calls < MaxCalls /\ f.owner /\ ~f.freed /\ f.odd = {}
Usable == Call /\ f.opened /\ ~f.closeReq /\ ~f.loading
Do(g) == f' = [g EXCEPT !.calls = f.calls + 1]
Working == Owners \ f.gone

AIOWrite == \E o \in 0 .. FileSize - 1 : \E n \in 1 .. FileSize - o : \E owner \in Working :
               Usable /\ Do(EvKQFileMappedAIOWrite(f, o, n, owner, "none"))
AIOAdd == \E n \in 1 .. FileSize - f.cur, owner \in Working :
               Usable /\ Do(EvKQFileMappedAIOAdd(f, n, owner, "none"))
AIORead == \E owner \in Working : Usable /\ Do(EvKQFileMappedAIORead(f, owner))
Notify == \E s \in f.states, owner \in Working : Usable /\ s.notes = <<>> /\ Do(NotifyFinishAdd(f, s.sid, owner))
Cancel == \E owner \in Working : Call /\ Do(CancelAllByOwner(f, owner))
CheckLastBlock == Usable /\ Do(EvKQFileMappedCheckLastBlock(f, FileSize))
Completed == Usable /\ Do(EvKQFileMappedCompleted(f))
MetaAuxWrite == Usable /\ Do(EvKQFileMappedMetaAuxWrite(f))
Close == Usable /\ Do(EvKQFileMappedClose(f))
Open == Call /\ ~f.loading /\ Do(EvKQFileMappedOpen(f))
Destroy == Call /\ Do(EvKQFileMappedDestroy(f))
Crash == \E owner \in Owners : Call /\ Do(EvKQFileMappedAIOLoad(f, owner))

Next ==
    \/ AIOWrite \/ AIOAdd \/ AIORead \/ Notify \/ Cancel \/ CheckLastBlock \/ Completed \/ MetaAuxWrite
    \/ Close \/ Open \/ Destroy \/ Crash
    \/ \E r \in f.reqs, ret \in {"ok", "fail"} : Execute(r, ret)
    \/ \E r \in f.reqs, re \in Reactions : Finish(r, re)
Spec == Init /\ [][Next]_f

-----------------------------------------------------------------------------
(* A page that is marked, in memory or in the metadata file, is in the     *)
(* data file with all its bytes, whenever the process dies; but for a last *)
(* page, marked while its write is under way, and for the bytes that were  *)
(* erased when a file with truncate_file, closed before, was opened again: *)
(* these are told of until they are written once more.                     *)
DiskTellsTruth ==
    f.odd \cap {"gap", "appended"} = {} =>
        \A i \in (f.bits \cup f.saved.bits) \ f.early : Page(i) \subseteq f.have \cup f.erased

(* The object lives exactly as long as the program or a request refers to  *)
(* it; nobody is called back who cancelled, nothing is written from memory *)
(* that was freed.                                                         *)
LivesAsReferred ==
    f.odd = {} =>
        /\ ~f.freed => f.refs = Cardinality({r \in f.reqs : ~r.cancelled}) - (IF f.owner THEN 0 ELSE 1)
        /\ f.freed <=> ~f.owner /\ {r \in f.reqs : ~r.cancelled} = {}
        /\ ~f.late /\ ~f.stale

(* When all requests are answered every call was called back, the metadata *)
(* file tells of every page not erased, and a file to be closed is closed. *)
Settled ==
    f.odd = {} /\ f.reqs = {} /\ ~f.freed =>
        /\ f.states = {} /\ ~f.loading /\ ~f.rawWriting /\ ~f.auxWriting /\ f.lastRaw = None /\ ~f.lastAux
        /\ f.closeReq => ~f.opened
        /\ f.rawPending = 0
        /\ \A i \in f.bits \ f.saved.bits : i = FileSize \div PageSize \/ Page(i) \cap f.erased # {}
=============================================================================
