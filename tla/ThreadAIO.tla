----------------------------- MODULE ThreadAIO ------------------------------
(***************************************************************************)
(* ThreadAIOBase (thread/thrd_aio_base.c) and its requests                 *)
(* (event/aio/ev_kq_aio_req.c): blocking calls on files, given to the      *)
(* threads of a pool.  A request has a slot of the queue of requests and a *)
(* job of the pool; a worker executes it, the loop removes it, calls back  *)
(* and frees the slot.  Cancelling only silences the callback.             *)
(*                                                                         *)
(* The loop submits, cancels and collects; the workers run beside it.      *)
(***************************************************************************)
LOCAL INSTANCE Integers
LOCAL INSTANCE Sequences
LOCAL INSTANCE SequencesExt
LOCAL INSTANCE FiniteSets
LOCAL INSTANCE FiniteSetsExt

CONSTANTS MaxReq,       \* slots of the queue of requests
          MaxJobs,      \* slots for jobs in the pool
          Workers,      \* number of threads
          MaxCalls      \* bound: calls of the program

Paths == {1, 2}         \* at first 1 is a file of two bytes, and 2 is none
Root == 0               \* the paths "/" and "."
NoFile == 0
BufferSize == 2         \* bytes of a memory buffer that is written

(***************************************************************************)
(* t: reqs, the requests in use, each with its slot id; queue, their ids   *)
(* in aio_req_list, and its queue_sz; todo, run and done, the jobs.  The   *)
(* system: dir, the file of each path; len, the bytes of each file; fds.   *)
(* History: told, how often each call was answered (refused, or by         *)
(* callback); lied, one was told as done and was not; known, the           *)
(* descriptors the program has; bufs, the memory buffers alive, by call;   *)
(* torn, one was destroyed twice or used after; odd, uses after which the  *)
(* rest may fail.                                                          *)
(***************************************************************************)
VARIABLE t

Init == t = [reqs |-> {}, queue |-> <<>>, queueSz |-> 0, todo |-> <<>>, run |-> {}, done |-> <<>>,
             dir |-> <<1, NoFile>>, len |-> <<2>>, fds |-> {[fd |-> 0, file |-> 1]},
             told |-> <<>>, lied |-> FALSE, cancelled |-> {}, known |-> {0}, bufs |-> {}, torn |-> FALSE,
             calls |-> 0, odd |-> {}]

Odd(x, why) == [x EXCEPT !.odd = @ \cup {why}]
Least(S) == CHOOSE i \in S : \A j \in S : i <= j
NotNegative(n) == IF n > 0 THEN n ELSE 0

-----------------------------------------------------------------------------
(* The queue of requests. *)

\* Which free slot it is makes no difference here.
EvAIOReqNew(x, op, fd, path, size) ==
    [id |-> Least((0 .. MaxReq - 1) \ {r.id : r \in x.reqs}), call |-> x.calls + 1, op |-> op, fd |-> fd, path |-> path,
     size |-> size, buf |-> FALSE, cancelled |-> FALSE, failed |-> FALSE, did |-> FALSE]
Enqueue(x, r) == [x EXCEPT !.reqs = @ \cup {r}, !.queue = Append(@, r.id), !.queueSz = @ + NotNegative(r.size)]
\* What is subtracted is the size the request has now.
RemoveItem(x, r) == [x EXCEPT !.queue = SelectSeq(@, LAMBDA i : i # r.id), !.queueSz = @ - NotNegative(r.size)]
InvokeCallBacksCancelled(x, r) == [x EXCEPT !.told[r.call] = @ + 1]
InvokeCallBacks(x, r) ==
    IF r.cancelled THEN x
    ELSE [x EXCEPT !.told[r.call] = @ + 1, !.lied = @ \/ (~r.failed /\ ~r.did)]
\* The buffer goes with the request.
DoDestroy(x, r) ==
    [x EXCEPT !.reqs = @ \ {r},
              !.torn = @ \/ (r.buf /\ r.call \notin x.bufs),
              !.bufs = IF r.buf THEN @ \ {r.call} ELSE @]
Replace(x, r, s) == [x EXCEPT !.reqs = (@ \ {r}) \cup {s}]
ReqOf(x, id) == CHOOSE r \in x.reqs : r.id = id

-----------------------------------------------------------------------------
(* Submitting.  No slot, or no job: the call fails at once. *)

Busy(x) == Len(x.todo) + Cardinality(x.run) + Len(x.done)
Fail(x) == [x EXCEPT !.told = Append(@, 1), !.calls = @ + 1]
Submit(x, r) ==
    IF Cardinality(x.reqs) >= MaxReq \/ Busy(x) >= MaxJobs THEN Fail(x)
    ELSE [Enqueue(x, r) EXCEPT !.todo = Append(@, r.id), !.told = Append(@, 0), !.calls = @ + 1]
HasSlot == Cardinality(t.reqs) < MaxReq
Ask(op, fd, path, size) ==
    /\ t.calls < MaxCalls /\ t.odd = {}
    /\ t' = IF HasSlot THEN Submit(t, EvAIOReqNew(t, op, fd, path, size)) ELSE Fail(t)

FileOpen == \E p \in Paths : Ask("open", -1, p, -1)
FileClose == \E d \in t.known : Ask("close", d, 0, -1)
\* A size of -1 stands for all of the file; what is written from a buffer is
\* all of it, whatever the size given.
FileReadToMemBuffer == \/ \E p \in Paths : Ask("readmb", -1, p, -1)
                       \/ \E d \in t.known, size \in {1, -1} : Ask("readmb", d, 0, size)
FileRead == \E d \in t.known : Ask("read", d, 0, 1)
FileWrite == \E d \in t.known, size \in {2, -1} : Ask("write", d, 0, size)
Written == {[fd |-> -1, path |-> p, size |-> -1] : p \in Paths}
           \cup {[fd |-> d, path |-> 0, size |-> 2] : d \in t.known}
FileWriteFromMemBuffer == \E w \in Written : Ask("writemb", w.fd, w.path, w.size)
\* The buffer is handed over after the job is queued; a refused call leaves it
\* with the caller.
FileWriteFromMemBufferAndDestroy ==
    /\ t.calls < MaxCalls /\ t.odd = {}
    /\ IF ~HasSlot THEN t' = Fail(t)
       ELSE \E w \in Written :
              LET r == EvAIOReqNew(t, "writemb", w.fd, w.path, w.size)
                  x == Submit(t, r)
              IN t' = IF r \in x.reqs THEN [Replace(x, r, [r EXCEPT !.buf = TRUE]) EXCEPT !.bufs = @ \cup {r.call}] ELSE x
FileStat == \E p \in Paths : Ask("stat", -1, p, -1)
FileUnlink == \E p \in Paths : Ask("unlink", -1, p, -1)
FileRemove == \E p \in Paths \cup {Root} : Ask("remove", -1, p, -1)
FileTruncate == Ask("truncate", -1, 1, -1) \/ \E p \in Paths : Ask("truncate", -1, p, 1)
FileRename == \E p \in Paths : Ask("rename", -1, p, -1)
FileCopy == \E p \in Paths : Ask("copy", -1, p, -1)
FileMove == \E p \in Paths : Ask("move", -1, p, -1)
DeviceMount == Ask("mount", -1, 1, -1)
DeviceUnMount == Ask("unmount", -1, 1, -1)
Custom == Ask("custom", -1, 1, -1)

\* The id of a request that still waits for its answer.
CancelByReqID ==
    \E r \in t.reqs : /\ ~r.cancelled /\ t.odd = {}
                      /\ t' = [Replace(t, r, [r EXCEPT !.cancelled = TRUE]) EXCEPT !.cancelled = @ \cup {r.call}]

-----------------------------------------------------------------------------
(* The worker: one system call, or a few.  Each handler tells the system   *)
(* as it leaves it, what the call returned (n is what the system answers)  *)
(* and whether it did its work.                                            *)

File(x, d) == IF \E e \in x.fds : e.fd = d THEN (CHOOSE e \in x.fds : e.fd = d).file ELSE NoFile
Target(x, r) == IF r.fd >= 0 THEN File(x, r.fd) ELSE IF r.path = Root THEN NoFile ELSE x.dir[r.path]
Other(p) == 3 - p
Create(x, p, n) == IF x.dir[p] # NoFile THEN [x EXCEPT !.len[x.dir[p]] = n]
                   ELSE [x EXCEPT !.len = Append(@, n), !.dir[p] = Len(x.len) + 1]
Done(x, r, ret, did) ==
    Replace(x, r, [r EXCEPT !.failed = ret < 0, !.did = did])
\* A handler that finds nothing to do leaves ret at 0, and is told as done.
Nothing(x, r) == Odd(Done(x, r, 0, FALSE), "nothing")

\* With O_CREAT among its flags it makes the file.
OpcodeOpen(x, r, n) ==
    LET new == Least((0 .. Cardinality(x.fds)) \ {e.fd : e \in x.fds})
        got == [r EXCEPT !.fd = new]
        y == IF x.dir[r.path] = NoFile THEN Create(x, r.path, 0) ELSE x
    IN IF n < 0 THEN Done(x, r, -1, FALSE)
       ELSE Done([Replace(y, r, got) EXCEPT !.fds = @ \cup {[fd |-> new, file |-> y.dir[r.path]]}], got, new, TRUE)
OpcodeClose(x, r) ==
    IF File(x, r.fd) = NoFile THEN Done(x, r, -1, FALSE)
    ELSE Done([x EXCEPT !.fds = {e \in @ : e.fd # r.fd}], r, 0, TRUE)
\* A buffer is made for the bytes that came, if any did.
OpcodeReadToMemBuffer(x, r, n) ==
    LET got == [r EXCEPT !.buf = TRUE]
    IN IF n <= 0 THEN Done(x, r, n, n = 0)
       ELSE Done([Replace(x, r, got) EXCEPT !.bufs = @ \cup {r.call}], got, n, TRUE)
\* A size of -1 is replaced by that of the file, also for RemoveItem.
StatSize(x, r) == Odd(Replace(x, r, [r EXCEPT !.size = x.len[Target(x, r)]]), "sized")
OpcodeRead(x, r, n) == Done(x, r, n, n >= 0)
\* n of want bytes are written; the answer does not tell of a part.
PWrite(x, r, n, want) ==
    LET f == Target(x, r)
        z == Done(IF n > x.len[f] THEN [x EXCEPT !.len[f] = n] ELSE x, r, n, n = want)
    IN IF f = NoFile \/ n < 0 THEN Done(x, r, -1, FALSE) ELSE IF n < want THEN Odd(z, "short") ELSE z
OpcodeWrite(x, r, n) == IF r.size <= 0 THEN Nothing(x, r) ELSE PWrite(x, r, n, r.size)
\* made: the file of a path is opened, or created.
OpcodeWriteFromMemBuffer(x, r, n, made) ==
    LET used == IF r.buf /\ r.call \notin x.bufs THEN [x EXCEPT !.torn = TRUE] ELSE x
        y == IF r.fd < 0 /\ Target(x, r) = NoFile THEN Create(used, r.path, 0) ELSE used
    IN IF r.fd < 0 /\ ~made THEN Done(used, r, -1, FALSE) ELSE PWrite(y, r, n, BufferSize)
OpcodeStat(x, r) == Done(x, r, IF x.dir[r.path] = NoFile THEN -1 ELSE 0, x.dir[r.path] # NoFile)
\* y: what the call leaves, when it can be done and is.
Syscall(x, r, n, y) ==
    IF x.dir[r.path] = NoFile \/ n < 0 THEN Done(x, r, -1, FALSE) ELSE Done(y, r, 0, TRUE)
OpcodeUnlink(x, r, n) == Syscall(x, r, n, [x EXCEPT !.dir[r.path] = NoFile])
Renamed(x, p) == [x EXCEPT !.dir = [q \in Paths |-> IF q = p THEN NoFile ELSE x.dir[p]]]
OpcodeRename(x, r, n) == Syscall(x, r, n, Renamed(x, r.path))
OpcodeTruncate(x, r, n) ==
    IF r.size <= 0 THEN Nothing(x, r)
    ELSE Syscall(x, r, n, IF x.dir[r.path] = NoFile THEN x ELSE [x EXCEPT !.len[x.dir[r.path]] = r.size])
\* No child (-1), or the status of the command, which is never negative: one
\* that fails is told as done.
System(x, r, n, y) ==
    IF n < 0 THEN Done(x, r, -1, FALSE) ELSE IF n > 0 THEN Odd(Done(x, r, n, FALSE), "status") ELSE Done(y, r, 0, TRUE)
OpcodeRemove(x, r, n) ==
    IF r.path = Root THEN Nothing(x, r) ELSE System(x, r, n, [x EXCEPT !.dir[r.path] = NoFile])
OpcodeCopy(x, r, n) ==
    System(x, r, n, IF x.dir[r.path] = NoFile THEN x ELSE Create(x, Other(r.path), x.len[x.dir[r.path]]))
OpcodeMove(x, r, n) == System(x, r, n, Renamed(x, r.path))
\* The volume is mounted or unmounted, after retries, or not; built for Linux
\* (n is 1) nothing is done.
OpcodeMount(x, r, n) == IF n = 1 THEN Nothing(x, r) ELSE Done(x, r, n, n = 0)
OpcodeUnMount(x, r, n) == OpcodeMount(x, r, n)
\* The program's own function sets what it returned.
OpcodeCustom(x, r, n) == Done(x, r, n, n >= 0)

\* What the system may answer: all of it, a part, an error.
Answers(x, r) ==
    LET f == Target(x, r)
    IN CASE r.op \in {"read", "readmb"} -> IF f = NoFile THEN {-1} ELSE {-1, Min({r.size, x.len[f]})}
         [] r.op \in {"write", "writemb"} -> {-1, BufferSize - 1, BufferSize}
         [] r.op \in {"copy", "move"} /\ f = NoFile -> {-1, 256}
         [] r.op \in {"copy", "move", "remove"} -> {-1, 0, 256}
         [] r.op \in {"mount", "unmount"} -> {-1, 0, 1}
         [] r.op \in {"open", "unlink", "rename", "truncate", "custom"} -> {-1, 0}
         [] OTHER -> {0}

OpcodeDispatch(x, r, n, made) ==
    CASE r.op = "open" -> OpcodeOpen(x, r, n)
      [] r.op = "close" -> OpcodeClose(x, r)
      [] r.op = "readmb" -> OpcodeReadToMemBuffer(x, r, n)
      [] r.op = "read" -> OpcodeRead(x, r, n)
      [] r.op = "writemb" -> OpcodeWriteFromMemBuffer(x, r, n, made)
      [] r.op = "write" -> OpcodeWrite(x, r, n)
      [] r.op = "stat" -> OpcodeStat(x, r)
      [] r.op = "unlink" -> OpcodeUnlink(x, r, n)
      [] r.op = "remove" -> OpcodeRemove(x, r, n)
      [] r.op = "rename" -> OpcodeRename(x, r, n)
      [] r.op = "truncate" -> OpcodeTruncate(x, r, n)
      [] r.op = "copy" -> OpcodeCopy(x, r, n)
      [] r.op = "move" -> OpcodeMove(x, r, n)
      [] r.op = "mount" -> OpcodeMount(x, r, n)
      [] r.op = "unmount" -> OpcodeUnMount(x, r, n)
      [] OTHER -> OpcodeCustom(x, r, n)

Take ==
    /\ t.todo # <<>> /\ Cardinality(t.run) < Workers
    /\ t' = [t EXCEPT !.todo = Tail(@), !.run = @ \cup {Head(t.todo)}]
\* The file may change between the stat and the read.
Measure ==
    \E id \in t.run : LET r == ReqOf(t, id)
                      IN r.op = "readmb" /\ r.size < 0 /\ Target(t, r) # NoFile /\ t' = StatSize(t, r)
Collectable(x, id) == [x EXCEPT !.run = @ \ {id}, !.done = Append(@, id)]
Work ==
    \E id \in t.run :
        LET r == ReqOf(t, id)
        IN /\ r.op = "readmb" /\ r.size < 0 => Target(t, r) = NoFile
           /\ \E n \in Answers(t, r), made \in BOOLEAN :
                /\ ~made => r.op = "writemb"
                /\ t' = Collectable(OpcodeDispatch(t, r, n, made), id)

-----------------------------------------------------------------------------
(* The loop collects the first job that is done. *)

JobFinishKeepsItem(x, r) == [DoDestroy(InvokeCallBacks(x, r), r) EXCEPT !.done = Tail(@)]
\* The program learns of the descriptor by the callback, and of no other.
JobFinish(x, r) ==
    LET y == DoDestroy(InvokeCallBacks(RemoveItem(x, r), r), r)
        z == CASE r.op = "open" /\ ~r.failed /\ ~r.cancelled -> [y EXCEPT !.known = @ \cup {r.fd}]
               [] r.op = "open" /\ ~r.failed -> Odd(y, "leak")
               [] r.op = "close" /\ ~r.failed -> [y EXCEPT !.known = @ \ {r.fd}]
               [] OTHER -> y
    IN [z EXCEPT !.done = Tail(@)]
Collect == t.done # <<>> /\ t' = JobFinish(t, ReqOf(t, Head(t.done)))

Next ==
    \/ FileOpen \/ FileClose \/ FileReadToMemBuffer \/ FileRead \/ FileWrite
    \/ FileWriteFromMemBuffer \/ FileWriteFromMemBufferAndDestroy
    \/ FileStat \/ FileUnlink \/ FileRemove \/ FileTruncate \/ FileRename \/ FileCopy \/ FileMove
    \/ DeviceMount \/ DeviceUnMount \/ Custom \/ CancelByReqID \/ Take \/ Measure \/ Work \/ Collect

-----------------------------------------------------------------------------
(* Every call is answered once: refused when it is made, or called back    *)
(* when its request leaves, but for the cancelled ones, which are never    *)
(* called back; and what is told as done was done.                         *)
AnsweredOnce ==
    \A c \in 1 .. t.calls :
        /\ t.told[c] = IF c \in {r.call : r \in t.reqs} \cup t.cancelled THEN 0 ELSE 1
        /\ t.odd = {} => ~t.lied

(* Slots, queue and jobs hold the same requests, each once; the queue's    *)
(* size is that of its requests; a buffer lives as long as its request and *)
(* is never used after; no descriptor is open that nobody knows of.        *)
NothingLeaks ==
    /\ ToSet(t.queue) = {r.id : r \in t.reqs} /\ Len(t.queue) = Cardinality(t.reqs)
    /\ ToSet(t.todo \o t.done) \cup t.run = {r.id : r \in t.reqs}
    /\ "sized" \in t.odd \/ t.queueSz = FoldSet(LAMBDA r, n : n + NotNegative(r.size), 0, t.reqs)
    /\ ~t.torn /\ t.bufs = {r.call : r \in {s \in t.reqs : s.buf}}
    /\ t.odd = {} => {e.fd : e \in t.fds} \subseteq t.known \cup {r.fd : r \in t.reqs}
=============================================================================
