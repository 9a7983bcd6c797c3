----------------------------- MODULE KernelAIO ------------------------------
(***************************************************************************)
(* Reads and writes of files by the kernel's asynchronous I/O              *)
(* (event/aio/ev_kq_aio_file.c): a request is given to the kernel, looked  *)
(* at at once, and again when its EVFILT_AIO event comes.  One that is     *)
(* done in the very loop that made it is told by a job of the next loop,   *)
(* any other at once.  Closing a file cancels the requests of its queue.   *)
(***************************************************************************)
LOCAL INSTANCE Integers
LOCAL INSTANCE Sequences
LOCAL INSTANCE SequencesExt
LOCAL INSTANCE FiniteSets

CONSTANTS MaxReq,      \* slots of the queue of requests
          MaxJobs,     \* slots for jobs of the loop
          MaxCalls     \* bound: calls of the program

(***************************************************************************)
(* k: open, the files open (0, 1); reqs, the requests, each with its slot, *)
(* file, what the kernel knows of it (aio), whether it is in the queue and *)
(* whether it was made in this loop; events, the requests with an event;   *)
(* jobs, the notifications of this loop and of the next; other, the        *)
(* slots of jobs others hold.  History: told, the callbacks of each call;  *)
(* answer, what each call returned; silent, the calls cancelled; odd.      *)
(***************************************************************************)
VARIABLE k

Init == k = [open |-> {}, reqs |-> {}, events |-> {}, now |-> {}, next |-> {}, other |-> 0,
             told |-> <<>>, answer |-> <<>>, silent |-> {}, calls |-> 0, odd |-> {}]

Odd(x, why) == [x EXCEPT !.odd = @ \cup {why}]
Replace(x, r, s) == [x EXCEPT !.reqs = (@ \ {r}) \cup {s}]
Gone(x, r) == [x EXCEPT !.reqs = @ \ {r}, !.events = @ \ {r.id}]
ReqOf(x, id) == CHOOSE r \in x.reqs : r.id = id
InvokeCallBacks(x, r) == IF r.cancelled THEN x ELSE [x EXCEPT !.told[r.call] = @ + 1]
InvokeCallBacksAndDestroy(x, r) == Gone(InvokeCallBacks(x, r), r)
\* What the call returned, for the call that made the request.
Answer(x, r, what) == IF x.answer[r.call] = "none" THEN [x EXCEPT !.answer[r.call] = what] ELSE x

(* EvKQJobsAdd: a slot for a job, if there is one. *)
CanAddJob(x) == Cardinality(x.now \cup x.next) + x.other < MaxJobs

FinishedTwice(x, r) ==
    LET s == [r EXCEPT !.queued = FALSE]
    IN IF CanAddJob(x) THEN [Replace(InvokeCallBacks(x, r), r, s) EXCEPT !.next = @ \cup {r.id}, !.events = @ \ {r.id}]
       ELSE InvokeCallBacksAndDestroy(x, r)
\* Done: out of the queue, and told at once or by the next loop.  Without a
\* job for it the request is dropped in silence.
Finished(x, r) ==
    LET s == [r EXCEPT !.queued = FALSE]
    IN IF ~r.young THEN InvokeCallBacksAndDestroy(x, r)
       ELSE IF CanAddJob(x) THEN [Replace(x, r, s) EXCEPT !.next = @ \cup {r.id}, !.events = @ \ {r.id}]
       ELSE [Odd(Gone(x, r), "dropped") EXCEPT !.silent = @ \cup {r.call}]
Failed(x, r) == Answer(InvokeCallBacksAndDestroy(x, r), r, "failed")
FinishCheck(x, r) ==
    CASE r.aio = "running" -> Answer(x, r, "pending")
      [] r.aio = "cancelled" -> Answer(Gone([x EXCEPT !.silent = @ \cup {r.call}], r), r, "cancelled")
      [] r.aio = "done" -> Answer(Finished(x, r), r, "finished")
      [] r.aio = "failed" -> Failed(x, r)

\* AIOFileRead and AIOFileWrite: the kernel refuses it, or has it done or
\* not by the time it is looked at.  A refusal is told by the callback and
\* by the answer.
New(x, file, aio) ==
    [id |-> CHOOSE i \in (0 .. MaxReq - 1) \ {r.id : r \in x.reqs} : \A j \in (0 .. MaxReq - 1) \ {r.id : r \in x.reqs} : i <= j,
     call |-> x.calls + 1, file |-> file, aio |-> aio, queued |-> TRUE, young |-> TRUE, cancelled |-> FALSE]
Asked(x) == [x EXCEPT !.calls = @ + 1, !.told = Append(@, 0), !.answer = Append(@, "none")]
Refused(x) == [x EXCEPT !.calls = @ + 1, !.told = Append(@, 0), !.answer = Append(@, "failed")]
Submit(x, file, aio) ==
    LET r == New(x, file, IF aio = "refused" THEN "failed" ELSE aio)
        y == [Asked(x) EXCEPT !.reqs = @ \cup {r}]
    IN IF Cardinality(x.reqs) >= MaxReq THEN Refused(x)
       ELSE IF aio = "refused" THEN Failed(y, r)
       ELSE FinishCheck(y, r)

\* The requests still in the queue are cancelled, those the kernel can stop
\* are stopped; the ones that wait for their notification are not found.
CancelAllByFD(x, file, stopped) ==
    LET mine == {r \in x.reqs : r.file = file /\ r.queued}
        halt(r) == [r EXCEPT !.cancelled = TRUE, !.aio = IF r.aio = "running" /\ r.id \in stopped THEN "cancelled" ELSE @]
    IN [x EXCEPT !.reqs = (@ \ mine) \cup {halt(r) : r \in mine},
                 !.silent = @ \cup {r.call : r \in mine},
                 !.events = @ \cup {r.id : r \in {s \in mine : halt(s).aio = "cancelled"}}]
EvKQBaseAIOFileClose(x, file, stopped) == [CancelAllByFD(x, file, stopped) EXCEPT !.open = @ \ {file}]
CancelByReqID(x, r) == [Replace(x, r, [r EXCEPT !.cancelled = TRUE]) EXCEPT !.silent = @ \cup {r.call}]

-----------------------------------------------------------------------------

May == k.calls < MaxCalls /\ k.odd = {}
FileOpen == \E file \in {0, 1} \ k.open : May /\ k' = [k EXCEPT !.open = @ \cup {file}]
FileWrite == \E file \in k.open, aio \in {"running", "done", "failed", "refused"} : May /\ k' = Submit(k, file, aio)
FileRead == \E file \in k.open : May /\ k' = Submit(k, file, "running")
FileClose == \E file \in k.open : \E stopped \in SUBSET {r.id : r \in k.reqs} : k' = EvKQBaseAIOFileClose(k, file, stopped)
Cancel == \E r \in k.reqs : ~r.cancelled /\ k' = CancelByReqID(k, r)

\* The kernel ends a request.
KernelEnds ==
    \E r \in k.reqs, aio \in {"done", "failed"} :
        /\ r.aio = "running"
        /\ k' = [Replace(k, r, [r EXCEPT !.aio = aio]) EXCEPT !.events = @ \cup {r.id}]
Event == \E id \in k.events : k' = FinishCheck([k EXCEPT !.events = @ \ {id}], ReqOf(k, id))
NotifyFinishJob == \E id \in k.now : k' = InvokeCallBacksAndDestroy([k EXCEPT !.now = @ \ {id}], ReqOf(k, id))
\* The jobs of a loop run before it waits for events.
NextLoop == /\ k.now = {}
            /\ k' = [k EXCEPT !.now = k.next, !.next = {}, !.reqs = {[r EXCEPT !.young = FALSE] : r \in @}]
\* Others take and leave slots for jobs.
OtherJobs == k.odd = {} /\ k' = [k EXCEPT !.other = MaxJobs - @]

Next == FileOpen \/ FileWrite \/ FileRead \/ FileClose \/ Cancel \/ KernelEnds \/ Event \/ NotifyFinishJob \/ NextLoop \/ OtherJobs

-----------------------------------------------------------------------------
(* A request that has left was called back once, or never when it was      *)
(* cancelled or had no slot; one that is pending was not, and the event    *)
(* or the job that will end it is on its way.                              *)
AnsweredOnce ==
    /\ \A c \in 1 .. k.calls :
          LET pending == c \in {r.call : r \in k.reqs}
          IN /\ k.told[c] = 1 => ~pending
             /\ k.told[c] = 0 => pending \/ c \in k.silent \/ k.answer[c] = "failed"
             /\ k.told[c] <= 1
             /\ k.answer[c] = "finished" /\ ~pending /\ c \notin k.silent => k.told[c] = 1
    /\ \A r \in k.reqs : r.aio = "running" \/ r.id \in k.events \cup k.now \cup k.next
    /\ k.events \cup k.now \cup k.next \subseteq {r.id : r \in k.reqs}
=============================================================================
