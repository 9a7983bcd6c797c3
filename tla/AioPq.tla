------------------------------- MODULE AioPq --------------------------------
(***************************************************************************)
(* EvAIOPQBase (libbrb_aiopq): queries for PostgreSQL, queued and sent     *)
(* over a pool of connections that grows, shrinks and reconnects.  What    *)
(* libpq does with a connection is external: a login succeeds or fails, a  *)
(* query is sent, sent in part or refused, an answer is there in part,     *)
(* completely, or the connection turns out to be lost.                     *)
(***************************************************************************)
LOCAL INSTANCE Integers
LOCAL INSTANCE Sequences
LOCAL INSTANCE SequencesExt
LOCAL INSTANCE FiniteSets

CONSTANTS Begin, Grow, Most,    \* pqclient.count_begin, count_grow, count_max
          MaxPending,           \* pending.count_max
          MaxQueries,           \* bound: queries accepted
          MaxFaults             \* bound: logins, losses and failures

(***************************************************************************)
(* The base q: notify (canceled_notify); c, the clients, of which count are*)
(* in use: conn, the connection as libpq knows it, online, busy, req, and  *)
(* the volatile events armed on its descriptor; ready and working, their   *)
(* counts; request and reply, the two lists; cancelled; pending            *)
(* (pqbuffer_pending); timer and shrink, the timers armed; ticking, the    *)
(* timer's walk is under way.  History: made, told, in order of sending    *)
(* sent; lost, queries whose connection went; hist; aborted.               *)
(***************************************************************************)
VARIABLE q

None == 0
Unused == [conn |-> "none", online |-> FALSE, busy |-> FALSE, req |-> None,
           read |-> FALSE, write |-> FALSE, eof |-> FALSE]
Clients == 1 .. Most
Members(x) == 1 .. x.count

Mark(x, what) == [x EXCEPT !.hist = @ \cup {what}]
Abort(x, why) == [x EXCEPT !.aborted = IF @ = "no" THEN why ELSE @]

MarkOnline(x, i) ==
    IF x.c[i].online THEN x ELSE [x EXCEPT !.c[i].online = TRUE, !.ready = @ + 1]
MarkOffline(x, i) ==
    IF x.c[i].online THEN [x EXCEPT !.c[i].online = FALSE, !.c[i].busy = FALSE, !.ready = @ - 1] ELSE x

\* EvAIOPQSocketClose; the socket of a connection known to be lost is -1.
Deaf(x, i) == [x EXCEPT !.c[i].read = FALSE, !.c[i].write = FALSE, !.c[i].eof = FALSE]
Listen(x, i) == [x EXCEPT !.c[i].read = TRUE, !.c[i].eof = TRUE]

\* The request of the connection stays on its list, and with the client.
EventClose(x, i, up) ==
    LET y == Deaf(MarkOffline(x, i), i)
    IN [y EXCEPT !.c[i].conn = IF up THEN "ok" ELSE "bad", !.c[i].eof = up,
                 !.lost = IF x.c[i].req = None THEN @ ELSE @ \cup {x.c[i].req},
                 !.faults = @ + 1,
                 !.hist = IF up THEN @ \cup {"revived"} ELSE @]

\* up: whether the server lets clients log in.
ClientConnect(x, i, up) ==
    IF up THEN MarkOnline(Listen([x EXCEPT !.c[i].conn = "ok"], i), i)
    ELSE EventClose([x EXCEPT !.c[i].conn = "bad"], i, FALSE)
PoolInitN(x, n, up) ==
    LET last == IF x.count + n > Most THEN Most ELSE x.count + n
    IN FoldLeft(LAMBDA y, i : [ClientConnect(y, i, up) EXCEPT !.count = i],
                [x EXCEPT !.shrink = TRUE], [i \in 1 .. last - x.count |-> x.count + i])

BaseNew(notify, up) ==
    FoldLeft(LAMBDA y, i : ClientConnect(y, i, up),
             [notify |-> notify, alive |-> TRUE, c |-> [i \in Clients |-> Unused], count |-> Begin, ready |-> 0,
              working |-> 0, request |-> <<>>, reply |-> {}, cancelled |-> {}, pending |-> FALSE,
              timer |-> FALSE, shrink |-> FALSE, ticking |-> FALSE, made |-> 0, told |-> <<>>, sent |-> <<>>,
              lost |-> {}, faults |-> 0, hist |-> {}, aborted |-> "no"], [i \in 1 .. Begin |-> i])
Init == \E notify \in BOOLEAN, up \in BOOLEAN : q = BaseNew(notify, up)

\* One search: the first client that is not busy and whose connection is well;
\* those found lost on the way are reconnected, for the next search.
Search(x, up) ==
    FoldLeft(LAMBDA r, i :
               IF r.cli # None \/ r.x.c[i].busy THEN r
               ELSE IF r.x.c[i].conn = "ok" THEN [r EXCEPT !.cli = i]
               ELSE [r EXCEPT !.x = EventClose(r.x, i, up)],
             [x |-> x, cli |-> None], [i \in 1 .. x.count |-> i])
\* A search that finds no client is followed by new connections, if there may be more.
GrowMore(r, up) == IF r.cli # None \/ r.x.count >= Most THEN r ELSE [r EXCEPT !.x = PoolInitN(@, Grow, up)]
\* Only then is there another search, and none after the second.
GrabFree(x, outstanding, up) ==
    LET first == Search(x, up)
        grown == GrowMore(first, up)
    IN IF ~outstanding /\ x.pending THEN [x |-> x, cli |-> None]
       ELSE IF grown.x.count = first.x.count THEN grown
       ELSE GrowMore(Search(grown.x, up), up)

(* The assertions before a query is given to a client. *)
Unfit(x, i) == ~x.c[i].online \/ x.c[i].busy \/ x.c[i].req # None

RequestDestroy(x, id) ==
    [x EXCEPT !.request = SelectSeq(@, LAMBDA r : r # id), !.reply = @ \ {id}]

Outcomes == {"sent", "partly", "refused"}
SendOver(x, i, id, o) ==
    [x EXCEPT !.request = SelectSeq(@, LAMBDA r : r # id), !.reply = @ \cup {id}, !.sent = Append(@, id),
              !.c[i].req = id, !.c[i].busy = TRUE, !.c[i].write = @ \/ o = "partly", !.working = @ + 1]

Enqueue(x) ==
    [x EXCEPT !.made = @ + 1, !.told = Append(@, 0), !.request = Append(@, x.made + 1)]
WaitForTimer(x) == [x EXCEPT !.timer = TRUE, !.pending = TRUE]
\* g: what GrabFree found.
SendNew(g, o) ==
    IF g.cli = None THEN WaitForTimer(g.x)
    ELSE IF Unfit(g.x, g.cli) THEN Abort(g.x, IF g.x.c[g.cli].req # None THEN "attached" ELSE "offline")
    ELSE IF o = "refused" THEN [g.x EXCEPT !.pending = TRUE]
    ELSE SendOver(g.x, g.cli, g.x.made, o)
\* Slip: a new query does not wait for those that wait already.
SendReqUnordered(x, o, up) == SendNew(GrabFree(Enqueue(x), TRUE, up), o)
SendReq(x, o, up) ==
    IF Len(x.request) + Cardinality(x.reply) >= MaxPending THEN x
    ELSE SendNew(GrabFree(Enqueue(x), FALSE, up), o)

Acts == {"none", "send", "retry", "cancel"}
Uncancelled(x) == ({x.request[i] : i \in 1 .. Len(x.request)} \cup x.reply) \ x.cancelled
\* What the program does in a callback: it sends a query, which is refused or
\* not, or cancels those of an owner, whose callbacks have not been called.
Act(x, a, up) ==
    CASE a \in {"send", "retry"} /\ x.made < MaxQueries -> SendReq(x, IF a = "send" THEN "sent" ELSE "refused", up)
      [] a = "cancel" -> [x EXCEPT !.cancelled = @ \cup {id \in Uncancelled(x) : x.told[id] = 0}]
      [] OTHER -> x
Tell(x, id, a, up) == Act([x EXCEPT !.told[id] = @ + 1], a, up)
-----------------------------------------------------------------------------
(* The timer's walk: one request a step. *)

BufferedRequestTimerTick ==
    /\ q.timer
    /\ q' = IF q.request = <<>> THEN [q EXCEPT !.timer = FALSE, !.pending = FALSE]
            ELSE [q EXCEPT !.timer = FALSE, !.ticking = TRUE]

TickEnds(x) == [x EXCEPT !.ticking = FALSE, !.timer = TRUE]
DispatchTo(g, id, o, up, a) ==
    IF g.cli = None THEN TickEnds(g.x)
    ELSE IF id \in g.x.cancelled
    THEN RequestDestroy(IF g.x.notify THEN [Tell(g.x, id, a, up) EXCEPT !.c[g.cli].req = None] ELSE g.x, id)
    ELSE IF Unfit(g.x, g.cli) THEN Abort(g.x, IF g.x.c[g.cli].req # None THEN "attached" ELSE "offline")
    ELSE IF o = "refused" THEN TickEnds(g.x)
    ELSE SendOver(g.x, g.cli, id, o)
BufferDispatch(x, o, up, a) ==
    IF x.request = <<>> THEN TickEnds(x) ELSE DispatchTo(GrabFree(x, TRUE, up), Head(x.request), o, up, a)

Running == q.alive /\ q.aborted = "no" /\ q.faults < MaxFaults
Dispatch == q.ticking /\ \E o \in Outcomes, up \in BOOLEAN, a \in Acts : q' = BufferDispatch(q, o, up, a)

-----------------------------------------------------------------------------
(* Events.  eof: kevent() saw the end of the connection, which is told     *)
(* after the handler of the event.                                         *)

\* Slip: the query stays with its connection.
AnsweredKeepsIt(x, i, id) ==
    IF ~x.c[i].busy THEN Abort(x, "idle") ELSE RequestDestroy([x EXCEPT !.c[i].busy = FALSE, !.working = @ - 1], id)
Answered(x, i, id) ==
    IF ~x.c[i].busy THEN Abort(x, "idle")
    ELSE RequestDestroy([x EXCEPT !.c[i].busy = FALSE, !.c[i].req = None, !.working = @ - 1], id)
\* Slip: the answer to a cancelled query is told too.
EventReadTellsAll(x, i, o, a, up) ==
    LET id == x.c[i].req
    IN IF id = None \/ o = "part" THEN [x EXCEPT !.c[i].read = TRUE]
       ELSE Answered(Tell([x EXCEPT !.c[i].read = TRUE], id, a, up), i, id)
EventRead(x, i, o, a, up) ==
    LET id == x.c[i].req
        y == IF o = "failed" THEN [x EXCEPT !.c[i].conn = "bad", !.c[i].read = FALSE, !.c[i].write = FALSE,
                                            !.faults = @ + 1]
             ELSE [x EXCEPT !.c[i].read = TRUE]
    IN IF id = None THEN [x EXCEPT !.c[i].read = TRUE]      \* what comes is read and dropped
       ELSE IF o = "part" THEN y
       ELSE Answered(IF x.notify \/ id \notin x.cancelled THEN Tell(y, id, a, up) ELSE y, i, id)

\* The handler asserts that the descriptor is still the one libpq uses.
EventEof(x, i, eof, up) ==
    IF ~eof \/ ~x.c[i].eof \/ x.aborted # "no" THEN x
    ELSE IF x.c[i].conn # "ok" THEN Abort(x, "socket")
    ELSE EventClose(x, i, up)

ReadEvent ==
    \E i \in Members(q), o \in {"part", "done", "failed"}, a \in Acts, up \in BOOLEAN, eof \in BOOLEAN :
        /\ q.c[i].read /\ q.c[i].conn = "ok"
        /\ q.c[i].req = None => eof /\ o = "part"
        /\ q' = EventEof(EventRead([q EXCEPT !.c[i].read = FALSE], i, o, a, up), i, eof, up)

WriteEvent ==
    \E i \in Members(q), o \in {"flushed", "more", "error"}, eof \in BOOLEAN, up \in BOOLEAN :
        /\ q.c[i].write /\ q.c[i].conn = "ok"
        /\ q' = EventEof([q EXCEPT !.c[i].write = o = "more"], i, eof, up)

\* sick: the sockets with an error.
HealthCheck(x, i, up, sick) ==
    IF i \in sick \/ x.c[i].conn # "ok" THEN EventClose(x, i, up) ELSE MarkOnline(Listen(x, i), i)
ConnHealthTimer ==
    \E sick \in SUBSET Members(q), up \in BOOLEAN :
        q' = FoldLeft(LAMBDA x, i : HealthCheck(x, i, up, sick), q, [i \in 1 .. q.count |-> i])

\* recent: the client was used in the last five seconds.
StopClient(x, i) ==
    [Deaf(MarkOffline(x, i), i) EXCEPT !.c[i].conn = "none", !.count = @ - 1]
DecreasePQCliTimer ==
    \E recent \in BOOLEAN :
        /\ q.shrink
        /\ q' = IF q.count <= Begin THEN [q EXCEPT !.shrink = FALSE]
                ELSE IF q.c[q.count].busy \/ recent THEN q
                ELSE StopClient(q, q.count)

-----------------------------------------------------------------------------
(* Calls of the program, which cancels no request twice. *)

Send == q.made < MaxQueries /\ \E o \in Outcomes, up \in BOOLEAN : q' = SendReq(q, o, up)
CancelByReqID == \E id \in Uncancelled(q) : q' = [q EXCEPT !.cancelled = @ \cup {id}]
\* The timer that shrinks the pool is not among those deleted.
Destroy == q' = [q EXCEPT !.alive = FALSE, !.timer = FALSE, !.c = [i \in Clients |-> Unused],
                          !.count = 0, !.request = <<>>, !.reply = {}]
LateTimer == ~q.alive /\ q.aborted = "no" /\ q.shrink /\ q' = Abort(q, "freed")

Next ==
    \/ /\ Running
       /\ \/ Dispatch
          \/ ~q.ticking /\ \/ BufferedRequestTimerTick \/ ReadEvent \/ WriteEvent \/ ConnHealthTimer
                           \/ DecreasePQCliTimer \/ Send \/ CancelByReqID \/ Destroy
    \/ LateTimer

-----------------------------------------------------------------------------
(* Properties. *)

Well == q.alive /\ q.aborted = "no"

(***************************************************************************)
(* Queries are sent in the order in which they were accepted, whichever of *)
(* the call, the timer and a callback sends them.                          *)
(***************************************************************************)
SentInOrder == \A i, j \in 1 .. Len(q.sent) : i < j => q.sent[i] < q.sent[j]

(***************************************************************************)
(* A query that is accepted waits on one list or was called back once; a   *)
(* cancelled one is called back only when the base is set to.  One that is *)
(* sent has a connection that will answer it, and no two share one, unless *)
(* the connection was lost: then it is never told.                         *)
(***************************************************************************)
AnsweredOnce ==
    Well =>
      LET waiting == {q.request[i] : i \in 1 .. Len(q.request)}
      IN /\ waiting \cap q.reply = {} /\ Cardinality(waiting) = Len(q.request)
         /\ \A id \in 1 .. q.made :
              /\ q.told[id] <= 1
              /\ q.told[id] = 1 => id \notin waiting \cup q.reply
              /\ (id \in q.cancelled /\ ~q.notify) => q.told[id] = 0
              /\ q.told[id] = 0 => id \in waiting \cup q.reply \/ (id \in q.cancelled /\ ~q.notify)
         /\ \A id \in q.reply \ q.lost : \E i \in Members(q) : q.c[i].req = id
         /\ \A i \in Members(q) :
              q.c[i].busy => /\ q.c[i].online /\ q.c[i].read
                             /\ q.c[i].req \in q.reply \ q.lost
                             /\ \A j \in Members(q) \ {i} : q.c[j].req # q.c[i].req

(***************************************************************************)
(* A query that waits to be sent will be looked at: the timer is armed or  *)
(* its walk is under way, unless the call that made it found a connection  *)
(* that refused it and no later call came.                                 *)
(***************************************************************************)
WaitingIsServed ==
    (Well /\ q.request # <<>>) => q.pending /\ (q.timer \/ q.ticking \/ Len(q.request) = 1)

(***************************************************************************)
(* The counts of connections are exact, but for queries lost with theirs;  *)
(* an assertion fails only after a connection was lost, and a freed base   *)
(* is used only by the timer that shrinks a pool that had grown.           *)
(***************************************************************************)
PoolCounts ==
    /\ Well => /\ q.ready = Cardinality({i \in Members(q) : q.c[i].online})
               /\ q.working = Cardinality({i \in Members(q) : q.c[i].busy}) + Cardinality(q.lost)
    /\ q.aborted = "attached" => q.lost # {}
    /\ q.aborted = "idle" => q.lost # {}
    /\ q.aborted = "offline" => "revived" \in q.hist
=============================================================================
