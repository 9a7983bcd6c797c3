------------------------------- MODULE UnixLink -----------------------------
(***************************************************************************)
(* A UNIX socket with its two ends: the client of comm_unix_client.c and   *)
(* the connection of comm_unix_server.c (comm/core/unix), two processes    *)
(* that send requests to each other, framed by a header and acknowledged   *)
(* when the sender wants it; or plain bytes, with no_brb_proto.            *)
(*                                                                         *)
(* Each end is a thread with its event loop.  A handler is a step up to    *)
(* the callback it makes; what the program does in the callback is the     *)
(* next step.  A finish or ACK callback must not close the connection,     *)
(* whose request the code goes on to use, and one of a plain write must    *)
(* not write.                                                              *)
(***************************************************************************)
LOCAL INSTANCE Integers
LOCAL INSTANCE FiniteSets
LOCAL INSTANCE Sequences
LOCAL INSTANCE SequencesExt

CONSTANTS Ids,          \* slots of write requests, COMM_UNIX_MAX_WRITE_REQ
          Room,         \* units a socket buffers; a header is one
          Sizes,        \* data_sz of requests, in units
          MaxTries,     \* COMM_UNIX_MAX_TX_RETRY
          MaxSends,     \* bound: requests
          MaxFails,     \* bound: calls of sendmsg() refused for want of memory
          MaxConnects   \* bound: connections

Ends == {"client", "server"}
Other(e) == IF e = "client" THEN "server" ELSE "client"

(***************************************************************************)
(* The link u: raw, no_brb_proto; auto, the descriptors of a request are   *)
(* closed on its ACK; wire[e], what e has sent and the other end not read. *)
(* Of an end:                                                              *)
(*   up        the connection is open; init, iodata has its slots          *)
(*   req       the requests by slot; pend wait  their two lists            *)
(*   acks      ack_mem_slot: the requests of the other end to acknowledge  *)
(*   preq pack pending_write_request, pending_write_ack; closing           *)
(*   armed     the WRITE event                                             *)
(*   win done  can_write_sz of its handler, and what it wrote so far if it *)
(*             is in a finish callback                                     *)
(*   part head got  read_partial, control_data, read.data_mb               *)
(* History: sent, from, size and ack of each message; told, its callbacks  *)
(* and the closing of its descriptors; heard, the messages (of plain       *)
(* bytes, their units) each end was given; stop, the handler of the end    *)
(* left requests behind; spoilt, what broke the framing; aborted.          *)
(***************************************************************************)
VARIABLE u

NoReq == [m |-> 0, size |-> 0, left |-> 0, begun |-> FALSE, tries |-> 0, ack |-> FALSE]
NoHead == [kind |-> "none", id |-> 0, size |-> 0, ack |-> FALSE, m |-> 0]
Data(m) == [NoHead EXCEPT !.kind = "data", !.m = m]
Fresh == [up |-> TRUE, init |-> FALSE, req |-> [i \in Ids |-> NoReq], pend |-> <<>>, wait |-> {}, acks |-> <<>>,
          preq |-> FALSE, pack |-> FALSE, closing |-> FALSE, armed |-> FALSE, stop |-> FALSE, win |-> 0, done |-> 0,
          part |-> FALSE, head |-> NoHead, got |-> <<>>]

Init ==
    \E raw, auto \in BOOLEAN :
        /\ raw => ~auto
        /\ u = [raw |-> raw, auto |-> auto, end |-> [e \in Ends |-> Fresh], wire |-> [e \in Ends |-> <<>>],
                sent |-> <<>>, told |-> <<>>, heard |-> [e \in Ends |-> <<>>],
                spoilt |-> {}, fails |-> 0, connects |-> 1, aborted |-> FALSE]

Spoil(x, why) == [x EXCEPT !.spoilt = @ \cup {why}]
Tell(x, m, what) == [x EXCEPT !.told[m] = @ \o what]
Arm(x, e) == [x EXCEPT !.end[e].armed = TRUE, !.end[e].stop = FALSE]
Space(x, e) == Room - Len(x.wire[e])
Units(x, y, e) == Len(y.wire[e]) - Len(x.wire[e])     \* what was written between x and y

\* sendmsg(): the units that e gets rid of.
Sendable(x, e) == IF x.end[Other(e)].up THEN Space(x, e) ELSE 0

-----------------------------------------------------------------------------
(* Writing.  refused tells which call of sendmsg() fails for want of       *)
(* memory: none, the one of the header or the one of the data.             *)

\* As much of the data as there is room for.
IOWriteRaw(x, e, id, refused) ==
    LET r == x.end[e].req[id]
        n == IF refused # "none" THEN 0 ELSE Min({r.left, Sendable(x, e)})
    IN [x EXCEPT !.wire[e] = @ \o [i \in 1 .. n |-> Data(r.m)], !.end[e].req[id].left = @ - n]

\* The header, unless it was sent before, and only after it the data.
IOWrite(x, e, id, refused) ==
    LET r == x.end[e].req[id]
        head == [kind |-> "request", id |-> id, size |-> r.size, ack |-> r.ack, m |-> r.m]
        y == [x EXCEPT !.wire[e] = Append(@, head), !.end[e].req[id].begun = TRUE]
    IN IF r.begun THEN IOWriteRaw(x, e, id, refused)
       ELSE IF refused = "header" \/ Sendable(x, e) = 0 THEN x
       ELSE IOWriteRaw(y, e, id, refused)

\* The request is written: it waits for its ACK, or is done.
Written(x, e, id) ==
    LET r == x.end[e].req[id]
        y == [Tell(x, r.m, <<"finished">>) EXCEPT !.end[e].pend = SelectSeq(@, LAMBDA i : i # id)]
    IN IF r.ack THEN [y EXCEPT !.end[e].wait = @ \cup {id}] ELSE [y EXCEPT !.end[e].req[id] = NoReq]
IsWritten(x, e, id) == x.end[e].req[id].left = 0 /\ (x.raw \/ x.end[e].req[id].begun)

\* Tries are counted up to where they make a difference.
TryAgain(x, e, id) == [Arm(x, e) EXCEPT !.end[e].req[id].tries = IF @ > MaxTries THEN @ ELSE @ + 1]
EnqueueWrite(x, e, id) == [TryAgain(x, e, id) EXCEPT !.end[e].preq = TRUE]

\* A slot is taken and listed, whether the request is then enqueued or written.
FreeIds(x, e) == {i \in Ids : x.end[e].req[i] = NoReq}
NewId(x, e) == Min(FreeIds(x, e))
Grab(x, e, size, ack) ==
    LET m == Len(x.sent) + 1
        id == NewId(x, e)
    IN [x EXCEPT !.end[e].req[id] = [NoReq EXCEPT !.m = m, !.size = size, !.left = size, !.ack = ack],
                 !.end[e].pend = Append(@, id), !.end[e].init = TRUE,
                 !.sent = Append(@, [from |-> e, size |-> size, ack |-> ack]), !.told = Append(@, <<>>)]

\* Slip: only requests that wait are looked at, not the flags.
AIOBrbProtoWriteOvertakes(x, e, size, ack, refused) ==
    LET id == NewId(x, e)
        z == IOWrite(Grab(x, e, size, ack), e, id, refused)
    IN IF IsWritten(z, e, id) THEN Written(z, e, id) ELSE EnqueueWrite(z, e, id)
AIOBrbProtoWrite(x, e, size, ack, refused) ==
    LET id == NewId(x, e)
        y == Grab(x, e, size, ack)
        z == IOWrite(y, e, id, refused)
    IN IF x.end[e].preq \/ x.end[e].pack THEN EnqueueWrite(y, e, id)
       ELSE IF IsWritten(z, e, id) THEN Written(z, e, id)
       ELSE EnqueueWrite(z, e, id)

\* The client also looks whether the buffer, when empty, has room for the
\* request.  Its margins for descriptors are less than a unit.
TooLarge(x, id, room) == x.end["client"].req[id].size + 1 > room
ClientAIOBrbProtoWrite(x, size, ack, refused) ==
    LET y == Grab(x, "client", size, ack)
    IN IF TooLarge(y, NewId(x, "client"), Room) THEN EnqueueWrite(y, "client", NewId(x, "client"))
       ELSE AIOBrbProtoWrite(x, "client", size, ack, refused)

\* The first request is written by EventRawWrite at once.
ClientAIORawWrite(x, size, refused) ==
    LET id == NewId(x, "client")
        y == Grab(x, "client", size, FALSE)
        z == IOWriteRaw(y, "client", id, refused)
    IN IF x.end["client"].preq THEN EnqueueWrite(y, "client", id)
       ELSE IF IsWritten(z, "client", id) THEN Written(z, "client", id)
       ELSE EnqueueWrite(z, "client", id)

\* The server looks at the request once more after it was freed.
ServerConnAIORawWrite(x, size, refused, stale) ==
    LET id == NewId(x, "server")
        y == Grab(x, "server", size, FALSE)
        z == IOWriteRaw(y, "server", id, refused)
        w == Written(z, "server", id)
    IN IF x.end["server"].preq THEN EnqueueWrite(y, "server", id)
       ELSE IF ~IsWritten(z, "server", id) THEN EnqueueWrite(z, "server", id)
       ELSE IF stale THEN [Arm(w, "server") EXCEPT !.end["server"].preq = TRUE]
       ELSE w

-----------------------------------------------------------------------------
(* Acknowledging. *)

Reply(id, m) == [kind |-> "reply", id |-> id, size |-> -1, ack |-> FALSE, m |-> m]
AIOBrbProtoACK(x, e, id, m, refused) ==
    LET y == [x EXCEPT !.end[e].init = TRUE]
    IN IF Len(x.end[e].acks) = Cardinality(Ids) THEN Spoil(y, "no_slot")
       ELSE IF x.end[e].preq \/ refused # "none" \/ Sendable(x, e) = 0
       THEN [Arm(y, e) EXCEPT !.end[e].acks = Append(@, Reply(id, m)), !.end[e].pack = TRUE]
       ELSE [y EXCEPT !.wire[e] = Append(@, Reply(id, m))]

\* As many as the window takes, up to one that is refused; in the middle of
\* a request as well.
EventBrbProtoWriteACK(x, e, win, refused) ==
    LET acks == x.end[e].acks
        most == CASE refused = "none" -> Len(acks) [] refused = "header" -> 0 [] refused = "data" -> 1
        n == Min({most, Len(acks), win, Sendable(x, e)})
        y == [x EXCEPT !.wire[e] = @ \o SubSeq(acks, 1, n), !.end[e].acks = SubSeq(@, n + 1, Len(acks))]
    IN IF acks = <<>> THEN [x EXCEPT !.end[e].pack = FALSE]
       ELSE IF n > 0 /\ x.end[e].pend # <<>> /\ x.end[e].req[x.end[e].pend[1]].begun THEN Spoil(y, "inside")
       ELSE y

\* CommEvUNIXIOControlDataProcess.  read_bytes is never more than one header.
ControlDataProcess(x, e, id) ==
    LET r == x.end[e].req[id]
        y == Tell(x, r.m, IF x.auto THEN <<"acked", "closed">> ELSE <<"acked">>)
    IN IF r = NoReq THEN [x EXCEPT !.aborted = TRUE]
       ELSE [y EXCEPT !.end[e].req[id] = NoReq, !.end[e].wait = @ \ {id},
                      !.end[e].pend = SelectSeq(@, LAMBDA i : i # id)]

-----------------------------------------------------------------------------
(* The WRITE event.  After the finish callback of one request the handler  *)
(* goes on with the next.                                                  *)

Leave(x, e) == [x EXCEPT !.end[e].win = 0, !.end[e].done = 0]

GiveUp(x, e, id) ==
    LET r == x.end[e].req[id]
        y == Tell(x, r.m, <<"failed">> \o (IF r.ack THEN <<"refused">> ELSE <<>>) \o (IF x.auto THEN <<"closed">> ELSE <<>>))
        z == [Arm(y, e) EXCEPT !.end[e].req[id] = NoReq, !.end[e].pend = Tail(@)]
    IN IF r.begun /\ x.end[Other(e)].up THEN Spoil(z, "given_up") ELSE z

\* Slip: the handler trusts the next event to be armed by who writes.
EventBrbProtoWriteOnce(x, e, refused) ==
    LET d == x.end[e]
        id == d.pend[1]
        y == Leave(x, e)
        z == IOWrite(y, e, id, refused)
    IN IF d.acks # <<>> THEN EventBrbProtoWriteACK(y, e, d.win, refused)
       ELSE IF d.pend = <<>> THEN [y EXCEPT !.end[e].pack = FALSE, !.end[e].preq = @ /\ d.done > 0]
       ELSE IF IsWritten(z, e, id) THEN Written(z, e, id)
       ELSE Arm(z, e)
EventBrbProtoWrite(x, e, refused) ==
    LET d == x.end[e]
        id == d.pend[1]
        y == Leave(x, e)
        z == IOWrite(y, e, id, refused)
    IN IF d.acks # <<>> THEN Arm(EventBrbProtoWriteACK(y, e, d.win, refused), e)
       ELSE IF d.pend = <<>> THEN [EventBrbProtoWriteACK(y, e, d.win, refused) EXCEPT !.end[e].preq = @ /\ d.done > 0]
       ELSE IF IsWritten(z, e, id)
       THEN [Written(z, e, id) EXCEPT !.end[e].win = d.win, !.end[e].done = d.done + Units(y, z, e)]
       ELSE IF Units(y, z, e) = 0 /\ x.end[e].req[id].tries > MaxTries THEN GiveUp(y, e, id)
       ELSE TryAgain(z, e, id)

\* The client waits for a window that takes the whole of the request.
ClientEventBrbProtoWrite(x, refused) ==
    LET d == x.end["client"]
    IN IF d.acks = <<>> /\ d.pend # <<>> /\ TooLarge(x, d.pend[1], d.win - d.done) THEN Arm(Leave(x, "client"), "client")
       ELSE EventBrbProtoWrite(x, "client", refused)

\* When the window is used up the handler returns and arms nothing.
RawWritten(x, y, e, id) ==
    LET d == x.end[e]
        done == d.done + Units(x, y, e)
        z == Written(y, e, id)
    IN IF d.win > done THEN [z EXCEPT !.end[e].done = done]
       ELSE [Leave(z, e) EXCEPT !.end[e].stop = z.end[e].pend # <<>> /\ ~z.end[e].armed]

\* The client never clears the flag.
ClientEventRawWrite(x, refused) ==
    LET id == x.end["client"].pend[1]
        z == IOWriteRaw(x, "client", id, refused)
    IN IF x.end["client"].pend = <<>> THEN Leave(x, "client")
       ELSE IF IsWritten(z, "client", id) THEN RawWritten(x, z, "client", id)
       ELSE EnqueueWrite(Leave(z, "client"), "client", id)
ServerEventRawWrite(x, refused) ==
    LET d == x.end["server"]
        z == IOWriteRaw(x, "server", d.pend[1], refused)
    IN IF d.pend = <<>> THEN [Leave(x, "server") EXCEPT !.end["server"].preq = @ /\ d.done > 0]
       ELSE IF IsWritten(z, "server", d.pend[1]) THEN RawWritten(x, z, "server", d.pend[1])
       ELSE Arm(Leave(z, "server"), "server")

-----------------------------------------------------------------------------
(* The READ event, which is armed as long as the connection is open. *)

Whole(x, e, refused) ==
    LET d == x.end[e]
        y == [x EXCEPT !.end[e].part = FALSE, !.end[e].got = <<>>]
        acked == IF d.head.ack THEN AIOBrbProtoACK(y, e, d.head.id, d.head.m, refused) ELSE y
    IN CASE d.head.kind = "reply" -> ControlDataProcess(y, e, d.head.id)
         [] d.head.kind = "request" ->
              [acked EXCEPT !.heard[e] = Append(@, IF \A i \in DOMAIN d.got : d.got[i] = Data(d.head.m) THEN d.head.m ELSE 0)]

\* CommEvUNIXIORead: a header unless it is in the middle of a request, then
\* what there is of the data.
ReadData(x, e, refused) ==
    LET in == x.wire[Other(e)]
        d == x.end[e]
        need == d.head.size - Len(d.got)
        n == Min({need, Len(in)})
        y == [x EXCEPT !.end[e].got = @ \o SubSeq(in, 1, n), !.wire[Other(e)] = SubSeq(in, n + 1, Len(in))]
    IN IF n < need THEN [y EXCEPT !.end[e].part = TRUE] ELSE Whole(y, e, refused)
EventBrbProtoRead(x, e, refused) ==
    LET in == x.wire[Other(e)]
        y == [x EXCEPT !.end[e].head = in[1], !.wire[Other(e)] = Tail(in)]
    IN IF x.end[e].part THEN ReadData(x, e, refused)
       ELSE IF in[1].kind = "data" THEN [x EXCEPT !.aborted = TRUE]
       ELSE IF in[1].size <= 0 THEN Whole(y, e, refused)
       ELSE ReadData(y, e, refused)

EventRawRead(x, e) ==
    LET in == x.wire[Other(e)]
    IN [x EXCEPT !.heard[e] = @ \o [i \in DOMAIN in |-> in[i].m], !.wire[Other(e)] = <<>>]

-----------------------------------------------------------------------------
(* The end of a connection, and the next. *)

\* Slip: those that wait for an ACK are forgotten.
IODataDestroySilent(x, e) ==
    LET d == x.end[e]
    IN IF ~d.init THEN x
       ELSE [x EXCEPT !.told = [m \in DOMAIN x.told |->
                                  IF \E i \in DOMAIN d.pend : d.req[d.pend[i]].m = m THEN Append(x.told[m], "dropped")
                                  ELSE x.told[m]],
                      !.end[e] = [@ EXCEPT !.req = Fresh.req, !.pend = <<>>, !.wait = {}, !.acks = <<>>,
                                           !.got = <<>>, !.init = FALSE]]
\* CommEvUNIXIODataDestroy: a request not yet written is told so, but not that
\* there will be no ACK, and its descriptors stay open.
IODataDestroy(x, e) ==
    LET d == x.end[e]
        lost == {d.req[i].m : i \in d.wait}
        said(m) == IF \E i \in DOMAIN d.pend : d.req[d.pend[i]].m = m THEN <<"dropped">>
                   ELSE IF m \notin lost THEN <<>>
                   ELSE IF x.auto THEN <<"refused", "closed">> ELSE <<"refused">>
    IN IF ~d.init THEN x
       ELSE [x EXCEPT !.told = [m \in DOMAIN x.told |-> x.told[m] \o said(m)],
                      !.end[e] = [@ EXCEPT !.req = Fresh.req, !.pend = <<>>, !.wait = {}, !.acks = <<>>,
                                           !.got = <<>>, !.init = FALSE]]

\* CommEvUNIXClientDisconnect and CommEvUNIXServerConnClose.
Close(x, e) ==
    [IODataDestroy(x, e) EXCEPT !.end[e].up = FALSE, !.end[e].armed = FALSE, !.end[e].stop = FALSE,
                                !.wire[Other(e)] = <<>>]

\* Nothing else looks at close_request but the writes that it refuses.
CloseRequest(x, e) ==
    LET y == [x EXCEPT !.end[e].closing = TRUE]
    IN IF x.end[e].pend = <<>> /\ x.end[e].wait = {} THEN Close(y, e) ELSE y

\* The connection accepted is new all over, the client is not.
Reconnect(x) ==
    LET y == [x EXCEPT !.end["server"] = Fresh, !.end["client"].up = TRUE, !.connects = @ + 1,
                       !.wire = [e \in Ends |-> <<>>]]
    IN IF x.end["client"].part THEN Spoil(y, "midread") ELSE y

-----------------------------------------------------------------------------
Idle(e) == u.end[e].up /\ u.end[e].done = 0
MayRefuse == {"none"} \cup {b \in {"header", "data"} : u.fails < MaxFails}
Count(x, refused) == [x EXCEPT !.fails = IF refused = "none" THEN @ ELSE @ + 1]

Write(e) ==
    /\ u.end[e].up /\ ~u.end[e].closing /\ FreeIds(u, e) # {} /\ Len(u.sent) < MaxSends
    /\ \E size \in Sizes, ack \in BOOLEAN, refused \in MayRefuse, stale \in BOOLEAN :
         /\ u.raw => ~ack
         /\ u.auto => ack
         /\ stale => u.raw /\ e = "server"
         /\ u' = Count(CASE u.raw /\ e = "client" -> ClientAIORawWrite(u, size, refused)
                         [] u.raw /\ e = "server" -> ServerConnAIORawWrite(u, size, refused, stale)
                         [] ~u.raw /\ e = "client" -> ClientAIOBrbProtoWrite(u, size, ack, refused)
                         [] ~u.raw /\ e = "server" -> AIOBrbProtoWrite(u, e, size, ack, refused), refused)

\* The handler goes on, or begins; its own end may have written since the
\* kernel told it the window.
Begin(e) == {[u EXCEPT !.end[e].armed = FALSE, !.end[e].win = win] : win \in Space(u, e) .. Room}
Writable(e) ==
    /\ u.end[e].up
    /\ \/ u.end[e].done > 0
       \/ u.end[e].armed /\ (Space(u, e) > 0 \/ ~u.end[Other(e)].up)
    /\ \E refused \in MayRefuse, x \in IF u.end[e].done > 0 THEN {u} ELSE Begin(e) :
         u' = Count(CASE u.raw /\ e = "client" -> ClientEventRawWrite(x, refused)
                      [] u.raw /\ e = "server" -> ServerEventRawWrite(x, refused)
                      [] ~u.raw /\ e = "client" -> ClientEventBrbProtoWrite(x, refused)
                      [] ~u.raw /\ e = "server" -> EventBrbProtoWrite(x, e, refused), refused)
Readable(e) ==
    /\ Idle(e) /\ u.wire[Other(e)] # <<>>
    /\ IF u.raw THEN u' = EventRawRead(u, e)
       ELSE \E refused \in MayRefuse : u' = Count(EventBrbProtoRead(u, e, refused), refused)
\* The EOF event is put off while there is something to read.
EventEOF(e) == Idle(e) /\ ~u.end[Other(e)].up /\ u.wire[Other(e)] = <<>> /\ u' = Close(u, e)
CallClose(e) == Idle(e) /\ u' \in {Close(u, e), CloseRequest(u, e)}
CallConnect == (\A e \in Ends : ~u.end[e].up) /\ u.connects < MaxConnects /\ u' = Reconnect(u)

Next ==
    /\ ~u.aborted
    /\ \/ \E e \in Ends : Write(e) \/ Writable(e) \/ Readable(e) \/ EventEOF(e) \/ CallClose(e)
       \/ CallConnect

-----------------------------------------------------------------------------
(* Properties. *)

(***************************************************************************)
(* The program at an end is given the requests of the other end whole, in  *)
(* the order in which they were accepted, none twice, and plain bytes in   *)
(* order; no assertion fails, and there is a slot for every ACK.  Three    *)
(* things break the framing: an ACK sent in the middle of a request, a     *)
(* request given up in its middle, and a client that connects again in the *)
(* middle of reading one.                                                  *)
(***************************************************************************)
Framed ==
    /\ "no_slot" \notin u.spoilt
    /\ u.spoilt = {} =>
        /\ ~u.aborted
        /\ \A e \in Ends :
             LET h == u.heard[e]
             IN /\ \A i \in DOMAIN h : h[i] > 0 /\ u.sent[h[i]].from = Other(e)
                /\ \A i, j \in DOMAIN h : i < j => IF u.raw THEN h[i] <= h[j] ELSE h[i] < h[j]
                /\ u.raw => \A m \in DOMAIN u.sent : Cardinality({i \in DOMAIN h : h[i] = m}) <= u.sent[m].size

(***************************************************************************)
(* A request is told to be written, or failed, or dropped with the         *)
(* connection, once, and after it was written acknowledged or refused,     *)
(* once, when that is asked; acknowledged means that the other program was *)
(* given it.  None is forgotten, and its descriptors are closed once.      *)
(***************************************************************************)
After(answer) == {<<"finished", answer>>, <<"finished", answer, "closed">>}
ToldRight ==
    u.spoilt = {} => \A m \in DOMAIN u.sent :
        LET d == u.end[u.sent[m].from]
            on(S) == \E i \in S : d.req[i].m = m
            said == u.told[m]
        IN IF on(ToSet(d.pend)) THEN said = <<>>
           ELSE IF on(d.wait) THEN said = <<"finished">>
           ELSE \/ said \in {<<"dropped">>, <<"failed">>, <<"failed", "refused">>, <<"failed", "refused", "closed">>}
                \/ said = <<"finished">> /\ ~u.sent[m].ack
                \/ said \in After("refused") /\ u.sent[m].ack
                \/ said \in After("acked") /\ u.sent[m].ack /\ m \in ToSet(u.heard[Other(u.sent[m].from)])

(***************************************************************************)
(* What waits to be written or acknowledged has the WRITE event or the     *)
(* handler that is under way, and a request that waits for its ACK is on   *)
(* its way to the other end, or its ACK on the way back.  Plain writes are *)
(* left behind when one of them uses up the window of the handler, until   *)
(* the program writes again.                                               *)
(***************************************************************************)
LinkServed ==
    ~u.aborted => \A e \in Ends :
        LET d == u.end[e]
            o == u.end[Other(e)]
        IN /\ d.up /\ (d.pend # <<>> \/ d.acks # <<>>) => d.armed \/ d.done > 0 \/ d.stop
           /\ d.up /\ o.up /\ u.spoilt = {} =>
                \A i \in d.wait :
                    LET m == d.req[i].m
                        Of(S, kind) == \E k \in DOMAIN S : S[k].kind = kind /\ S[k].m = m
                    IN \/ Of(u.wire[e], "request")
                       \/ o.part /\ o.head.kind = "request" /\ o.head.m = m
                       \/ Of(o.acks, "reply") \/ Of(u.wire[Other(e)], "reply")
=============================================================================
