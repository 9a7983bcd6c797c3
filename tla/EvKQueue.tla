------------------------------ MODULE EvKQueue ------------------------------
(***************************************************************************)
(* The event loop and its descriptors (event/core/ev_kq_base.c and         *)
(* ev_kq_fd.c).  One turn of the loop runs the jobs, hands the change list *)
(* to kevent(), and dispatches the events it returned.  Callbacks open and *)
(* close sockets and set events at any point of a turn, so an event still  *)
(* in the array can be about a socket that is gone, at a number that is a  *)
(* new socket by now: lingering close exists to prevent it.                *)
(*                                                                         *)
(* A client acts on the sockets it has open, and closes each one once (a   *)
(* second EvKQBaseSocketClose is an assertion failure).  Deferred events   *)
(* (ev_kq_defer.c) and timeouts are left out.                              *)
(***************************************************************************)
EXTENDS Integers, Sequences, FiniteSets, SequencesExt

CONSTANTS Fds,          \* descriptor numbers
          Filters,      \* the filters in use, of READ and WRITE
          ChgMax        \* bound: changes pending when a client makes one more

READ == "READ"
WRITE == "WRITE"
EOF == "EOF"

ASSUME KQueueAssumption ==
    Fds \subseteq Nat /\ Filters \subseteq {READ, WRITE} /\ ChgMax \in Nat

Codes == Filters \cup {EOF}     \* the KQ_CB_HANDLERs modelled
None == -1

(***************************************************************************)
(* EvBaseKQFileDesc: the flags, the loops left to the close job (None when *)
(* there is none, notify.close.job_id), and for each code the handler.  A  *)
(* handler is "own" while the socket it was set on is open, then "stale".  *)
(***************************************************************************)
Desc == [active : BOOLEAN, closing : BOOLEAN, closed : BOOLEAN,
         so_read_eof : BOOLEAN, job : {None, 0, 1}]
Flags0 == [active |-> FALSE, closing |-> FALSE, closed |-> FALSE,
           so_read_eof |-> FALSE, job |-> None]
Handler == [cb : {"none", "own", "stale"}, enabled : BOOLEAN, persist : BOOLEAN]
Blank == [cb |-> "none", enabled |-> FALSE, persist |-> FALSE]

Absent == [on |-> FALSE, oneshot |-> FALSE, enabled |-> FALSE]
KNote == [on : BOOLEAN, oneshot : BOOLEAN, enabled : BOOLEAN]
Idle == [fd |-> None, code |-> EOF, own |-> TRUE]
Ops == {"add", "oneshot", "delete", "enable", "disable"}
Change == [fd : Fds, filter : Filters, op : Ops, own : BOOLEAN]
Event == [fd : Fds, filter : Filters, own : BOOLEAN, eof : BOOLEAN]

VARIABLES linger,   \* kq_conf.onoff.close_linger
          desc,     \* kq_base->fd.arena
          handler,  \* kq_fd->cb_handler
          chg,      \* kq_base->ke_chg
          pc,       \* "jobs" before kevent(), "kevent" in it, "events" after it
          todo,     \* descriptors whose close job this walk has to visit
          errs,     \* event_arr: the changes that failed
          ready,    \* event_arr: or the sockets that are ready, in any order
          cur,      \* the callback that runs: [fd, code, own], or Idle
          sock,     \* kernel: the number is an open socket
          knote,    \* kernel: what the kqueue watches
          quick     \* the last close of the number did not linger (history)

vars == <<linger, desc, handler, chg, pc, todo, errs, ready, cur, sock, knote, quick>>
kernel == <<sock, knote>>
batch == <<errs, ready>>
loop == <<pc, todo>>

Init == /\ linger \in BOOLEAN
        /\ desc = [n \in Fds |-> Flags0]
        /\ handler = [n \in Fds |-> [c \in Codes |-> Blank]]
        /\ chg = <<>>
        /\ pc = "jobs" /\ todo = {}
        /\ errs = <<>> /\ ready = {} /\ cur = Idle
        /\ sock = [n \in Fds |-> FALSE]
        /\ knote = [n \in Fds |-> [f \in Filters |-> Absent]]
        /\ quick = [n \in Fds |-> FALSE]

-----------------------------------------------------------------------------
(* EvKQBaseSetEvent.  The change list keeps what kevent() is to be told.     *)

\* A socket its client may still act on.
Open(n) == sock[n] /\ ~desc[n].closing

EnqueueEvChg(n, c, op) ==
    IF c = EOF THEN <<>> ELSE <<[fd |-> n, filter |-> c, op |-> op, own |-> sock[n]]>>

\* The actions of EvKQBaseUpdateReadEvent, UpdateWriteEvent and UpdateEOFEvent.
\* ADD_TRANSITION is ADD_PERSIST with EV_CLEAR.
EventSet(n, c, persist) ==
    handler' = [handler EXCEPT ![n][c] = [cb |-> "own", enabled |-> TRUE, persist |-> persist]]
AddChg(n, c, persist) == EnqueueEvChg(n, c, IF persist THEN "add" ELSE "oneshot")
\* Slip: the kernel is not told of an event that is enabled already.
AddOnce(n, c, persist) ==
    /\ EventSet(n, c, persist)
    /\ chg' = IF handler[n][c].enabled THEN chg ELSE chg \o AddChg(n, c, persist)
Add(n, c, persist) ==
    /\ EventSet(n, c, persist)
    /\ chg' = chg \o AddChg(n, c, persist)

DeleteChg(n, c) ==
    IF c \in Filters /\ handler[n][c].enabled THEN EnqueueEvChg(n, c, "delete") ELSE <<>>
Delete(n, c) ==
    /\ handler' = [handler EXCEPT ![n][c] = Blank]
    /\ chg' = chg \o DeleteChg(n, c)

Toggle(n, c, on) ==
    /\ handler[n][c].enabled # on
    /\ handler' = [handler EXCEPT ![n][c].enabled = on]
    /\ chg' = chg \o EnqueueEvChg(n, c, IF on THEN "enable" ELSE "disable")

EvKQBaseSetEvent(n, c) ==
    /\ Open(n) /\ Len(chg) < ChgMax
    /\ \/ \E persist \in BOOLEAN : Add(n, c, persist)
       \/ Delete(n, c)
       \/ \E on \in BOOLEAN : Toggle(n, c, on)
    /\ UNCHANGED <<linger, desc, loop, batch, cur, kernel, quick>>

\* Slip: the loop over the events stops before the end of file.
ClearNotEOF(h) == [c \in Codes |-> IF c = EOF THEN h[c] ELSE Blank]
\* EvKQBaseClearEvents, DELETE of every event: the handlers, and the changes it adds.
Cleared(h) == [c \in Codes |-> Blank]
ClearChg(n) == DeleteChg(n, READ) \o DeleteChg(n, WRITE)

-----------------------------------------------------------------------------
(* Opening and closing.                                                      *)

\* socket() and EvKQBaseFDGenericInit: the flags are clean, the handlers are not touched.
EvKQBaseSocketGenericNew(n) ==
    /\ ~sock[n]
    /\ sock' = [sock EXCEPT ![n] = TRUE]
    /\ desc' = [desc EXCEPT ![n] = [Flags0 EXCEPT !.active = TRUE]]
    /\ UNCHANGED <<linger, handler, chg, loop, batch, cur, knote, quick>>

\* close(): the number is free, the kernel forgets its knotes; what was raised or
\* asked for the socket, and not dispatched or applied yet, is about a dead one.
Dead(n, e) == IF e.fd = n THEN [e EXCEPT !.own = FALSE] ELSE e
AllDead(n, s) == [i \in 1 .. Len(s) |-> Dead(n, s[i])]
Orphans(n) == [c \in Codes |-> [handler[n][c] EXCEPT !.cb = IF @ = "none" THEN @ ELSE "stale"]]
CloseFd(n) ==
    /\ sock' = [sock EXCEPT ![n] = FALSE]
    /\ knote' = [knote EXCEPT ![n] = [f \in Filters |-> Absent]]
    /\ errs' = AllDead(n, errs)
    /\ ready' = {Dead(n, e) : e \in ready}
    /\ cur' = Dead(n, cur)

\* EvKQBaseFDDoClose with EvKQBaseFDCleanupByKQFD.
EvKQBaseFDDoClose(n) ==
    /\ CloseFd(n)
    /\ handler' = [handler EXCEPT ![n] = Cleared(Orphans(n))]
    /\ chg' = AllDead(n, chg \o ClearChg(n))
    /\ desc' = [desc EXCEPT ![n] = [Flags0 EXCEPT !.closed = TRUE]]

\* EvKQBaseFDCloseJobAdd, the job added.  A job added while the jobs are walked is
\* visited by this walk, unless the walk has read its last node already.
CloseInWalk == 0        \* Slip: the job does not wait.
LoopsToClose == 1
CloseJobAdd(n) ==
    /\ desc' = [desc EXCEPT ![n].closing = TRUE, ![n].job = LoopsToClose]
    /\ handler' = [handler EXCEPT ![n] = Cleared(handler[n])]
    /\ chg' = chg \o ClearChg(n)
    /\ todo' \in IF pc = "jobs" THEN {todo, todo \cup {n}} ELSE {todo}
    /\ UNCHANGED <<linger, pc, batch, cur, kernel, quick>>

\* Without linger, or with no slot for the job, the socket is closed at once.
CloseNow(n) == /\ EvKQBaseFDDoClose(n)
               /\ quick' = [quick EXCEPT ![n] = TRUE]
               /\ UNCHANGED <<linger, loop>>

EvKQBaseSocketClose(n) ==
    /\ Open(n)
    /\ (linger /\ CloseJobAdd(n)) \/ CloseNow(n)

Client == /\ pc # "kevent"
          /\ \E n \in Fds : \/ EvKQBaseSocketGenericNew(n)
                            \/ EvKQBaseSocketClose(n)
                            \/ \E c \in Codes : EvKQBaseSetEvent(n, c)

-----------------------------------------------------------------------------
(* EvKQInvokeKQueueOnce.                                                     *)

\* EvKQJobsDispatch at a close job: it waits, or it is EvKQBaseFDCloseJob.
CloseWaits(n) == /\ desc[n].job > 0       \* Slip: the loops are not counted.
                 /\ UNCHANGED <<desc, handler, chg, batch, cur, kernel, quick>>
WaitLoop(n) == /\ desc[n].job > 0
               /\ desc' = [desc EXCEPT ![n].job = @ - 1]
               /\ UNCHANGED <<handler, chg, batch, cur, kernel, quick>>
EvKQBaseFDCloseJob(n) == /\ desc[n].job = 0
                         /\ EvKQBaseFDDoClose(n)
                         /\ quick' = [quick EXCEPT ![n] = FALSE]
VisitCloseJob(n) ==
    /\ pc = "jobs" /\ n \in todo
    /\ WaitLoop(n) \/ EvKQBaseFDCloseJob(n)
    /\ todo' = todo \ {n}
    /\ UNCHANGED <<linger, pc>>

\* In kevent(), a change of a socket that is closed, or of a knote that is not there, comes
\* back as an event with EV_ERROR; adding again replaces and enables.
Fails(k, c) == ~sock[c.fd] \/ (c.op \notin {"add", "oneshot"} /\ ~k[c.fd][c.filter].on)
Change1(note, op) ==
    CASE op = "delete" -> Absent
      [] op \in {"enable", "disable"} -> [note EXCEPT !.enabled = (op = "enable")]
      [] OTHER -> [on |-> TRUE, oneshot |-> (op = "oneshot"), enabled |-> TRUE]
AsError(c) == [fd |-> c.fd, filter |-> c.filter, own |-> c.own, eof |-> FALSE]

EvKQBaseKEventInvoke ==
    /\ pc = "jobs" /\ todo = {}
    /\ pc' = "kevent"
    /\ UNCHANGED <<linger, desc, handler, chg, todo, batch, cur, kernel, quick>>

KEventChange ==
    /\ pc = "kevent" /\ chg # <<>>
    /\ chg' = Tail(chg)
    /\ LET c == Head(chg) IN
       IF Fails(knote, c)
       THEN errs' = Append(errs, AsError(c)) /\ UNCHANGED knote
       ELSE /\ knote' = [knote EXCEPT ![c.fd][c.filter] = Change1(@, c.op)]
            /\ UNCHANGED errs
    /\ UNCHANGED <<linger, desc, handler, loop, ready, cur, sock, quick>>

Watched == {w \in Fds \X Filters : knote[w[1]][w[2]].enabled}
Raised(fire, eofs) == {[fd |-> w[1], filter |-> w[2], own |-> TRUE, eof |-> w \in eofs]
                           : w \in fire}

\* When a change failed, kevent() returns the errors alone.
KEventReturn ==
    /\ pc = "kevent" /\ chg = <<>>
    /\ pc' = "events"
    /\ \E fire \in SUBSET Watched : \E eofs \in SUBSET fire :
          /\ errs # <<>> => fire = {}
          /\ ready' = Raised(fire, eofs)
          /\ knote' = [n \in Fds |-> [f \in Filters |->
                         IF <<n, f>> \in fire /\ knote[n][f].oneshot
                         THEN Absent ELSE knote[n][f]]]
    /\ UNCHANGED <<linger, desc, handler, chg, todo, errs, cur, sock, quick>>

\* EvKQBaseFDEventInvoke: a volatile event is disabled before its callback runs.
Calls(n, c) == handler[n][c].enabled /\ handler[n][c].cb # "none"
Invoke(n, c, own) ==
    /\ Calls(n, c)
    /\ handler' = [handler EXCEPT ![n][c].enabled = handler[n][c].persist]
    /\ cur' = [fd |-> n, code |-> c, own |-> own]

\* EvKQInvokeKQFDCallbacks, at one event.  With no read callback to run the end of
\* file is still told; for a write event that is not implemented.
Gone(n) == desc[n].closed \/ desc[n].closing
DispatchEvent(e) ==
    /\ desc' = IF e.filter = READ THEN [desc EXCEPT ![e.fd].so_read_eof = e.eof] ELSE desc
    /\ \/ /\ ~handler[e.fd][e.filter].enabled \/ Gone(e.fd)
          /\ UNCHANGED <<handler, cur>>
       \/ /\ ~Gone(e.fd)
          /\ Invoke(e.fd, e.filter, e.own)
       \/ /\ handler[e.fd][e.filter].enabled /\ ~Calls(e.fd, e.filter) /\ ~Gone(e.fd)
          /\ IF e.filter = READ /\ e.eof /\ Calls(e.fd, EOF) THEN Invoke(e.fd, EOF, e.own)
             ELSE UNCHANGED <<handler, cur>>

Dispatching == pc = "events" /\ cur = Idle
DispatchError ==
    /\ Dispatching /\ errs # <<>>
    /\ DispatchEvent(Head(errs))
    /\ errs' = Tail(errs)
    /\ UNCHANGED <<linger, chg, loop, ready, kernel, quick>>
DispatchReady ==
    /\ Dispatching /\ errs = <<>>
    /\ \E e \in ready : DispatchEvent(e) /\ ready' = ready \ {e}
    /\ UNCHANGED <<linger, chg, loop, errs, kernel, quick>>

\* The callback returns; after the one of a read event, the end of file is told.
CallbackReturn ==
    /\ cur # Idle
    /\ IF cur.code = READ /\ ~Gone(cur.fd) /\ desc[cur.fd].so_read_eof /\ Calls(cur.fd, EOF)
       THEN Invoke(cur.fd, EOF, cur.own)
       ELSE cur' = Idle /\ UNCHANGED handler
    /\ UNCHANGED <<linger, desc, chg, loop, batch, kernel, quick>>

\* The next turn: the walk of the jobs starts, with the close jobs there are.
NextTurn ==
    /\ Dispatching /\ errs = <<>> /\ ready = {}
    /\ pc' = "jobs"
    /\ todo' = {n \in Fds : desc[n].job # None}
    /\ UNCHANGED <<linger, desc, handler, chg, batch, cur, kernel, quick>>

Turn == \/ \E n \in Fds : VisitCloseJob(n)
        \/ EvKQBaseKEventInvoke \/ KEventChange \/ KEventReturn
        \/ DispatchError
        \/ DispatchReady
        \/ CallbackReturn
        \/ NextTurn

Next == Turn \/ Client

Spec == Init /\ [][Next]_vars
\* The thread of the loop goes on, and callbacks return.
FairSpec == Spec /\ WF_vars(Turn)

-----------------------------------------------------------------------------
TypeOK ==
    /\ linger \in BOOLEAN
    /\ desc \in [Fds -> Desc]
    /\ handler \in [Fds -> [Codes -> Handler]]
    /\ chg \in Seq(Change)
    /\ pc \in {"jobs", "kevent", "events"} /\ todo \subseteq Fds
    /\ errs \in Seq(Event) /\ ready \subseteq Event
    /\ cur \in [fd : Fds, code : Codes, own : BOOLEAN] \cup {Idle}
    /\ sock \in [Fds -> BOOLEAN]
    /\ knote \in [Fds -> [Filters -> KNote]]
    /\ quick \in [Fds -> BOOLEAN]

\* A callback runs for an event of the socket its number was when the event was
\* raised, unless that socket was closed without lingering ("will run on next IO loop").
OwnEvents == cur # Idle /\ ~cur.own => quick[cur.fd]

\* No callback of a socket starts once the client has closed the socket, even when
\* the number is a socket again.
Starts == cur' # Idle /\ (cur = Idle \/ cur'.code # cur.code)
OnlyOpenCalled ==
    [][Starts => Open(cur'.fd) /\ handler[cur'.fd][cur'.code].cb = "own"]_vars

\* A client that waits for a filter of its socket is told: the kernel watches it once
\* the pending changes are applied, or an event for it is on its way.
ForFilter(e, n, f) == e.fd = n /\ e.filter = f
KnoteAfter(s, c) == IF Fails(s.knote, c) THEN [s EXCEPT !.errs = Append(@, AsError(c))]
                    ELSE [s EXCEPT !.knote[c.fd][c.filter] = Change1(@, c.op)]
Applied == FoldLeft(KnoteAfter, [knote |-> knote, errs |-> errs], chg)
Heard ==
    \A n \in Fds, f \in Filters : Open(n) /\ Calls(n, f) =>
        \/ Applied.knote[n][f].enabled
        \/ \E e \in ready \cup ToSet(Applied.errs) : ForFilter(e, n, f)

\* A close that lingers ends.
CloseEnds == \A n \in Fds : desc[n].closing ~> desc[n].closed
=============================================================================
