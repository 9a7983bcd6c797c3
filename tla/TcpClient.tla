----------------------------- MODULE TcpClient ------------------------------
(***************************************************************************)
(* The TCP client (comm/core/tcp/comm_tcp_client*.c): name lookup, the     *)
(* asynchronous connect and its timeout, SSL negotiation and shutdown, the *)
(* queue of writes, the reconnection and data rate timers, and the calls   *)
(* of the program, which it also makes from inside its callbacks.          *)
(*                                                                         *)
(* All of it runs in the thread of the event loop: a handler with the      *)
(* callback it makes is one step.  A C function is an operator from the    *)
(* state it finds to the state it leaves.  Arguments tell what the system  *)
(* calls on its way return and what the program does in the callback.      *)
(***************************************************************************)
EXTENDS Integers, Sequences, SequencesExt, FiniteSets

CONSTANTS Fds,           \* descriptor numbers from 1; socket() returns the lowest free one
          Confs,         \* the configurations a program gives to Connect
          Acts,          \* what the program does inside a callback, see Act
          Calls,         \* what it does between the steps of the loop
          MaxWrites,     \* bound: writes accepted
          MaxTries,      \* 50 rounds of negotiation and 10 of shutdown, reduced
          MaxConnects,   \* bound: lookups and connects begun
          MaxCalls       \* bound: calls of the program, but for its writes

None == 0       \* a socket_fd or req_id of -1

\* CommEvTCPClientStateCodes; the failures are the codes above CONNECTED.
Failures == {"FAILED_TIMEOUT", "FAILED_DNS", "FAILED_REFUSED", "FAILED_SSL", "FAILED_SYSCALL"}
States == {"DISCONNECTED", "RESOLVING", "CONNECTING", "NEGOTIATING", "CONNECTED"} \cup Failures

\* CommEvTCPClientConf: flags, protocol, kind of address, connect timeout.
Conf == [{"ssl", "lookup", "dual", "timeout", "rates", "on_timeout", "on_close", "on_fail",
          "destroy_fail", "destroy_close"} -> BOOLEAN]

\* EvBaseKQFileDesc of a number: the volatile events armed on it, by handler.
Handlers == {"none", "Connect", "Read", "Write", "Eof", "Negotiate", "SSLRead", "SSLWrite", "SSLShutdown"}
KqFd == [open : BOOLEAN, read : Handlers, write : Handlers, eof : Handlers, timeout : BOOLEAN]
Shut == [open |-> FALSE, read |-> "none", write |-> "none", eof |-> "none", timeout |-> FALSE]

Writes == 1 .. MaxWrites
FlagNames == {"close_request", "pending_write", "socket_eof", "ssl_zero_ret", "ssl_fatal_error",
              "ssl_shuting_down"}
NoFlags == [f \in FlagNames |-> FALSE]

(***************************************************************************)
(* The state s of the client and of its place in the loop:                 *)
(*   alive      the memory of the client is not freed                      *)
(*   st fd cfg fl queue qinit tries  socket_state, socket_fd, configuration*)
(*              flags, write_queue and its queue_init, trycount            *)
(*   req        dnsdata.req_id; lookups: those the resolver works on       *)
(*   known      dnsdata.expire_ts is set; second: the other family is next *)
(*   reconnect rate  the timers whose id the client holds; lost: armed data*)
(*              rate timers whose id it overwrote                          *)
(*   job        the SSL shutdown job is scheduled                          *)
(*   kq         the descriptors of the loop                                *)
(* and history: answers to each write, accepted writes, connects, calls,   *)
(* the unusual things that happened (hist), how a freed client was touched,*)
(* whether the program disconnected (idle) and whether it aborted.         *)
(***************************************************************************)
VARIABLE s

Fresh(cfg) ==
    [alive |-> TRUE, st |-> "DISCONNECTED", fd |-> None, cfg |-> cfg, fl |-> NoFlags,
     queue |-> <<>>, qinit |-> TRUE, tries |-> 0, req |-> None, lookups |-> {}, known |-> FALSE,
     second |-> FALSE, reconnect |-> FALSE, rate |-> FALSE, lost |-> 0, job |-> FALSE,
     kq |-> [f \in Fds |-> Shut], answers |-> [w \in Writes |-> 0], writes |-> 0,
     connects |-> 0, calls |-> 0, hist |-> {}, touched |-> {}, idle |-> TRUE, aborted |-> FALSE]

Init == \E cfg \in Confs : s = Fresh(cfg)

-----------------------------------------------------------------------------
(* Descriptors of the loop. *)

\* A handler goes on, by F, with the state that a call of it left.
Then(x, F(_)) == F(x)

\* EvKQBaseSetEvent COMM_ACTION_ADD_VOLATILE, and DELETE with "none".
SetEvent(x, ev, h) == IF x.fd = None THEN x ELSE [x EXCEPT !.kq[x.fd][ev] = h]
\* The test of kq_fd->flags.closed and closing; kq_fd is NULL for no descriptor.
Gone(x, f) == f # None /\ ~x.kq[f].open
\* EvKQBaseSocketClose
SocketClose(x, f) == IF f = None THEN x ELSE [x EXCEPT !.kq[f] = Shut]
CloseOwn(x) == [SocketClose(x, x.fd) EXCEPT !.fd = None]
\* EvKQBaseSocketTCPNew and the set up of the number.
SocketNew(x, ok) ==
    LET free == {f \in Fds : ~x.kq[f].open}
    IN IF ~ok \/ free = {} THEN [x EXCEPT !.fd = None]
       ELSE LET f == CHOOSE f \in free : \A g \in free : f <= g
            IN [x EXCEPT !.fd = f, !.kq[f] = [Shut EXCEPT !.open = TRUE]]

\* A handler goes on with the client after a callback that may have freed it.
After(x, how, y) == IF x.alive THEN y ELSE [x EXCEPT !.touched = @ \cup {how}]
\* History: it goes on with a client that the callback disconnected.
Unseen(x, y) == IF y.alive /\ y.idle /\ ~x.idle THEN [y EXCEPT !.hist = @ \cup {"unseen"}] ELSE y

-----------------------------------------------------------------------------
(* Tearing down. *)

Answer(x, w) == [x EXCEPT !.answers[w] = @ + 1]
QueueCleanSilent(x) == IF x.qinit THEN [x EXCEPT !.queue = <<>>, !.qinit = FALSE] ELSE x
\* EvAIOReqQueueClean: the finish callback of every request left is told -1.
QueueClean(x) ==
    IF ~x.qinit THEN x
    ELSE [FoldLeft(LAMBDA y, r : Answer(y, r.id), x, x.queue) EXCEPT !.queue = <<>>, !.qinit = FALSE]
DestroyConnReadAndWriteBuffers(x) == QueueClean(x)

\* CommEvDNSDataCancelAndClean: only the lookup whose id the client holds.
DNSCancel(x) == [x EXCEPT !.lookups = @ \ {x.req}, !.req = None]
TimersCancelReconnect(x) == [x EXCEPT !.reconnect = FALSE]
TimersCancelAll(x) == [x EXCEPT !.reconnect = FALSE, !.rate = FALSE]

\* History: the shutdown job of this connection outlives it.
LeaveJob(x) == [x EXCEPT !.hist = IF x.job THEN @ \cup {"stale_job"} ELSE @]

Shutdown(x) ==
    CloseOwn(DestroyConnReadAndWriteBuffers(TimersCancelAll([DNSCancel(x) EXCEPT !.job = FALSE])))
Destroy(x) == [Shutdown(x) EXCEPT !.alive = FALSE]

DisconnectKeepsLookup(x) ==
    LeaveJob([CloseOwn(DestroyConnReadAndWriteBuffers(TimersCancelAll(x)))
                 EXCEPT !.st = "DISCONNECTED", !.idle = TRUE])
Disconnect(x) ==
    LeaveJob([CloseOwn(DestroyConnReadAndWriteBuffers(TimersCancelAll(DNSCancel(x))))
                 EXCEPT !.st = "DISCONNECTED", !.idle = TRUE])

ReconnectSchedule(x) == [x EXCEPT !.reconnect = TRUE]       \* nothing when it is armed

InternalDisconnectCancelsLast(x) ==
    LeaveJob([DestroyConnReadAndWriteBuffers(TimersCancelAll(DNSCancel(CloseOwn(x))))
                 EXCEPT !.st = IF @ \in Failures THEN @ ELSE "DISCONNECTED"])
InternalDisconnect(x) ==
    Then(LeaveJob([DestroyConnReadAndWriteBuffers(TimersCancelAll(DNSCancel(CloseOwn(x))))
                      EXCEPT !.st = IF @ \in Failures THEN @ ELSE "DISCONNECTED"]),
         LAMBDA y : IF y.cfg.on_close \/ (y.st = "FAILED_TIMEOUT" /\ y.cfg.on_timeout)
                    THEN ReconnectSchedule(y) ELSE y)

\* COMM_EV_TCP_CLIENT_FINISH and COMM_EV_TCP_CLIENT_INTERNAL_FINISH
Finish(x) == IF x.cfg.destroy_close THEN Destroy(x) ELSE Disconnect(x)
InternalFinish(x) == IF x.cfg.destroy_close THEN Destroy(x) ELSE InternalDisconnect(x)

\* The end of every failed attempt to connect.
ConnectFailed(x) ==
    IF x.cfg.destroy_fail THEN Destroy(x)
    ELSE IF x.cfg.on_fail THEN ReconnectSchedule(DestroyConnReadAndWriteBuffers(x))
    ELSE x

DisconnectRequest(x) ==
    LET y == [x EXCEPT !.fl.close_request = TRUE, !.hist = @ \cup {"asked"}]
    IN IF \/ x.fd = None \/ x.kq[x.fd].write = "none"
          \/ x.queue = <<>> \/ x.st # "CONNECTED"
       THEN Finish(y) ELSE y

ResetConn(x) ==
    IF x.st = "DISCONNECTED" \/ x.st \in Failures THEN x
    ELSE [ReconnectSchedule(Disconnect(x)) EXCEPT !.idle = FALSE]

-----------------------------------------------------------------------------
(* Connecting.  r.fail names the call that fails, if any; r.old tells that *)
(* the addresses known have expired.                                       *)

AllWell == [fail |-> "nothing", old |-> FALSE]

\* AsyncConnect after a connect() that succeeds or is in progress.
ConnectBegun(x) ==
    LET y == SetEvent([x EXCEPT !.st = "CONNECTING", !.connects = @ + 1, !.idle = FALSE],
                      "write", "Connect")
    IN IF y.cfg.timeout /\ y.fd # None THEN [y EXCEPT !.kq[y.fd].timeout = TRUE] ELSE y

\* Failed(_) is what follows a connect() that fails at once.
AsyncConnect(x, r, Failed(_)) ==
    IF r.fail # "connect" THEN ConnectBegun(x)
    ELSE Failed([x EXCEPT !.st = "FAILED_SYSCALL", !.connects = @ + 1, !.idle = FALSE])

StartFD(x, r) == IF x.fd # None THEN x ELSE SocketNew(x, r.fail # "socket")
\* The new socket is opened before the old one is closed.
ResetFD(x, r) ==
    IF x.st = "CONNECTED" THEN x
    ELSE LeaveJob(SocketClose(SocketNew([x EXCEPT !.fd = None], r.fail # "socket"), x.fd))

\* CommEvDNSGetHostByNameX, with an id the resolver does not use.
GetHostByName(x) ==
    LET id == CHOOSE i \in 1 .. MaxConnects + 1 : i \notin x.lookups
    IN [x EXCEPT !.req = id, !.lookups = @ \cup {id}, !.st = "RESOLVING", !.connects = @ + 1,
                 !.idle = FALSE,
                 !.hist = IF x.lookups # {} THEN @ \cup {"doubled"} ELSE @]
NoLookup(x) == [x EXCEPT !.req = None, !.hist = IF x.lookups # {} THEN @ \cup {"doubled"} ELSE @]

SSLDataInitFails(x, r) == x.cfg.ssl /\ r.fail = "ssl"

Connect(x, r, Failed(_)) ==
    LET y == [x EXCEPT !.fl = NoFlags, !.second = FALSE]
        z == StartFD(y, r)
    IN IF y.cfg.lookup
       THEN IF r.fail = "lookup" THEN [y EXCEPT !.st = "FAILED_DNS"] ELSE GetHostByName(y)
       ELSE IF z.fd = None THEN [z EXCEPT !.aborted = TRUE, !.hist = @ \cup {"no_socket"}]  \* assert(socket_fd >= 0)
       ELSE IF SSLDataInitFails(z, r) THEN [z EXCEPT !.st = "FAILED_SSL"]
       ELSE AsyncConnect(z, r, Failed)

Retry(x) == IF x.cfg.on_fail THEN [ReconnectSchedule(x) EXCEPT !.idle = FALSE] ELSE x

Reconnect(x, r, Failed(_)) ==
    LET look == x.cfg.lookup /\ (~x.known \/ r.old)
        y == [x EXCEPT !.second = IF x.known /\ x.cfg.dual THEN ~@ ELSE @]
        z == ResetFD(x, r)
    IN IF x.st \in {"CONNECTING", "NEGOTIATING", "CONNECTED"} THEN x
       ELSE IF look THEN IF r.fail = "lookup" THEN Retry(NoLookup(y)) ELSE GetHostByName(y)
       ELSE IF z.fd = None THEN Retry(z)
       ELSE IF SSLDataInitFails(z, r) THEN [z EXCEPT !.st = "FAILED_SSL"]
       ELSE AsyncConnect(z, r, Failed)

-----------------------------------------------------------------------------
(* Callbacks.  The program may leave, reconnect or write inside one.       *)

Called(x) == [x EXCEPT !.calls = @ + 1]
Act(x, a) ==
    CASE a = "disconnect" -> Called(Disconnect(x))
      [] a = "request"    -> Called(DisconnectRequest(x))
      [] a = "destroy"    -> Called(Destroy(x))
      [] OTHER            -> x

\* EvAIOReqInvokeCallBacks: the finish callback of a write.
Finished(x, w, invoke, a) == IF invoke THEN Act(Answer(x, w), a) ELSE x

\* EvAIOReqNew (it asserts that the queue is initialised) and the queue's tail.
Enqueue(x) ==
    [x EXCEPT !.writes = @ + 1, !.queue = Append(@, [id |-> x.writes + 1, fd |-> x.fd]),
              !.hist = IF x.st # "CONNECTED" THEN @ \cup {"early"} ELSE @]

\* EnqueueAndKickWriteQueue; kicked is what the write it tries at once gives.
EnqueueAndKick(x, kicked) ==
    LET y == Enqueue(x)
    IN IF x.st # "CONNECTED" THEN y
       ELSE IF x.fl.pending_write THEN SetEvent(y, "write", IF x.cfg.ssl THEN "SSLWrite" ELSE "Write")
       ELSE kicked

CanWrite(x) == x.alive /\ ~x.fl.close_request /\ x.qinit /\ x.writes < MaxWrites

WouldBlockUnarmed(x) == [x EXCEPT !.fl.pending_write = TRUE]
\* The socket accepts nothing yet; a request of a closed descriptor fails.
WouldBlock(x) ==
    LET f == x.queue[1].fd
        y == SetEvent([x EXCEPT !.fl.pending_write = TRUE], "write", IF x.cfg.ssl THEN "SSLWrite" ELSE "Write")
    IN IF x.cfg.ssl \/ (f # None /\ x.kq[f].open) THEN y
       ELSE IF f = None THEN [x EXCEPT !.aborted = TRUE]
       ELSE Answer([x EXCEPT !.queue = Tail(@), !.hist = @ \cup {"fatal"}], x.queue[1].id)

Callback(x, a) ==
    CASE a = "write" /\ CanWrite(x) -> Called(EnqueueAndKick(x, WouldBlock(Enqueue(x))))
      [] a = "reconnect" /\ x.connects < MaxConnects ->
            Then(Reconnect(x, AllWell, LAMBDA z : z), LAMBDA y :
                 IF y = x THEN x ELSE Called([y EXCEPT !.hist = @ \cup {"reopened"}]))
      [] OTHER -> Act(x, a)

\* Muted once the program asked to close.
EventDispatchInternal(x, a) == IF x.fl.close_request THEN x ELSE Callback(x, a)

AsyncConnectFailedUnchecked(x, a) ==
    Then(EventDispatchInternal(x, a), LAMBDA y : After(y, "connect", ConnectFailed(y)))
\* AsyncConnect after a connect() that failed.
AsyncConnectFailed(x, a) ==
    Then(EventDispatchInternal(x, a), LAMBDA y :
         IF Gone(y, x.fd) THEN y ELSE After(y, "connect", ConnectFailed(y)))

-----------------------------------------------------------------------------
(* Events of the loop: connecting and negotiating. *)

RatesCalculateSchedule(x) == [x EXCEPT !.rate = x.cfg.rates \/ @]

Attempt == [fail : {"nothing", "socket", "ssl", "connect", "lookup"}, old : BOOLEAN]

DNSResolverCB(x, id, found, r, a) ==
    LET y == [x EXCEPT !.lookups = @ \ {id}, !.req = None, !.known = FALSE]
        Failed(w) == Then(EventDispatchInternal(w, a), LAMBDA v :
                          IF Gone(v, x.fd) THEN v ELSE After(v, "lookup", ConnectFailed(Unseen(w, v))))
    IN IF ~x.alive THEN [x EXCEPT !.lookups = @ \ {id}, !.touched = @ \cup {"doubled"}]
       ELSE IF found
       THEN Then(ResetFD([y EXCEPT !.known = TRUE], r), LAMBDA z :
                 IF z.fd = None THEN Failed(z)
                 ELSE IF SSLDataInitFails(z, r) THEN Failed([z EXCEPT !.st = "FAILED_SSL"])
                 ELSE AsyncConnect(z, r, LAMBDA w : AsyncConnectFailed(w, a)))
       ELSE IF x.cfg.dual /\ ~x.second       \* ask for the other family, later
       THEN ReconnectSchedule(DestroyConnReadAndWriteBuffers([y EXCEPT !.second = TRUE]))
       ELSE Failed([y EXCEPT !.second = FALSE, !.st = "FAILED_DNS"])

SSLNegotiate(x, o, a) ==
    LET y == [x EXCEPT !.tries = @ + 1]
        Up(z) == SetEvent(SetEvent([z EXCEPT !.tries = 0], "read", "SSLRead"), "eof", "Eof")
        Down(z) == ConnectFailed(InternalDisconnect(z))
        Unless(z, F(_)) == IF Gone(z, x.fd) THEN z ELSE F(z)
    IN CASE y.tries <= MaxTries /\ o = "read"  -> SetEvent(y, "read", "Negotiate")
         [] y.tries <= MaxTries /\ o = "write" -> SetEvent(y, "write", "Negotiate")
         [] y.tries <= MaxTries /\ o = "done"  ->
              Unless(EventDispatchInternal(RatesCalculateSchedule([y EXCEPT !.st = "CONNECTED"]), a), Up)
         [] OTHER -> Unless(EventDispatchInternal([y EXCEPT !.st = "FAILED_SSL"], a), Down)

\* to: what CommEvUtilsFDCheckState finds; o: what SSL_connect returns.
EventConnect(x, to, o, a) ==
    LET y == [x EXCEPT !.st = to, !.qinit = @ \/ to = "CONNECTED"]
        plain == [SetEvent(SetEvent(y, "read", "Read"), "eof", "Eof")
                     EXCEPT !.lost = IF y.cfg.rates /\ y.rate THEN @ + 1 ELSE @, !.rate = y.cfg.rates]
    IN CASE to = "CONNECTING" -> SetEvent(y, "write", "Connect")
         [] to = "CONNECTED" /\ x.cfg.ssl -> SSLNegotiate([y EXCEPT !.st = "NEGOTIATING"], o, a)
         [] OTHER -> Then(EventDispatchInternal(IF to = "CONNECTED" THEN plain ELSE y, a), LAMBDA z :
                          IF Gone(z, x.fd) \/ z.st \notin Failures THEN z
                          ELSE After(z, "connect", ConnectFailed(z)))

TimerConnectTimeout(x, a) ==
    Then(EventDispatchInternal([x EXCEPT !.st = "FAILED_TIMEOUT", !.kq[x.fd] = [Shut EXCEPT !.open = TRUE]], a),
         LAMBDA y : IF Gone(y, x.fd) THEN y ELSE InternalDisconnect(y))

-----------------------------------------------------------------------------
(* Reading and closing; n tells whether there are bytes to read. *)

\* ProcessBuffer: the event READ, and the event armed again when still connected.
Rearm(x, f, a, h) ==
    Then(EventDispatchInternal(x, a), LAMBDA y :
         IF Gone(y, f) \/ y.st # "CONNECTED" THEN y ELSE SetEvent(y, "read", h))
EventRead(x, n, a) == IF ~n THEN x ELSE Rearm(x, x.fd, a, "Read")

\* SSLShutdownBegin, and the mark of a fatal error.
SSLShutdownBegin(x) ==
    IF x.fl.ssl_shuting_down THEN x ELSE [x EXCEPT !.fl.ssl_shuting_down = TRUE, !.job = TRUE]
Fatal(x) == SSLShutdownBegin([x EXCEPT !.fl.ssl_fatal_error = TRUE])

\* History: an event of one direction takes the place of the other's handler.
Cross(x, ev, h) ==
    [SetEvent(x, ev, h) EXCEPT !.hist = @ \cup {"crossed"}]

EventSSLRead(x, n, o, a) ==
    CASE ~n -> x
      [] n /\ o = "done"  -> Rearm(x, x.fd, a, "SSLRead")
      [] n /\ o = "read"  -> SetEvent(x, "read", "SSLRead")
      [] n /\ o = "write" -> Cross(x, "write", "SSLRead")
      [] n /\ o = "zero"  -> SetEvent([x EXCEPT !.fl.ssl_zero_ret = TRUE], "read", "SSLRead")
      [] n /\ o = "fatal" -> Fatal(x)

\* left: bytes are left to read.
EventEof(x, left, a) ==
    LET y == [x EXCEPT !.fl.socket_eof = TRUE]
    IN IF x.fl.close_request THEN InternalFinish(y)
       ELSE IF left /\ ~x.fl.ssl_zero_ret THEN SetEvent(y, "eof", "Eof")
       ELSE Then(EventDispatchInternal([y EXCEPT !.st = "DISCONNECTED"], a), LAMBDA z :
                 IF Gone(z, x.fd) THEN z ELSE InternalFinish(z))

\* No test of the descriptor follows the event CLOSE.
SSLShutdown(x, eof, o, a) ==
    LET y == [x EXCEPT !.fl.socket_eof = @ \/ eof]
        heard == y.fl.socket_eof \/ y.fl.ssl_fatal_error
    IN IF eof \/ x.tries > MaxTries \/ o = "done"
       THEN Then(IF heard THEN Unseen(y, EventDispatchInternal(y, a)) ELSE y, LAMBDA z :
                 After(z, "shutdown", InternalFinish([z EXCEPT !.tries = 0, !.fl.ssl_shuting_down = FALSE])))
       ELSE SetEvent([x EXCEPT !.tries = @ + 1], o, "SSLShutdown")

SSLShutdownJob(x, eof, o, a) ==
    LET y == [x EXCEPT !.job = FALSE, !.tries = 0]
        z == IF x.fd = None THEN y
             ELSE [y EXCEPT !.kq[x.fd] = [open |-> TRUE, read |-> "SSLShutdown", write |-> "none",
                                          eof |-> "SSLShutdown", timeout |-> FALSE]]
    IN SSLShutdown(z, eof /\ x.fd # None, o, a)

-----------------------------------------------------------------------------
(* Writing.  o.k requests are written in full, then the step stops: the    *)
(* bytes the socket takes are used up, it would block, or it fails.        *)

WriteOutcomes(q, kq) ==
    {o \in [k : 0 .. Len(q), stop : {"full", "again", "fatal"}] :
        /\ \A i \in 1 .. o.k : q[i].fd # None /\ kq[q[i].fd].open
        /\ o.stop = "full" => o.k > 0 \/ q = <<>>
        /\ o.stop # "full" => o.k < Len(q)
        /\ o.stop = "again" => q[o.k + 1].fd # None /\ kq[q[o.k + 1].fd].open}

\* CommEvTCPAIOWrite; the callback of the last request it writes acts.
AIOWrite(x, o, a) ==
    LET invoke == ~x.fl.close_request
        done == o.k + IF o.stop = "fatal" THEN 1 ELSE 0
        rest == [x EXCEPT !.queue = SubSeq(@, done + 1, Len(@))]
        Tell(y, i) == Finished(y, x.queue[i].id, invoke, IF i = done THEN a ELSE "none")
    IN FoldLeft(Tell, rest, [i \in 1 .. done |-> i])

FinishIfRequested(x) == IF x.fl.close_request THEN Finish(x) ELSE x
EventWrite(x, o, a) ==
    IF o.stop = "fatal" /\ x.queue[o.k + 1].fd = None THEN [x EXCEPT !.aborted = TRUE]   \* kq_fd is NULL
    ELSE Then(AIOWrite(x, o, a), LAMBDA y :
              IF Gone(y, x.fd) THEN y
              ELSE IF o.stop = "fatal" THEN FinishIfRequested([y EXCEPT !.hist = @ \cup {"fatal"}])
              ELSE IF y.queue # <<>> THEN SetEvent([y EXCEPT !.fl.pending_write = TRUE], "write", "Write")
              ELSE FinishIfRequested([y EXCEPT !.fl.pending_write = FALSE]))

EventSSLWrite(x, o, a) ==
    LET held == [x EXCEPT !.fl.pending_write = TRUE]
        Told(y) == IF Gone(y, x.fd) THEN y
                   ELSE IF y.queue # <<>> THEN SetEvent([y EXCEPT !.fl.pending_write = TRUE], "write", "SSLWrite")
                   ELSE IF y.fl.close_request THEN SSLShutdownBegin([y EXCEPT !.fl.pending_write = FALSE])
                   ELSE [y EXCEPT !.fl.pending_write = FALSE]
    IN CASE x.queue = <<>> -> [x EXCEPT !.fl.pending_write = FALSE]
         [] x.queue # <<>> /\ o = "read"            -> Cross(held, "read", "SSLWrite")
         [] x.queue # <<>> /\ o \in {"write", "zero"} -> SetEvent(held, "write", "SSLWrite")
         [] x.queue # <<>> /\ o = "fatal"           -> Fatal(held)
         [] OTHER -> Told(Finished([x EXCEPT !.queue = Tail(@)], x.queue[1].id, ~x.fl.close_request, a))

-----------------------------------------------------------------------------
(* What the loop does next. *)

Stopped == s.aborted \/ s.touched # {}
\* What the program does in the callbacks of this step.
May == IF s.calls < MaxCalls THEN Acts ELSE {"none"}
SSLOutcomes == {"done", "read", "write", "zero", "fatal"}

\* An event of the descriptor, which is volatile; firing clears its timeouts.
Taken(ev) == [s EXCEPT !.kq[s.fd][ev] = "none",
                       !.kq[s.fd].timeout = IF ev = "write" THEN FALSE ELSE @]
Armed(ev, h) == s.alive /\ ~Stopped /\ s.fd # None /\ s.kq[s.fd][ev] = h

\* The event EOF follows the read event of the same kevent().
ReadEOF(y, f, eof, left, a) ==
    IF ~eof \/ Gone(y, f) \/ y.kq[f].eof = "none" THEN y
    ELSE LET z == [y EXCEPT !.kq[f].eof = "none"]
         IN IF y.kq[f].eof = "Eof" THEN EventEof(z, left, a) ELSE SSLShutdown(z, TRUE, "done", a)

Readable ==
    \E eof \in BOOLEAN : \E n \in {TRUE, ~eof}, b \in IF eof THEN May ELSE {"none"} :
    \E left \in {n, FALSE}, o \in SSLOutcomes, a \in May :
        /\ \/ Armed("read", "Read") /\ o = "done" /\ (~n => a = "none")
              /\ s' = ReadEOF(EventRead(Taken("read"), n, a), s.fd, eof, left, b)
           \/ Armed("read", "SSLRead") /\ left = n /\ (~n => o = "done") /\ (o # "done" \/ ~n => a = "none")
              /\ s' = ReadEOF(EventSSLRead(Taken("read"), n, o, a), s.fd, eof, n, b)
           \/ Armed("read", "SSLWrite") /\ left = n /\ (o # "done" => a = "none")
              /\ s' = ReadEOF(EventSSLWrite(Taken("read"), o, a), s.fd, eof, n, b)
           \/ Armed("read", "Negotiate") /\ b = "none" /\ left = n
              /\ s' = SSLNegotiate(Taken("read"), o, a)
           \/ Armed("read", "SSLShutdown") /\ o \in {"done", "read", "write"} /\ b = "none" /\ left = n
              /\ s' = SSLShutdown(Taken("read"), eof, o, a)

Writable ==
    \E o \in SSLOutcomes, a \in May :
        \/ Armed("write", "Connect")
           /\ \E to \in {"CONNECTING", "CONNECTED", "FAILED_REFUSED"} : s' = EventConnect(Taken("write"), to, o, a)
        \/ Armed("write", "Negotiate") /\ s' = SSLNegotiate(Taken("write"), o, a)
        \/ Armed("write", "Write")
           /\ \E w \in WriteOutcomes(s.queue, s.kq) : s' = EventWrite(Taken("write"), w, a)
        \/ Armed("write", "SSLWrite") /\ s' = EventSSLWrite(Taken("write"), o, a)
        \/ Armed("write", "SSLRead") /\ s' = EventSSLRead(Taken("write"), TRUE, o, a)
        \/ Armed("write", "SSLShutdown") /\ o \in {"done", "read", "write"}
           /\ s' = SSLShutdown(Taken("write"), FALSE, o, a)

ConnectTimeout ==
    /\ ~Stopped /\ s.fd # None /\ s.kq[s.fd].timeout
    /\ \E a \in May : s' = TimerConnectTimeout(s, a)

Resolved ==
    /\ ~Stopped
    /\ s.connects < MaxConnects
    /\ \E id \in s.lookups, found \in BOOLEAN, r \in Attempt, a \in May :
          ~r.old /\ s' = DNSResolverCB(s, id, found, r, a)

ReconnectTimer ==
    /\ ~Stopped /\ s.reconnect /\ s.connects < MaxConnects
    /\ \E r \in Attempt, a \in May :
          s' = Reconnect([s EXCEPT !.reconnect = FALSE], r, LAMBDA x : AsyncConnectFailed(x, a))

\* The timer the client knows, or one whose id it lost; it arms itself again.
RatesCalculateTimer ==
    /\ ~Stopped /\ (s.rate \/ s.lost > 0)
    /\ s' = IF ~s.alive THEN [s EXCEPT !.touched = @ \cup {"rate"}]
            ELSE IF s.fd = None THEN [s EXCEPT !.aborted = TRUE]
            ELSE IF s.rate THEN s ELSE [s EXCEPT !.lost = @ - 1, !.rate = TRUE]

ShutdownJob ==
    /\ ~Stopped /\ s.job
    /\ \E eof \in BOOLEAN, o \in {"done", "read", "write"}, a \in May : s' = SSLShutdownJob(s, eof, o, a)

-----------------------------------------------------------------------------
(* Calls of the program. *)

Call(name) == ~Stopped /\ s.alive /\ name \in Calls /\ s.calls < MaxCalls

CallConnect ==
    /\ Call("connect") /\ s.idle /\ s.fd = None /\ s.connects < MaxConnects
    /\ \E r \in Attempt, a \in May :
          ~r.old /\ s' = Called(Connect(s, r, LAMBDA x : AsyncConnectFailed(x, a)))
CallReconnect ==
    /\ Call("reconnect") /\ s.connects < MaxConnects /\ s.connects > 0
    /\ \E r \in Attempt, a \in May :
          s' = Called(Reconnect(s, r, LAMBDA x : AsyncConnectFailed(x, a)))
CallDisconnect == Call("disconnect") /\ s' = Called(Disconnect(s))
CallDisconnectRequest == Call("request") /\ s' = Called(DisconnectRequest(s))
CallDestroy == Call("destroy") /\ s' = Called(Destroy(s))
CallResetConn == Call("reset") /\ s' = Called(ResetConn(s))
\* Unlike EventSet it does not look at the state: it also ends a negotiation.
EventCancel ==
    /\ Call("mute")
    /\ s' = Called([SetEvent(s, "read", "none")
                      EXCEPT !.hist = IF s.st # "CONNECTED" THEN @ \cup {"muted"} ELSE @])
EventSet ==
    /\ Call("listen") /\ s.st = "CONNECTED"
    /\ s' = Called(SetEvent(s, "read", IF s.cfg.ssl THEN "SSLRead" ELSE "Read"))

CallWrite ==
    /\ ~Stopped /\ CanWrite(s)
    /\ \E o \in SSLOutcomes, a \in May :
        \E w \in WriteOutcomes(Enqueue(s).queue, s.kq) :
          s' = EnqueueAndKick(s, IF s.cfg.ssl THEN EventSSLWrite(Enqueue(s), o, a)
                                 ELSE EventWrite(Enqueue(s), w, a))

Loop == Readable \/ Writable \/ ConnectTimeout \/ Resolved \/ ReconnectTimer \/ RatesCalculateTimer \/ ShutdownJob
Program == \/ CallConnect \/ CallReconnect \/ CallDisconnect \/ CallDisconnectRequest \/ CallDestroy
           \/ CallResetConn \/ EventCancel \/ EventSet \/ CallWrite
Next == Loop \/ Program

Spec == Init /\ [][Next]_s

-----------------------------------------------------------------------------
(* Properties. *)

\* The client and the loop hold what their types allow.
TypeOK ==
    /\ s.alive \in BOOLEAN /\ s.st \in States /\ s.cfg \in Conf /\ s.fl \in [FlagNames -> BOOLEAN]
    /\ s.fd \in Fds \cup {None} /\ s.kq \in [Fds -> KqFd]
    /\ s.queue \in Seq([id : Writes, fd : Fds \cup {None}])
    /\ s.fd # None => s.kq[s.fd].open
    /\ s.req # None /\ s.alive => s.req \in s.lookups

Unusual(what) == s.hist \cap what # {}

(***************************************************************************)
(* Shutdown leaves nothing behind: when the client is freed no descriptor  *)
(* of it is open, no event armed, no timer, job or lookup will call it.    *)
(* What escapes is a data rate timer of a connection that the program      *)
(* reopened inside CLOSE, and the first of two lookups.                    *)
(***************************************************************************)
DestroyedIsUnreferenced ==
    ~s.alive =>
        /\ \A f \in Fds : s.kq[f] = Shut
        /\ ~s.reconnect /\ ~s.rate /\ ~s.job /\ s.queue = <<>>
        /\ s.lost = 0 \/ Unusual({"reopened"})
        /\ s.lookups = {} \/ Unusual({"doubled"})

(***************************************************************************)
(* A handler that goes on after a callback does not use a freed client,    *)
(* and no assertion fails, but for the four ways named here.               *)
(***************************************************************************)
FaultsHaveCause ==
    /\ s.touched \subseteq {"lookup", "shutdown", "rate", "doubled"}
    /\ "rate" \in s.touched => Unusual({"reopened"})
    /\ "doubled" \in s.touched => Unusual({"doubled"})
    /\ s.aborted => Unusual({"early", "reopened", "no_socket"})

(***************************************************************************)
(* A client configured to reconnect always has something that will bring   *)
(* it back: a timer, a lookup, or an attempt in progress.  What strands it *)
(* is SSLDataInit failing in Reconnect, the shutdown job of an earlier     *)
(* connection, and the program cancelling READ before it is connected.     *)
(***************************************************************************)
Persistent(cfg) == cfg.on_timeout /\ cfg.on_close /\ cfg.on_fail /\ ~cfg.destroy_fail /\ ~cfg.destroy_close
Trying ==
    s.fd # None /\ \/ s.kq[s.fd].write \in {"Connect", "Negotiate"}
                   \/ s.kq[s.fd].read \in {"Negotiate", "SSLShutdown"}
                   \/ s.kq[s.fd].write = "SSLShutdown"
NotStranded ==
    (/\ s.alive /\ ~Stopped /\ Persistent(s.cfg) /\ ~s.idle /\ s.st # "CONNECTED"
     /\ ~(s.st = "FAILED_SSL" /\ s.fd # None) /\ ~Unusual({"stale_job", "muted"}))
    => s.reconnect \/ s.lookups # {} \/ s.job \/ Trying

(***************************************************************************)
(* What is queued on a connection will be written: the write event is      *)
(* armed and every request is for the client's own descriptor.  SSL asks   *)
(* for the other direction at times, and the handler it replaces is gone.  *)
(***************************************************************************)
QueueIsServed ==
    (/\ s.alive /\ ~Stopped /\ s.st = "CONNECTED" /\ s.queue # <<>>
     /\ ~Unusual({"early", "fatal", "crossed", "reopened", "stale_job"}))
    => /\ \A i \in 1 .. Len(s.queue) : s.queue[i].fd = s.fd
       /\ \/ s.kq[s.fd].write = IF s.cfg.ssl THEN "SSLWrite" ELSE "Write"
          \/ s.fl.ssl_fatal_error

(***************************************************************************)
(* Every write accepted is answered once, in the end: it waits in the      *)
(* queue, in order, or its finish callback ran, unless the program had     *)
(* asked to close.                                                         *)
(***************************************************************************)
AnsweredOnce ==
    LET queued == {s.queue[i].id : i \in 1 .. Len(s.queue)}
    IN /\ \A i, j \in 1 .. Len(s.queue) : i < j => s.queue[i].id < s.queue[j].id
       /\ \A w \in 1 .. s.writes :
            /\ s.answers[w] + (IF w \in queued THEN 1 ELSE 0) <= 1
            /\ s.answers[w] = 0 => w \in queued \/ Unusual({"asked"})

(***************************************************************************)
(* After the program's Disconnect nothing of the connection is left and    *)
(* nothing brings it back, unless the shutdown job was scheduled, a second *)
(* lookup was begun, or a handler did not see that its callback had        *)
(* disconnected.                                                           *)
(***************************************************************************)
DisconnectIsFinal ==
    (s.alive /\ s.idle /\ ~Stopped /\ ~Unusual({"stale_job", "doubled", "unseen"}))
    => /\ s.fd = None \/ s.st = "FAILED_SSL"
       /\ ~s.reconnect /\ ~s.rate /\ s.lookups = {}
       /\ s.st = "DISCONNECTED" => s.queue = <<>> \/ Unusual({"early"})
=============================================================================
