----------------------------- MODULE TcpServer ------------------------------
(***************************************************************************)
(* A connection of the TCP server (comm/core/tcp/comm_tcp_server*.c): how  *)
(* it is accepted or received from another process, the guess of its       *)
(* protocol, the SSL handshake and shutdown, the queue of writes, the      *)
(* requests to close, and its transfer to another process.                 *)
(*                                                                         *)
(* All of it runs in the thread of the event loop: a handler with the      *)
(* callback it makes is one step, and a C function an operator from the    *)
(* state it finds to the state it leaves.  One descriptor number serves    *)
(* connection after connection, in the same CONN_HND of the arena.         *)
(***************************************************************************)
EXTENDS Integers, Sequences, SequencesExt, FiniteSets

CONSTANTS Confs,        \* the listeners: see Conf
          Acts,         \* what the program does inside a callback, see Act
          MaxAccepts,   \* bound: connections
          MaxWrites,    \* bound: writes accepted
          MaxTries,     \* 50 rounds of handshake and 10 of shutdown, reduced
          MaxCalls      \* bound: calls of the program

\* proto: srv_proto; max: cli_queue_max, 0 for none; gc: transfer_ms is set;
\* rates: the program sets calculate_datarate; onfail: it closes a connection
\* that fails to write; shared: other connections use the block of the arena.
Conf == [proto : {"plain", "ssl", "auto"}, max : Nat, gc : BOOLEAN, rates : BOOLEAN, onfail : BOOLEAN,
         unlimited : BOOLEAN, shared : BOOLEAN]

Flags == {"ssl", "init", "defer", "ongoing", "abort", "accepted", "close_request", "pending", "eof", "fatal",
          "shutting", "transfer", "known"}
Handlers == {"none", "Identify", "SNIPeek", "Dummy", "SSLAccept", "Read", "Write", "Close", "SSLRead",
             "SSLWrite", "SSLShutdown"}
Quiet == [read |-> "none", write |-> "none", eof |-> "none", timeout |-> FALSE]

(***************************************************************************)
(* The state x of the connection:                                          *)
(*   alive open  the server is not freed; socket_fd is a descriptor        *)
(*   fl handle   flags, ssl_handle                                         *)
(*   tries ends  the trycounts of the handshake and of the shutdown        *)
(*   kq          the volatile events armed on the descriptor, by handler   *)
(*   reads       the handler of CONN_EVENT_READ is set                     *)
(*   queue muted write_queue and its flag cancelled                        *)
(*   rate job    the timer and the shutdown job whose id CONN_HND holds;   *)
(*   lost stray  a timer and a job armed without one                       *)
(*   gc pend     transfer.gc_timerid; transfers not yet acknowledged       *)
(* and history: told counts CLOSE and HANDSHAKE_FAIL of this connection,   *)
(* asked is set when the program ended it, answers to each write, counters,*)
(* hist (unusual things that happened), touched (how a released CONN_HND   *)
(* was used) and aborted.                                                  *)
(***************************************************************************)
VARIABLE x

Fresh(cfg) ==
    [cfg |-> cfg, alive |-> TRUE, open |-> FALSE, fl |-> {}, handle |-> FALSE, tries |-> 0, ends |-> 0,
     kq |-> Quiet, reads |-> FALSE, queue |-> <<>>, muted |-> FALSE, rate |-> FALSE, job |-> FALSE, lost |-> FALSE,
     stray |-> FALSE, gc |-> FALSE, pend |-> {}, told |-> 0, asked |-> FALSE, accepts |-> 0,
     writes |-> 0, answers |-> [w \in 1 .. MaxWrites |-> 0], vectored |-> {}, calls |-> 0, hist |-> {},
     touched |-> {}, aborted |-> FALSE]

Init == \E cfg \in Confs : x = Fresh(cfg)

Has(s, f) == f \in s.fl
Mark(s, f) == [s EXCEPT !.fl = @ \cup {f}]
Unmark(s, fs) == [s EXCEPT !.fl = @ \ fs]
Abort(s, why) == [s EXCEPT !.aborted = TRUE, !.hist = @ \cup {why}]

\* A handler goes on, by F, with the state that a call of it left.
Then(s, F(_)) == F(s)

\* EvKQBaseSetEvent, which does nothing for a descriptor of -1.
SetEvent(s, ev, h) == IF s.open THEN [s EXCEPT !.kq[ev] = h] ELSE s
\* A handler goes on with CONN_HND after a callback: its memory is gone when
\* it was closed and was the last of its block.
After(s, how, t) == IF s.open \/ s.cfg.shared THEN t ELSE [s EXCEPT !.touched = @ \cup {how}]

-----------------------------------------------------------------------------
(* Closing. *)

SSLShutdownBegin(s) == IF Has(s, "shutting") THEN s ELSE [Mark(s, "shutting") EXCEPT !.job = TRUE]

QueueCleanSilent(s) == [s EXCEPT !.queue = <<>>]
\* EvAIOReqQueueClean: the finish callback of each request left is told -1.
QueueClean(s) ==
    IF s.muted THEN [s EXCEPT !.queue = <<>>]
    ELSE [FoldLeft(LAMBDA t, r : IF r.told THEN [t EXCEPT !.answers[r.id] = @ + 1] ELSE t, s, s.queue)
            EXCEPT !.queue = <<>>]
\* A callback told -1 there closes the connection again.
Nested(s) == s.cfg.onfail /\ ~s.muted /\ \E i \in 1 .. Len(s.queue) : s.queue[i].told

TimersCancelAllForgets(s) == s
TimersCancelAll(s) == [s EXCEPT !.rate = FALSE]

InternalShutdown(s) ==
    IF ~s.open \/ Has(s, "transfer") THEN s
    ELSE Then([QueueClean(TimersCancelAll([s EXCEPT !.job = FALSE])) EXCEPT
                 !.open = FALSE, !.handle = FALSE, !.kq = Quiet, !.reads = FALSE, !.ends = 0,
                 !.fl = @ \ {"shutting", "init"},
                 !.hist = IF s.told = 0 /\ s.fl \cap {"accepted", "known"} # {} /\ ~s.asked THEN @ \cup {"silent"} ELSE @],
              LAMBDA done :
                IF ~Nested(s) THEN done
                ELSE IF Has(s, "ssl") /\ ~Has(s, "eof")
                THEN [done EXCEPT !.stray = @ \/ ~Has(s, "shutting")]    \* a job for what is then closed
                ELSE Abort(done, "nested"))                             \* released twice: assert

ConnClose(s) ==
    IF ~s.open THEN s
    ELSE IF Has(s, "ssl") /\ ~Has(s, "eof") THEN SSLShutdownBegin(s)
    ELSE InternalShutdown(s)

CloseRequest(s) ==
    LET y == [Mark(s, "close_request") EXCEPT !.hist = @ \cup {"requested"}]
    IN IF s.kq.write = "none" \/ s.queue = <<>> \/ Has(s, "eof") THEN ConnClose(y) ELSE y

\* CommEvTCPServerConnTransferViaUnixClientPool, when the pool takes the write.
Transfer(s) ==
    IF ~s.open \/ Has(s, "transfer") THEN s
    ELSE [Mark(TimersCancelAll(s), "transfer") EXCEPT
            !.kq = Quiet, !.reads = FALSE, !.gc = @ \/ s.cfg.gc, !.pend = @ \cup {s.accepts}]

Act(s, a) ==
    LET y == [s EXCEPT !.calls = @ + 1, !.asked = TRUE]
    IN CASE ~s.open         -> s
         [] s.open /\ a = "close"    -> ConnClose(y)
         [] s.open /\ a = "request"  -> CloseRequest(y)
         [] s.open /\ a = "drop"     -> InternalShutdown(y)      \* CommEvTCPServerListenerConnShutdownAll
         [] s.open /\ a = "transfer" -> Transfer(y)
         [] OTHER           -> s

\* CONN_EVENT_CLOSE or CONN_EVENT_SSL_HANDSHAKE_FAIL, by the number of the
\* descriptor: the arena gives no CONN_HND for -1.
Tell(s, a) ==
    IF ~s.open THEN Abort(s, "no_conn")
    ELSE IF Has(s, "transfer") THEN s
    ELSE Act([s EXCEPT !.told = @ + 1], a)

-----------------------------------------------------------------------------
(* Accepting and the SSL handshake. *)

\* COMM_EV_STATS_CONN_HND_FIRE_TIMER
FireTimer(s) == IF ~s.cfg.rates THEN s
                ELSE IF s.rate THEN [s EXCEPT !.rate = FALSE, !.lost = TRUE] ELSE [s EXCEPT !.rate = TRUE]
\* CommEvTCPServerDispatchEvent of ACCEPT_AFTER
Accepted(s, a) == Act(Mark(s, "accepted"), a)
SetDefaultEvents(s) == [s EXCEPT !.reads = TRUE]

\* made: ssl_handle is created ("ok"), or NULL for want of a context ("none"),
\* or the program's own certificate cannot be bound and the connection is
\* closed ("bad"); the handshake goes on after it in each case.
SSLSessionInit(s, made) ==
    IF Has(s, "init") THEN s
    ELSE IF made = "bad" THEN ConnClose(Mark(s, "init"))
    ELSE [Mark(s, "init") EXCEPT !.handle = made = "ok", !.tries = 0]

HandshakeFailedSilent(s, a) == ConnClose(Unmark(s, {"ssl", "ongoing"}))
HandshakeFailed(s, a) ==
    Then(Tell(s, a), LAMBDA y : After(y, "handshake", ConnClose(Unmark(y, {"ssl", "ongoing"}))))

EventSSLAccept(s, o, a) ==
    LET y == Mark([s EXCEPT !.tries = @ + 1], "ongoing")
    IN IF ~s.handle THEN Abort(s, "no_handle")
       ELSE IF ~s.open THEN Abort(s, "no_conn")
       ELSE IF y.tries <= MaxTries /\ o \in {"read", "write"} THEN SetEvent(y, o, "SSLAccept")
       ELSE IF y.tries <= MaxTries /\ o = "done"
       THEN Then(Accepted(Unmark(y, {"defer", "ongoing"}), a), LAMBDA z :
                 After(z, "handshake", FireTimer(SetEvent(SetDefaultEvents(z), "read", "SSLRead"))))
       ELSE HandshakeFailed(y, a)

\* The peeked bytes are not enough ("more"), or are parsed; ACCEPT_SNIPARSE may
\* ask to put the handshake off, or not to do it.  sni_parse_trycount stays 0,
\* and a put off handshake has another handler.
EventSNIPeek(s, more, made, o, a, b) ==
    IF more THEN SetEvent(s, "read", "SNIPeek")
    ELSE Then(Act(Mark(Unmark(s, {"defer"}), "known"), a), LAMBDA y :
           IF ~y.open /\ ~y.cfg.shared THEN [y EXCEPT !.touched = @ \cup {"sni"}]
           ELSE Then(CASE a = "defer" -> SetEvent(Mark(y, "defer"), "read", "Dummy")
                       [] a = "abort" -> FireTimer(Mark(y, "abort"))
                       [] OTHER -> EventSSLAccept(SSLSessionInit(y, made), o, b),
                     LAMBDA z : IF z.touched # {} \/ z.aborted THEN z
                                ELSE After(z, "sni", SetEvent(z, "eof", "Close"))))

EventReadUntested(s, n, a) ==
    IF n THEN Then(Act(s, a), LAMBDA y : After(y, "read", SetEvent(y, "read", "Read"))) ELSE s
EventRead(s, n, a) ==
    IF ~s.open THEN Abort(s, "no_conn")              \* its kq_fd is NULL
    ELSE IF ~n THEN s
    ELSE Then(Act(s, a), LAMBDA y : IF y.open /\ y.reads THEN SetEvent(y, "read", "Read") ELSE y)

\* What follows ACCEPT_AFTER of a plain connection is not told that it closed it.
IdentifiedPlain(s, a) ==
    Then(Accepted(Unmark(s, {"ssl"}), a), LAMBDA y :
         After(y, "identify", SetEvent(SetEvent(FireTimer(SetDefaultEvents(y)), "eof", "Close"), "read", "Read")))
ProtocolIdentify(s, plain, more, made, o, a, b) ==
    IF ~plain THEN EventSNIPeek(Mark(s, "ssl"), more, made, o, a, b)
    ELSE Then(IdentifiedPlain(s, a), LAMBDA y : IF y.touched # {} THEN y ELSE EventRead(y, TRUE, b))

AcceptPostInit(s, a) ==
    LET y == [s EXCEPT !.open = TRUE, !.fl = IF s.cfg.proto = "ssl" THEN {"ssl"} ELSE {}, !.tries = 0,
                       !.kq = Quiet, !.reads = TRUE, !.rate = FALSE, !.lost = @ \/ s.rate, !.job = FALSE,
                       !.told = 0, !.asked = FALSE, !.accepts = @ + 1, !.muted = @ /\ s.cfg.shared]
    IN CASE s.cfg.proto = "ssl"  -> SetEvent(y, "read", "SNIPeek")
         [] s.cfg.proto = "auto" -> \* the timeout is autodetect_ms
              [SetEvent(y, "read", "Identify") EXCEPT !.kq.timeout = TRUE]
         [] s.cfg.proto = "plain" ->
              Then(Accepted(y, a), LAMBDA z :
                   After(z, "accept", IF z.reads THEN SetEvent(FireTimer(z), "read", "Read") ELSE FireTimer(z)))
EventAccept(s, a) ==
    Then(AcceptPostInit(s, a), LAMBDA y :
         IF y.touched # {} THEN y ELSE After(y, "accept", SetEvent(y, "eof", "Close")))

\* A connection that another process transferred, with the bytes it had read;
\* the event READ is for them.  The read event dispatched for bytes that still
\* wait in the socket is the next step of Readable.
UNIXEventBrbProtoRead(s, payload, a, b) ==
    Then(EventAccept(s, a), LAMBDA y :
         IF y.touched # {} \/ ~payload \/ (Has(y, "transfer") /\ y.open) THEN y
         ELSE IF ~y.open THEN Abort(y, "no_conn") ELSE Act(y, b))

-----------------------------------------------------------------------------
(* Reading, writing, closing. *)

EventSSLRead(s, n, o, a) ==
    CASE ~n -> s
      [] n /\ ~s.handle -> Abort(s, "no_handle")
      [] n /\ s.handle /\ o \in {"read", "zero"} -> SetEvent(s, "read", "SSLRead")
      [] n /\ s.handle /\ o = "write" -> [SetEvent(s, "write", "SSLRead") EXCEPT !.hist = @ \cup {"crossed"}]
      [] n /\ s.handle /\ o = "fatal" -> SSLShutdownBegin(Mark(s, "fatal"))
      [] OTHER -> Then(Act(s, a), LAMBDA y :
                       After(y, "ssl_read", IF y.reads THEN SetEvent(y, "read", "SSLRead") ELSE y))

\* left: bytes are left to read, and are not read with MSG_PEEK.
EventClose(s, left, a) ==
    LET y == Mark(s, "eof")
        fails == Has(s, "ssl") /\ s.fl \cap {"defer", "ongoing"} # {}
    IN IF Has(s, "close_request") THEN ConnClose(y)
       ELSE IF left /\ s.fl \cap {"ssl", "defer"} = {} THEN SetEvent(y, "eof", "Close")
       ELSE Then(IF fails \/ s.fl \cap {"accepted", "abort"} # {} THEN Tell(y, a) ELSE y, ConnClose)

\* eof: the descriptor has seen one; o: what SSL_shutdown() asks for, or that
\* it is over, failed or impossible.  No test follows the event CLOSE.
SSLShutdown(s, eof, o, a) ==
    LET y == IF eof THEN Mark(s, "eof") ELSE s
        heard == y.fl \cap {"eof", "fatal"} # {} /\ ~Has(y, "close_request")
    IN IF eof \/ ~s.handle \/ s.ends > MaxTries \/ o = "done"
       THEN Then(IF heard THEN Tell(y, a) ELSE y, LAMBDA z : After(z, "shutdown", InternalShutdown(z)))
       ELSE SetEvent([s EXCEPT !.ends = @ + 1], o, "SSLShutdown")

SSLShutdownJob(s, eof, o, a) ==
    LET y == [s EXCEPT !.ends = 0, !.job = FALSE,
                       !.kq = [read |-> "SSLShutdown", write |-> "none", eof |-> "SSLShutdown", timeout |-> FALSE]]
    IN SSLShutdown(y, eof, o, a)

\* The first request of the queue is done or failed: EvAIOReqInvokeCallBacks,
\* unless the connection was asked to close.
Finished(s, tell, a) ==
    LET y == [s EXCEPT !.queue = Tail(@)]
    IN IF tell /\ Head(s.queue).told THEN Act([y EXCEPT !.answers[Head(s.queue).id] = @ + 1], a) ELSE y

\* CommEvTCPAIOWrite: o.k requests are written in full, unless the callback of
\* one of them closes the connection, and then it stops.
WriteOutcomes(q) ==
    {o \in [k : 0 .. Len(q), stop : {"full", "again", "fatal"}] :
        /\ o.stop = "full" => o.k > 0 \/ q = <<>>
        /\ o.stop # "full" => o.k < Len(q)}
\* a: what callback at does
AIOWrite(s, o, at, a) ==
    FoldLeft(LAMBDA t, i : IF t.open THEN Finished(t, ~Has(s, "close_request"), IF i = at THEN a ELSE "none") ELSE t,
             s, [i \in 1 .. (IF o.stop = "fatal" THEN o.k + 1 ELSE o.k) |-> i])

EventWriteUnarmed(s, o, at, a) ==
    Then(AIOWrite(s, o, at, a), LAMBDA y :
         IF y.open /\ y.queue # <<>> THEN Mark(y, "pending") ELSE Unmark(y, {"pending"}))
CloseIfRequested(s) == IF Has(s, "close_request") THEN ConnClose(s) ELSE s
EventWrite(s, o, at, a) ==
    Then(AIOWrite(s, o, at, a), LAMBDA y :
         IF ~y.open THEN y
         ELSE IF o.stop = "fatal" THEN CloseIfRequested([y EXCEPT !.hist = @ \cup {"fatal"}])
         ELSE IF y.queue # <<>> THEN SetEvent(Mark(y, "pending"), "write", "Write")
         ELSE CloseIfRequested(Unmark(y, {"pending"})))

SSLWritten(s, a) ==
    Then(Finished(s, ~Has(s, "close_request"), a), LAMBDA y :
         After(y, "ssl_write",
               IF y.queue # <<>> THEN SetEvent(Mark(y, "pending"), "write", "SSLWrite")
               ELSE CloseIfRequested(Unmark(y, {"pending"}))))
\* n: the event has a size, which one of reading at the end has not.
EventSSLWrite(s, n, o, a) ==
    LET held == Mark(s, "pending")
    IN IF ~n THEN s
       ELSE IF ~s.handle THEN Abort(s, "no_handle")
       ELSE IF s.queue = <<>> THEN Unmark(s, {"pending"})
       ELSE CASE o = "read" -> [SetEvent(held, "read", "SSLWrite") EXCEPT !.hist = @ \cup {"crossed"}]
              [] o \in {"write", "zero"} -> SetEvent(held, "write", "SSLWrite")
              [] o = "fatal" -> SSLShutdownBegin(Mark(held, "fatal"))
              [] o = "done" -> SSLWritten(s, a)

CanWrite(s) ==
    /\ s.open /\ ~Has(s, "transfer") /\ (~Has(s, "close_request") \/ s.cfg.unlimited)
    /\ s.cfg.unlimited \/ s.cfg.max = 0 \/ Len(s.queue) < s.cfg.max

WriteEvent(s) == IF Has(s, "ssl") THEN "SSLWrite" ELSE "Write"
\* EnqueueAndKickQueue; a vectored write loses its finish callback.
Enqueue(s, told) ==
    [s EXCEPT !.writes = @ + 1, !.queue = Append(@, [id |-> s.writes + 1, told |-> told]),
              !.vectored = IF told THEN @ ELSE @ \cup {s.writes + 1},
              !.hist = IF Has(s, "shutting") THEN @ \cup {"behind"} ELSE @]
KickConnWriteQueue(s, o, w, at, a) ==
    IF Has(s, "pending") THEN SetEvent(s, "write", WriteEvent(s))
    ELSE IF Has(s, "ssl") THEN EventSSLWrite(s, TRUE, o, a) ELSE EventWrite(s, w, at, a)

-----------------------------------------------------------------------------
(* Transfers to another process. *)

\* CONN_HND leaves the list of transfers and is closed.
EndTransfer(s) == InternalShutdown(Unmark(s, {"transfer"}))

\* The write of transfer g failed: CONN_HND is used without a test.
TransferFinishEvent(s, g) ==
    LET y == [s EXCEPT !.pend = @ \ {g}]
    IN IF ~s.alive \/ (~s.open /\ ~s.cfg.shared) THEN [y EXCEPT !.touched = @ \cup {"late"}]
       ELSE IF ~Has(s, "transfer") THEN Abort(y, "late")
       ELSE EndTransfer([y EXCEPT !.hist = IF g = s.accepts THEN @ ELSE @ \cup {"stale"}])
\* The other process has it.
TransferACKEvent(s, g) ==
    LET y == [s EXCEPT !.pend = @ \ {g}]
    IN IF s.alive /\ ~s.open /\ s.cfg.shared THEN y ELSE TransferFinishEvent(s, g)

\* late: the transfer took longer than transfer_ms.  The timer stops when it
\* finds no transfer.
TransferGCTimer(s, late) ==
    IF ~s.alive THEN [s EXCEPT !.touched = @ \cup {"gc"}]
    ELSE IF ~Has(s, "transfer") THEN [s EXCEPT !.gc = FALSE]
    ELSE IF late THEN EndTransfer(s) ELSE s

-----------------------------------------------------------------------------
(* What the loop does next. *)

Stopped == x.aborted \/ x.touched # {}
May == IF x.calls < MaxCalls THEN Acts ELSE {"none"}
\* Only ACCEPT_SNIPARSE looks at what defer and abort set.
Plainly == May \ {"defer", "abort"}
SSLOutcomes == {"done", "read", "write", "zero", "fatal"}
Rounds == {"done", "read", "write"}
\* What a peek finds and how the handshake that follows goes.
Unpeeked == {[more |-> TRUE, made |-> "ok", o |-> "done"]}
Peeked == Unpeeked \cup {[more |-> FALSE, made |-> m, o |-> "done"] : m \in {"none", "bad"}}
          \cup {[more |-> FALSE, made |-> "ok", o |-> o] : o \in Rounds \cup {"fatal"}}
\* The callback of a write that does something.
At(q) == 1 .. IF q = <<>> THEN 1 ELSE Len(q)

\* The events are volatile; the timeout is one of reading.
Taken(ev) == [x EXCEPT !.kq[ev] = "none", !.kq.timeout = IF ev = "read" THEN FALSE ELSE @]
Armed(ev, h) == ~Stopped /\ x.alive /\ x.open /\ x.kq[ev] = h

\* The event EOF follows the read event of the same kevent().
ReadEOF(y, eof, left, a) ==
    IF ~eof \/ y.aborted \/ y.touched # {} \/ ~y.open THEN y
    ELSE LET z == [y EXCEPT !.kq.eof = "none"]
         IN CASE y.kq.eof = "Close"       -> EventClose(z, left, a)
              [] y.kq.eof = "SSLShutdown" -> SSLShutdown(z, TRUE, "done", a)
              [] OTHER                    -> y

Accept == /\ ~Stopped /\ x.alive /\ ~x.open /\ x.accepts < MaxAccepts
          /\ \E a \in Plainly : x' = EventAccept(x, a)
AcceptTransferred ==
    /\ ~Stopped /\ x.alive /\ ~x.open /\ x.accepts < MaxAccepts
    /\ \E payload \in BOOLEAN, a, b \in Plainly : x' = UNIXEventBrbProtoRead(x, payload, a, b)

Readable ==
    \E eof \in BOOLEAN : \E c \in IF eof THEN Plainly ELSE {"none"} :
        \/ Armed("read", "Identify")
           /\ \E plain, left \in BOOLEAN : \E p \in IF plain THEN Unpeeked ELSE Peeked, a \in May, b \in {"none", "close"} :
                /\ plain => a \in Plainly
                /\ x' = ReadEOF(ProtocolIdentify(Taken("read"), plain, p.more, p.made, p.o, a, b), eof, left, c)
        \/ Armed("read", "SNIPeek")
           /\ \E p \in Peeked, a \in May, b \in {"none", "close"} :
                x' = ReadEOF(EventSNIPeek(Taken("read"), p.more, p.made, p.o, a, b), eof, TRUE, c)
        \/ Armed("read", "Dummy") /\ x' = ReadEOF(x, eof, TRUE, c)
        \/ Armed("read", "SSLAccept")
           /\ \E o \in Rounds \cup {"fatal"}, a \in Plainly :
                x' = ReadEOF(EventSSLAccept(Taken("read"), o, a), eof, TRUE, c)
        \/ Armed("read", "Read")
           /\ \E n \in {TRUE, ~eof}, left \in BOOLEAN, a \in Plainly :
                x' = ReadEOF(EventRead(Taken("read"), n, IF n THEN a ELSE "none"), eof, n /\ left, c)
        \/ Armed("read", "SSLRead")
           /\ \E n \in {TRUE, ~eof}, o \in SSLOutcomes, a \in Plainly :
                x' = ReadEOF(EventSSLRead(Taken("read"), n, o, a), eof, n, c)
        \/ Armed("read", "SSLWrite")
           /\ \E n \in {TRUE, ~eof}, o \in SSLOutcomes, a \in Plainly :
                x' = ReadEOF(EventSSLWrite(Taken("read"), n, o, a), eof, n, c)
        \/ Armed("read", "SSLShutdown") /\ (eof => c = "none")
           /\ \E o \in Rounds, a \in Plainly : x' = SSLShutdown(Taken("read"), eof, o, a)

Writable ==
    \E o \in SSLOutcomes, a \in Plainly :
        \/ Armed("write", "SSLAccept") /\ x' = EventSSLAccept(Taken("write"), o, a)
        \/ Armed("write", "Write") /\ o = "done" 
           /\ \E w \in WriteOutcomes(x.queue), at \in At(x.queue) : x' = EventWrite(Taken("write"), w, at, a)
        \/ Armed("write", "SSLWrite") /\ x' = EventSSLWrite(Taken("write"), TRUE, o, a)
        \/ Armed("write", "SSLRead") /\ x' = EventSSLRead(Taken("write"), TRUE, o, a)
        \/ Armed("write", "SSLShutdown") /\ o \in Rounds
           /\ \E eof \in BOOLEAN : x' = SSLShutdown(Taken("write"), eof, o, a)

ProtocolIdentifyTimeout ==
    /\ ~Stopped /\ x.alive /\ x.open /\ x.kq.timeout
    /\ \E a \in Plainly : x' = IdentifiedPlain([x EXCEPT !.kq.timeout = FALSE], a)

\* It arms itself again, under the id of the connection.
RatesCalculateTimer ==
    /\ ~Stopped /\ (x.rate \/ x.lost)
    /\ x' = IF ~x.alive \/ (~x.open /\ ~x.cfg.shared) THEN [x EXCEPT !.touched = @ \cup {"rate"}]
            ELSE IF x.lost THEN [x EXCEPT !.rate = TRUE, !.lost = x.rate] ELSE x

ShutdownJob ==
    /\ ~Stopped /\ (x.job \/ x.stray)
    /\ \E eof \in BOOLEAN, o \in Rounds, a \in Plainly :
          x' = IF x.job THEN SSLShutdownJob(x, eof, o, a)
               ELSE IF ~x.alive \/ ~x.cfg.shared THEN [x EXCEPT !.touched = @ \cup {"job"}]
               ELSE IF ~x.open THEN Abort(x, "job")                     \* kq_fd of -1 is NULL
               ELSE SSLShutdownJob([x EXCEPT !.stray = FALSE, !.hist = @ \cup {"stray"}], eof, o, a)

TransferEnds == /\ ~Stopped
                /\ \E g \in x.pend : x' = TransferFinishEvent(x, g) \/ x' = TransferACKEvent(x, g)
GCTimer == ~Stopped /\ x.gc /\ \E late \in BOOLEAN : x' = TransferGCTimer(x, late)

-----------------------------------------------------------------------------
(* Calls of the program. *)

Call == ~Stopped /\ x.alive /\ x.open /\ x.calls < MaxCalls
Called(y) == [y EXCEPT !.calls = x.calls + 1]

CallEnds == Call /\ \E a \in {"close", "request", "drop", "transfer"} : x' = Act(x, a)
\* CommEvTCPServerConnEventCancel and ConnEventSet of READ.
EventCancel ==
    /\ Call /\ Has(x, "accepted")
    /\ x' = Called([SetEvent(x, "read", "none")
                      EXCEPT !.reads = FALSE, !.hist = IF x.kq.read = "SSLShutdown" THEN @ \cup {"unread"} ELSE @])
EventSet ==
    /\ Call /\ Has(x, "accepted") /\ ~Has(x, "transfer") /\ ~Has(x, "shutting") /\ ~x.reads
    /\ x' = Called([SetEvent(x, "read", IF Has(x, "ssl") THEN "SSLRead" ELSE "Read") EXCEPT !.reads = TRUE])
SwitchConnProto ==
    /\ Call /\ Has(x, "abort") /\ Has(x, "ssl") /\ ~Has(x, "transfer")
    /\ x' = [Called(SetEvent(SetEvent(SetDefaultEvents(Unmark(x, {"ssl"})), "eof", "Close"), "read", "Read"))
            EXCEPT !.hist = @ \cup {"switched"}]
KickConnFromAcceptDefer ==
    /\ Call /\ Has(x, "defer")
    /\ \E made \in {"ok", "none", "bad"}, o \in Rounds \cup {"fatal"}, a \in Plainly :
          x' = LET y == SetEvent(Unmark(x, {"defer"}), "read", "none") IN Called(EventSSLAccept(SSLSessionInit(y, made), o, a))
CancelWriteQueue == Call /\ x' = Called([x EXCEPT !.muted = TRUE, !.hist = @ \cup {"muted"}])

CallWrite ==
    /\ ~Stopped /\ x.alive /\ CanWrite(x) /\ Has(x, "accepted") /\ x.writes < MaxWrites
    /\ \E told \in BOOLEAN, o \in SSLOutcomes, a \in Plainly :
        LET y == Enqueue(x, told) IN
        \E w \in WriteOutcomes(y.queue), at \in At(y.queue) :
            /\ IF Has(x, "ssl") THEN w.k = 0 /\ w.stop = "again" /\ at = 1 ELSE o = "done"
            /\ x' = KickConnWriteQueue(y, o, w, at, a)

\* CommEvTCPServerDestroy with no reference left: a connection in transfer stays.
ServerDestroy ==
    /\ ~Stopped /\ x.alive /\ x.calls < MaxCalls
    /\ x' = Called([InternalShutdown([x EXCEPT !.asked = TRUE]) EXCEPT !.alive = FALSE])

Loop == \/ Accept \/ AcceptTransferred \/ Readable \/ Writable \/ ProtocolIdentifyTimeout
        \/ RatesCalculateTimer \/ ShutdownJob \/ TransferEnds \/ GCTimer
Program == \/ CallEnds \/ EventCancel \/ EventSet \/ SwitchConnProto \/ KickConnFromAcceptDefer
           \/ CancelWriteQueue \/ CallWrite \/ ServerDestroy
Next == Loop \/ Program

-----------------------------------------------------------------------------
(* Properties. *)

Unusual(what) == x.hist \cap what # {}

(***************************************************************************)
(* InternalShutdown leaves nothing behind: a closed connection has no      *)
(* event, request, timer or job, but for the data rate timer that a        *)
(* handler arms after its callback closed the connection, and the job of   *)
(* a write told that it failed.                                            *)
(***************************************************************************)
ClosedIsQuiet ==
    (~x.open /\ ~Stopped) =>
        /\ x.kq = Quiet /\ x.queue = <<>> /\ ~x.job /\ ~Has(x, "shutting")
        /\ (x.rate \/ x.lost) => x.cfg.rates /\ x.cfg.shared
        /\ x.stray => x.cfg.onfail

(***************************************************************************)
(* A connection handed to the program ends with one CLOSE or failed        *)
(* handshake, unless the program ended it or a job of an earlier           *)
(* connection did.                                                         *)
(***************************************************************************)
ToldOnce == x.told <= 1 /\ (Unusual({"silent"}) => Unusual({"stray"}))

(***************************************************************************)
(* Nothing waits for ever: a connection with requests left has a write     *)
(* event that will serve them, one that is shut down has the job or the    *)
(* handler that goes on with it, and one in transfer with a time limit has *)
(* the timer.  A failed write, and SSL asking for the other direction,     *)
(* leave the queue alone.                                                  *)
(***************************************************************************)
Served ==
    (x.alive /\ x.open /\ ~Stopped) =>
        /\ (x.queue # <<>> /\ ~Has(x, "transfer") /\ ~Has(x, "shutting") /\ ~Unusual({"fatal", "crossed", "switched", "stray"}))
             => x.kq.write = WriteEvent(x)
        /\ (Has(x, "shutting") /\ ~Has(x, "transfer") /\ ~Unusual({"crossed", "unread", "behind", "switched", "stray"}))
             => x.job \/ "SSLShutdown" \in {x.kq.read, x.kq.write}
        /\ (Has(x, "transfer") /\ x.cfg.gc) => x.gc

(***************************************************************************)
(* A write accepted with a finish callback waits in the queue or was told  *)
(* once, unless its connection is asked to close or its queue cancelled.   *)
(***************************************************************************)
WriteToldOnce ==
    \A w \in (1 .. x.writes) \ x.vectored :
        LET queued == \E i \in 1 .. Len(x.queue) : x.queue[i].id = w
        IN /\ x.answers[w] + (IF queued THEN 1 ELSE 0) <= 1
           /\ x.answers[w] = 0 /\ ~queued => Unusual({"requested", "muted"})

(***************************************************************************)
(* The ways a handler uses a connection or a server that its callback      *)
(* released, and the ways an assertion fails, are these; each has its      *)
(* cause in the configuration or in what the program did.                  *)
(***************************************************************************)
FaultsHaveCause ==
    /\ x.touched \subseteq {"accept", "identify", "sni", "handshake", "ssl_read", "ssl_write", "shutdown",
                            "late", "gc", "rate", "job"}
    /\ x.touched # {} => ~x.alive \/ ~x.cfg.shared
    /\ x.touched \cap {"gc", "late"} # {} => x.cfg.gc \/ ~x.alive
    /\ "rate" \in x.touched => x.cfg.rates
    /\ x.aborted => Unusual({"late", "job", "nested", "no_handle", "no_conn"})
=============================================================================
