----------------------------- MODULE UnixClient -----------------------------
(***************************************************************************)
(* The life of a UNIX client (comm/core/unix/comm_unix_client.c): the      *)
(* asynchronous connect and its timeout, the reconnection and data rate    *)
(* timers, the end of a connection, and the calls of the program, which it *)
(* also makes from inside its callbacks.  What is written and read is the  *)
(* subject of UnixLink; here a queue is empty or not.                      *)
(*                                                                         *)
(* A handler with the callback it makes is one step of the loop.  An       *)
(* argument tells what connect() returns or what the program does.         *)
(***************************************************************************)
LOCAL INSTANCE Integers
LOCAL INSTANCE FiniteSets

CONSTANTS Fds,           \* descriptor numbers; socket() returns the lowest free one, 0 if stdin is closed
          Confs,         \* the configurations a program gives to Connect
          Acts,          \* what the program does inside a callback
          MaxConnects,   \* bound: calls of connect()
          MaxCalls       \* bound: calls of the program

None == -1
Failures == {"FAILED_TIMEOUT", "FAILED_REFUSED", "FAILED_SYSCALL"}
Events == {"connect", "close", "read"}

(***************************************************************************)
(* The state c of the client and of its place in the loop:                 *)
(*   alive         the memory of the client is not freed                   *)
(*   st fd cfg     socket_state, socket_fd, configuration                  *)
(*   queue         requests wait to be written; heeds, the events[] set    *)
(*   timers        those whose id the client holds: close, timeout, fail   *)
(*   lost          armed reconnection timers whose id it overwrote         *)
(*   rate          the data rate timer                                     *)
(*   kq            the volatile events of each descriptor, by handler      *)
(* and history: calls, connects, the unusual things that happened (hist),  *)
(* how a freed client was touched, whether the program disconnected (idle).*)
(***************************************************************************)
VARIABLE c

Shut == [open |-> FALSE, read |-> "none", write |-> "none", eof |-> "none", timeout |-> FALSE]
Init ==
    \E cfg \in Confs, f \in Fds :
        c = [alive |-> TRUE, st |-> "DISCONNECTED", fd |-> f, cfg |-> cfg, queue |-> FALSE, heeds |-> Events,
             timers |-> {}, lost |-> 0, rate |-> FALSE,
             kq |-> [g \in Fds |-> IF g = f THEN [Shut EXCEPT !.open = TRUE] ELSE Shut],
             calls |-> 0, connects |-> 0, hist |-> {}, touched |-> {}, idle |-> TRUE]

Then(x, F(_)) == F(x)
Happened(x, what) == [x EXCEPT !.hist = @ \cup {what}]

SetEvent(x, ev, h) == IF x.fd = None THEN x ELSE [x EXCEPT !.kq[x.fd][ev] = h]
SocketClose(x, f) == IF f = None THEN x ELSE [x EXCEPT !.kq[f] = Shut]
CloseOwn(x) == [SocketClose(x, x.fd) EXCEPT !.fd = None]
CloseIfOpen(x) == IF x.fd > 0 THEN CloseOwn(x) ELSE x
SocketNew(x, ok) ==
    LET free == {f \in Fds : ~x.kq[f].open}
        f == CHOOSE g \in free : \A h \in free : g <= h
    IN IF ~ok \/ free = {} THEN [x EXCEPT !.fd = None]
       ELSE [x EXCEPT !.fd = f, !.kq[f] = [Shut EXCEPT !.open = TRUE]]

\* A timer is armed whether or not the client holds the id of one like it.
TimerAdd(x, t) ==
    IF t \in x.timers THEN [x EXCEPT !.lost = @ + 1] ELSE [x EXCEPT !.timers = @ \cup {t}]
TimersCancelAll(x) == [x EXCEPT !.timers = {}, !.rate = FALSE]
IODataDestroy(x) == [x EXCEPT !.queue = FALSE]

-----------------------------------------------------------------------------
(* The end of a connection. *)

EventCancelAll(x) == [SetEvent(x, "read", "none") EXCEPT !.heeds = {}]
\* Slip: the timers of the client are left.
DestroyKeepsTimers(x) == [CloseOwn(IODataDestroy(x)) EXCEPT !.alive = FALSE]
Destroy(x) == [CloseOwn(IODataDestroy(EventCancelAll(TimersCancelAll(x)))) EXCEPT !.alive = FALSE]
Disconnect(x) == [CloseOwn(TimersCancelAll(EventCancelAll(IODataDestroy(x)))) EXCEPT !.st = "DISCONNECTED", !.idle = TRUE]

InternalDisconnect(x) ==
    LET y == IF x.fd > 0 THEN [CloseOwn(x) EXCEPT !.st = "DISCONNECTED"] ELSE x
        z == IODataDestroy(TimersCancelAll(y))
    IN IF z.st = "FAILED_TIMEOUT" /\ z.cfg.on_timeout THEN TimerAdd(z, "timeout")
       ELSE IF z.cfg.on_close THEN TimerAdd(z, "close")
       ELSE z

-----------------------------------------------------------------------------
(* Connecting. *)

ConnectResults == {"begun", "interrupted", "failed"}

Begun(x) ==
    LET y == SetEvent([x EXCEPT !.st = "CONNECTING", !.connects = @ + 1, !.idle = FALSE], "write", "Connect")
    IN IF y.cfg.timeout /\ y.fd # None THEN [y EXCEPT !.kq[y.fd].timeout = TRUE] ELSE y

ResetFD(x, ok) ==
    LET y == SocketNew(x, ok)
    IN IF x.st = "CONNECTED" THEN x ELSE IF x.fd > 0 THEN SocketClose(y, x.fd) ELSE y

\* History: the program connects while a timer is armed to do so.
Again(x) == IF x.timers # {} THEN Happened(x, "twice") ELSE x
\* A callback: what the program does in it, and what it makes of the client.
\* A connect() made inside one is begun.
Act(x, a) ==
    LET y == [x EXCEPT !.calls = @ + 1]
    IN CASE a = "disconnect" -> Happened(Disconnect(y), "inside")
         [] a = "destroy" -> Happened(Destroy(y), "inside")
         [] a = "reconnect" /\ x.st # "CONNECTED" /\ x.connects < MaxConnects ->
                Happened(Begun(ResetFD(Again(y), TRUE)), "inside")
         [] OTHER -> x
EventDispatchInternal(x, ev, a) == IF ev \in x.heeds THEN Act(x, a) ELSE x
\* A handler goes on with the client after the callback.
After(x, how, y) == IF x.alive THEN y ELSE [x EXCEPT !.touched = @ \cup {how}]

\* History: the callback disconnected and the handler goes on all the same.
Unseen(x, y) == IF y.alive /\ y.idle /\ ~x.idle THEN Happened(y, "unseen") ELSE y

\* AsyncConnect after a connect() that failed at once.
ConnectFailed(x, a) ==
    LET y == [x EXCEPT !.st = "FAILED_SYSCALL", !.connects = @ + 1, !.idle = FALSE]
    IN Then(EventDispatchInternal(y, "connect", a), LAMBDA z :
            After(z, "connect",
                  IF z.cfg.destroy_fail THEN Destroy(z)
                  ELSE IF z.cfg.on_fail
                  THEN TimerAdd([IODataDestroy(CloseIfOpen(Unseen(y, z))) EXCEPT !.st = "DISCONNECTED", !.fd = None], "fail")
                  ELSE z))
\* No descriptor cannot be connected; EALREADY and EINTR are left at that.
AsyncConnect(x, r, a) ==
    IF x.fd = None \/ r = "failed" THEN ConnectFailed(x, a)
    ELSE IF r = "interrupted" THEN Happened([x EXCEPT !.connects = @ + 1, !.idle = FALSE], "interrupted")
    ELSE Begun(x)

\* A descriptor 0 is taken for none, and the client tries later.
Reconnect(x, ok, r, a) ==
    LET y == ResetFD(x, ok)
    IN IF x.st = "CONNECTED" THEN x
       ELSE IF y.fd = 0 THEN TimerAdd(y, "fail")
       ELSE AsyncConnect(y, r, a)

EventConnect(x, to, a) ==
    LET y == [x EXCEPT !.st = to]
        z == [SetEvent(SetEvent(y, "eof", "Eof"), "read", "Read") EXCEPT !.rate = x.cfg.rates]
    IN IF to = "CONNECTING" THEN SetEvent(y, "write", "Connect")
       ELSE Then(EventDispatchInternal(IF to = "CONNECTED" THEN z ELSE y, "connect", a), LAMBDA w :
                 After(w, "event",
                       IF w.st \notin Failures THEN w
                       ELSE IF w.cfg.destroy_fail THEN Destroy(w)
                       ELSE IF w.cfg.on_fail
                       THEN TimerAdd([IODataDestroy(CloseIfOpen(w)) EXCEPT !.st = "DISCONNECTED", !.fd = None], "fail")
                       ELSE w))

TimerConnectTimeout(x, a) ==
    LET y == [x EXCEPT !.st = "FAILED_TIMEOUT", !.kq[x.fd] = [Shut EXCEPT !.open = TRUE]]
    IN Then(EventDispatchInternal(y, "connect", a), LAMBDA z : After(z, "timeout", InternalDisconnect(Unseen(y, z))))

EventEOF(x, left, a) ==
    IF left THEN SetEvent(x, "eof", "Eof")
    ELSE Then(EventDispatchInternal(x, "close", a), LAMBDA z :
              After(z, "eof", IF z.cfg.destroy_close THEN Destroy(z) ELSE InternalDisconnect(Unseen(x, z))))

EventRead(x, a) ==
    Then(EventDispatchInternal(SetEvent(x, "read", "Read"), "read", a), LAMBDA z : After(z, "read", z))

\* The handler of the queue, which does not look at the state: it writes all,
\* or a part, or waits for a larger window.
EventWrite(x, how) ==
    CASE how = "all"    -> [x EXCEPT !.queue = FALSE]
      [] how = "part"   -> SetEvent(SetEvent(x, "write", "Write"), "read", "Read")
      [] how = "window" -> SetEvent(x, "write", "Write")

-----------------------------------------------------------------------------
(* What the loop does next, and the calls of the program. *)

Running == c.touched = {}
May == IF c.calls < MaxCalls THEN Acts ELSE {"none"}
MayConnect == c.connects < MaxConnects
Armed(ev, h) == Running /\ c.alive /\ c.fd # None /\ c.kq[c.fd][ev] = h
Taken(ev) == [c EXCEPT !.kq[c.fd][ev] = "none", !.kq[c.fd].timeout = @ /\ ev # "write"]

Connecting ==
    Armed("write", "Connect") /\ \E to \in {"CONNECTING", "CONNECTED", "FAILED_REFUSED"}, a \in May :
        c' = EventConnect(Taken("write"), to, a)
Writable == Armed("write", "Write") /\ \E how \in {"all", "part", "window"} : c' = EventWrite(Taken("write"), how)
Readable == Armed("read", "Read") /\ \E a \in May : c' = EventRead(Taken("read"), a)
Ended == Armed("eof", "Eof") /\ \E left \in BOOLEAN, a \in May : c' = EventEOF(Taken("eof"), left, a)
TimedOut == Running /\ c.alive /\ c.fd # None /\ c.kq[c.fd].timeout /\ \E a \in May : c' = TimerConnectTimeout(c, a)

\* A timer the client holds, or one it lost.
ReconnectTimer ==
    /\ Running /\ MayConnect
    /\ \E x \in {[c EXCEPT !.timers = @ \ {t}] : t \in c.timers}
                \cup (IF c.lost > 0 THEN {[c EXCEPT !.lost = @ - 1]} ELSE {}) :
         IF ~c.alive THEN c' = [x EXCEPT !.touched = @ \cup {"timer"}]
         ELSE \E ok \in BOOLEAN, r \in ConnectResults, a \in May : c' = Reconnect(x, ok, r, a)
RatesCalculateTimer ==
    /\ Running /\ c.rate
    /\ c' = IF ~c.alive THEN [c EXCEPT !.touched = @ \cup {"rate"}] ELSE [c EXCEPT !.rate = c.fd # None]

Called(x) == [x EXCEPT !.calls = @ + 1]
MayCall == Running /\ c.alive /\ c.calls < MaxCalls
CallConnect ==
    /\ MayCall /\ MayConnect /\ c.idle
    /\ \E r \in ConnectResults, a \in May : c' = Called(AsyncConnect(Again(c), r, a))
CallReconnect ==
    /\ MayCall /\ MayConnect /\ c.connects > 0
    /\ \E ok \in BOOLEAN, r \in ConnectResults, a \in May :
         c' = Called(Reconnect(Again(c), ok, r, a))
CallDisconnect == MayCall /\ c' = Called(Disconnect(c))
CallDestroy == MayCall /\ c' = Called(Destroy(c))
EventSet == MayCall /\ \E ev \in Events : c' = Called([c EXCEPT !.heeds = @ \cup {ev}])
EventCancel ==
    /\ MayCall
    /\ \E ev \in Events :
         LET y == Called([c EXCEPT !.heeds = @ \ {ev}])
         IN c' = IF ev = "read" THEN Happened(SetEvent(y, "read", "none"), "muted") ELSE y
\* What cannot be sent at once is queued, which arms READ as well.  Before the
\* client is connected the handler of the queue takes the place of Connect.
CallWrite ==
    /\ MayCall
    /\ \E sent \in {FALSE, c.st \in {"CONNECTING", "CONNECTED"} /\ ~c.queue} :
         LET y == Called(SetEvent(c, "read", "Read"))
             z == [SetEvent(y, "write", "Write") EXCEPT !.queue = TRUE]
         IN c' = IF sent THEN y ELSE IF c.st = "CONNECTED" THEN z ELSE Happened(z, "early")

Next ==
    \/ Connecting \/ Writable \/ Readable \/ Ended \/ TimedOut \/ ReconnectTimer \/ RatesCalculateTimer
    \/ CallConnect \/ CallReconnect \/ CallDisconnect \/ CallDestroy \/ EventSet \/ EventCancel \/ CallWrite

-----------------------------------------------------------------------------
(***************************************************************************)
(* A client that is freed leaves no descriptor, event or timer behind, and *)
(* is not touched again, unless the program frees it inside a callback; a  *)
(* live one has no descriptor but its own.  What escapes is the            *)
(* reconnection timer of a client that the program reconnected while one   *)
(* was armed: its id is overwritten.                                       *)
(***************************************************************************)
Unusual(what) == c.hist \cap what # {}
LeavesNothing ==
    /\ \A f \in Fds : c.kq[f].open => c.alive /\ f = c.fd
    /\ ~c.alive => c.timers = {} /\ ~c.rate
    /\ c.lost > 0 => Unusual({"twice"})
    /\ c.touched \subseteq {"timer"} \/ Unusual({"inside"})
    /\ "timer" \in c.touched => Unusual({"twice"})

(***************************************************************************)
(* A client told to reconnect always has something that brings it back,    *)
(* and a connected one waits for what the server sends and for the end.    *)
(* What leaves it stranded is a connect() that is interrupted, a write     *)
(* before it is connected, and the program cancelling its events.          *)
(***************************************************************************)
MovesOn ==
    c.alive /\ c.touched = {} /\ ~c.idle =>
        /\ c.st = "CONNECTED" => c.kq[c.fd].eof = "Eof" /\ (c.kq[c.fd].read = "Read" \/ Unusual({"muted"}))
        /\ c.st # "CONNECTED" /\ c.cfg.on_close /\ c.cfg.on_fail /\ ~c.cfg.destroy_fail /\ ~c.cfg.destroy_close =>
              \/ c.timers # {} \/ c.lost > 0 \/ Unusual({"interrupted", "early"})
              \/ c.fd # None /\ c.kq[c.fd].write = "Connect"

(***************************************************************************)
(* After the program disconnects nothing brings the client back, but for a *)
(* handler that does not see that its callback disconnected, and a timer   *)
(* whose id was lost.                                                      *)
(***************************************************************************)
StaysDisconnected ==
    c.alive /\ c.idle /\ c.connects > 0 /\ ~Unusual({"unseen"}) => c.timers = {} /\ c.fd = None /\ ~c.rate
=============================================================================
