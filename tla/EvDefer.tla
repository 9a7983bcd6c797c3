------------------------------ MODULE EvDefer ------------------------------
(***************************************************************************)
(* Deferred events of descriptors (event/core/ev_kq_defer.c, the parts of  *)
(* ev_kq_base.c that ask).  A program that does not want to read or write  *)
(* for a while sets a check: the loop asks it before it tells an event,    *)
(* puts the descriptor on a list while the answer is yes, asks again from  *)
(* time to time, and tells the event that was put off once it is no.       *)
(*                                                                         *)
(* Every question and every telling is a callback, in which the program    *)
(* may close sockets, set and delete events and checks, and so take the    *)
(* descriptor off the list the loop is walking.  z.stack is what the C     *)
(* stack holds: the callback that runs, and what its callers still do.     *)
(*                                                                         *)
(* Changes reach the kernel at once, and closing lingers (EvKQueue has     *)
(* both in detail).                                                        *)
(***************************************************************************)
EXTENDS Integers, Sequences, FiniteSets

CONSTANTS Fds,          \* descriptor numbers
          Uses,         \* the directions of descriptors in use, <<d, n>>: sets to choose from
          MaxCalls      \* bound: calls of the program

VARIABLE z

READ == "READ"
WRITE == "WRITE"
Dirs == {READ, WRITE}

D == INSTANCE DLinkedListOps WITH Nodes <- Fds, Lists <- {"deferred"}

Proto == [cb : BOOLEAN, enabled : BOOLEAN, persist : BOOLEAN]
Blank == [cb |-> FALSE, enabled |-> FALSE, persist |-> FALSE]
KNote == [on : BOOLEAN, once : BOOLEAN, enabled : BOOLEAN]
Absent == [on |-> FALSE, once |-> FALSE, enabled |-> FALSE]
Each(v) == [d \in Dirs |-> [n \in Fds |-> v]]
Where(use, v, w) == [d \in Dirs |-> [n \in Fds |-> IF <<d, n>> \in use THEN v ELSE w]]
Handler(persist) == [cb |-> TRUE, enabled |-> TRUE, persist |-> persist]

\* list: whose nodes the walk follows; rule: the loop it is in.
NoWalk == [list |-> "none", rule |-> READ, node |-> D!Nil]

\* Sockets that are open, with handlers and checks set for the directions in use.
Init ==
    \E use \in Uses, persist, asks \in BOOLEAN :
        z = [use |-> use,
             sock |-> [n \in Fds |-> IF \E d \in Dirs : <<d, n>> \in use THEN "open" ELSE "no"],
             ev |-> Where(use, Handler(persist), Blank),
             check |-> Where(use, Handler(asks), Blank),
             note |-> Where(use, [on |-> TRUE, once |-> ~persist, enabled |-> TRUE], Absent),
             failed |-> Each(FALSE),    \* kernel: a change that failed, not told yet
             flag |-> Each(FALSE), trans |-> Each(FALSE), pending |-> Each(0),
             links |-> [d \in Dirs |-> D!NoLinks],
             stack |-> <<>>, walk |-> NoWalk,
             calls |-> 0,
             wants |-> Where(use, TRUE, FALSE),     \* the program waits for the event (history)
             stray |-> {},              \* lists a closed descriptor was left on (history)
             missed |-> {}]             \* events that were spent on a deferral (history)

-----------------------------------------------------------------------------
(* Events of descriptors: what EvKQBaseSetEvent does, and kevent() with it.  *)

Changed(note, op) ==
    CASE op = "delete" -> Absent
      [] op = "enable" -> [note EXCEPT !.enabled = TRUE]
      [] op = "disable" -> [note EXCEPT !.enabled = FALSE]
      [] OTHER -> [on |-> TRUE, once |-> op = "once", enabled |-> TRUE]
EnqueueEvChg(s, d, n, op) ==
    IF op \in {"add", "once"} \/ s.note[d][n].on
    THEN [s EXCEPT !.note[d][n] = Changed(@, op)]
    ELSE [s EXCEPT !.failed[d][n] = TRUE]

AddEvent(s, d, n, persist) ==
    EnqueueEvChg([s EXCEPT !.ev[d][n] = Handler(persist)], d, n, IF persist THEN "add" ELSE "once")
DeleteEvent(s, d, n) ==
    LET told == IF s.ev[d][n].enabled THEN EnqueueEvChg(s, d, n, "delete") ELSE s
    IN  [told EXCEPT !.ev[d][n] = Blank]
\* ENABLE of a write event is refused while writing is deferred.
ToggleEvent(s, d, n, on) ==
    IF s.ev[d][n].enabled = on \/ (on /\ d = WRITE /\ s.flag[d][n]) THEN s
    ELSE [EnqueueEvChg(s, d, n, IF on THEN "enable" ELSE "disable") EXCEPT !.ev[d][n].enabled = on]

\* ADD_TRANSITION, which EvKQBaseUpdateWriteEvent does not know.
AddTransition(s, d, n) ==
    IF d = READ /\ s.ev[d][n].cb THEN AddEvent(s, d, n, TRUE) ELSE s

-----------------------------------------------------------------------------
(* Deferring.                                                                *)

Push(s, frame) == [s EXCEPT !.stack = <<frame>> \o @]
Pop(s) == [s EXCEPT !.stack = Tail(@)]
Top(s) == IF s.stack = <<>> THEN [at |-> "loop", d |-> READ, n |-> D!Nil, size |-> 0] ELSE Head(s.stack)
Frame(at, d, n, size) == [at |-> at, d |-> d, n |-> n, size |-> size]

Closed(s, n) == s.sock[n] # "open"

\* EvKQBaseFDEventInvoke: a volatile event is disabled before its callback runs.  at
\* says what its caller does next.
Invoke(s, at, d, n) ==
    IF s.ev[d][n].enabled /\ s.ev[d][n].cb
    THEN Push([s EXCEPT !.ev[d][n].enabled = s.ev[d][n].persist,
                        !.wants[d][n] = @ /\ s.ev[d][n].persist], Frame(at, d, n, 0))
    ELSE s

\* EvKQBaseDeferReadCheckByKQFD and its twin for writing, as far as the callback.
DeferCheck(s, d, n, size) ==
    IF ~s.check[d][n].enabled \/ ~s.check[d][n].cb THEN s
    ELSE LET asked == IF s.check[d][n].persist THEN s
                      ELSE IF d = READ THEN [s EXCEPT !.check[d][n] = Blank]
                      ELSE [s EXCEPT !.check[d][n].enabled = FALSE]
         IN  Push(asked, Frame("check", d, n, size))

\* Slip: a descriptor that is deferred already is linked once more.
DeferTwice(s, d, n, size) ==
    [s EXCEPT !.links[d] = D!AddHead(@, "deferred", n), !.pending[d][n] = size, !.flag[d][n] = TRUE]
\* The answer was yes.
Defer(s, d, n, size) ==
    IF s.flag[d][n] THEN s
    ELSE LET caught == IF s.ev[d][n].persist \/ s.trans[d][n] THEN s
                       ELSE [AddTransition(s, d, n) EXCEPT !.trans[d][n] = TRUE]
         IN  [caught EXCEPT !.links[d] = D!AddHead(@, "deferred", n),
                            !.pending[d][n] = size,
                            !.flag[d][n] = TRUE,
                            !.stray = IF Closed(s, n) THEN @ \cup {d} ELSE @]

\* Slip: the volatile event is not set again.
RescheduleNot(s, d, n) == DeleteEvent(s, d, n)
Reschedule(s, d, n) ==
    IF s.ev[d][n].enabled THEN AddEvent(DeleteEvent(s, d, n), d, n, FALSE) ELSE DeleteEvent(s, d, n)

Undefer(s, d, n) == [s EXCEPT !.flag[d][n] = FALSE, !.trans[d][n] = FALSE, !.pending[d][n] = 0]

\* Slip: the node stays on the list.
UnlinkNot(s, d, n) == s
Unlink(s, d, n) == [s EXCEPT !.links[d] = D!Delete(@, "deferred", n)]

\* EvKQBaseDeferReadRemoveByKQFD and its twin.  The event that waited is told, and the
\* check is asked again after it.
DeferRemove(s, d, n) ==
    IF ~s.flag[d][n] THEN s
    ELSE LET off == Unlink(s, d, n)
             set == IF s.trans[d][n] /\ ~Closed(s, n) THEN Reschedule(off, d, n) ELSE off
             clean == Undefer(set, d, n)
         IN  IF Closed(s, n) \/ ~s.ev[d][n].enabled \/ s.pending[d][n] = 0 THEN clean
             ELSE Invoke(Push(clean, Frame("again", d, n, 0)), "told", d, n)

-----------------------------------------------------------------------------
(* What the program does, in a callback or from a job or a timer.            *)

AddCheck(s, d, n, persist) == [s EXCEPT !.check[d][n] = Handler(persist)]
\* DELETE of the check ends a deferral of reading, and not one of writing.
DeleteCheck(s, d, n) ==
    LET gone == [s EXCEPT !.check[d][n] = Blank]
    IN  IF d = READ THEN DeferRemove(gone, d, n) ELSE gone
ToggleCheck(s, d, n, on) == [s EXCEPT !.check[d][n].enabled = on]

\* EvKQBaseClearEvents of a socket that closes, then EvKQBaseDeferResetByKQFD.
ResetByKQFD(s, n) ==
    [s EXCEPT !.check = [d \in Dirs |-> [@[d] EXCEPT ![n] = Blank]],
              !.flag = [d \in Dirs |-> [@[d] EXCEPT ![n] = FALSE]],
              !.trans = [d \in Dirs |-> [@[d] EXCEPT ![n] = FALSE]],
              !.pending = [d \in Dirs |-> [@[d] EXCEPT ![n] = 0]]]
ClearEvents(s, n) == DeleteCheck(DeleteEvent(DeleteEvent(s, READ, n), WRITE, n), READ, n)
SocketClose(s, n) ==
    LET closing == [s EXCEPT !.sock[n] = "closing",
                             !.missed = {w \in @ : w[2] # n},
                             !.wants = [d \in Dirs |-> [@[d] EXCEPT ![n] = FALSE]],
                             !.stray = IF s.flag[WRITE][n] THEN @ \cup {WRITE} ELSE @]
    IN  ResetByKQFD(ClearEvents(closing, n), n)

\* socket() and EvKQBaseFDGenericInit.
SocketNew(s, n) == [ResetByKQFD(s, n) EXCEPT !.sock[n] = "open"]

Wanted(s, d, n) == [s EXCEPT !.wants[d][n] = s.ev[d][n].cb /\ s.ev[d][n].enabled]
Open(s) == {n \in Fds : s.sock[n] = "open"}
Calls(s) ==
    UNION {{Wanted(AddEvent(s, d, n, TRUE), d, n), Wanted(AddEvent(s, d, n, FALSE), d, n),
            Wanted(ToggleEvent(s, d, n, TRUE), d, n), Wanted(ToggleEvent(s, d, n, FALSE), d, n),
            Wanted(DeleteEvent(s, d, n), d, n),
            AddCheck(s, d, n, TRUE), AddCheck(s, d, n, FALSE), DeleteCheck(s, d, n),
            ToggleCheck(s, d, n, TRUE), ToggleCheck(s, d, n, FALSE)}
              : <<d, n>> \in {w \in s.use : w[2] \in Open(s)}}
    \cup {SocketClose(s, n) : n \in Open(s)}
    \cup {SocketNew(s, n) : n \in {m \in Fds : s.sock[m] = "no"}}
Client == /\ z.calls < MaxCalls
          /\ Top(z).at \in {"loop", "check", "walk", "told"}
          /\ \E after \in Calls(z) : z' = [after EXCEPT !.calls = @ + 1]

-----------------------------------------------------------------------------
(* The loop.                                                                 *)

Idle == z.stack = <<>> /\ z.walk = NoWalk

\* EvKQInvokeKQFDCallbacks, at an event of the descriptor: a size, or an error of a change.
Dispatch(s, d, n, size) ==
    IF ~s.ev[d][n].enabled THEN s
    ELSE DeferCheck(Push(s, Frame("event", d, n, size)), d, n, size)
\* A volatile event set while a persistent one is deferred is spent on the deferral, which
\* tells nothing at its end when it has no bytes to tell of.
Misses(s, d, n) ==
    IF s.note[d][n].once /\ s.flag[d][n] /\ ~s.trans[d][n] /\ s.pending[d][n] = 0
    THEN {<<d, n>>} ELSE {}
Fired(note) == IF note.once THEN Absent ELSE note
KEvent == /\ Idle
          /\ \E d \in Dirs, n \in Fds, size \in 0 .. 1 :
                /\ z.note[d][n].enabled
                /\ d = WRITE => size = 1
                /\ z' = Dispatch([z EXCEPT !.note[d][n] = Fired(@),
                                           !.missed = @ \cup Misses(z, d, n)], d, n, size)
KEventError == /\ Idle
               /\ \E d \in Dirs, n \in Fds :
                     /\ z.failed[d][n]
                     /\ z' = Dispatch([z EXCEPT !.failed[d][n] = FALSE], d, n, 1)

\* The check has answered: the event is told now, or not.
AfterCheck == /\ Top(z).at = "event"
              /\ LET top == Top(z) IN
                 z' = IF Closed(z, top.n) \/ z.flag[top.d][top.n] THEN Pop(z)
                      ELSE Invoke(Pop(z), "told", top.d, top.n)
AfterRemove == /\ Top(z).at = "again"
               /\ z' = DeferCheck(Pop(z), Top(z).d, Top(z).n, 0)

CheckReturn == /\ Top(z).at = "check"
               /\ LET top == Top(z) IN
                  \/ z' = Defer(Pop(z), top.d, top.n, top.size)
                  \/ z' = DeferRemove(Pop(z), top.d, top.n)
EventReturn == /\ Top(z).at = "told"
               /\ z' = Pop(z)

\* The close job, on a later turn.
FDDoClose == /\ Idle
             /\ \E n \in Fds :
                   /\ z.sock[n] = "closing"
                   /\ z' = [ResetByKQFD(z, n) EXCEPT
                               !.sock[n] = "no",
                               !.note = [d \in Dirs |-> [@[d] EXCEPT ![n] = Absent]]]

-----------------------------------------------------------------------------
(* EvKQBaseDeferBeginCheck, when the interval has passed.                    *)

Walking == z.stack = <<>> /\ z.walk # NoWalk
WalkFrom(d) == [list |-> d, rule |-> d, node |-> z.links[d].head["deferred"]]
After(w) == z.links[w.list].next[w.node]

BeginCheck == /\ Idle
              /\ \E d \in Dirs : z.links[d].head["deferred"] # D!Nil
              /\ z' = [z EXCEPT !.walk = WalkFrom(READ)]

\* The loop for reading goes over to the one for writing.
WalkEnds == /\ Walking /\ z.walk.node = D!Nil
            /\ z' = [z EXCEPT !.walk = IF z.walk.rule = READ THEN WalkFrom(WRITE) ELSE NoWalk]

Disabled == ~z.check[z.walk.rule][z.walk.node].enabled
WalkSkips == /\ Walking /\ z.walk.node # D!Nil
             /\ Disabled
             /\ z' = [z EXCEPT !.walk.node = After(z.walk)]

\* The next node is read before the removal.  Both loops go on in the one for reading.
Kept(s, w) == [s EXCEPT !.walk.node = After(w)]
Released(s, w) ==
    DeferRemove([s EXCEPT !.walk = [w EXCEPT !.node = After(w), !.rule = READ]], w.rule, w.node)

WalkAsks == /\ Walking /\ z.walk.node # D!Nil
            /\ ~Disabled
            /\ z.check[z.walk.rule][z.walk.node].cb
            /\ z' = Push(z, Frame("walk", z.walk.rule, z.walk.node, 0))
\* A check enabled without a callback: the answer is that of the one before, or any.
WalkGuesses == /\ Walking /\ z.walk.node # D!Nil
               /\ ~Disabled
               /\ ~z.check[z.walk.rule][z.walk.node].cb
               /\ z' \in {Kept(z, z.walk), Released(z, z.walk)}
WalkReturn == /\ Top(z).at = "walk"
              /\ z' \in {Kept(Pop(z), z.walk), Released(Pop(z), z.walk)}

Next == \/ Client
        \/ KEvent \/ KEventError
        \/ AfterCheck \/ AfterRemove
        \/ CheckReturn \/ EventReturn
        \/ FDDoClose
        \/ BeginCheck \/ WalkEnds \/ WalkSkips
        \/ WalkAsks \/ WalkGuesses \/ WalkReturn
Spec == Init /\ [][Next]_z

-----------------------------------------------------------------------------
\* The lists hold the descriptors that are deferred, each once, as long as no descriptor
\* was closed with its writing deferred, or from within a check that then said yes.
ListsExact ==
    \A d \in Dirs \ z.stray :
        /\ D!IsList(z.links[d], "deferred")
        /\ D!Members(z.links[d], "deferred") = {n \in Fds : z.flag[d][n]}

\* A program that waits for an event will hear of it: the kernel watches, or the event is
\* on its way, or the walk will ask.  A volatile check, or one switched off, never asks.
Listed(d, n) == n \in D!Members(z.links[d], "deferred")
OnItsWay(d, n) == \E i \in DOMAIN z.stack : z.stack[i].d = d /\ z.stack[i].n = n
NotForgotten ==
    \A d \in Dirs, n \in Fds :
        z.wants[d][n] /\ <<d, n>> \notin z.missed =>
          /\ z.ev[d][n].cb /\ z.ev[d][n].enabled
          /\ \/ OnItsWay(d, n) \/ z.failed[d][n]
             \/ ~z.flag[d][n] /\ z.note[d][n].enabled
             \/ z.flag[d][n] /\ (~z.check[d][n].enabled \/ d \in z.stray \/ Listed(d, n))
=============================================================================
