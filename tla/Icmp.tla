-------------------------------- MODULE Icmp --------------------------------
(***************************************************************************)
(* EvICMPBase (comm/core/icmp/comm_icmp_base.c) and a periodic pinger on   *)
(* top of it (comm/utils/comm_icmp_pinger.c).  Requests of both address    *)
(* families are written when their socket allows, matched with replies by  *)
(* the number of their slot, and given up by one timer; callbacks send,    *)
(* cancel, stop and destroy.  The network answers never, often or late.    *)
(***************************************************************************)
LOCAL INSTANCE Integers
LOCAL INSTANCE Sequences
LOCAL INSTANCE SequencesExt
LOCAL INSTANCE FiniteSets

CONSTANTS Slots,        \* bound for ICMP_QUERY_MAX_SEQID: the slots of a family
          Retries,      \* ICMP_BASE_MAX_TX_RETRYCOUNT
          Reset,        \* cfg.reset_count
          MaxSends      \* bound: requests accepted

Fams == {4, 6}          \* pending_v4 and pending_v6
SlotIds == 0 .. Slots - 1
NoSlot == -1
Raw == 0                \* owners of requests: the program, or the pinger
Pinger == 1

(***************************************************************************)
(* The base and its pinger i: base and ping.alive, not destroyed; free, req*)
(* and reply, the slots and lists of a family; r, the requests, where aged *)
(* tells that its timeout may have passed; read and write, the events that *)
(* are armed; timer_id, and armed when the kernel agrees; walk, where the  *)
(* walk of the timer is: its node is the one it saved.  ping: slot is      *)
(* last.icmp_slot_id; timer may be an id deleted before (stale), and       *)
(* dnstimer the 0 that calloc left there.                                  *)
(* History: sent, tickets given; told, how often each was called back for; *)
(* cancelled; swept, those the base freed in the place of another; net, the*)
(* slots a reply may come for; hist; aborted.                              *)
(***************************************************************************)
VARIABLE i

Unused == [in_use |-> FALSE, waiting |-> FALSE, owner |-> Raw, ticket |-> 0, retries |-> 0, aged |-> FALSE]
NoWalk == [fam |-> 0, list |-> "req", node |-> NoSlot, found |-> FALSE]
NoPinger == [alive |-> FALSE, fam |-> 4, slot |-> NoSlot, timer |-> "none", dns |-> FALSE, dnstimer |-> "zero",
             onfail |-> FALSE, stop |-> 0, sent |-> 0, rest |-> "no"]

Mark(x, what) == [x EXCEPT !.hist = @ \cup {what}]
Abort(x, why) == [x EXCEPT !.aborted = IF @ = "no" THEN why ELSE @]

CommEvICMPBaseNew ==
    [base |-> TRUE, free |-> [f \in Fams |-> [s \in 1 .. Slots |-> s - 1]], req |-> [f \in Fams |-> <<>>],
     reply |-> [f \in Fams |-> <<>>], r |-> [f \in Fams |-> [s \in SlotIds |-> Unused]],
     read |-> {}, write |-> {}, timer_id |-> FALSE, armed |-> FALSE, walk |-> NoWalk, ping |-> NoPinger,
     sent |-> 0, told |-> <<>>, cancelled |-> {}, swept |-> {}, net |-> {}, hist |-> {}, aborted |-> "no"]
Init == i = CommEvICMPBaseNew

-----------------------------------------------------------------------------
(* The base. *)

CommEvICMPRequestCancelByReqID(x, f, s) ==
    IF ~x.r[f][s].in_use THEN Abort(x, "assert")
    ELSE [x EXCEPT !.free[f] = <<s>> \o @,
                   !.req[f] = SelectSeq(@, LAMBDA n : n # s), !.reply[f] = SelectSeq(@, LAMBDA n : n # s),
                   !.r[f][s] = Unused]
CommEvICMPRequestCancelByOwnerID(x, f, owner) ==
    FoldLeft(LAMBDA y, s : IF y.r[f][s].owner = owner THEN CommEvICMPRequestCancelByReqID(y, f, s) ELSE y,
             x, x.req[f] \o x.reply[f])

CanSend(x, f) == x.free[f] # <<>> /\ x.sent < MaxSends
CommEvICMPRequestSend(x, f, owner) ==
    LET s == Head(x.free[f])
    IN [x EXCEPT !.free[f] = Tail(@), !.req[f] = Append(@, s),
                 !.r[f][s] = [Unused EXCEPT !.in_use = TRUE, !.owner = owner, !.ticket = x.sent + 1],
                 !.write = @ \cup {f}, !.armed = @ \/ ~x.timer_id, !.timer_id = TRUE,
                 !.sent = @ + 1, !.told = Append(@, 0)]

-----------------------------------------------------------------------------
(* The pinger. *)

EvICMPPeriodicPingerSendRequest(x) ==
    LET n == IF x.ping.sent >= Reset THEN 0 ELSE x.ping.sent
        f == x.ping.fam
    IN IF x.ping.slot # NoSlot THEN x
       ELSE IF ~CanSend(x, f) THEN [x EXCEPT !.ping.sent = n]
       ELSE [CommEvICMPRequestSend(x, f, Pinger) EXCEPT !.ping.slot = Head(x.free[f]), !.ping.sent = n + 1]

\* A timer id that is not the pinger's: no timer has it, or the base's or another has.
DeleteStray(x, whose) ==
    CASE whose = "nobody" -> Mark(Abort(x, "assert"), "stray")
      [] whose = "base" -> Mark([x EXCEPT !.armed = FALSE], "stray")
      [] OTHER -> x
\* Slip: what the pinger has sent stays with the base.
DestroyKeepsRequests(x, whose) == [x EXCEPT !.ping = [NoPinger EXCEPT !.rest = "gone"]]
CommEvICMPPeriodicPingerDestroy(x, whose) ==
    LET f == x.ping.fam
        Ping(y) == IF x.ping.slot = NoSlot THEN y ELSE CommEvICMPRequestCancelByReqID(y, f, x.ping.slot)
        Timers(y) == IF x.ping.timer = "stale" \/ x.ping.dnstimer = "zero" THEN DeleteStray(y, whose) ELSE y
        all == {x.r[f][s].ticket : s \in {t \in SlotIds : x.r[f][t].owner = Pinger}}
    IN [CommEvICMPRequestCancelByOwnerID(Timers(Ping(x)), f, Pinger) EXCEPT
          !.ping = [NoPinger EXCEPT !.rest = "gone"], !.cancelled = @ \cup {t \in all : x.told[t] = 0}]

Schedule(x) == IF x.ping.timer = "none" THEN [x EXCEPT !.ping.timer = "set", !.ping.rest = "no"] ELSE x
CommEvICMPPeriodicPingerRun(x, only_sched) ==
    Schedule(IF x.ping.timer = "none" /\ ~only_sched THEN EvICMPPeriodicPingerSendRequest(x) ELSE x)
\* The id of the timer is kept.
CommEvICMPPeriodicPingerStop(x) ==
    IF x.ping.timer = "set" THEN [x EXCEPT !.ping.timer = "stale", !.ping.rest = "asked"] ELSE x

-----------------------------------------------------------------------------
(* What a callback does; at is the request it is called for, if any.       *)

Whose == {"nobody", "base", "other"}
Acts(x) ==
    {<<"none">>, <<"send", 4>>}
    \cup {<<"cancel", c[1], c[2]>> : c \in {d \in Fams \X SlotIds : x.r[d[1]][d[2]].in_use /\ x.r[d[1]][d[2]].owner = Raw}}
    \cup (IF x.ping.alive THEN {<<"destroy", w>> : w \in Whose} \cup {<<"run">>, <<"stop">>} ELSE {})
Cancel(x, f, s) ==
    LET t == x.r[f][s].ticket
    IN [CommEvICMPRequestCancelByReqID(x, f, s) EXCEPT !.cancelled = IF x.told[t] = 0 THEN @ \cup {t} ELSE @]
Act(x, a) ==
    CASE a[1] = "send" /\ CanSend(x, a[2]) -> CommEvICMPRequestSend(x, a[2], Raw)
      [] a[1] = "cancel" -> Cancel(x, a[2], a[3])
      [] a[1] = "destroy" -> CommEvICMPPeriodicPingerDestroy(x, a[2])
      [] a[1] = "run" -> CommEvICMPPeriodicPingerRun(x, FALSE)
      [] a[1] = "stop" -> CommEvICMPPeriodicPingerStop(x)
      [] OTHER -> x

\* what: reply, stranger (from an unexpected address), timeout, failed.
\* Slip: the slot is forgotten with the reply only.
PingerCBKeepsSlot(x, what, a) ==
    IF what = "reply" THEN Act([x EXCEPT !.ping.slot = NoSlot], a) ELSE Act(x, a)
\* What a failure is recorded in may be gone.
AfterEvent(x, what, a) ==
    IF what # "reply" /\ a[1] = "destroy" THEN Mark(Abort(x, "freed"), "in callback") ELSE x
EvICMPPeriodicPingerCB(x, what, a) ==
    IF what = "stranger" THEN [x EXCEPT !.ping.slot = NoSlot]
    ELSE AfterEvent(Act([x EXCEPT !.ping.slot = NoSlot], a), what, a)
Call(x, f, s, what, a) ==
    CASE x.r[f][s].owner = Raw -> Act([x EXCEPT !.told[x.r[f][s].ticket] = @ + 1], a)
      [] x.r[f][s].owner = Pinger /\ ~x.ping.alive -> Abort(x, "freed")
      [] OTHER -> EvICMPPeriodicPingerCB([x EXCEPT !.told[x.r[f][s].ticket] = @ + 1], what, a)

(***************************************************************************)
(* The request is freed after its callback, by the slot number found in it *)
(* then: 0 when the callback freed it, if its memory is still there; or    *)
(* that of a request which the callback sent in its place.                 *)
(***************************************************************************)
Sweep(x, f, s) ==
    [CommEvICMPRequestCancelByReqID(x, f, s) EXCEPT !.swept = IF x.told[x.r[f][s].ticket] = 0
                                                             THEN @ \cup {x.r[f][s].ticket} ELSE @]
\* Slip: only a reply frees the request.
SweepReplied(x, f, s, what) == IF what = "reply" /\ x.r[f][s].in_use THEN Sweep(x, f, s) ELSE x
CallAndFreeReplied(x, f, s, what, a) == SweepReplied(Call(x, f, s, what, a), f, s, what)
MarkOwn(x, f, s, ticket) == IF x.r[f][s].ticket # ticket THEN Mark(x, "own") ELSE x
FreeAfter(x, f, s) ==
    IF x.aborted # "no" THEN x
    ELSE IF x.r[f][s].in_use THEN Sweep(x, f, s)
    ELSE IF x.r[f][0].in_use THEN Sweep(x, f, 0)
    ELSE Abort(x, IF \E o \in SlotIds : x.r[f][o].in_use THEN "assert" ELSE "freed")
CallAndFree(x, f, s, what, a) ==
    FreeAfter(MarkOwn(Call(x, f, s, what, a), f, s, x.r[f][s].ticket), f, s)

-----------------------------------------------------------------------------
(* Events of the loop. *)

\* A behaviour is not followed once a request or a timer was freed for another.
Running == i.base /\ i.aborted = "no" /\ i.swept = {} /\ "stray" \notin i.hist
Idle == Running /\ i.walk = NoWalk

\* to_read: a packet for a slot, or one that is not a reply to this process.
CommEvICMPBaseEventRead ==
    \E f \in i.read :
      \/ \E c \in i.net, what \in {"reply", "stranger"} :
           /\ c[1] = f /\ i.r[f][c[2]].in_use
           /\ \E a \in Acts(i) : i' = CallAndFree(i, f, c[2], what, a)
      \/ i' = i         \* read and dropped; the event is armed again

\* Slip: the request is not marked.
MoveSentUnmarked(x, f, n) ==
    [x EXCEPT !.req[f] = SubSeq(@, n + 1, Len(@)), !.reply[f] = @ \o SubSeq(x.req[f], 1, n)]
MoveSent(x, f, n) ==
    LET gone == SubSeq(x.req[f], 1, n)
        Sent(s) == \E k \in 1 .. n : gone[k] = s
    IN [x EXCEPT !.req[f] = SubSeq(@, n + 1, Len(@)), !.reply[f] = @ \o gone,
                 !.net = @ \cup {<<f, gone[k]>> : k \in 1 .. n},
                 !.r[f] = [s \in SlotIds |-> IF Sent(s) THEN [@[s] EXCEPT !.waiting = TRUE] ELSE @[s]]]
Rearm(x, f) == [x EXCEPT !.read = @ \cup {f}, !.write = @ \cup {f}]
WriteFails(x, f, a) ==
    LET s == Head(x.req[f])
        popped == [x EXCEPT !.req[f] = Tail(@)]
    IN IF x.r[f][s].retries > Retries THEN Rearm(CallAndFree(popped, f, s, "failed", a), f)
       ELSE Rearm([x EXCEPT !.r[f][s].retries = @ + 1], f)
CommEvICMPBaseEventWrite ==
    \E f \in i.write : \E n \in 0 .. Len(i.req[f]) :
      LET x == MoveSent([i EXCEPT !.write = @ \ {f}], f, n)
      IN IF n = Len(i.req[f]) THEN i' = [x EXCEPT !.read = @ \cup {f}]
         ELSE \/ i' = Rearm(x, f)       \* the socket is full
              \/ \E a \in Acts(x) : i' = WriteFails(x, f, a)

(***************************************************************************)
(* The walk of the timer: over both lists of pending_v4, then pending_v6.  *)
(***************************************************************************)
First(x, f, list) ==
    LET l == IF list = "req" THEN x.req[f] ELSE x.reply[f] IN IF l = <<>> THEN NoSlot ELSE Head(l)
After(x, f, s) ==
    LET In(l) == \E k \in 1 .. Len(l) : l[k] = s
        Next(l) == LET k == CHOOSE k \in 1 .. Len(l) : l[k] = s IN IF k = Len(l) THEN NoSlot ELSE l[k + 1]
    IN IF In(x.req[f]) THEN Next(x.req[f]) ELSE IF In(x.reply[f]) THEN Next(x.reply[f]) ELSE NoSlot

\* Slip: the id of the timer that has fired is kept.
EndWalkKeepsId(x, found) == [x EXCEPT !.walk = NoWalk, !.armed = found]
EndWalk(x, found) ==
    [x EXCEPT !.walk = NoWalk, !.timer_id = found, !.armed = found]
CheckPending(x, f, found) ==
    [x EXCEPT !.walk = [fam |-> f, list |-> "req", node |-> First(x, f, "req"),
                        found |-> found \/ x.req[f] # <<>> \/ x.reply[f] # <<>>]]
CommEvICMPBaseTimeoutTimer ==
    /\ i.armed
    /\ i' = CheckPending([i EXCEPT !.armed = FALSE,
                                   !.r = [f \in Fams |-> [s \in SlotIds |-> [@[f][s] EXCEPT !.aged = @ \/ i.r[f][s].in_use]]]],
                         4, FALSE)
Visit(x, expired, a) ==
    LET f == x.walk.fam
        s == x.walk.node
        y == [x EXCEPT !.walk.node = After(x, f, s),
                       !.hist = IF expired /\ a[1] \in {"cancel", "destroy"} THEN @ \cup {"in walk"} ELSE @]
    IN IF ~x.r[f][s].in_use THEN Abort(x, "freed")
       ELSE IF expired /\ x.r[f][s].aged THEN CallAndFree(y, f, s, "timeout", a)
       ELSE y
CommEvICMPBaseTimeoutCheckPending ==
    /\ Running /\ i.walk # NoWalk
    /\ LET w == i.walk
       IN IF w.node # NoSlot THEN \E expired \in BOOLEAN : \E a \in Acts(i) : i' = Visit(i, expired, a)
          ELSE i' = IF w.list = "req" THEN [i EXCEPT !.walk.list = "reply", !.walk.node = First(i, w.fam, "reply")]
                    ELSE IF w.fam = 4 THEN CheckPending(i, 6, w.found)
                    ELSE EndWalk(i, w.found)

EvICMPPeriodicPingerTimer ==
    /\ i.ping.alive /\ i.ping.timer = "set"
    /\ LET x == [i EXCEPT !.ping.timer = "none"]
       IN IF x.ping.stop > 0 /\ x.ping.sent >= x.ping.stop
          THEN \E a \in Acts(x) : i' = Act([x EXCEPT !.ping.rest = "count"], a)
          ELSE i' = Schedule(EvICMPPeriodicPingerSendRequest(x))

\* The handler goes on with a pinger that the callback destroyed.
EvICMPPeriodicPingerResolverCB ==
    /\ i.ping.alive /\ i.ping.dns
    /\ \E resolved \in BOOLEAN, a \in {<<"none">>, <<"destroy", "other">>} :
         LET y == [i EXCEPT !.ping.dns = FALSE]
         IN i' = IF a[1] = "destroy" THEN Mark(Abort(Act(i, a), "freed"), "in callback")
                 ELSE IF resolved THEN Schedule([y EXCEPT !.ping.fam = 4])
                 ELSE IF y.ping.onfail THEN [y EXCEPT !.ping.dnstimer = "set"]
                 ELSE [y EXCEPT !.ping.rest = "unresolved"]
\* A lookup that is refused is not tried again.
EvICMPPeriodicPingerResolverTimer ==
    /\ i.ping.alive /\ i.ping.dnstimer = "set"
    /\ LET x == [i EXCEPT !.ping.dnstimer = "none"]
       IN \/ i' = [x EXCEPT !.ping.dns = TRUE]
          \/ i' = [x EXCEPT !.ping.rest = "unresolved"]
          \/ i' = Mark(Abort(CommEvICMPPeriodicPingerDestroy(x, "other"), "freed"), "in callback")

-----------------------------------------------------------------------------
(* Calls of the program. *)

Send == \E f \in Fams : CanSend(i, f) /\ i' = CommEvICMPRequestSend(i, f, Raw)
CancelByReqID == \E f \in Fams, s \in SlotIds : i.r[f][s].in_use /\ i.r[f][s].owner = Raw /\ i' = Cancel(i, f, s)

\* With an address, or a name to resolve; without either, or when the lookup
\* is refused, New destroys what it has made.
CommEvICMPPeriodicPingerNew ==
    /\ i.ping = NoPinger         \* bound: one pinger
    /\ \E f \in Fams, stop \in {0, 1}, onfail \in BOOLEAN :
         LET x == [i EXCEPT !.ping = [NoPinger EXCEPT !.alive = TRUE, !.fam = f, !.stop = stop, !.onfail = onfail]]
         IN \/ ~onfail /\ i' = EvICMPPeriodicPingerSendRequest([x EXCEPT !.ping.timer = "set"])
            \/ f = 4 /\ i' = [x EXCEPT !.ping.dns = TRUE]
            \/ f = 4 /\ ~onfail /\ stop = 0 /\ \E w \in Whose : i' = CommEvICMPPeriodicPingerDestroy(x, w)
PingerCalls ==
    /\ i.ping.alive
    /\ \/ \E w \in Whose : i' = CommEvICMPPeriodicPingerDestroy(i, w)
       \/ \E only_sched \in BOOLEAN : ~i.ping.dns /\ i' = CommEvICMPPeriodicPingerRun(i, only_sched)
       \/ i' = CommEvICMPPeriodicPingerStop(i)

\* Requests that wait are not told.
CommEvICMPBaseDestroy == ~i.ping.alive /\ i' = [CommEvICMPBaseNew EXCEPT !.base = FALSE]

Next ==
    \/ Idle /\ \/ CommEvICMPBaseEventRead \/ CommEvICMPBaseEventWrite \/ CommEvICMPBaseTimeoutTimer
               \/ EvICMPPeriodicPingerTimer \/ EvICMPPeriodicPingerResolverCB \/ EvICMPPeriodicPingerResolverTimer
               \/ Send \/ CancelByReqID \/ CommEvICMPPeriodicPingerNew \/ PingerCalls \/ CommEvICMPBaseDestroy
    \/ CommEvICMPBaseTimeoutCheckPending

-----------------------------------------------------------------------------
(* Properties. *)

Well == i.base /\ i.aborted = "no"
InUse(f) == {s \in SlotIds : i.r[f][s].in_use}
Listed(l) == {l[k] : k \in 1 .. Len(l)}

(***************************************************************************)
(* Every slot of a family is free or its request is on exactly the list    *)
(* that its flag names, once.                                              *)
(***************************************************************************)
SlotsExact ==
    Well => \A f \in Fams :
      /\ IsInjective(i.free[f]) /\ Listed(i.free[f]) = SlotIds \ InUse(f)
      /\ IsInjective(i.req[f]) /\ Listed(i.req[f]) = {s \in InUse(f) : ~i.r[f][s].waiting}
      /\ IsInjective(i.reply[f]) /\ Listed(i.reply[f]) = {s \in InUse(f) : i.r[f][s].waiting}

(***************************************************************************)
(* A request that is accepted is called back for exactly once, unless it   *)
(* was cancelled; one that the base frees in the place of another is lost, *)
(* which takes a callback that cancelled the request it was called for.    *)
(***************************************************************************)
ToldOnce ==
    Well =>
      LET pending == {i.r[f][s].ticket : f \in Fams, s \in SlotIds} \ {0}
      IN /\ \A t \in 1 .. i.sent : i.told[t] = IF t \in pending \cup i.cancelled \cup i.swept THEN 0 ELSE 1
         /\ i.swept # {} => "own" \in i.hist

(***************************************************************************)
(* A request that waits is watched: for the socket, for a reply and by the *)
(* timer that gives it up, unless someone deleted that timer by an id that *)
(* was not its own.                                                        *)
(***************************************************************************)
Watched ==
    Well => /\ \A f \in Fams : (i.req[f] # <<>> => f \in i.write) /\ (i.reply[f] # <<>> => f \in i.read)
            /\ (\E f \in Fams : InUse(f) # {}) => i.armed \/ i.walk # NoWalk \/ "stray" \in i.hist

(***************************************************************************)
(* A pinger has at most one request under way, and knows its slot, so that *)
(* destroying it cancels nobody else's; it goes on pinging or looking for  *)
(* the address until its count is reached, it is stopped or the name       *)
(* cannot be resolved.                                                     *)
(***************************************************************************)
PingerKnowsItsOwn ==
    Well =>
      LET mine == {c \in Fams \X SlotIds : i.r[c[1]][c[2]].owner = Pinger}
      IN /\ i.swept = {} => mine = IF i.ping.slot = NoSlot THEN {} ELSE {<<i.ping.fam, i.ping.slot>>}
         /\ i.ping.alive => i.ping.timer = "set" \/ i.ping.dns \/ i.ping.dnstimer = "set" \/ i.ping.rest # "no"

(***************************************************************************)
(* An assertion fails, and freed memory is used, only after a callback     *)
(* freed what its caller goes on with, or a pinger deleted a timer that    *)
(* was not its own.                                                        *)
(***************************************************************************)
FaultsHaveCause ==
    /\ i.aborted = "freed" => i.hist \cap {"own", "in callback", "in walk"} # {}
    /\ i.aborted = "assert" => i.hist \cap {"own", "stray", "in walk"} # {}
=============================================================================
