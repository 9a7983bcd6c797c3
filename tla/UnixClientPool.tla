--------------------------- MODULE UnixClientPool ---------------------------
(***************************************************************************)
(* The pool of UNIX clients (comm/core/unix/comm_unix_client_pool.c) and   *)
(* how it selects the client that is to write.  It has neither Disconnect  *)
(* nor Reconnect, and its load is what a client has to write, to be        *)
(* acknowledged and to acknowledge.                                        *)
(***************************************************************************)
EXTENDS Integers

CONSTANTS PoolMax,      \* COMM_UNIX_CLIENT_POOL_MAX, reduced
          MaxWrites     \* bound: writes

Methods == {"round_robin", "least_load"}
Wants == {"connected", "any"}

(***************************************************************************)
(* The pool p: count_init, cli_count_max and rr_current, and of each       *)
(* client whether it is made, connected, has its events, and its load.     *)
(* History: missed, who was connected when a selection among the connected *)
(* gave none; last, the client written to, the method, the loads and who   *)
(* was connected; raw, a slot without a client was used, and destroyed.    *)
(***************************************************************************)
VARIABLE p

Slots == 0 .. PoolMax - 1
Members(x) == 0 .. x.count - 1
None == -1

\* failed: the client whose socket cannot be made, the last one tried.
CommEvUNIXClientPoolNew(count, max, failed) ==
    [count |-> IF failed < count THEN failed ELSE count, max |-> IF max > PoolMax THEN PoolMax ELSE max,
     rr |-> 0, asked |-> {}, on |-> {}, events |-> {}, load |-> [i \in Slots |-> 0], writes |-> 0, missed |-> {},
     last |-> [to |-> None, method |-> "none", load |-> <<>>, on |-> {}], raw |-> FALSE, destroyed |-> FALSE]
Init == \E count, max, failed \in 1 .. PoolMax + 1 : count <= PoolMax /\ p = CommEvUNIXClientPoolNew(count, max, failed - 1)

PoolConnect(x) == [x EXCEPT !.asked = Members(x)]
PoolEventSet(x) == [x EXCEPT !.events = Members(x)]
PoolEventCancel(x) == [x EXCEPT !.events = {}]
PoolHasConnected(x) == x.on \cap Members(x) # {}
\* CommEvUNIXClientClean of each; the pool itself stays registered and is not freed.
PoolDestroy(x) == [x EXCEPT !.asked = {}, !.on = {}, !.events = {}, !.load = [i \in Slots |-> 0], !.destroyed = TRUE]

Sel(to, rr) == [to |-> to, rr |-> rr]
Fits(x, i, want) == want = "any" \/ i \in x.on

\* The client selected among the first i.
Selected(x, want) ==
    LET best[i \in 0 .. x.count] ==
            IF i = 0 THEN None
            ELSE IF Fits(x, i - 1, want) /\ (best[i - 1] = None \/ x.load[i - 1] < x.load[best[i - 1]]) THEN i - 1
            ELSE best[i - 1]
    IN best
SelectLeastLoadAny(x, want) == Sel(Selected(x, "any")[x.count], x.rr)
SelectLeastLoad(x, want) == Sel(Selected(x, want)[x.count], x.rr)

\* As many tries as there are clients, but modulo cli_count_max.
SelectRoundRobin(x, want) ==
    LET Try(k) == (x.rr + k) % x.max
        hits == {k \in Members(x) : Fits(x, Try(k), want)}
        first == CHOOSE k \in hits : \A j \in hits : k <= j
    IN IF hits = {} THEN Sel(None, (x.rr + x.count) % x.max) ELSE Sel(Try(first), (Try(first) + 1) % x.max)

ClientSelect(x, method, want) ==
    IF method = "round_robin" THEN SelectRoundRobin(x, want) ELSE SelectLeastLoad(x, want)

\* First among the connected clients, then among all.
PoolAIOWrite(x, method) ==
    LET one == ClientSelect(x, method, "connected")
        two == IF one.to # None THEN one ELSE ClientSelect([x EXCEPT !.rr = one.rr], method, "any")
        y == [x EXCEPT !.rr = two.rr, !.writes = @ + 1, !.missed = IF one.to = None THEN x.on ELSE {},
                       !.last = [to |-> two.to, method |-> method, load |-> x.load, on |-> x.on]]
    IN IF two.to = None THEN y
       ELSE IF two.to \notin Members(x) THEN [y EXCEPT !.raw = TRUE]
       ELSE [y EXCEPT !.load[two.to] = @ + 1]

Write == p.writes < MaxWrites /\ \E m \in Methods : p' = PoolAIOWrite(p, m)
Call == p' \in {PoolConnect(p), PoolEventSet(p), PoolEventCancel(p), PoolDestroy(p)}
\* What the clients do.  A client that ends loses what it had to write.
Connected == \E i \in p.asked \ p.on : p' = [p EXCEPT !.on = @ \cup {i}]
Lost == \E i \in p.on : p' = [p EXCEPT !.on = @ \ {i}, !.load[i] = 0]
Done == \E i \in p.on : p.load[i] > 0 /\ p' = [p EXCEPT !.load[i] = @ - 1]
Asks == p.writes < MaxWrites /\ \E i \in p.on : p' = [p EXCEPT !.load[i] = @ + 1, !.writes = @ + 1]

Next == ~p.raw /\ ~p.destroyed /\ (Write \/ Call \/ Connected \/ Lost \/ Done \/ Asks)

-----------------------------------------------------------------------------
(***************************************************************************)
(* What is written goes to a connected client while there is one, in turns *)
(* only if the pool is as big as cli_count_max says; with the least load,  *)
(* none of those that might have been selected has less.                   *)
(***************************************************************************)
SelectsConnected ==
    LET to == p.last.to
        others == IF p.last.on = {} THEN Members(p) ELSE p.last.on
    IN /\ p.missed # {} => p.last.method = "round_robin" /\ p.count # p.max
       /\ p.raw => p.last.method = "round_robin" /\ p.count < p.max
       /\ p.last.on # {} /\ p.missed = {} => to \in p.last.on
       /\ p.last.method = "least_load" /\ p.count > 0 => to # None /\ \A i \in others : p.last.load[i] >= p.last.load[to]
=============================================================================
