----------------------------- MODULE TcpClientPool --------------------------
(***************************************************************************)
(* The pool of TCP clients (comm/core/tcp/comm_tcp_client_pool.c): the     *)
(* clients it makes, what it passes on to each of them, and how it selects *)
(* the one that is to write.  A client is known here by its state and by   *)
(* the statistics of its write queue; its life is the subject of TcpClient.*)
(***************************************************************************)
EXTENDS Integers

CONSTANTS PoolMax,      \* COMM_TCP_CLIENT_POOL_MAX, reduced
          Sizes,        \* bytes of a write
          MaxWrites     \* bound: writes

Methods == {"round_robin", "least_load"}
\* COMM_CLIENT_STATE_CONNECTED; the other codes, COMM_POOL_SELECT_CONNECTED
\* among them, select any client.
Wants == {"connected", "any"}

(***************************************************************************)
(* The pool p: count_init and cli_count_max; rr_current; and of each       *)
(* client whether it is connected (on), asked to connect, has the events   *)
(* set, and queue_sz and total_sz of its queue.  History: missed, who was  *)
(* connected when a selection among the connected gave none; last, the     *)
(* client written to, its method, and the queues at that moment; raw, set  *)
(* when a slot without a client was used.                                  *)
(***************************************************************************)
VARIABLE p

Slots == 0 .. PoolMax - 1
Members(x) == 0 .. x.count - 1
None == -1

CommEvTCPClientPoolNew(count, max) ==
    [count |-> count, max |-> IF max > PoolMax THEN PoolMax ELSE max, rr |-> 0,
     on |-> [i \in Slots |-> FALSE], asked |-> [i \in Slots |-> FALSE], events |-> [i \in Slots |-> FALSE],
     queue |-> [i \in Slots |-> 0], total |-> [i \in Slots |-> 0], writes |-> 0, missed |-> {},
     last |-> [to |-> None, method |-> "none", queue |-> <<>>, total |-> <<>>, on |-> {}], raw |-> FALSE]
Init == \E count \in 1 .. PoolMax, max \in 1 .. PoolMax + 1 : p = CommEvTCPClientPoolNew(count, max)

\* The queue of a client is emptied when it is disconnected.
Off(x, S) == [x EXCEPT !.on = [i \in Slots |-> x.on[i] /\ i \notin S],
                       !.queue = [i \in Slots |-> IF i \in S THEN 0 ELSE x.queue[i]]]
PoolConnect(x) == [x EXCEPT !.asked = [i \in Slots |-> i \in Members(x)]]
PoolDisconnect(x) == [Off(x, Members(x)) EXCEPT !.asked = [i \in Slots |-> FALSE]]
PoolReconnect(x) == [Off(x, Members(x)) EXCEPT !.asked = [i \in Slots |-> i \in Members(x)]]
PoolEventSet(x) == [x EXCEPT !.events = [i \in Slots |-> i \in Members(x)]]
PoolEventCancel(x) == [x EXCEPT !.events = [i \in Slots |-> FALSE]]
PoolHasConnected(x) == \E i \in Members(x) : x.on[i]

\* A selection gives the client, None, and rr_current.
Sel(to, rr) == [to |-> to, rr |-> rr]

\* The client selected among the first i.  A smaller queue wins over the client
\* selected so far, and so does a smaller total, whatever the queues are.
Selected(x, want) ==
    LET Fits(i) == want = "any" \/ x.on[i]
        Better(i, s) == s = None \/ x.queue[i] < x.queue[s] \/ x.total[i] < x.total[s]
        best[i \in 0 .. x.count] ==
            IF i = 0 THEN None
            ELSE IF Fits(i - 1) /\ Better(i - 1, best[i - 1]) THEN i - 1 ELSE best[i - 1]
    IN best
SelectLeastLoadAny(x, want) == Sel(Selected(x, "any")[x.count], x.rr)
SelectLeastLoad(x, want) == Sel(Selected(x, want)[x.count], x.rr)

\* As many tries as there are clients, but modulo cli_count_max.
SelectRoundRobin(x, want) ==
    LET Try(k) == (x.rr + k) % x.max
        Fits(k) == want = "any" \/ x.on[Try(k)]
        hits == {k \in 0 .. x.count - 1 : Fits(k)}
        first == CHOOSE k \in hits : \A j \in hits : k <= j
    IN IF hits = {} THEN Sel(None, (x.rr + x.count) % x.max) ELSE Sel(Try(first), (Try(first) + 1) % x.max)

ClientSelect(x, method, want) ==
    IF method = "round_robin" THEN SelectRoundRobin(x, want) ELSE SelectLeastLoad(x, want)

\* First among the connected clients, then among all.  What happens with a
\* slot without a client ends in an assertion on its queue.
PoolAIOWrite(x, method, size) ==
    LET one == ClientSelect(x, method, "connected")
        two == IF one.to # None THEN one ELSE ClientSelect([x EXCEPT !.rr = one.rr], method, "any")
        y == [x EXCEPT !.rr = two.rr, !.writes = @ + 1,
                       !.missed = IF one.to = None THEN {i \in Members(x) : x.on[i]} ELSE {},
                       !.last = [to |-> two.to, method |-> method, queue |-> x.queue, total |-> x.total,
                                 on |-> {i \in Members(x) : x.on[i]}]]
    IN IF two.to \notin Members(x) THEN [y EXCEPT !.raw = TRUE]
       ELSE [y EXCEPT !.queue[two.to] = @ + size, !.total[two.to] = @ + size]

\* What the clients do.
Connected == \E i \in Members(p) : p.asked[i] /\ ~p.on[i] /\ p' = [p EXCEPT !.on[i] = TRUE]
Lost == \E i \in Members(p) : p.on[i] /\ p' = Off(p, {i})
Written == \E i \in Members(p) : p.on[i] /\ p.queue[i] > 0 /\ p' = [p EXCEPT !.queue[i] = 0]

Write == p.writes < MaxWrites /\ \E m \in Methods, size \in Sizes : p' = PoolAIOWrite(p, m, size)
Call == \/ p' = PoolConnect(p) \/ p' = PoolDisconnect(p) \/ p' = PoolReconnect(p)
        \/ p' = PoolEventSet(p) \/ p' = PoolEventCancel(p)

Next == ~p.raw /\ (Write \/ Call \/ Connected \/ Lost \/ Written)

-----------------------------------------------------------------------------
(***************************************************************************)
(* What is written to the pool goes to a connected client while there is   *)
(* one: always with the least load, and in turns while the pool is as big  *)
(* as cli_count_max says; a greater cli_count_max makes the turns come to  *)
(* slots without a client.  The client with the least load is beaten by no *)
(* client that comes later, in both queue and total; an earlier one may    *)
(* beat it, as may any in the queue alone.                                 *)
(***************************************************************************)
SelectsConnected ==
    /\ p.missed # {} => p.last.method = "round_robin" /\ p.count # p.max
    /\ p.raw => p.last.method = "round_robin" /\ p.count < p.max
    /\ p.last.on # {} /\ p.missed = {} => p.last.to \in p.last.on
    /\ p.last.method = "least_load" /\ p.last.to # None =>
            \A i \in (IF p.last.on = {} THEN Members(p) ELSE p.last.on) :
                i > p.last.to => p.last.queue[i] >= p.last.queue[p.last.to] /\ p.last.total[i] >= p.last.total[p.last.to]
=============================================================================
