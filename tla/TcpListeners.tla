----------------------------- MODULE TcpListeners ---------------------------
(***************************************************************************)
(* The TCP server as the owner of its listeners                            *)
(* (comm/core/tcp/comm_tcp_server.c): their slots and sockets, what is     *)
(* configured per slot, the connections of each, the cache of certificates *)
(* and the references that keep the server alive.  What happens on one     *)
(* connection is the subject of TcpServer.                                 *)
(***************************************************************************)
EXTENDS Integers, Sequences, SequencesExt, FiniteSets

CONSTANTS MaxListeners, \* COMM_TCP_SERVER_MAX_LISTERNERS, reduced
          Confs,        \* listeners to be added, see ListenerAdd
          Names,        \* names in the handshakes: sequences of labels
          LabelSize,    \* the letters of each label
          MaxAdds,      \* bound: listeners added
          Fds,          \* bound: the descriptors of connections
          MaxCerts,     \* bound: certificates made
          MaxRefs       \* bound: references

Slots == 0 .. MaxListeners - 1

Unused == [active |-> FALSE, id |-> 0, sock |-> -1, listens |-> FALSE, unix |-> FALSE, ctx |-> FALSE,
           file |-> 0, failed |-> FALSE]
NoConn == [lid |-> 0, owner |-> 0, name |-> <<>>, cert |-> 0, st |-> "none"]

(***************************************************************************)
(* The server n:                                                           *)
(*   free      listener.slot, the last is the next one given               *)
(*   list lst  listener.list and listener.arr; id numbers the additions,   *)
(*             file is the one whose certificate file was loaded           *)
(*   cb path   the addition that set the handlers and the file of a slot   *)
(*   conns     conn.list by descriptor: the slot and id of its listener,   *)
(*             the name asked for and the certificate it points to, while  *)
(*             they are used, and st, how far it is ("none": no connection)*)
(*   cache     cert_cache by name; key is main_key                         *)
(*   refs gone ref_count; freed                                            *)
(* and history: open, the sockets; live, the certificates not freed; hist, *)
(* the unusual things that happened; aborted, why the process ended.       *)
(***************************************************************************)
VARIABLE n

Init ==
    n = [free |-> Reverse([i \in 1 .. MaxListeners |-> i - 1]), list |-> {}, lst |-> [l \in Slots |-> Unused],
         cb |-> [l \in Slots |-> 0], path |-> [l \in Slots |-> 0], conns |-> [i \in Fds |-> NoConn], cache |-> <<>>, key |-> FALSE,
         refs |-> 0, gone |-> FALSE, adds |-> 0, certs |-> 0, open |-> {}, live |-> {}, hist |-> {}, aborted |-> "no"]

Abort(s, why) == [s EXCEPT !.aborted = why]
Note(s, what) == [s EXCEPT !.hist = @ \cup {what}]
\* SlotQueueFree writes behind its arena when all slots are free.
SlotQueueFree(s, l) ==
    IF Len(s.free) = MaxListeners THEN Abort(s, "overrun")
    ELSE IF l \in ToSet(s.free) THEN Note([s EXCEPT !.free = Append(@, l)], "freed_twice")
    ELSE [s EXCEPT !.free = Append(@, l)]

-----------------------------------------------------------------------------
(* Listeners. *)

\* CommEvTCPServerListenInet and ...ListenUnix: bind and listen, or not.
ListenInet(s, l, c) == IF c.fails = "bind" THEN s ELSE [s EXCEPT !.lst[l].listens = TRUE]

\* Each failure gives the slot back, and leaves the socket as it is.
TCPInit(s, l, c) ==
    LET failed(t) == SlotQueueFree(Note([t EXCEPT !.lst[l].failed = TRUE], "failed"), l)
        made == [s EXCEPT !.lst[l].sock = s.adds, !.open = @ \cup {s.adds}]
        heard == ListenInet(made, l, c)
        keyed == [heard EXCEPT !.key = TRUE, !.path[l] = IF c.path THEN s.adds ELSE @, !.lst[l].ctx = TRUE]
    IN CASE c.fails = "socket"                     -> failed(s)
         [] c.fails = "bind"                       -> failed(heard)
         [] c.kind = "plain" /\ c.fails = "no"     -> heard
         [] c.kind = "ssl" /\ c.fails = "no"       -> [keyed EXCEPT !.lst[l].file = keyed.path[l]]
         [] c.fails = "cert" -> IF keyed.path[l] = 0 THEN keyed ELSE failed(keyed)

\* c gives the kind ("plain", "ssl" or "unix"), where the system lets it down
\* (fails), and whether the program gives handlers (cb) and a certificate file
\* (path).  What TCPInit returns is not looked at.  The socket of a listener that has
\* none is 0 from memset, and the handlers of the slot are those of its last
\* listener where the new one gives none.
ListenerAdd(s, c) ==
    LET l == Last(s.free)
        id == s.adds + 1
        got == [s EXCEPT !.free = Front(@), !.adds = id]
        set == [got EXCEPT !.lst[l] = [Unused EXCEPT !.sock = 0, !.id = id], !.cb[l] = IF c.cb THEN id ELSE @]
        up == IF c.kind = "unix" THEN [set EXCEPT !.lst[l].unix = c.fails = "no"]
              ELSE TCPInit([set EXCEPT !.lst[l].sock = -1], l, c)
    IN IF s.free = <<>> THEN s
       ELSE IF s.lst[l].active THEN Abort(got, "slot_in_use")
       ELSE [up EXCEPT !.list = @ \cup {l}, !.lst[l].active = TRUE]

\* The walk keeps the next node while it shuts one connection down; a write
\* told -1 there may make the program close that next one, whose node then
\* leads nowhere and ends the walk.  cut: the connections that are closed in
\* such a walk, {} when it comes to its end.
Alive(s) == {i \in Fds : s.conns[i].st \notin {"none", "transfer"}}
Mine(s, l) == {i \in Alive(s) : l < 0 \/ s.conns[i].lid = l}
Cuts(s, l) == {{}} \cup {S \in SUBSET Alive(s) : S \cap Mine(s, l) # {} /\ \E j \in S : S \ {j} # {} /\ S \ {j} \subseteq Mine(s, l)}
Without(s, S) == [s EXCEPT !.conns = [i \in Fds |-> IF i \in S THEN NoConn ELSE s.conns[i]]]
ConnShutdownAll(s, l, cut) ==
    IF cut = {} THEN Without(s, Mine(s, l)) ELSE Note(Without(s, cut), "cut")

\* DoDestroy_SSLCleanup.
SSLCleanup(s, l) == [s EXCEPT !.lst[l].ctx = FALSE, !.lst[l].file = 0]
SocketClose(s, l) ==
    LET t == [s EXCEPT !.lst[l].sock = -1, !.lst[l].active = FALSE, !.open = @ \ {s.lst[l].sock}]
    IN IF s.lst[l].sock = 0 THEN Note(t, "closed_0") ELSE t

ListenerDelKeepsConns(s, l, cut) ==
    SocketClose(SSLCleanup(SlotQueueFree([s EXCEPT !.list = @ \ {l}], l), l), l)
ListenerDel(s, l, cut) ==
    LET off == SlotQueueFree([s EXCEPT !.list = @ \ {l}, !.lst[l].unix = FALSE], l)
    IN IF ~s.lst[l].active THEN Abort(s, "inactive")
       ELSE IF ~s.lst[l].listens THEN Abort(s, "not_listening")       \* or no such descriptor
       ELSE SocketClose(SSLCleanup(ConnShutdownAll(off, l, cut), l), l)

-----------------------------------------------------------------------------
(* The life of the server. *)

DoDestroy(s, cut) ==
    LET shut == ConnShutdownAll(s, -1, cut)
        off == [shut EXCEPT !.lst = [l \in Slots |-> IF l \in s.list THEN [s.lst[l] EXCEPT !.ctx = FALSE, !.file = 0,
                                                            !.sock = -1, !.active = FALSE] ELSE s.lst[l]],
                            !.open = @ \ {s.lst[l].sock : l \in s.list}]
        told == IF \E l \in s.list : s.lst[l].sock = 0 THEN Note(off, "closed_0") ELSE off
        left == IF \A i \in Fds : told.conns[i].st = "none" THEN told ELSE Note(told, "orphans")
    IN [left EXCEPT !.key = FALSE, !.live = @ \ Range(s.cache), !.cache = <<>>, !.gone = TRUE]

Link(s) == [s EXCEPT !.refs = @ + 1]
\* CommEvTCPServerDestroy and CommEvTCPServerUnlink.
Unlink(s, cut) == IF s.refs > 0 THEN [s EXCEPT !.refs = @ - 1] ELSE DoDestroy(s, cut)

\* CommEvTCPServerEventAccept with a queue of k; on the first of them the
\* program does act in its callback.  The socket is not heard once it is
\* closed, and the handler goes on with the server in any case.
Free(s) == {i \in Fds : s.conns[i].st = "none"}
Accepted(s, l) ==
    [s EXCEPT !.conns[CHOOSE i \in Free(s) : TRUE] =
        [lid |-> l, owner |-> s.lst[l].id, name |-> <<>>, cert |-> 0, st |-> IF s.lst[l].ctx THEN "new" ELSE "open"]]
EventAccept(s, l, k, act) ==
    LET one == Accepted(s, l)
        said == CASE act = "none"   -> one
                  [] act = "del"    -> ListenerDel(one, l, {})
                  [] act = "destroy" -> Unlink(one, {})
    IN IF said.gone THEN Abort(said, "freed")
       ELSE IF k = 1 \/ ~said.lst[l].active THEN said
       ELSE Accepted(said, l)

-----------------------------------------------------------------------------
(* Certificates. *)

\* CommEvSSLUtils_GenerateWildCardFromDomain: the second dot from the end when
\* more than seven letters follow it, else the third.
Wildcard(name) ==
    LET size(k) == FoldLeft(LAMBDA z, i : z + 1 + LabelSize[name[Len(name) + 1 - i]], 0, [i \in 1 .. k |-> i])
        k == IF Len(name) > 2 /\ size(2) > 7 THEN 2 ELSE 3
    IN IF Len(name) > k THEN <<"*">> \o SubSeq(name, Len(name) + 1 - k, Len(name)) ELSE <<>>

Cached(s, name) == IF name \in DOMAIN s.cache THEN s.cache[name] ELSE 0
\* CommEvTCPServerSSLCertCacheLookup.
CertLookup(s, name) ==
    IF Cached(s, name) # 0 THEN Cached(s, name)
    ELSE IF Wildcard(name) = <<>> THEN 0 ELSE Cached(s, Wildcard(name))

\* AssocArrayAdd, which frees what was there.
WithCert(s, key, cert) ==
    [s EXCEPT !.cache = [k \in DOMAIN s.cache \cup {key} |-> IF k = key THEN cert ELSE s.cache[k]],
              !.live = @ \ {Cached(s, key)}]
\* CommEvTCPServerSSLCertCacheInsert: the name is looked up, its wildcard is
\* what is added.
CertInsertBlind(s, name, cert) ==
    LET key == IF Wildcard(name) = <<>> THEN name ELSE Wildcard(name)
    IN WithCert(s, key, cert)
CertInsert(s, name, cert) ==
    LET key == IF Wildcard(name) = <<>> THEN name ELSE Wildcard(name)
        old == Cached(s, key)
        t == WithCert(s, key, cert)
    IN IF Cached(s, name) # 0 THEN s ELSE IF old = 0 THEN t ELSE Note(t, "replaced")

\* The program's handler of CONN_EVENT_SSL_SNI_PARSED: LookupByConnHnd, and the
\* handshake is deferred when a certificate must be made.
Parsed(s, i, name) ==
    LET cert == CertLookup(s, name)
    IN [s EXCEPT !.conns[i].name = IF cert = 0 THEN name ELSE <<>>, !.conns[i].cert = cert,
                 !.conns[i].st = IF cert = 0 THEN "forging" ELSE "forged"]
Forged(s, i) ==
    LET t == [s EXCEPT !.certs = @ + 1, !.live = @ \cup {s.certs + 1},
                       !.conns[i].cert = s.certs + 1, !.conns[i].name = <<>>, !.conns[i].st = "forged"]
    IN CertInsert(t, s.conns[i].name, s.certs + 1)
\* CommEvTCPServerKickConnFromAcceptDefer: SSL_CTX_use_certificate, which
\* keeps the certificate itself from then on.
Kick(s, i) ==
    IF s.conns[i].cert \in s.live THEN [s EXCEPT !.conns[i].st = "open", !.conns[i].cert = 0]
    ELSE Abort(s, "freed_cert")

-----------------------------------------------------------------------------
Running == n.aborted = "no" /\ ~n.gone
Given == {l \in Slots : n.lst[l].active}
At == {i \in Fds : n.conns[i].st # "none"}

Add == n.adds < MaxAdds /\ \E c \in Confs : n' = ListenerAdd(n, c)
Del == \E l \in Given : \E cut \in Cuts(n, l) : n' = ListenerDel(n, l, cut)
Accept ==
    \E l \in Given, k \in 1 .. 2, act \in {"none", "del", "destroy"} :
        n.lst[l].listens /\ k <= Cardinality(Free(n)) /\ n' = EventAccept(n, l, k, act)
Close == \E i \in At : n' = Without(n, {i})     \* or the end of its transfer
Transfer == \E i \in At : n.conns[i].st \in {"new", "open"} /\ n' = [n EXCEPT !.conns[i].st = "transfer"]
Hello ==
    \E i \in At, name \in Names :
        n.conns[i].st = "new" /\ n' = Parsed(n, i, name)
Forge == \E i \in At : n.conns[i].st = "forging" /\ n.certs < MaxCerts /\ n' = Forged(n, i)
Handshake == \E i \in At : n.conns[i].st = "forged" /\ n' = Kick(n, i)
Refer == n.refs < MaxRefs /\ n' = Link(n)
Release == \E cut \in Cuts(n, -1) : n' = Unlink(n, cut)

Next == Running /\ (Add \/ Del \/ Accept \/ Close \/ Transfer \/ Hello \/ Forge \/ Handshake \/ Refer \/ Release)

-----------------------------------------------------------------------------
(***************************************************************************)
(* A slot is free or used by one listener; only a listener that failed to  *)
(* start has its slot given back while it is on the list, which ends the   *)
(* process when the slot is given again (assert, comm_tcp_server.c:286),   *)
(* and gives it back twice when the listener is taken off before.          *)
(* The open sockets are those of the listeners, and none outlives the      *)
(* server.  A connection lives with its listener, except in a transfer, or *)
(* when the walk over the connections was cut short; a server freed with   *)
(* connections left had one of these.                                      *)
(***************************************************************************)
ListenersExact ==
    LET active == {l \in Slots : n.lst[l].active}
    IN /\ n.aborted = "no" /\ ~n.gone =>
            /\ n.list = active
            /\ "freed_twice" \notin n.hist =>
                    \A l \in Slots : (l \in ToSet(n.free)) <=> (l \notin active \/ n.lst[l].failed)
            /\ "failed" \notin n.hist => Len(n.free) + Cardinality(n.list) = MaxListeners
       /\ n.open = {n.lst[l].sock : l \in active} \ {-1, 0}
       /\ n.gone => n.open = {}
       /\ \A i \in At :
            LET c == n.conns[i]
            IN \/ n.lst[c.lid].active /\ n.lst[c.lid].id = c.owner
               \/ c.st = "transfer" \/ "cut" \in n.hist
       /\ n.aborted \in {"slot_in_use", "overrun"} \/ "freed_twice" \in n.hist => "failed" \in n.hist
       /\ n.aborted \notin {"inactive"}

(***************************************************************************)
(* A name is answered with one certificate: what the cache holds is not    *)
(* freed, and so is what a connection found or made there, unless another  *)
(* connection, which asked for a name of the same domain before the first  *)
(* was cached, replaced it.                                                *)
(***************************************************************************)
CertsLive ==
    /\ \A name \in DOMAIN n.cache : n.cache[name] \in n.live
    /\ ~n.gone /\ "replaced" \notin n.hist => \A i \in At : n.conns[i].cert \in n.live \cup {0}
    /\ n.aborted = "freed_cert" => "replaced" \in n.hist
=============================================================================
