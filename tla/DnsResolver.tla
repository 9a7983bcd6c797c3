---------------------------- MODULE DnsResolver -----------------------------
(***************************************************************************)
(* The DNS resolver (comm/core/comm_dns_resolver.c).  A query is a slot;   *)
(* its index is the id of the query on the wire.  It waits on req_list to  *)
(* be written and on reply_list for its reply; a periodic timer walks      *)
(* reply_list, puts a query back on req_list to send it again, and gives   *)
(* up in the end.  Clients ask and cancel at any time, also from inside    *)
(* the callback that brings them a result.                                 *)
(*                                                                         *)
(* The network keeps every query sent: its reply may arrive never, once or *)
(* many times, as late as it likes.  The lists are modelled by their       *)
(* pointers, since a late reply unlinks a query from a list it is not on.  *)
(***************************************************************************)
EXTENDS DLinkedListOps, SequencesExt

CONSTANTS RetryCount,   \* retry_count
          MaxQueries    \* bound: queries asked for

ASSUME ResolverAssumption ==
    /\ Nodes \subseteq Nat /\ IsFiniteSet(Nodes) /\ Nodes # {}
    /\ Lists = {"req", "reply"}
    /\ RetryCount \in Nat /\ MaxQueries \in Nat

Tickets == 1 .. MaxQueries      \* one per query accepted, in order

(***************************************************************************)
(* DNSPendingQuery.  retry and lookup tell that more than timeout_ms.retry *)
(* went by since retransmit_tv and more than timeout_ms.lookup since       *)
(* transmit_tv; ticket stands for the callback and its data.               *)
(***************************************************************************)
Query == [in_use : BOOLEAN, waiting_reply : BOOLEAN, canceled_req : BOOLEAN,
          req_count : Nat, retry : BOOLEAN, lookup : BOOLEAN, ticket : Tickets \cup {0}]
BlankQuery == [in_use |-> FALSE, waiting_reply |-> FALSE, canceled_req |-> FALSE,
               req_count |-> 0, retry |-> FALSE, lookup |-> FALSE, ticket |-> 0]

VARIABLES free,         \* pending_req.slots
          query,        \* the DNSPendingQuery in each slot
          links,        \* req_list and reply_list
          timer_id,     \* resolv_base->timer_id > -1
          armed, due,   \* periodic timers that wait, and that have expired
          write_event,  \* the write event of the socket is set
          net,          \* ids of the queries ever sent: a reply may come
          late,         \* history: a reply came for a query that waits to be sent again
          pc,           \* "loop"; "write", "walk": in a handler; "callback": in the client's
          ret,          \* where CommEvDNSWriteEvent returns to
          handler,      \* "walk" or "data": the handler that runs the callback
          node,         \* node of the walk, or of the query called back for
          rxmit,        \* rxmit_flag > 0
          asked,        \* queries accepted
          told,         \* how often the callback of each query ran
          handle,       \* the id the client holds for each query
          cancelled     \* queries cancelled

vars == <<free, query, links, timer_id, armed, due, write_event, net, late, pc, ret,
          handler, node, rxmit, asked, told, handle, cancelled>>
slots == <<free, query, links>>
timer == <<timer_id, armed, due>>
walk == <<handler, node, rxmit>>
wire == <<net, late>>
client == <<asked, told, handle, cancelled>>

\* SlotQueueInit hands out the ids in ascending order.
Init == /\ free \in [1 .. Cardinality(Nodes) -> Nodes]
        /\ \A i \in DOMAIN free, j \in DOMAIN free : i < j => free[i] < free[j]
        /\ query = [id \in Nodes |-> BlankQuery]
        /\ links = NoLinks
        /\ timer_id = TRUE /\ armed = 1 /\ due = 0
        /\ write_event = FALSE /\ net = {} /\ late = FALSE
        /\ pc = "loop" /\ ret = "loop" /\ handler = "data" /\ node = Nil /\ rxmit = FALSE
        /\ asked = 0
        /\ told = [t \in Tickets |-> 0] /\ handle = [t \in Tickets |-> Nil]
        /\ cancelled = {}

IsEmpty(l) == links.head[l] = Nil

\* EvKQBaseTimerAdd of CommEvDNSPeriodicTimerEvent.
AddTimer == timer_id' = TRUE /\ armed' = armed + 1 /\ UNCHANGED due

\* SlotQueueFree, DLinkedListDelete and memset of a query.
Release(id, list) == /\ free' = <<id>> \o free
                     /\ links' = Wipe(Delete(links, list, id), id)
                     /\ query' = [query EXCEPT ![id] = BlankQuery]

-----------------------------------------------------------------------------
(* The client.                                                              *)

Callable == pc \in {"loop", "callback"}

\* The new query is written on this very same loop unless replies are awaited.
CommEvDNSGetHostByNameX ==
    /\ Callable /\ asked < MaxQueries
    /\ free # << >>             \* no slot: -1 is returned, nothing changes
    /\ ~ query[Head(free)].in_use       \* assert
    /\ free' = Tail(free)
    /\ query' = [query EXCEPT ![Head(free)] =
                    [BlankQuery EXCEPT !.in_use = TRUE, !.ticket = asked + 1]]
    /\ links' = AddTail(Wipe(links, Head(free)), "req", Head(free))
    /\ write_event' = TRUE
    /\ IF IsEmpty("reply") THEN pc' = "write" /\ ret' = pc ELSE UNCHANGED <<pc, ret>>
    /\ IF timer_id THEN UNCHANGED timer ELSE AddTimer
    /\ asked' = asked + 1
    /\ handle' = [handle EXCEPT ![asked + 1] = Head(free)]
    /\ UNCHANGED <<wire, walk, told, cancelled>>

\* A query that waits for its reply is only marked.
\* Slip: the mark is forgotten.
CancelForgetsMark(t) ==
    /\ Callable /\ handle[t] # Nil
    /\ IF query[handle[t]].waiting_reply THEN UNCHANGED slots
       ELSE Release(handle[t], "req")
    /\ handle' = [handle EXCEPT ![t] = Nil]
    /\ cancelled' = cancelled \cup {t}
    /\ UNCHANGED <<timer, write_event, wire, pc, ret, walk, asked, told>>

CommEvDNSCancelPendingRequest(t) ==
    /\ Callable /\ handle[t] # Nil
    /\ query[handle[t]].in_use
    /\ IF query[handle[t]].waiting_reply
       THEN query' = [query EXCEPT ![handle[t]].canceled_req = TRUE] /\ UNCHANGED <<free, links>>
       ELSE Release(handle[t], "req")
    /\ handle' = [handle EXCEPT ![t] = Nil]
    /\ cancelled' = cancelled \cup {t}
    /\ UNCHANGED <<timer, write_event, wire, pc, ret, walk, asked, told>>

-----------------------------------------------------------------------------
(* CommEvDNSWriteEvent, one query a step.                                   *)

CommEvDNSWriteEvent ==
    /\ pc = "loop" /\ write_event
    /\ write_event' = FALSE
    /\ pc' = "write" /\ ret' = "loop"
    /\ UNCHANGED <<slots, timer, wire, walk, client>>

\* The head of req_list; a record wiped while it was linked has no data.
Popped == links.head["req"]
MoreQueries == Popped # Nil /\ links.data[Popped]

WriteEnds ==
    /\ pc = "write" /\ ~ MoreQueries
    /\ links' = IF Popped = Nil THEN links ELSE PopHead(links, "req")
    /\ pc' = ret
    /\ UNCHANGED <<free, query, timer, write_event, wire, ret, walk, client>>

WriteQuery ==
    /\ pc = "write" /\ MoreQueries
    /\ ~ query[Popped].waiting_reply        \* assert
    /\ links' = AddTail(Delete(PopHead(links, "req"), "req", Popped), "reply", Popped)
    /\ query' = [query EXCEPT ![Popped].req_count = @ + 1, ![Popped].waiting_reply = TRUE]
    /\ net' = net \cup {Popped}
    /\ UNCHANGED <<free, timer, write_event, late, pc, ret, walk, client>>

\* The socket is full, or sendto fails.
WriteFails ==
    /\ pc = "write" /\ MoreQueries
    /\ links' = AddHead(PopHead(links, "req"), "req", Popped)
    /\ write_event' = TRUE
    /\ pc' = ret
    /\ UNCHANGED <<free, query, timer, wire, ret, walk, client>>

-----------------------------------------------------------------------------
(* CommEvDNSPeriodicTimerEvent, one query of reply_list a step.             *)

\* With no reply to wait for the timer is disabled.
CommEvDNSPeriodicTimerEvent ==
    /\ pc = "loop" /\ due > 0
    /\ due' = due - 1 /\ timer_id' = FALSE
    /\ IF IsEmpty("reply") THEN UNCHANGED <<pc, walk>>
       ELSE /\ pc' = "walk" /\ handler' = "walk"
            /\ node' = links.head["reply"] /\ rxmit' = FALSE
    /\ UNCHANGED <<slots, armed, write_event, wire, ret, client>>

Visiting == pc = "walk" /\ node # Nil /\ links.data[node]
Visited == query[node]
\* Slip: timeout_ms.lookup is ignored.
GivesUpAfterRetries(q) == q.retry /\ q.req_count > RetryCount /\ ~ q.canceled_req
GivesUp(q) == q.lookup \/ (q.retry /\ q.req_count > RetryCount /\ ~ q.canceled_req)
Resends(q) == ~ q.lookup /\ q.retry /\ q.req_count <= RetryCount

\* The callback of a client, which from then on has no pending query.
Tell(q, by, at) ==
    /\ told' = [told EXCEPT ![q.ticket] = @ + 1]
    /\ handle' = [handle EXCEPT ![q.ticket] = Nil]
    /\ pc' = "callback" /\ handler' = by /\ node' = at
    /\ UNCHANGED <<slots, timer, write_event, net, ret, rxmit, asked, cancelled>>

\* assert(waiting_reply) holds for every query visited.
TimedOut ==
    /\ Visiting /\ Visited.waiting_reply /\ GivesUp(Visited)
    /\ ~ Visited.canceled_req
    /\ Tell(Visited, "walk", node)
    /\ UNCHANGED late

TimedOutCancelled ==
    /\ Visiting /\ Visited.waiting_reply /\ GivesUp(Visited)
    /\ Visited.canceled_req
    /\ node' = links.next[node]
    /\ Release(node, "reply")
    /\ UNCHANGED <<timer, write_event, wire, pc, ret, handler, rxmit, client>>

\* The walk goes on from the node's new place, the tail of req_list: it ends.
Resend ==
    /\ Visiting /\ Visited.waiting_reply /\ Resends(Visited)
    /\ links' = AddTail(Delete(links, "reply", node), "req", node)
    /\ query' = [query EXCEPT ![node].waiting_reply = FALSE, ![node].retry = FALSE]
    /\ node' = links'.next[node]
    /\ rxmit' = TRUE
    /\ UNCHANGED <<free, timer, write_event, wire, pc, ret, handler, client>>

StillWaits ==
    /\ Visiting /\ Visited.waiting_reply
    /\ ~ GivesUp(Visited) /\ ~ Resends(Visited)
    /\ node' = links.next[node]
    /\ UNCHANGED <<slots, timer, write_event, wire, pc, ret, handler, rxmit, client>>

WalkEnds ==
    /\ pc = "walk"
    /\ node # Nil => ~ links.data[node]
    /\ write_event' = (write_event \/ rxmit)
    /\ AddTimer
    /\ pc' = "loop"
    /\ UNCHANGED <<slots, wire, ret, walk, client>>

-----------------------------------------------------------------------------
(* CommEvDNSDataEvent.  A reply whose id is not in use changes nothing.     *)

CommEvDNSDataEvent(id) ==
    /\ pc = "loop"
    /\ query[id].in_use
    /\ late' = (late \/ ~ query[id].waiting_reply)
    /\ IF query[id].canceled_req
       THEN /\ Release(id, "reply")
            /\ UNCHANGED <<timer, write_event, net, pc, ret, walk, client>>
       ELSE Tell(query[id], "data", id)

CallbackReturns ==
    /\ pc = "callback"
    /\ Release(node, "reply")
    /\ IF handler = "walk" THEN pc' = "walk" /\ node' = links.next[node]
                           ELSE pc' = "loop" /\ node' = Nil
    /\ UNCHANGED <<timer, write_event, wire, ret, handler, rxmit, client>>

-----------------------------------------------------------------------------
(* Time goes by while kevent() waits, for the socket if need be.            *)

Waits == pc = "loop"

RetryPasses(id) ==
    /\ Waits /\ query[id].in_use /\ ~ query[id].retry
    /\ query' = [query EXCEPT ![id].retry = TRUE]
    /\ UNCHANGED <<free, links, timer, write_event, wire, pc, ret, walk, client>>

LookupPasses(id) ==
    /\ Waits /\ query[id].in_use /\ ~ query[id].lookup
    /\ query' = [query EXCEPT ![id].lookup = TRUE]
    /\ UNCHANGED <<free, links, timer, write_event, wire, pc, ret, walk, client>>

TimerExpires ==
    /\ Waits /\ armed > 0
    /\ armed' = armed - 1 /\ due' = due + 1
    /\ UNCHANGED <<slots, timer_id, write_event, wire, pc, ret, walk, client>>

Handler == \/ WriteEnds \/ WriteQuery \/ WriteFails
           \/ TimedOut \/ TimedOutCancelled \/ Resend \/ StillWaits \/ WalkEnds
           \/ CallbackReturns

Next == \/ CommEvDNSGetHostByNameX
        \/ \E t \in Tickets : CommEvDNSCancelPendingRequest(t)
        \/ CommEvDNSWriteEvent \/ CommEvDNSPeriodicTimerEvent
        \/ \E id \in net : CommEvDNSDataEvent(id)
        \/ Handler
        \/ \E id \in Nodes : RetryPasses(id) \/ LookupPasses(id)
        \/ TimerExpires

Spec == Init /\ [][Next]_vars

(***************************************************************************)
(* Fairness: handlers and callbacks return, the socket can be written in   *)
(* the end, the loop dispatches its write event and the timers that        *)
(* expired, and time goes by.  No reply is owed.                           *)
(***************************************************************************)
Fairness == /\ WF_vars(Handler) /\ SF_vars(WriteQuery)
            /\ SF_vars(CommEvDNSWriteEvent) /\ SF_vars(CommEvDNSPeriodicTimerEvent)
            /\ \A id \in Nodes : SF_vars(LookupPasses(id))
            /\ SF_vars(TimerExpires)
FairSpec == Spec /\ Fairness

-----------------------------------------------------------------------------
(* Properties.                                                              *)

TypeOK ==
    /\ free \in Seq(Nodes) /\ query \in [Nodes -> Query] /\ links \in Links
    /\ {timer_id, write_event, rxmit, late} \subseteq BOOLEAN
    /\ armed \in Nat /\ due \in Nat /\ net \subseteq Nodes
    /\ pc \in {"loop", "write", "walk", "callback"} /\ ret \in {"loop", "callback"}
    /\ handler \in {"walk", "data"} /\ node \in Pointer
    /\ asked \in 0 .. MaxQueries /\ told \in [Tickets -> Nat]
    /\ handle \in [Tickets -> Pointer] /\ cancelled \subseteq Tickets

InUse == {id \in Nodes : query[id].in_use}
Awaiting == {id \in Nodes : query[id].waiting_reply}

(***************************************************************************)
(* Every slot has one place: it is free, or its query waits on req_list to *)
(* be written, or on reply_list for its reply.  CommEvDNSDataEvent unlinks *)
(* from reply_list without a test that the query is on it: the lists stay  *)
(* well formed until a reply comes late.                                   *)
(***************************************************************************)
ListsExact ==
    /\ TypeOK
    /\ ToSet(free) = Nodes \ InUse /\ Len(free) = Cardinality(ToSet(free))
    /\ ~ late => /\ \A l \in Lists : IsList(links, l)
                 /\ Members(links, "reply") = Awaiting
                 /\ Members(links, "req") = InUse \ Awaiting

(***************************************************************************)
(* The callback of a query runs exactly once before its slot is freed, and *)
(* never after the client cancelled it, when what cb_data points to may be *)
(* gone: whatever replies come, and whatever the client does in callbacks. *)
(***************************************************************************)
Calling == pc = "callback" \/ (pc = "write" /\ ret = "callback")
Pending(t) == \E id \in InUse : query[id].ticket = t /\ ~ (Calling /\ node = id)
AnswerOnce == \A t \in 1 .. asked : told[t] = IF Pending(t) \/ t \in cancelled THEN 0 ELSE 1

(***************************************************************************)
(* Every query leaves its slot, answered, timed out or cancelled ("Request *)
(* timed out, invoke CB_H with reply_count zero"), provided that no reply  *)
(* comes late and that the timer, which disables itself, is never off      *)
(* while a query is in use.                                                *)
(***************************************************************************)
QueryEnds == \A id \in Nodes : query[id].in_use ~> ~ query[id].in_use
TimerOn == InUse # {} => pc # "loop" \/ armed + due > 0
QueryEndsIfWatched == [](TimerOn /\ ~ late) => QueryEnds
=============================================================================
