----------------------------- MODULE MCRequests -----------------------------
(***************************************************************************)
(* Requests to the disk and over the network, and events that wait, each   *)
(* kind on its own instance: a behaviour is one of one part, chosen at the *)
(* start.                                                                  *)
(*   file     a mapped file of 2 pages and two owners of requests          *)
(*   threads  file requests carried out by two threads of a pool           *)
(*   thread   the same by one thread, and more of them                     *)
(*   kernel   file requests carried out by the kernel                      *)
(*   pq       queries for PostgreSQL over one or two connections           *)
(*   icmp     echo requests and a pinger, on two slots of each family      *)
(*   deferred two descriptors in one direction, or one in both             *)
(***************************************************************************)
EXTENDS FileMapped, TLC

VARIABLES part,     \* which one
          h         \* the state of all but file

Alike == Permutations(Owners)

Threads == INSTANCE ThreadAIO WITH t <- h, MaxReq <- 3, MaxJobs <- 2, Workers <- 2, MaxCalls <- 2
Thread == INSTANCE ThreadAIO WITH t <- h, MaxReq <- 2, MaxJobs <- 2, Workers <- 1, MaxCalls <- 3
Kernel == INSTANCE KernelAIO WITH k <- h, MaxReq <- 2, MaxJobs <- 2, MaxCalls <- 3
PQ == INSTANCE AioPq WITH q <- h,
        Begin <- 1, Grow <- 1, Most <- 2, MaxPending <- 3, MaxQueries <- 3, MaxFaults <- 2
Ping == INSTANCE Icmp WITH i <- h, Slots <- 2, Retries <- 0, Reset <- 2, MaxSends <- 2
\* There the two owners of requests stand for two descriptors.
Uses == {{d} \X Owners : d \in {"READ", "WRITE"}} \cup {{"READ", "WRITE"} \X {n} : n \in Owners}
Deferred == INSTANCE EvDefer WITH z <- h, Fds <- Owners, MaxCalls <- 2

\* In the other parts there is no mapped file, and no property speaks of one.
NoFile == [odd |-> {"gap"}]

MCInit ==
    \/ part = "file" /\ Init /\ h = 0
    \/ /\ f = NoFile
       /\ \/ part = "threads" /\ Threads!Init
          \/ part = "thread"  /\ Thread!Init
          \/ part = "kernel"  /\ Kernel!Init
          \/ part = "pq"      /\ PQ!Init
          \/ part = "icmp"    /\ Ping!Init
          \/ part = "deferred" /\ Deferred!Init
MCNext ==
    /\ UNCHANGED part
    /\ \/ part = "file" /\ Next /\ UNCHANGED h
       \/ /\ UNCHANGED f
          /\ \/ part = "threads" /\ Threads!Next
             \/ part = "thread"  /\ Thread!Next
             \/ part = "kernel"  /\ Kernel!Next
             \/ part = "pq"      /\ PQ!Next
             \/ part = "icmp"    /\ Ping!Next
             \/ part = "deferred" /\ Deferred!Next
MCSpec == MCInit /\ [][MCNext]_<<part, h, f>>

(***************************************************************************)
(* A third call to the one thread is followed where a descriptor has been  *)
(* opened or closed, since what else the calls before it leave behind is   *)
(* among what the system may answer anyway; and one to a file that         *)
(* truncates where it was opened again with bytes in it, since before that *)
(* it is as a file that does not truncate.                                 *)
(***************************************************************************)
ThirdCall ==
    /\ part = "thread" /\ h.calls = 3 => h.known # {0}
    /\ part = "file" /\ f.truncate /\ f.calls = MaxCalls => f.erased # {}

-----------------------------------------------------------------------------
(***************************************************************************)
(* A request to the disk, a server or a host is answered once, whoever     *)
(* carries it out, and never after it was cancelled; queries are sent in   *)
(* order; and when none is left, a mapped file has told all its callers    *)
(* and written all its metadata.                                           *)
(***************************************************************************)
RequestsAnsweredOnce ==
    /\ Settled
    /\ part = "threads" => Threads!AnsweredOnce
    /\ part = "thread"  => Thread!AnsweredOnce
    /\ part = "kernel"  => Kernel!AnsweredOnce
    /\ part = "pq"      => PQ!AnsweredOnce /\ PQ!SentInOrder
    /\ part = "icmp"    => Ping!ToldOnce /\ Ping!PingerKnowsItsOwn /\ Ping!FaultsHaveCause

(***************************************************************************)
(* The lists and counts of requests, jobs, slots and connections agree,    *)
(* buffers and descriptors are given back, and something watches every     *)
(* request and every deferred event that waits, whatever is cancelled,     *)
(* refused, lost or fails.                                                 *)
(***************************************************************************)
RequestsAccounted ==
    /\ part = "threads" => Threads!NothingLeaks
    /\ part = "thread"  => Thread!NothingLeaks
    /\ part = "pq"      => PQ!WaitingIsServed /\ PQ!PoolCounts
    /\ part = "icmp"    => Ping!SlotsExact /\ Ping!Watched
    /\ part = "deferred" => Deferred!ListsExact /\ Deferred!NotForgotten
=============================================================================
