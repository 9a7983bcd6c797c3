# A TLA+ model of brb_framework

brb_framework is a C framework for programs built around one event loop
(`libbrb_core`), with two smaller libraries beside it (`libbrb_json`,
`libbrb_aiopq`). This directory holds TLA+ modules translated from its source,
TLC configurations that check them on small instances, and theorems checked by
TLAPS for every value of the constants. `PROJECT.json` maps every definition to
the lines it models, lists the hazards of the code and names the runs.

All paths below are relative to `src/libbrb_core/` unless they say otherwise.

## 1. Inventory

One thread owns an `EvKQBase` and turns in `EvKQBaseDispatch`: it runs the jobs
that are due, hands the queued changes to `kevent()`, and dispatches the events
`kevent()` returns. Everything else — timers, sockets, resolvers, clients — is
callbacks of that loop, so there is no preemption among them, but every callback
may call back into the library *in the middle of* a walk or a batch. The only
real concurrency is the thread pool (and the AIO threads built on it).

| Component | State it keeps | Operations | Hard behaviour | What makes it correct |
|---|---|---|---|---|
| MEM_SLOT (`data/utils/mem_slot.c`) | stack of free ids, lists of slots, list id of each slot, arena bits | grab, grab by id, switch list, peek, pop, free, clean | long mixes of calls; memory freed by blocks | each slot free or on one list, once; an allocated slot has memory |
| Slot queue, arena, list (`data/core/slotqueue.c`, `mem_arena.c`, `dlinked_list.c`) | ids; bitmaps of blocks; head and tail | push/pop; mark/release; link/unlink | double free, block freed early | as above |
| Thread pool (`thread/thrd_pool_base.c`) | job slots on PENDING/WORKING/DONE, flag word per job, worker states, notify pipe | enqueue, grow, cancel, collect, destroy; worker main loop | two mutexes, signal without mutex, unlocked flags, callbacks that enqueue | one owner per job, once only, nothing lost, every job taken and collected, destroy ends |
| Timers and timeouts (`event/core/ev_kq_timer.c`, `ev_kq_timeout.c`) | timer slots, timer id per timeout, change list, kernel timers | add, enable, disable, delete; set, clear, clear all; dispatch | batch of events overtaken by changes, ids reused at once | no slot leaked, timeouts and timers agree, kernel and library agree, one-shots end |
| Jobs (`event/core/ev_kq_jobs.c`) | job slots on the I/O loop list and on the timed list, one timer | add, add timed, control, two walks | callbacks change the list being walked; calendar arithmetic | each job visited once, runs when due, once a day |
| Loop core, descriptors, defer (`ev_kq_base.c`, `ev_kq_fd.c`, `ev_kq_defer.c`) | read/write state of each descriptor, closing flags, deferred list, error counters | set event, dispatch, close with linger, defer | number reuse, stale events, close inside a callback, loops over changing lists | handlers run only for open descriptors that asked; a close happens once |
| Internal events, objects (`ev_kq_ievents.c`, `ev_kq_object.c`) | subscriptions, registered objects | subscribe, dispatch, register, destroy all | callbacks that unsubscribe | each subscriber told, each object destroyed once |
| AIO requests, kernel AIO, AIO threads (`event/aio/*`, `thread/thrd_aio_base.c`) | request queues, per-request buffers and descriptors, jobs | enqueue, cancel, clean, run as pool jobs, completion events | cancellation while a worker has the request; no free job; partial transfers | each request is answered once and gives back what it holds |
| DNS resolver (`comm/core/comm_dns_resolver.c`) | query slots, a list to write and a list awaiting replies, retry counters, periodic timer | query, cancel, write, read, retry | lost, late, duplicate replies; id reuse; callbacks inside the walk | one answer per query, every query ends |
| TCP client and pool (`comm/core/tcp/comm_tcp_client*.c`) | connection state, timers, resolver request, write queue, buffers | connect, reconnect, disconnect, write, SSL, shutdown | callbacks that destroy the client; timers against events | state and descriptor agree; each write finishes once |
| TCP server (`comm_tcp_server*.c`) | listeners, connections, write queues, certificate cache | listen, accept, identify, handshake, read, write, shut down, transfer to another process | close with writes pending; callbacks that close the connection or the server; wildcard certificates shared by handshakes | a connection is told of its end once and each write once; nothing of it stays in the loop; a slot, socket or certificate has one owner |
| UNIX sockets (`comm/core/unix/*`) | at each end: slots of requests on two lists (to write, to be acknowledged), ACKs to send, a request half read; the client's timers | write, acknowledge, retry, give up, read, close, reconnect, pool | both ends write into full buffers; ACKs between requests; a close with requests pending; overwritten timers | requests arrive whole and in order; each is told written once, then acknowledged or refused once |
| IPC (`comm/core/ipc/*`) | request slots, child process | send, reply, child restart | child dies with requests pending | one reply or error per request |
| ICMP, pinger (`comm/core/icmp/comm_icmp_base.c`, `comm/utils/comm_icmp_pinger.c`) | slots and two lists per address family, one timer; the pinger's current request, its timers and lookup | send, write, reply, time out, cancel, destroy; run, stop, reset | late and duplicate replies; a callback that cancels or destroys in the middle of the walk | one result per ping; a slot is free, to be written or awaiting a reply |
| File mapping (`event/utils/ev_kq_file_mapped.c`) | bitmap of pages on disk, partial pages, metadata and its auxiliary copy, requests | open, add, write, read, complete, close, destroy, cancel | requests overtake each other; a crash between data and metadata; failures on the way to a close | metadata on disk never tells of a page that is not there; the object lives as long as a request refers to it |
| Logger, daemon (`event/utils/*`) | log buffers | write | — | — |
| Buffers and streams (`data/core/mem_buf.c`, `mem_stream.c`, `dyn_bitmap.c`, `data/utils/mem_buf_mapped.c`) | bytes, capacity, offset, views, nodes, pages | append, overwrite, shrink, read from files | capacity, offset and page boundaries; a mutex locked twice | the bytes a reader expects |
| Tables (`data/core/hash_table*.c`, `data/utils/assoc_array.c`) | buckets, walk cursor, counters | add, find, delete, walk | collisions, equal keys, changes under a walk | a key finds what was last put under it; a walk gives each item |
| Other containers, strings (`data/*`) | sequential data | — | boundaries | agree with a reference definition |
| Crypto, SSL, SSH, serial, statistics | wrappers and counters | — | — | test vectors |
| PostgreSQL client (`libbrb_aiopq`) | a pool of connections, a list to send and a list awaiting replies, timers | query, cancel, grow, shrink, reconnect, destroy | a connection lost with a query on it; a cancelled query that is still being answered | one answer per query, sent in order; counts agree with the connections |
| `libbrb_json` | a parser and a printer | — | text | — |

How they interact. MEM_SLOT lies under the thread pool, timers, jobs, resolver,
pools of clients and most request queues. Timers carry timeouts of descriptors,
the timed jobs, the resolver's retries and the clients' reconnections. A
lingering close of a descriptor is a job. The thread pool tells the loop of
finished jobs through a pipe. Clients own a descriptor, its timeouts, a resolver
request and a write queue, and are destroyed by callbacks of any of them.

## 2. Plan

In the order of importance. Modules that are proved about have constants with
named assumptions, one action per operation and no RECURSIVE operator.

1. `MemSlotOps`, `MemSlot`, abstract `SlotPool` — *done, proved*.
2. `ThreadPool` over `MemSlotOps` — *done; every safety invariant proved, the
   accounting of jobs for programs that do not cancel*.
3. `EvTimers` over `MemSlotOps` — *done; every safety invariant proved*.
4. `EvJobs` over `MemSlotOps` — *done; every safety invariant proved*.
5. `EvKQueue` — *done; every safety property proved*. `EvDefer` over
   `DLinkedListOps` — *done, model-checked*.
6. `DnsResolver` over `DLinkedListOps` — *done; every safety invariant proved*.
7. `TcpClient`, `TcpServer`, `SelfSync` — *done, model-checked*. `TcpListeners`,
   `TcpClientPool` — *done; their safety invariants proved*.
8. `FileMapped` — *done; both safety invariants proved*. `ThreadAIO`, `KernelAIO`, `AioPq`,
   `Icmp` — *done, model-checked*.
9. `MemBuffer`, `DynBitMap`, `MappedBuffer`, `MemStream`, `HashTable`,
   `HashTableV2` — *done, model-checked*.
10. `UnixLink`, `UnixClient` — *done, model-checked*. `UnixClientPool` — *done, proved*.
11. Left: IPC, internal events and the object registry, the remaining containers.

Theorems worth proving next: `SelfSync!Synced` and that `UnixLink`'s requests arrive
whole; `HashTableV2!FindsItem`. `EvDefer` can use the lemmas about linked pointers of
`ClientProofs`.

## 3. Modules

`MemSlotOps` gives one operator per operation of a `MemSlotBase`, on a record
`[free, list, cur, bits]`: the slot queue as a stack, the linked lists as
sequences of slot ids, the list id in the metadata, and the in-use bits of the
arena. `Live(p, s)` says whether the memory of a slot exists: the arena frees a
block of `BlockSlots` slots when no bit of it is set. Each operator is a
critical section under the base's mutex.

`MemSlot` is the state machine of a base under any sequence of calls;
`pinned` records the ids whose arena bit was set by `MemSlotBaseSlotGrabByID` on
an unallocated id or left by a Pop. `SlotPool` is the abstract promise and
`MemSlot!ImplementsSlotPool` the refinement.

`ThreadPool` models the main thread as a program counter that goes through
`ThreadPoolJobEnqueue`, `ThreadPoolJobCancel`, `ThreadPoolJobConsumeReplies` and
`ThreadPoolBaseDestroy`, and each worker as a program counter of
`ThreadPoolInstanceMainLoop`. A step is what runs without another thread being
able to tell: one critical section, one unlocked read or write of shared state,
or one call of the system. The flag word of a job is loaded and stored in two
steps, since its bits share a word and no mutex covers them. So it is with the
arena: `ThreadPoolJobCancel` finds its job through `MemSlotBaseSlotGrabByID`, which
takes no mutex, and so runs beside a worker's `MemSlotBaseSlotListIDSwitchToTail` or
`MemSlotBaseSlotFree`, whose mutex does not keep it out. The search is `CancelFind`
(the block, allocated if need be), `CancelTest` and `CancelCount` (the bit is tested,
`busy_count` loaded and stored), `CancelLoad` and `CancelMark` (the byte of the bitmap
loaded and stored); the worker's side is `EnterPublish`, `Publish`, and `ReleaseJob`,
`ReleaseBit`, `ReleaseCount`. `SameByte` are the slots whose bits share a byte. Either
side may store what the other has just changed; a count that is too low then
frees the block under a job on a list, which ends the behaviour (`aborted`).
`overlapped` remembers the blocks in which the two were at work at the same time. A job's
memory that the arena has freed reads as blank when allocated anew (`Uncount`); the id that
`ThreadPoolJobEnqueue` reads after the unlock is arbitrary when the block is gone, and a
cancel whose block goes in its midst stores into freed memory or ends the program
(`CancelInFreed`). The growth of the array of blocks is not followed, nor is
what a program does with a job whose memory is gone.
`Tickets` number the accepted jobs; `ran`, `replied`, `handle`, `cancelled` and
`accepted` are what the client sees. On Linux `ThreadPoolBaseNotifyPipeInit` is
compiled out (thread/thrd_pool_base.c:353) and the client must call
`ThreadPoolJobConsumeReplies` itself: `Notify = FALSE`.

`EvTimers` models timers, descriptor timeouts, the change list, the kernel's
timers (external: what `kevent()` does with `EV_ADD`, `EV_ONESHOT`, `EV_DELETE`,
`EV_ENABLE`, `EV_DISABLE` on `EVFILT_TIMER`) and one batch of events, whose
callbacks call the library. Descriptor events of the batch appear as `FDEvent`,
which clears the descriptor's timeouts and runs a handler, at any point of the
batch. What is left out of `kevent()`: when a change fails the call returns error
events only; ENOENT of a timer is ignored at event/core/ev_kq_base.c:816, so an
error delays the batch by a turn. Timeouts are only set on active descriptors.
`EvKQBaseTimeoutSet` with a NULL handler returns early (line 69) when no timeout
is set and leaves a set one alone, so it changes nothing, although the comment
further down speaks of removing.

`EvJobs` models both lists of jobs, the two walks and callbacks that add, enable,
disable and delete jobs. `NodeAfter` follows the next pointer on whatever list
the node is at that moment, as the code does. A callback may delete any job, its own
and the one the walk goes to next among them, and the code tests for neither: one
client's shutdown deletes its SSL job (comm/core/tcp/comm_tcp_client.c:183), which may be the next
of the walk that called another's. `cut` says which of the two pointers the walk
holds was to a job so deleted, and `dangling` which of them points into a block that was
freed. `WalkStops` is the end of the program: the assertion of line 110 (or 522) on
a next job that is not active, or, after the callback deleted its own, the
second release, which the arena's assertion refuses. A slot used again in time is
walked or released as the job it now is, which may be one of the other list
(`astray`). A freed block may be read as it was, if `calloc()` gave the same place
again, or end the program; what else freed memory may hold is not followed.
Time is in ticks. Jobs
whose time does not parse are refused and change nothing. Hour 24 and minute 60
pass the bounds of line 412; they never or rarely match and are not modelled. In
the code the window of `time_delta` is the difference of two HHMMSS decimals, so
it ends with the minute: `Window` ticks. A job for MONDAY_FRIDAY passes the test
of line 437 and then fails that of line 449 on every day, since no weekday equals
that constant: it never runs; the model has both tests.

`EvKQueue` models the turn of the loop over its descriptors: `pc` says whether
the loop is at the jobs, in `kevent()` or at the events. `desc` holds the flags of
each `EvBaseKQFileDesc` and the loops its close job still has to wait, `handler`
its handlers, `chg` the change list. The kernel (`sock`, `knote`) is external: a
change of a closed socket or of a knote that is not there comes back as an event
with `EV_ERROR`, alone; adding again replaces and enables; closing forgets. An
event, a change and a callback carry `own`, which a close of the socket they are
about makes false: it is what tells the old socket from the next one with its
number. A client opens, sets events and closes at any moment outside `kevent()`,
which stands for callbacks of the batch, of timers and of jobs alike; it acts on
the sockets it has open and closes each once, since a second close trips the
assertion of ev_kq_fd.c:1430 or closes a stranger's number. The close job is
reduced to the loops it waits: `EvJobs` has the list it is on. A job added while
the jobs are walked is visited by this walk or not, and `EvKQJobsAdd` may have no
slot, in which case the socket is closed at once. ADD_TRANSITION is ADD_PERSIST
with `EV_CLEAR`; the checks that defer an event are the subject of `EvDefer`,
timeouts that of `EvTimers`.

`EvDefer` models the checks: the loop asks a check before it tells an event, puts
the descriptor on the list of its direction while the answer is yes, walks the
lists from time to time and tells what was put off. `z.stack` is the C stack:
a callback runs on top of the walk or batch that made it, and may close
sockets, set and delete events and checks, and so unlink the node the walk saved.
Changes reach the kernel at once and closing lingers, as `EvKQueue` has them in
detail.

`DLinkedListOps` gives the operations of a `DLinkedList` on the pointers
themselves: next, prev and data of every node, head and tail of every list. It is
used where a node may be unlinked from a list it is not on, which sequences
cannot express; `IsList` says that the pointers of a list are consistent.

`DnsResolver` models the resolver over those lists. A query is a slot, whose id
is the query id on the wire, so `net` is the set of ids ever sent and a reply may
come for any of them at any time, several times or never. `retry` and `lookup`
of a query say that the two timeouts have passed. The write handler and the walk
of the timer take one query a step; the callbacks of clients ask and cancel in
the midst of either, and never cancel the query they are called for, since the
clients clear `req_id` first (comm/core/tcp/comm_tcp_client.c:1334-1350). Timer
ids are not modelled: the resolver tests only whether it has one, and timers that
a nested query adds inside a walk run beside the timer the walk adds. A failing
assertion is a step that cannot be taken.

### Communication

In the modules of this and the next group a C function is an operator from the
state it finds to the state it leaves, a handler with the callbacks it makes is
one step, and arguments say what the system calls answer and what the program
does in a callback. Their state is one record. It holds the program's fields
under the names of the source and, last, *history* that only properties read:
how often each request was answered, which unusual calls or failures happened
(`hist`, `odd`), how a released object was touched (`touched`) and whether an
assertion failed (`aborted`). A property that excepts something names it there, so
that what is excepted is part of the statement.

`TcpClient`: name lookup with both families, asynchronous connect and its
timeout, SSL negotiation and shutdown, the queue of writes, the reconnection and
rate timers, disconnect, request to disconnect, reset and destroy, called by the
loop's program or inside any callback. `kq` is what is armed on each descriptor.
`TcpServer`: one `CONN_HND` of the arena through connection after connection on
one descriptor: accepted or received from another process, protocol guessed by a
peek and a timeout, SNI and deferred handshakes, SSL accept and shutdown, queue of
writes, requests to close, transfer with its time limit, and the end of the server.
`TcpListeners`: the server as owner: slots, sockets, what is configured per slot,
the connections of each listener (`servers`, with the next one a walk has saved),
references, and the cache of certificates with its wildcard names. `SelfSync`: how what a connection reads is gathered and cut at
the token of its listener. `TcpClientPool`: making clients, passing calls on to
them, and both methods of choosing the one that writes.
`UnixLink` composes the two ends of a UNIX socket, the client and the server's
connection, over two buffers of a few units: framed requests with ACKs that are
sent as soon as there is room, retries that give up, plain bytes, a close at
either end, and the next connection. A handler up to its callback is a step,
since the program writes from inside callbacks. `UnixClient` is the life of the
client: connect, its timeout, the reconnection and rate timers, destroy.
`UnixClientPool` is the pool, which counts what a client has yet to acknowledge
as load.

### Memory

`MemBuffer` follows the allocation byte by byte, since several functions read
behind the content; `ideal` is what the program put in. `DynBitMap` is the bitmap
with its highest bit and count, a module of operators. `MappedBuffer` uses it: a
buffer filled at any offset in any order, with whole pages marked and begun pages
kept as partials, as sets of positions. `MemStream` is the list of nodes and its
mutex, which is not recursive. `HashTable` has the table with its cursor and the
associative array over it; `StringHash` is computed in 32 bits. `HashTableV2` has
the table of items that belong to the program, whose buckets come and go.

### Requests

`FileMapped` is a file filled by writes at any offset in any order, through the
threads of the AIO base: each call is a state that waits for its requests;
workers carry requests out in any order, the loop collects them in any order, and
the process may die in between (`DiskTellsTruth` speaks of the disk in every
state, so of every crash). Both values of `truncate_file` are followed, chosen at the
start; `erased` are the bytes that a reopening with that flag removed and nobody
has written since. `ThreadAIO` is that base itself with its workers;
`KernelAIO` the same service by the kernel's queue. `AioPq` is the pool of
PostgreSQL connections, with libpq external. `Icmp` is the pinger on top of the
ICMP base.

Operators whose comment begins with *Slip*, and those listed in `PROJECT.json`
under "mutants", are the code with one plausible mistake. Nothing uses them in a
run; they show that each property can fail.

`MC*` modules instantiate a specification for TLC. `MCMemory`, `MCComm` and
`MCRequests` hold several parts that do not interact: `part` is chosen at the start
and never changes, and a property speaks of one part or of the same question in
several. `CommParts` holds the parts of `MCComm` that are also proved about. Eight modules hold theorems: `MemSlotLemmas`, `ThreadPoolProofs`,
`EvTimersProofs`, `EvJobsProofs`, `EvKQueueProofs`, `FileMappedProofs`; `OwnershipProofs`, about
what has one owner (the slots of a `MemSlot`, and those, the sockets and the
certificates of a server); and `ClientProofs`, about the resolver and the pools of clients.

## 4. Runs

| Run | Bounds | What it shows |
|---|---|---|
| `Memory` | slots: 4 slots, 2 lists, blocks of 2: two blocks, so one is freed while the other lives; every switch between two lists. buffer: 3 bytes that grow by 3, 5 calls. mapped: pages of 3, file of 8, 4 writes, 2 bits a byte. stream: nodes of 2, 6 bytes, 6 calls. tables: 3 keys, 4 items on tables of 2 and 3 slots; 3 items of which 2 keys share a bucket | a MEM_SLOT is well formed, its arena bits exact, it implements `SlotPool`; containers hold what was put in |
| `ThreadPoolSafe` | 2 job slots in one block, up to 3 workers (1 started, growing), 2 jobs of any kind, or 3 of one mix after a cancel (`ThirdJob` of `MCThreadPool`), 1 cancel or destroy (`EitherOr`), `pthread_create` may fail | slots, ownership, at most once, no lost notification, FIFO; a block freed under a job only where a cancel and a worker overlapped |
| `ThreadPoolLive` | 2 workers, 3 jobs over 2 slots (a slot is reused, an enqueue may be refused), no cancel | accounting, collection, stranding only when all sleep |
| `ThreadPoolDestroy` | as above | *refuted*: thrd_pool_base.c:111, the wait for shutdown ends |
| `EvTimers` | 2 timer slots, 1 descriptor with 3 timeouts, 3 adds (ids are reused), 2 changes between calls of `kevent()` | slots, timeouts, kernel agreement, one-shots end |
| `EvTimersStale` | 3 changes (delete, then add, in one batch) | *refuted*: ev_kq_timer.c:237, a deleted timer's event is stopped |
| `EvJobs` | 2 slots, counts 0 and 1, a job of one day and one of every day, 2 days of 3 ticks, of which a job is "recent" for 1 | once a day, jobs run, slots exact, each visited once until a callback deletes the next job |
| `EvJobsWeekly` | 7 days | *refuted*: ev_kq_jobs.c:460, the cap means today |
| `EvKQueue` | 1 descriptor number, used again after each close; read, write and end of file; one change pending when a client makes another (a close adds up to two more) | own events after a linger, closed sockets silent, open ones heard, a close ends |
| `DnsResolver` | 2 slots, 2 queries (the second may reuse the slot of the first), 1 retry | lists exact while no reply is late, told exactly once whatever comes, a query ends while the timer runs |
| `Comm` | client: 2 descriptors (a reconnection gets the other number), 5 configurations, 2 writes, 1 retry, 2 connects, 2 calls of the program besides its callbacks. server: 3 configurations, 2 connections one after the other with 1 call or one with 2, 2 writes, 1 retry. listeners: 2 slots, 2 additions, 2 connections, 2 certificates, 3 names. requests: tokens of 1 and 2 bytes, 6 bytes. pool: 3 clients, 2 writes. link: 2 slots an end, buffers of 2 units, 2 requests of 1 or 2 units, 1 refused `sendmsg()`, 2 connections. unix: 2 descriptors, 4 connects, 4 calls. unixpool: 3 clients, 3 writes | nothing is left behind, told twice, stranded or given to the wrong owner; a request crosses a UNIX socket whole |
| `Requests` | file: 2 pages, the second short, truncating or not, 3 requests, 3 calls (truncating: 2, and a third once it was opened again with bytes in it), 2 owners. threads: 3 slots, 2 jobs, 2 workers, 2 calls. thread: 2 slots, 2 jobs, 1 worker, 2 calls and a third once a descriptor was opened or closed. kernel: 2 slots, 3 calls. pq: 1 connection that grows to 2, 3 queries, 2 failures. icmp: 2 slots a family, 2 sends, reset after 2. deferred: 2 descriptors in one direction or one in both, 2 calls | each request answered once, slots and counts exact, something watches all that waits, the metadata on disk tells the truth |

Bounds are named constants: `MaxJobs`, `MaxCancels`, `MaxAdds`, `MaxChanges`,
`ChgMax`, `AddsPerWalk`, `MaxQueries`, and in the larger modules `MaxCalls`,
`MaxWrites`, `MaxConnects`, `MaxAccepts`, `MaxConns`, `MaxReq`, `MaxSends`,
`MaxFaults`, `MaxBytes`, `MaxItems`. One descriptor number is enough for
`EvKQueue`: the client may act on it at any step, so what a callback of another
descriptor would do to it happens anyway, and the theorems hold for any number.
Two connections, queries, requests or certificates are the least for which a slot
is used again and one can be taken for the other; two calls besides the callbacks
let the program do something between any two steps of the library. The bounds are
enough in the sense that every action fires, every slot is used, freed and used
again, and pools and queues run full. `ThirdJob` is there for a lost bit, which does
harm only to a job that takes the slot afterwards: a job is released while
another is cancelled, and a third takes the slot whose bit was set by mistake. `ThirdCall` of `MCRequests` likewise follows a third call
only where the two before it left something that a second call would not find. The largest runs are
`Requests` (3.0 million states) and `ThreadPoolSafe` (2.8 million). `AddsPerWalk` also states an assumption: a job
callback that adds a job with count 0 may see it run in the same walk (the
comment of comm/core/tcp/comm_tcp_client_ssl.c:49 says "NEXT IO LOOP"), and two jobs
that add each other would keep the walk from ending.

`CHECK_DEADLOCK FALSE` stands in the thread pool's configurations because the
client owes no further call and an `aborted` or destroyed pool stops, in that of
`EvJobs` because a callback may end the program (`WalkStops`), in those of the resolver, `Comm`, `Requests` and `Memory` because a program has a bounded
number of calls and what it destroyed, or what aborted, does nothing more.

The refuted runs are disagreements between the source and its own comments,
described under "findings" in `PROJECT.json`; the runs that pass show what holds
in spite of them.

`Comm`, `Requests` and `Memory` state no liveness. "Something watches it" is
checked as an invariant instead: whatever waits has a handler, a timer, a job or
a running walk that will come to it (`ClientMovesOn`, `ServerServes`,
`RequestsAccounted`), which is what the code owes; that events come in the end is
the kernel's part.

### Fairness

*Thread pool.* Every thread that can step does (weak fairness per worker and for
the main thread inside a call). The main thread returns to the loop and polls the
pipe, and a finish callback returns, however many calls the client makes before:
strong fairness, since those steps are interrupted, not disabled, by client
calls. No fairness on client calls, nor on spurious wake-ups — POSIX owes none.
*Timers.* Intervals end; the loop calls `kevent()`; callbacks return; the finitely
many descriptor events of a batch do not keep it from its end. *Jobs.* The loop
turns, callbacks return, time passes, the timer of the timed jobs fires in every
tick (the loop's wait is bounded by that timer itself). *Resolver.* Handlers and
callbacks return; a full socket can be written in the end; the loop dispatches
the write event and expired timers; timeouts pass. No reply is owed.
*Descriptors.* The loop goes on (weak fairness of its turn as a whole), so
callbacks return and `kevent()` takes the changes; nothing is owed by clients or
by the kernel's readiness.

## 5. Theorems

| Theorem | Says | Run that checks the property |
|---|---|---|
| `OwnershipProofs!MemSlotSafe` | `[](TypeOK /\ PoolWellFormed /\ ArenaExact)` | `memory` |
| `OwnershipProofs!ArenaKeepsNothingElse` | `[]ArenaExact` | `memory` |
| `OwnershipProofs!MemSlotImplementsSlotPool` | `MemSlot` implements `SlotPool` | `memory` |
| `ThreadPoolProofs!ThreadPoolSlotsSafe` | `[](TypeOK /\ JobSlotsWellFormed)` | `thread_pool_safe` |
| `ThreadPoolProofs!ThreadPoolOneOwner` | `[]OneOwner` | `thread_pool_safe` |
| `ThreadPoolProofs!ThreadPoolLosesNoCompletion` | `[]NoLostCompletion` | `thread_pool_safe` |
| `ThreadPoolProofs!JobsRunAndReplyOnce` | `[]AtMostOnce` | `thread_pool_safe` |
| `ThreadPoolProofs!JobsStartInOrder` | `[]NoOvertaking` | `thread_pool_safe` |
| `ThreadPoolProofs!NoJobIsLost` | `[](NoCancelYet => JobAccounted)` | `thread_pool_live` |
| `ThreadPoolProofs!NoJobIsLostWithoutCancel` | `MaxCancels = 0` gives `[]JobAccounted` | `thread_pool_live` |
| `EvTimersProofs!TimersLeakNoSlot` | `[]SlotsMatchTimers` | `ev_timers` |
| `EvTimersProofs!TimeoutsOwnTheirTimers` | `[]TimeoutOwnsTimer` | `ev_timers` |
| `EvTimersProofs!KernelKeepsUp` | `[]KernelAgrees` | `ev_timers` |
| `EvJobsProofs!SlotsAreActiveJobs` | `[]JobSlotsExact` | `ev_jobs` |
| `EvJobsProofs!WalkVisitsEachOnce` | `[]EachOnce` | `ev_jobs` |
| `EvJobsProofs!TimedJobRunsOncePerDay` | `[]OncePerDay` | `ev_jobs` |
| `EvKQueueProofs!LingerIsEnough` | `[]OwnEvents` | `ev_kqueue` |
| `EvKQueueProofs!ClosedIsSilent` | `OnlyOpenCalled` | `ev_kqueue` |
| `EvKQueueProofs!ClientIsHeard` | `[]Heard` | `ev_kqueue` |
| `EvKQueueProofs!KQueueTypes` | `[]TypeOK` | — |
| `ClientProofs!QueriesAnsweredOnce` | `[]AnswerOnce` | `dns_resolver` |
| `ClientProofs!ListsStayExact` | `[]ListsExact` | `dns_resolver` |
| `ClientProofs!PoolsSelectConnected` | `[]PoolSelectsConnected` | `comm` |
| `OwnershipProofs!OwnersKept` | `[]ServerKeepsOwners` | `comm` |
| `FileMappedProofs!MarkedPagesAreOnDisk` | `[]DiskTellsTruth` | `requests` |
| `FileMappedProofs!FileLivesAsReferred` | `[]LivesAsReferred` | `requests` |

`ThreadPoolProofs!JobsInvariant` and `EvJobsProofs!EventJobsInvariant` state the
inductive invariants themselves.

Assumptions: `PoolAssumption`, `ThreadPoolAssumption`, `TimersAssumption`,
`JobsAssumption`, `KQueueAssumption`, `ResolverAssumption` and `FileAssumption`, which
give the constants their ranges (numbers are positive, at least three lists in
the thread pool, one list for timers, two for jobs, two slots for file requests).

*MEM_SLOT.* `MemSlotLemmas` proves, for each operator, that it keeps `WellFormed`
and how it changes the sets `FreeIds`, `OnList(l)` and the bits. The operators
are sequences; the lemmas turn them into sets once, and every later proof reasons
about sets. `IInv` of `OwnershipProofs` is the conjunction itself. The refinement
maps a state to the list each slot is on; each call maps to one abstract step or
a stutter (`GrabByID`, a switch to the same list).

*Thread pool.* None of the three properties is inductive alone. `IInv` adds where
the main thread's locals may point (`MainLocals`), which program counters hold
which mutex (`Locks`), and what a worker about to publish has done to its job.
`TakeJob` needs that only the holder of the condition mutex takes from PENDING and
that only the main thread grabs; `FreeDone` needs that the collector's job is
still the head of DONE across the callback, which holds because workers append
at the tail and only the main thread frees from it.

`JobSlotsWellFormed` says besides that the block of a listed job is there, unless it is one of
`overlapped`. `ArenaInv` shows it, for the other blocks (`BlockExact`): the count is
the number of bits set, one more while a worker has cleared its bit and not yet
counted (`CountExact`); and what a worker or a cancel has loaded is still what is there when
it stores (`HolderExact`, `SeekerExact`), since only one of them is in the
block. In an overlapped block none of this holds, and the run finds the block
freed under a job. That a job on a list keeps its bit holds everywhere (`IInv`): a stale
byte is stored by a cancel, which finds the bits of listed jobs set, or by a worker, whose mutex keeps
every other worker and every new job away from the list.

*Jobs of the pool.* `AtMostOnce` speaks of the tickets of jobs, and a slot is used for
many of them. `JobInv` of `ThreadPoolProofs` therefore says where each ticket is:
those on PENDING are the last accepted ones, in order (`QueueInOrder`, which excepts
the slot that is grabbed but not yet filled); no two slots on WORKING or DONE carry the same
ticket (`TicketsExact`); and what was told of a ticket is what the program counter of its
worker, or the collector's, says (`StagesTold`). `NoOvertaking` is a consequence of the
order alone. For `NoJobIsLost` one must know besides that a worker that skips the
reply was right to: `AccountInv` says that until the first cancel no flag word is
marked cancelled, neither in a record nor in the copy a worker has loaded, and that
`clean` is set only for jobs without a finish callback. The hypothesis cannot be
dropped. A handle is a slot id; when the slot is used again before
`ThreadPoolJobCancel`, the cancelled job is another one than the client means, and that
job is then neither cancelled by its client nor replied to. With cancels the
instance of `thread_pool_safe` checks `AtMostOnce`, which does hold.

*Timers.* `TInv` says of the tuple of pool, records, timeouts and changes that it
is `Consistent`; since `TimeoutClearAll` composes three clears, the lemmas are
about `ClearTimeout` on a tuple, not about actions. `SlotsMatchTimers` needs
`TimeoutOwnsTimer` and conversely: a cleared timeout frees a slot safely only if
the timer it names is in use. `KInv` adds, for `KernelAgrees`, what the kernel will have
once the change list is applied: for each slot `Told` compares the timer's record
with the kernel's, or finds its event in the batch. A slot may be released and taken
again between two calls of `kevent()`, so the list may hold a deletion and an addition of
the same id, and only what is left after all of them counts.

*Changes in order.* The change list is applied by a fold, whose definition is a recursive function
over the elements that are left. The lemmas `StagesApply` and `ApplyAppend` (in
`EvTimersProofs`, and their likes in `EvKQueueProofs`) give what a proof
needs of it: an empty list changes nothing, and a list with one change more is the list followed
by that change. They rest on induction over the length, proved from the least
element of a set of naturals (`LeastNat`, `InductNat`), since the library's
induction theorem takes an operator. Every action that adds changes adds
them at the end, so nothing more of the fold is used.

*Jobs of the loop.* `JInv` says what the walk depends on. The node that a
walk saved before a callback is still on the list it walks (`WalkInv`), unless it
was deleted (`cut`); what is to be visited lies behind that node and what was
visited lies before it. The job whose callback runs is on the list (`RunInv`) or was deleted by it. `OncePerDay` needs that a timed job that
ran today says so in `invoke_day` or is running right now (`DayInv`).

*Descriptors.* `KInv` says why one loop is enough: a close job whose wait is over
(`Closes`) finds no change of its descriptor in the list (`ChangesApplied`), since
the close took the handlers away and `kevent()` has run since, and it runs when no
event is left (`Quiet`). So only a close at once leaves something behind, and
`quick` remembers it (`StaleIsQuick`). `Owned` gives the second theorem: a handler
is there only while its socket is open and not closing, and a callback starts only
with a handler. `Heard` asks in addition that an open socket is not marked closed
(`NotClosed`), since `kevent()`'s events of a closed one are dropped, and that the
knote of a persistent handler is present, not one-shot and as enabled as the handler
once the changes are applied (`Kept`): after its event is dispatched that knote is
all that will make it heard again.

*Resolver.* `AnswerOnce` holds whatever replies come, so its invariant `AInv` must not
use the lists at all, which a late reply may ruin. It speaks of slots and tickets: the data
of a query is there exactly while its slot is in use (`DataInUse`), no two slots in use
carry the same ticket (`TicketsOwn`), the handle a client still has names its own query, whose
callback has not begun (`HandleOwns`). `ListsExact` is about pointers. `Chain` and
`Holds` say that the pointers of a list are those of some sequence of nodes without
repetition; the lemmas `AddTail`, `AddHead`, `Detach` and `Wipe` follow the C functions
on that sequence, with the cases of a first, last and only node; `HeldIsList` gets
back to the definition that walks the pointers, at the first place where the two
would differ. `LInv` adds that the free slots are those not in use, each once, and, until
a late reply has come, that the lists hold the queries to be sent and those awaiting a reply
(`Placed`), and that the walk of the timer stands on one that awaits its reply
(`WalkAwaits`), as does the one whose callback runs: that is why `reply_list` is the right
list to unlink it from.

*Listeners.* `Owned` of `OwnershipProofs` is inductive, with every failure and reuse the
model has. `Slotted`: as long as no slot was given back twice, a slot is free exactly when its
listener is not active or failed; as long as none failed, the free and the listed ones are as many as
there are slots. `Socketed`: a socket has the number of the listener it was made for, so
no two listeners share one, and those open are those of the active listeners. `Linked`: a connection
names the listener that is in its slot, unless a walk was cut. `Certified`: the cache holds
living certificates, each under one name, and a handshake points to a living one unless one was
replaced under its wildcard. The theorem `OwnersKept` is
for any number of slots, descriptors, connections, names and certificates. Its hypothesis
`ListenersFit` says that there is a slot and what `MCListeners` may ask for.

*Pools.* What a pool selects is computed by a scan over its clients, a recursive
function. `IsScan` states its outcome without recursion, and is proved of the function from a
least counterexample (`LeastNat`). `PoolOk` and `UPoolOk` say of every choice made so far: the
round robin misses a connected client only in a pool that is not full (`missed`); otherwise a
pool with a connected client chooses one, and under least load none behind the chosen one is better
(TCP), or none at all (UNIX).
Nothing in it depends on the number of clients (`PoolsFit`: a pool has room for
one). A write that goes to a client that is not connected needs that no client is.

*Mapped file.* The bitmap is copied: into the snapshot of a request, into the
buffer that waits until that request is done, into the metadata file, and back when
the file is loaded. `Sound` of `FileMappedProofs` says of each copy what `DiskTellsTruth`
says of two (`Told` is all of them). It needs two facts about requests: one that writes data
starts at a page or stays within one (`Paged`), or `MarkWritten` could mark a page
of which only the end was written; and one that a worker reports as written is in
the file. The rest is division by the size of a page.

`LivesAsReferred` is about counters, and a counter is right at the end of a call only
if the call accounts for what it has done so far. `Live(g, X, N, d)` is therefore
stated in the middle of one: `X` are the requests taken from the queue and not yet
given back, `N` the number of the call that is being made, `d` the references it has
dropped already. `Lives`, which holds between calls, is the case of nothing taken and
nothing owed. It says that the references are those of the program and of the requests (`Counts`),
that each request has a slot of its own (`Slots`) and a state that waits for it (`Waits`),
that a state which was cancelled calls nobody (`Hushed`), and that the partial pages
and the writes under way lie on different pages (`Held`, `PagesOf`): that is why the end
of one write frees no partial page from which another is being written. The proof uses the
truth of the bitmap (`Sound`) and that there are at least two slots (`FileAssumption`), without which
a file could not be loaded.

## 6. Only model-checked

Liveness (`DoneIsCollected`, `OnlySleepersStrand`, `OneShotEnds`, `JobRuns`,
`QueryEndsIfWatched`, `CloseEnds`) rests on fairness, which the prover does not
handle. `JobAccounted` after a cancel is not a property of the code, as said above, and
`thread_pool_live` has no cancel.

The other properties of `Comm`, `Requests` and `Memory` (`ClientLeavesNothing`,
`ClientMovesOn`, `ClientAnswersOnce`, `ServerServes`, `ServerTellsOnce`, `ServerClosesCleanly`,
`RequestsWhole`, `RequestsAnsweredOnce`, `RequestsAccounted`, `ContainersHold`) are checked on the
instances above. Each joins several components, with many more handlers than those
proved about, and an inductive invariant for one of them is work of the size of
the resolver's; they come next, in the order of the plan.
What a proof there would not reach: `HashTable` uses `Bitwise`, and modules with a
recursive operator lose the SMT backend. What a recursive *function* or a fold computes can
be proved by induction from the least element, as is done for the change lists.

### What the properties except

`ListsExact` (of the lists) and `QueryEndsIfWatched` except behaviours in which a
reply comes for a query that was put back to be sent again (`late`): line 699
then unlinks it from the wrong list, the lists are no longer well formed and
queries behind it may be stranded. `AnswerOnce` and the exactness of the free
slots hold even then. `QueryEndsIfWatched` also supposes that the timer is never off
while a query is in use. It may be: comm_dns_resolver.c:415 leaves the timer off
when no reply is awaited ("Nothing to check"), although a query may wait to be
written, and nothing times that query out once it is written.
`OnlySleepersStrand` likewise: thread/thrd_pool_base.c:236 signals the condition
without its mutex, although the comment above the lines says "BROADCAST ... to the thread
POOL", so a worker about to sleep misses it; a job is stranded in no other way.

`KernelAgrees` and `OneShotEnds` except a timer that was ever disabled: when the
event of a one-shot timer is already in the batch, the kernel has dropped the
timer, a callback that disables it makes the dispatch skip the event, and a later
enable is refused by the kernel (ENOENT, ignored). Such a timer stays in use and
never fires. Nothing in the source promises otherwise.

`OwnEvents` excepts sockets closed without lingering (`close_linger` is off, or
the jobs have no slot left): an event of the old socket can then be dispatched to
the handler of the next one. Nothing in the source promises otherwise, and the
option exists for that reason.

Each of the following was met while translating the code. The model has the
behaviour, with a history flag where a property must except it, and the property
says what holds otherwise.

*Deferred events.* A descriptor deferred for writing that is closed stays on the list
(ev_kq_defer.c:74 resets its flags only), so its next deferral links it twice and
the walk may not end (`stray`). The write walk continues in the read loop (`goto
read_loop_without_move`, :448), asking read checks of descriptors that wait to
write. A volatile check is disabled by its own telling, so the walk never asks again. A
volatile event set while a persistent one is deferred is spent (`missed`).

*TCP client.* Four handlers touch a client that their callback destroyed: the
resolver's, the SSL shutdown, the rate timer, and the second of two lookups after a
`Reconnect` while resolving (`touched`). A `Reconnect` inside CLOSE overwrites
the rate timer's id (`reopened`). A shutdown job scheduled for one connection runs on the next
(`stale_job`). Cancelling READ before the connection is up ends the negotiation
(`muted`). A write before the descriptor exists is queued for descriptor -1
(`early`). SSL that wants the other direction replaces that handler (`crossed`).

*TCP server.* Handlers go on with a `CONN_HND` that their callback closed
(comm_tcp_server.c:912, :984, :1087, :1289, :1541, :1646, :2103), which touches
freed memory when it was the last of its block or when the callback destroyed the
server. A vectored write is never told (comm_tcp_server_conn.c:229). After a
plain write error the rest of the queue has no event (`fatal`). A write during the
SSL shutdown replaces its handler (`behind`), cancelling READ strands it (`unread`).
An acknowledgement of a transfer after its time limit finds no connection (`late`).

*Listeners.* `ListenerAdd` ignores a failed `TCPInit`: the slot is free and the
listener listed (`failed`); the next listener trips the assertion of
comm_tcp_server.c:286, and deleting the first gives the slot back twice. The
handlers, the certificate file and `self_sync` of a slot are inherited from its
former listener (:310-323). The walk that closes connections saves the next node
(:190) and ends early when a write told -1 closes that one (`cut`). The
cache of certificates looks a name up as given and adds it under its wildcard, which frees the
certificate another handshake points to (:542-556, `replaced`). With `read_stream`
and `self_sync` nothing is ever dispatched (:1871).

*Pool of clients.* The round robin counts modulo `cli_count_max`
(comm_tcp_client_pool.c:283), and so can miss connected clients, which `missed`
records; least load prefers a smaller total to a smaller queue (:249).

*UNIX sockets.* Three things break the framing (`spoilt`): an ACK sent inside a
request that is partly written (comm_unix_client.c:1098, comm_unix_server.c:1075),
a request given up in its middle, and a client that connects again while half of
a request is read. A request that the end of the connection drops before it is
written is told so, but not that no ACK will come, and its descriptors stay open.
A request of the client that is larger than the socket's buffer is never sent and
holds up those behind it (:1132); `close_request` never closes once requests
are pending, although the comment says "close as soon as we finish writing all"
(:280). A handler of plain writes stops when a write uses up the window the kernel
told it and arms nothing, so that the writes behind it wait until the program writes
again (`stop`, comm_unix_client.c:1053, comm_unix_server.c:864). The server looks at
a plain write after it freed it (comm_unix_server.c:389). Descriptor 0 counts as none
in the client (comm_unix_client.c:257, :1355), which is not met here: descriptors start at 1. A client told to reconnect while a reconnection timer
is armed overwrites its id (`twice`); an interrupted `connect()` or a write before
the connection leaves it stranded (`interrupted`, `early`). The pool's round robin
counts modulo `cli_count_max`, as that of TCP does.

*Mapped file.* A crash may leave whatever the metadata do not tell of, which is the
promise. Excepted, under `odd`, after which nothing more is asked of the file: an `Open` while a close is pending is told
"opened" (ev_kq_file_mapped.c:240); a reissued metadata write that fails leaves the metadata
locked (:2578); `Completed` after the last block writes its partial again
(:357); `CancelAllByOwner` in a finish callback misses notifications (:2164);
a last reference dropped by a read closes no files (:2880). Not under `odd`, but named in
`DiskTellsTruth`: the last page is marked before its write (`early`, :1327), and `Open` empties the
files again when `truncate_file` is set, although the comment at :259 says "Open files
with TRUNC OFF", while the bitmap still tells of the pages (`erased`).

*Thread pool.* A cancel that runs beside a worker's switch or release of a job may
lose the worker's update of the arena or have its own lost (mem_arena.c:246-251, 294-296;
thrd_pool_base.c:170 takes no mutex): the block of a job on a list is then freed, or never
(`overlapped`). In the same way `cancelled` and `finished` overwrite each other
(:171, :575): without `finished` the collector's assertion fails (`aborted`), without
`cancelled` the job is replied to; no property says that either cannot be.

*Jobs of the loop.* A callback that deletes its own job or the one the walk goes
to next (`cut`) leads the walk to freed or reused slots; see `EvJobs` above.

*File requests.* A read of size -1 makes `queue_sz` negative (thrd_aio_base.c:1397);
a short write is told as whole (:1250) and a failed shell command as done (:1811);
a cancelled open leaves its descriptor open; destroying the base leaves pending
calls untold. In the kernel's queue a call that fails at once is both told and
refused (ev_kq_aio_file.c:143), and a request done while no job slot is free is
dropped (:159, :437). The completion events come on systems with `EVFILT_AIO`; on
Linux the branch is compiled out (:513).

*PostgreSQL.* A connection lost with a query on it leaves the query on the list of
replies for ever, counted as busy (`lost`); a client being reconnected is handed out
offline, where an assertion fails; a query refused at once does not arm the
timer; `Destroy` tells nobody.

*ICMP.* The walk of the timer calls back before it cancels by slot
(comm_icmp_base.c:685), so a callback that cancels its own request, or destroys
the pinger, makes it free slot 0 instead, or abort (`swept`, `aborted`). A late
reply to a slot used again answers the new request. `Stop` keeps the timer's
id, so `Run` does not start again (comm_icmp_pinger.c:230), and `Destroy` deletes
timer 0 when no lookup timer was ever set (:182).

*Memory.* `MemBufferOverwrite` adds offset and length to the size whatever it was
(mem_buf.c:382); `Dup` and `UnPack` count the offset twice (:316, :1751);
`ShrinkToToken` reads one byte past the content (:213). In a mapped buffer the end
of a partial counts its offset twice (mem_buf_mapped.c:985) and `GetValidBytes` claims
holes (:529). A stream for threads locks its mutex twice (mem_stream.c:216) and
returns with it locked (:496). The first item of a table's walk is given twice by
First and Next (hash_table.c:166); replacing in an associative array counts the
item again (assoc_array.c:118). A version 2 table compares over the size of the key
that is sought (hash_table_v2.c:253), so it may find a longer key.

## 7. Not modelled

IPC with child processes (fork, pipes, and a queue like those of the sockets),
internal events and the object registry (a hundred lines each, called by every
constructor) would be next. The listeners of UNIX servers and the passing of
descriptors themselves (`SCM_RIGHTS`) are left out of `UnixLink`. Text (strings, regular expressions, JSON, metadata), cryptography, wrappers of
SSL, SSH and serial lines, the logger and the daemon, statistics: they
compute functions that test vectors cover, or call libraries whose behaviour is not in
this repository. Signals keep two tables and call `sigaction`. Other containers
(LRU, radix tree, dynamic array, tables of addresses) are sequential and used by no
modelled part.

Within modelled parts: log output, times in microseconds, rates, addresses and
socket options, packets of DNS and ICMP and the texts of queries, hooked I/O and buffer
transformers, encryption of buffers, the packing of metadata, the layout of arena
blocks, the destruction of the pool of TCP clients, and `MemSlotBaseSlotListSizeAll`, which locks the mutex twice and
appears as the step `GrabFails` when a log base is set.
