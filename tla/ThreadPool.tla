----------------------------- MODULE ThreadPool -----------------------------
(***************************************************************************)
(* The thread pool (thread/thrd_pool_base.c): the thread that owns the     *)
(* event loop enqueues, cancels and collects jobs; worker threads run      *)
(* them.  A job is a slot of a MEM_SLOT whose lists are the job's stage.   *)
(*                                                                         *)
(* Two mutexes protect the pool.  jobs.memslot.mutex (memMutex) covers     *)
(* every list operation; jobs.memslot.thrd_cond.mutex (condMutex) covers a *)
(* worker's test of the PENDING list and its pthread_cond_wait, but not    *)
(* the enqueuer's pthread_cond_signal.  The flags of a job share one word  *)
(* that workers and the main thread update by load and store under no      *)
(* mutex, so those updates are two steps here.  So are the updates of the  *)
(* arena's bitmap and count that ThreadPoolJobCancel makes, which takes no *)
(* mutex (the arena of a MEM_SLOT has none of its own), and those of the   *)
(* workers, whose mutex does not keep a cancel out.                        *)
(***************************************************************************)
EXTENDS MemSlotOps

CONSTANTS WorkerStart, WorkerGrow, WorkerMax,  \* config.worker_count_*
          Notify,         \* flags.kevent_finish_notify, with an ev_base
          Logging,        \* a log_base is set, so KQBASE_LOG_PRINTF evaluates its arguments
          CreateMayFail,  \* pthread_create may fail
          Kinds,          \* the job prototypes the client submits, see JobKinds
          MaxJobs,        \* bound: jobs the client enqueues
          MaxCancels,     \* bound: calls of ThreadPoolJobCancel
          MayDestroy      \* the client may call ThreadPoolBaseDestroy

\* retval_type NONE; a value but no finish callback; a value and a finish callback
JobKinds == {"none", "silent", "reply"}

ASSUME ThreadPoolAssumption ==
    /\ ListCount >= 3
    /\ WorkerStart \in Nat \ {0} /\ WorkerGrow \in Nat \ {0} /\ WorkerMax \in Nat \ {0}
    /\ {Notify, Logging, CreateMayFail, MayDestroy} \subseteq BOOLEAN
    /\ Kinds \subseteq JobKinds /\ Kinds # {}
    /\ MaxJobs \in Nat /\ MaxCancels \in Nat

PENDING == 0        \* THREAD_LIST_JOB_PENDING
WORKING == 1        \* THREAD_LIST_JOB_WORKING
DONE == 2           \* THREAD_LIST_JOB_DONE

Workers == 0 .. WorkerMax   \* the instances memslot has worker_count_max + 1 slots
Tickets == 1 .. MaxJobs     \* one per job ThreadPoolJobEnqueue accepts, in call order
NoSlot == -1
NoOne == -1
Main == -2

Flags == [in_use : BOOLEAN, cancelled : BOOLEAN, finished : BOOLEAN]
NoFlags == [in_use |-> FALSE, cancelled |-> FALSE, finished |-> FALSE]
Job == [flags : Flags, kind : JobKinds, ticket : Tickets \cup {0}]
BlankJob == [flags |-> NoFlags, kind |-> "none", ticket |-> 0]

Blocks == {BlockOf(s) : s \in SlotIds}
InBlock(b) == {s \in SlotIds : BlockOf(s) = b}
\* The slots whose arena bits share a byte of the bitmap of the block.
SameByte(s) == {t \in InBlock(BlockOf(s)) : (t % BlockSlots) \div 8 = (s % BlockSlots) \div 8}
Registers == [bits : SUBSET SlotIds, count : Int]
NoRegisters == [bits |-> {}, count |-> 0]

WorkerPCs == {"off", "top", "lock", "check", "park", "waiting", "take", "unlock",
              "begin", "run", "load_in_use", "store_in_use", "load_finished",
              "store_finished", "publish", "switch", "notify", "release", "clear", "count",
              "exit", "exited"}
States == {"NONE", "STARTING", "FREE", "BUSY", "FAILED", "DONE", "SHUTDOWN"}
MainPCs == {"idle", "scan", "launch", "grab", "fill", "signal", "return", "stuck",
            "seek", "add", "load", "mark", "cancel", "point", "reply", "callback", "free",
            "flag", "join", "gone"}

VARIABLES jobs,       \* thread_pool->jobs.memslot
          rec,        \* the ThreadPoolInstanceJob in each slot
          memMutex,   \* holder of jobs.memslot.mutex across steps: a worker, Main or NoOne
          data,       \* the arena blocks that are allocated, mem_arena->data
          busy,       \* busy_count of each arena block
          holder,     \* a worker's registers of an update of the arena, under memslot.mutex
          seeker,     \* a cancel's registers of an update of the arena
          overlapped, \* blocks a cancel and a worker have updated at the same time
          condMutex,  \* holder of jobs.memslot.thrd_cond.mutex: a worker or NoOne
          wrk,        \* the worker threads: pc, locals and their ThreadPoolInstance
          launched,   \* instances.memslot.list[0].size
          main,       \* the main thread: pc and locals of its calls
          pipe,       \* notifications in the notify pipe
          aborted,    \* an assert() has failed, or a block was freed under a listed job
          accepted,   \* the kinds of the jobs ThreadPoolJobEnqueue accepted, in order
          ran,        \* how often the callback of each job has run
          replied,    \* how often the finish callback of each job has run
          handle,     \* the job id the client holds for each job, or NoSlot
          cancelled   \* jobs a completed ThreadPoolJobCancel was about

arenaVars == <<data, busy, holder, seeker, overlapped>>
vars == <<jobs, rec, memMutex, arenaVars, condMutex, wrk, launched, main, pipe, aborted,
          accepted, ran, replied, handle, cancelled>>
poolVars == <<jobs, rec, memMutex, arenaVars>>
clientVars == <<accepted, ran, replied, handle, cancelled>>

Worker == [pc : WorkerPCs, state : States, job : SlotIds \cup {NoSlot},
           clean : BOOLEAN,        \* heading for the clean_up label
           flags : Flags,          \* register of a flag update
           do_shutdown : BOOLEAN]
MainThread == [pc : MainPCs, ret : {"idle", "callback"}, kind : JobKinds,
               slot : SlotIds \cup {NoSlot},    \* thread_job of Enqueue / Cancel
               head : SlotIds \cup {NoSlot},    \* thread_job of ConsumeReplies
               flags : Flags, scan : 0 .. WorkerMax + 1,
               ticket : Tickets \cup {0}]       \* the job a Cancel is about

OffWorker == [pc |-> "off", state |-> "NONE", job |-> NoSlot, clean |-> FALSE,
              flags |-> NoFlags, do_shutdown |-> FALSE]

Pending == jobs.list[PENDING]
Waiting == {w \in Workers : wrk[w].pc = "waiting"}
Lowest(a, b) == IF a <= b THEN a ELSE b

(***************************************************************************)
(* ThreadPoolBaseThreadsLauch and ThreadPoolInstanceExecute: take up to    *)
(* count instance slots; a thread whose pthread_create fails is FAILED.    *)
(***************************************************************************)
LaunchTo(count) == Lowest(launched + count, WorkerMax + 1)
Launched(from, to, failed) ==
    [w \in Workers |->
        IF w \notin from .. (to - 1) THEN wrk[w]
        ELSE IF w \in failed THEN [wrk[w] EXCEPT !.state = "FAILED"]
        ELSE [wrk[w] EXCEPT !.pc = "top", !.state = "STARTING"]]
MayFail(from, to) == IF CreateMayFail THEN SUBSET (from .. (to - 1)) ELSE {{}}

\* ThreadPoolBaseNew.
Init == /\ jobs = NewPool
        /\ rec = [s \in SlotIds |-> BlankJob]
        /\ data = {} /\ busy = [b \in Blocks |-> 0] /\ overlapped = {}
        /\ holder = NoRegisters /\ seeker = NoRegisters
        /\ memMutex = NoOne /\ condMutex = NoOne
        /\ launched = Lowest(WorkerStart, WorkerMax + 1)
        /\ \E failed \in MayFail(0, launched) :
              wrk = [w \in Workers |->
                        IF w >= launched THEN OffWorker
                        ELSE IF w \in failed THEN [OffWorker EXCEPT !.state = "FAILED"]
                        ELSE [OffWorker EXCEPT !.pc = "top", !.state = "STARTING"]]
        /\ main = [pc |-> "idle", ret |-> "idle", kind |-> "none", slot |-> NoSlot,
                   head |-> NoSlot, flags |-> NoFlags, scan |-> 0, ticket |-> 0]
        /\ pipe = 0 /\ aborted = FALSE
        /\ accepted = << >>
        /\ ran = [t \in Tickets |-> 0] /\ replied = [t \in Tickets |-> 0]
        /\ handle = [t \in Tickets |-> NoSlot]
        /\ cancelled = {}

-----------------------------------------------------------------------------
(***************************************************************************)
(* MemArenaReleaseByID after the bit is cleared, p being the MEM_SLOT by   *)
(* then: the count of the block becomes n, and at 0 the block is freed.    *)
(* Its memory is zeroed when it is allocated again.  A block freed under a *)
(* job on a list leaves nothing to go on with.                             *)
(***************************************************************************)
Uncount(b, n, p) ==
    /\ busy' = [busy EXCEPT ![b] = n]
    /\ data' = IF n = 0 THEN data \ {b} ELSE data
    /\ aborted' = (n = 0 /\ Allocated(p) \cap InBlock(b) # {})
    /\ IF n = 0 /\ ~ aborted'
       THEN /\ jobs' = [p EXCEPT !.bits = @ \ InBlock(b)]
            /\ rec' = [s \in SlotIds |-> IF s \in InBlock(b) THEN BlankJob ELSE rec[s]]
       ELSE jobs' = p /\ rec' = rec

\* MemSlotBaseSlotFree up to the arena: the id is pushed and the node unlinked.
Unlisted(s) == [jobs EXCEPT !.free = <<s>> \o @, !.list = Unlink(jobs, s)]

\* MemSlotBaseSlotFree of a job by the main thread; the arena asserts the block and the bit.
FreeJob(s) == /\ memMutex = NoOne
              /\ IF BlockOf(s) \in data /\ FreeAsserts(jobs, s)
                 THEN Uncount(BlockOf(s), busy[BlockOf(s)] - 1, SlotFree(jobs, s))
                 ELSE /\ jobs' = Unlisted(s) /\ aborted' = TRUE
                      /\ UNCHANGED <<rec, data, busy>>
              /\ UNCHANGED <<memMutex, holder, seeker, overlapped>>

\* A cancel looks for its job in the arena; a worker updates the arena.
Seeking == main.pc \in {"seek", "add", "load", "mark"}
Updating(w) == wrk[w].pc \in {"switch", "clear", "count"}

-----------------------------------------------------------------------------
(* The main thread: ThreadPoolJobEnqueue, called from the event loop or     *)
(* from inside a finish callback.                                           *)

Callable == main.pc \in {"idle", "callback"}

\* Entry and the first test of ThreadPoolBaseThreadsGrowIfNeeded.
EnqueueStart(k) ==
    /\ Callable /\ Len(accepted) < MaxJobs
    /\ main' = [main EXCEPT !.ret = main.pc, !.kind = k, !.scan = 0,
                            !.pc = IF launched >= WorkerMax THEN "grab" ELSE "scan"]
    /\ UNCHANGED <<poolVars, condMutex, wrk, launched, pipe, aborted, clientVars>>

\* ThreadPoolAllBusy reads one thread_state per step; only FREE counts as free.
ScanWorker ==
    /\ main.pc = "scan"
    /\ main' = IF main.scan >= launched THEN [main EXCEPT !.pc = "launch"]
               ELSE IF wrk[main.scan].state = "FREE" THEN [main EXCEPT !.pc = "grab"]
               ELSE [main EXCEPT !.scan = @ + 1]
    /\ UNCHANGED <<poolVars, condMutex, wrk, launched, pipe, aborted, clientVars>>

LaunchMore ==
    /\ main.pc = "launch"
    /\ launched' = LaunchTo(WorkerGrow)
    /\ \E failed \in MayFail(launched, launched') :
          wrk' = Launched(launched, launched', failed)
    /\ main' = [main EXCEPT !.pc = "grab"]
    /\ UNCHANGED <<poolVars, condMutex, pipe, aborted, clientVars>>

\* MemSlotBaseSlotGrabAndLeaveLocked: the job is on PENDING before it is filled.
GrabJob ==
    /\ main.pc = "grab" /\ memMutex = NoOne /\ HasFree(jobs)
    /\ jobs' = Grab(jobs)
    /\ LET s == GrabId(jobs)
           b == BlockOf(s)
       IN  /\ data' = data \cup {b}
           /\ busy' = [busy EXCEPT ![b] = IF b \notin data THEN 1
                                          ELSE IF s \in jobs.bits THEN @ ELSE @ + 1]
    /\ memMutex' = Main
    /\ main' = [main EXCEPT !.pc = "fill", !.slot = GrabId(jobs)]
    /\ aborted' = rec[GrabId(jobs)].flags.in_use    \* assert(!thread_job->flags.in_use)
    /\ UNCHANGED <<rec, holder, seeker, overlapped, condMutex, wrk, launched, pipe, clientVars>>

\* No slot: the argument of the log line locks memslot.mutex twice
\* (MemSlotBaseSlotListSizeAll calls MemSlotBaseSlotListIDSize).
GrabFails ==
    /\ main.pc = "grab" /\ memMutex = NoOne /\ ~ HasFree(jobs)
    /\ IF Logging
       THEN memMutex' = Main /\ main' = [main EXCEPT !.pc = "stuck"]
       ELSE memMutex' = memMutex /\ main' = [main EXCEPT !.pc = main.ret]
    /\ UNCHANGED <<jobs, rec, arenaVars, condMutex, wrk, launched, pipe, aborted, clientVars>>

FillAndUnlock ==
    /\ main.pc = "fill"
    /\ rec' = [rec EXCEPT ![main.slot] = [flags |-> [NoFlags EXCEPT !.in_use = TRUE],
                                          kind |-> main.kind, ticket |-> Len(accepted) + 1]]
    /\ accepted' = Append(accepted, main.kind)
    /\ memMutex' = NoOne
    /\ main' = [main EXCEPT !.pc = "signal"]
    /\ UNCHANGED <<jobs, arenaVars, condMutex, wrk, launched, pipe, aborted,
                   ran, replied, handle, cancelled>>

\* pthread_cond_signal without thrd_cond.mutex: wakes one thread that waits now.
SignalCond ==
    /\ main.pc = "signal"
    /\ IF Waiting = {} THEN UNCHANGED wrk
       ELSE \E w \in Waiting : wrk' = [wrk EXCEPT ![w].pc = "lock"]
    /\ main' = [main EXCEPT !.pc = "return"]
    /\ UNCHANGED <<poolVars, condMutex, launched, pipe, aborted, clientVars>>

\* return thread_job->job_id, read when a worker may already have freed the job: from
\* memory given back it is any id.
EnqueueReturn ==
    /\ main.pc = "return"
    /\ \E id \in IF BlockOf(main.slot) \in data THEN {main.slot} ELSE SlotIds :
          handle' = [handle EXCEPT ![Len(accepted)] = id]
    /\ main' = [main EXCEPT !.pc = main.ret, !.slot = NoSlot]
    /\ UNCHANGED <<poolVars, condMutex, wrk, launched, pipe, aborted,
                   accepted, ran, replied, cancelled>>

-----------------------------------------------------------------------------
(* ThreadPoolJobCancel, with an id the client was given and for which its   *)
(* finish callback has not run.  MemSlotBaseSlotGrabByID takes no mutex and *)
(* MemArenaGrabByID, in the order of these steps, allocates the block if it *)
(* has to, counts the slot if its bit is clear, and sets the bit, by a load *)
(* and a store of busy_count and of a byte of the bitmap.                   *)

CancelFind(t) ==
    /\ Callable /\ Cardinality(cancelled) < MaxCancels
    /\ handle[t] # NoSlot /\ replied[t] = 0 /\ t \notin cancelled
    /\ LET b == BlockOf(handle[t])
       IN  /\ data' = data \cup {b}
           /\ busy' = [busy EXCEPT ![b] = IF b \in data THEN @ ELSE 0]
           /\ overlapped' = IF \E w \in Workers : Updating(w) /\ BlockOf(wrk[w].job) = b
                            THEN overlapped \cup {b} ELSE overlapped
    /\ main' = [main EXCEPT !.ret = main.pc, !.pc = "seek", !.slot = handle[t], !.ticket = t]
    /\ UNCHANGED <<jobs, rec, memMutex, holder, seeker, condMutex, wrk, launched, pipe,
                   aborted, clientVars>>

\* The block is there: header->busy_count, the bitmap and data[] are what they were.
BlockStays == BlockOf(main.slot) \in data

CancelTest ==
    /\ main.pc = "seek" /\ BlockStays
    /\ seeker' = [bits |-> {}, count |-> busy[BlockOf(main.slot)]]
    /\ main' = [main EXCEPT !.pc = IF main.slot \in jobs.bits THEN "load" ELSE "add"]
    /\ UNCHANGED <<jobs, rec, memMutex, data, busy, holder, overlapped, condMutex, wrk,
                   launched, pipe, aborted, clientVars>>

CancelCount ==
    /\ main.pc = "add" /\ BlockStays
    /\ busy' = [busy EXCEPT ![BlockOf(main.slot)] = seeker.count + 1]
    /\ main' = [main EXCEPT !.pc = "load"]
    /\ UNCHANGED <<jobs, rec, memMutex, data, holder, seeker, overlapped, condMutex, wrk,
                   launched, pipe, aborted, clientVars>>

CancelLoad ==
    /\ main.pc = "load" /\ BlockStays
    /\ seeker' = [bits |-> jobs.bits \cap SameByte(main.slot), count |-> 0]
    /\ main' = [main EXCEPT !.pc = "mark"]
    /\ UNCHANGED <<jobs, rec, memMutex, data, busy, holder, overlapped, condMutex, wrk,
                   launched, pipe, aborted, clientVars>>

\* The byte is stored, then the flags of the job are loaded.
CancelMark ==
    /\ main.pc = "mark" /\ BlockStays
    /\ jobs' = [jobs EXCEPT !.bits = (@ \ SameByte(main.slot)) \cup seeker.bits \cup {main.slot}]
    /\ main' = [main EXCEPT !.pc = "cancel", !.flags = rec[main.slot].flags]
    /\ UNCHANGED <<rec, memMutex, arenaVars, condMutex, wrk, launched, pipe, aborted,
                   clientVars>>

\* The block was freed meanwhile: a canary in freed memory or an address taken from a
\* NULL data[] ends the program, or the updates are stores into freed memory.
CancelInFreed ==
    /\ Seeking /\ ~ BlockStays
    /\ aborted' \in BOOLEAN
    /\ main' = [main EXCEPT !.pc = "cancel"]
    /\ UNCHANGED <<poolVars, condMutex, wrk, launched, pipe, clientVars>>

CancelStore ==
    /\ main.pc = "cancel"
    /\ rec' = IF BlockStays
              THEN [rec EXCEPT ![main.slot].flags = [main.flags EXCEPT !.cancelled = TRUE]]
              ELSE rec      \* a store into memory the arena has freed
    /\ cancelled' = cancelled \cup {main.ticket}
    /\ main' = [main EXCEPT !.pc = main.ret, !.slot = NoSlot, !.ticket = 0, !.flags = NoFlags]
    /\ UNCHANGED <<jobs, memMutex, arenaVars, condMutex, wrk, launched, pipe, aborted,
                   accepted, ran, replied, handle>>

-----------------------------------------------------------------------------
(* ThreadPoolBaseNotifyPipeEventRead drains the pipe and then runs          *)
(* ThreadPoolJobConsumeReplies; without the pipe the client calls the       *)
(* latter at any time.  The read event is volatile and is set again on the  *)
(* way back to the event loop, which is the step to "idle".                 *)

NotifyPipeEventRead ==
    /\ main.pc = "idle"
    /\ Notify => pipe > 0
    /\ pipe' = 0
    /\ main' = [main EXCEPT !.pc = "point"]
    /\ UNCHANGED <<poolVars, condMutex, wrk, launched, aborted, clientVars>>

PointToDone ==
    /\ main.pc = "point" /\ memMutex = NoOne
    /\ main' = IF IsEmptyList(jobs, DONE) THEN [main EXCEPT !.pc = "idle"]
               ELSE [main EXCEPT !.pc = "reply", !.head = PointToHead(jobs, DONE)]
    /\ UNCHANGED <<poolVars, condMutex, wrk, launched, pipe, aborted, clientVars>>

\* The two asserts, then the finish callback unless the job was cancelled.
Reply ==
    /\ main.pc = "reply"
    /\ LET job == rec[main.head]
           calls == job.kind = "reply" /\ ~ job.flags.cancelled
       IN  IF job.flags.in_use \/ ~ job.flags.finished
           THEN aborted' = TRUE /\ UNCHANGED <<main, replied, handle>>
           ELSE /\ replied' = IF calls THEN [replied EXCEPT ![job.ticket] = @ + 1] ELSE replied
                /\ handle' = IF calls THEN [handle EXCEPT ![job.ticket] = NoSlot] ELSE handle
                /\ main' = [main EXCEPT !.pc = IF calls THEN "callback" ELSE "free"]
                /\ UNCHANGED aborted
    /\ UNCHANGED <<poolVars, condMutex, wrk, launched, pipe, accepted, ran, cancelled>>

\* Slip: the collector looks at the head again without freeing it.
CallbackForgetsFree ==
    /\ main.pc = "callback"
    /\ main' = [main EXCEPT !.pc = "point"]
    /\ UNCHANGED <<poolVars, condMutex, wrk, launched, pipe, aborted, clientVars>>

CallbackReturn ==
    /\ main.pc = "callback"
    /\ main' = [main EXCEPT !.pc = "free"]
    /\ UNCHANGED <<poolVars, condMutex, wrk, launched, pipe, aborted, clientVars>>

\* Slip: one job is collected for all the notifications drained.
FreeOneDone ==
    /\ main.pc = "free"
    /\ FreeJob(main.head)
    /\ main' = [main EXCEPT !.pc = "idle", !.head = NoSlot]
    /\ UNCHANGED <<condMutex, wrk, launched, pipe, clientVars>>

FreeDone ==
    /\ main.pc = "free"
    /\ FreeJob(main.head)
    /\ main' = [main EXCEPT !.pc = "point", !.head = NoSlot]
    /\ UNCHANGED <<condMutex, wrk, launched, pipe, clientVars>>

-----------------------------------------------------------------------------
(* ThreadPoolBaseDestroy: raise do_shutdown on every instance, spin until   *)
(* each has done_shutdown, clean both memslots.                             *)

DestroyStart ==
    /\ MayDestroy /\ main.pc = "idle"
    /\ main' = [main EXCEPT !.pc = "flag", !.scan = 0]
    /\ UNCHANGED <<poolVars, condMutex, wrk, launched, pipe, aborted, clientVars>>

FlagShutdown ==
    /\ main.pc = "flag"
    /\ IF main.scan < launched
       THEN /\ wrk' = [wrk EXCEPT ![main.scan].do_shutdown = TRUE]
            /\ main' = [main EXCEPT !.scan = @ + 1]
       ELSE /\ main' = [main EXCEPT !.pc = "join"]
            /\ UNCHANGED wrk
    /\ UNCHANGED <<poolVars, condMutex, launched, pipe, aborted, clientVars>>

JoinAndClean ==
    /\ main.pc = "join"
    /\ \A w \in 0 .. (launched - 1) : wrk[w].pc = "exited"
    /\ jobs' = NewPool
    /\ rec' = [s \in SlotIds |-> BlankJob]
    /\ data' = {} /\ busy' = [b \in Blocks |-> 0]
    /\ wrk' = [w \in Workers |-> [wrk[w] EXCEPT !.job = NoSlot]]
    /\ main' = [main EXCEPT !.pc = "gone"]
    /\ UNCHANGED <<memMutex, holder, seeker, overlapped, condMutex, launched, pipe, aborted, clientVars>>

MainStep == \/ ScanWorker \/ LaunchMore \/ GrabJob \/ GrabFails \/ FillAndUnlock
            \/ SignalCond \/ EnqueueReturn \/ CancelTest \/ CancelCount \/ CancelLoad
            \/ CancelMark \/ CancelInFreed \/ CancelStore
            \/ PointToDone \/ Reply \/ CallbackReturn \/ FreeDone
            \/ FlagShutdown \/ JoinAndClean
ClientCall == \/ \E k \in Kinds : EnqueueStart(k)
              \/ \E t \in Tickets : CancelFind(t)
              \/ DestroyStart

-----------------------------------------------------------------------------
(* A worker thread: ThreadPoolInstanceMainLoop.                             *)

Goto(w, label) == wrk' = [wrk EXCEPT ![w].pc = label]
AtLabel(w, label) == wrk[w].pc = label
NoClientChange == UNCHANGED <<launched, main, clientVars>>

LoopTop(w) ==
    /\ AtLabel(w, "top")
    /\ wrk' = [wrk EXCEPT ![w].pc = "lock", ![w].state = "FREE"]
    /\ UNCHANGED <<poolVars, condMutex, pipe, aborted>> /\ NoClientChange

\* pthread_mutex_lock, and the re-acquisition at the end of pthread_cond_wait.
LockCond(w) ==
    /\ AtLabel(w, "lock") /\ condMutex = NoOne
    /\ condMutex' = w
    /\ Goto(w, "check")
    /\ UNCHANGED <<poolVars, pipe, aborted>> /\ NoClientChange

\* Reads list[PENDING].head without memslot.mutex.
CheckPending(w) ==
    /\ AtLabel(w, "check")
    /\ Goto(w, IF IsEmptyList(jobs, PENDING) THEN "park" ELSE "take")
    /\ UNCHANGED <<poolVars, condMutex, pipe, aborted>> /\ NoClientChange

\* pthread_cond_wait releases thrd_cond.mutex and starts to wait in one step.
Park(w) ==
    /\ AtLabel(w, "park")
    /\ condMutex' = NoOne
    /\ Goto(w, "waiting")
    /\ UNCHANGED <<poolVars, pipe, aborted>> /\ NoClientChange

\* POSIX lets pthread_cond_wait return without a signal.
SpuriousWakeup(w) ==
    /\ AtLabel(w, "waiting")
    /\ Goto(w, "lock")
    /\ UNCHANGED <<poolVars, condMutex, pipe, aborted>> /\ NoClientChange

TakeJob(w) ==
    /\ AtLabel(w, "take") /\ memMutex = NoOne
    /\ IF IsEmptyList(jobs, PENDING)
       THEN aborted' = TRUE /\ UNCHANGED <<jobs, wrk>>      \* assert(thread_job)
       ELSE /\ jobs' = HeadSwitch(jobs, PENDING, WORKING)
            /\ wrk' = [wrk EXCEPT ![w].pc = "unlock", ![w].job = PointToHead(jobs, PENDING)]
            /\ UNCHANGED aborted
    /\ UNCHANGED <<rec, memMutex, arenaVars, condMutex, pipe>> /\ NoClientChange

\* Slip: thrd_cond.mutex stays locked on the way out.
KeepCond(w) ==
    /\ AtLabel(w, "unlock")
    /\ UNCHANGED condMutex
    /\ Goto(w, "begin")
    /\ UNCHANGED <<poolVars, pipe, aborted>> /\ NoClientChange

UnlockCond(w) ==
    /\ AtLabel(w, "unlock")
    /\ condMutex' = NoOne
    /\ Goto(w, "begin")
    /\ UNCHANGED <<poolVars, pipe, aborted>> /\ NoClientChange

\* Slip: a job without a result is taken for a cancelled one.
BeginSkips(w) ==
    /\ AtLabel(w, "begin")
    /\ aborted' = ~ rec[wrk[w].job].flags.in_use
    /\ LET skip == rec[wrk[w].job].flags.cancelled \/ rec[wrk[w].job].kind = "none"
       IN  wrk' = [wrk EXCEPT ![w].state = "BUSY", ![w].clean = skip,
                     ![w].pc = IF wrk[w].do_shutdown THEN "exit"
                               ELSE IF skip THEN "load_in_use" ELSE "run"]
    /\ UNCHANGED <<poolVars, condMutex, pipe>> /\ NoClientChange

\* assert(in_use); shutdown, cancellation and retval_type decide the way on.
Begin(w) ==
    /\ AtLabel(w, "begin")
    /\ aborted' = ~ rec[wrk[w].job].flags.in_use
    /\ wrk' = [wrk EXCEPT ![w].state = "BUSY",
                 ![w].clean = rec[wrk[w].job].flags.cancelled
                              \/ rec[wrk[w].job].kind = "none",
                 ![w].pc = IF wrk[w].do_shutdown THEN "exit"
                           ELSE IF rec[wrk[w].job].flags.cancelled THEN "load_in_use"
                           ELSE "run"]
    /\ UNCHANGED <<poolVars, condMutex, pipe>> /\ NoClientChange

\* The job's callback, the user's code.
RunJob(w) ==
    /\ AtLabel(w, "run")
    /\ ran' = [ran EXCEPT ![rec[wrk[w].job].ticket] = @ + 1]
    /\ Goto(w, "load_in_use")
    /\ UNCHANGED <<poolVars, condMutex, pipe, aborted, launched, main,
                   accepted, replied, handle, cancelled>>

\* flags.in_use = 0 and flags.finished = 1: a load and a store of the word each.
LoadFlags(w, here, next) ==
    /\ AtLabel(w, here)
    /\ wrk' = [wrk EXCEPT ![w].flags = rec[wrk[w].job].flags, ![w].pc = next]
    /\ UNCHANGED <<poolVars, condMutex, pipe, aborted>> /\ NoClientChange

StoreFlags(w, here, updated, next) ==
    /\ AtLabel(w, here)
    /\ rec' = [rec EXCEPT ![wrk[w].job].flags = updated]
    /\ wrk' = [wrk EXCEPT ![w].flags = NoFlags, ![w].pc = next]
    /\ UNCHANGED <<jobs, memMutex, arenaVars, condMutex, pipe, aborted>> /\ NoClientChange

LoadInUse(w) == LoadFlags(w, "load_in_use", "store_in_use")
ClearInUse(w) == StoreFlags(w, "store_in_use", [wrk[w].flags EXCEPT !.in_use = FALSE],
                            "load_finished")
LoadFinished(w) == LoadFlags(w, "load_finished", "store_finished")
SetFinished(w) == StoreFlags(w, "store_finished", [wrk[w].flags EXCEPT !.finished = TRUE],
                             IF wrk[w].clean THEN "release" ELSE "publish")

\* MemSlotBaseSlotListIDSwitchToTail and MemSlotBaseSlotFree lock the mutex and go to
\* the arena, where the byte of the job's bit is loaded before it is stored.
EnterArena(w, to) ==
    /\ memMutex = NoOne
    /\ memMutex' = w
    /\ holder' = [bits |-> jobs.bits \cap SameByte(wrk[w].job), count |-> 0]
    /\ overlapped' = IF Seeking /\ BlockOf(main.slot) = BlockOf(wrk[w].job)
                     THEN overlapped \cup {BlockOf(wrk[w].job)} ELSE overlapped
    /\ Goto(w, to)
    /\ UNCHANGED <<rec, data, busy, seeker, condMutex, pipe>> /\ NoClientChange

EnterPublish(w) ==
    /\ AtLabel(w, "publish")
    /\ EnterArena(w, "switch")
    /\ UNCHANGED <<jobs, aborted>>

\* The byte as stored, with the job's bit set or cleared.
StoredByte(w, own) == (jobs.bits \ SameByte(wrk[w].job)) \cup (holder.bits \ {wrk[w].job}) \cup own

\* Slip: MemSlotBaseSlotListIDSwitch, to the head of DONE.
PublishAtHead(w) ==
    /\ AtLabel(w, "switch")
    /\ jobs' = [Switch(jobs, wrk[w].job, DONE) EXCEPT !.bits = StoredByte(w, {wrk[w].job})]
    /\ memMutex' = NoOne /\ holder' = NoRegisters
    /\ wrk' = IF Notify THEN [wrk EXCEPT ![w].pc = "notify"]
              ELSE [wrk EXCEPT ![w].pc = "top", ![w].state = "DONE", ![w].job = NoSlot]
    /\ UNCHANGED <<rec, data, busy, seeker, overlapped, condMutex, pipe, aborted>>
    /\ NoClientChange

\* The switch to DONE; from here the main thread may free the job.
Publish(w) ==
    /\ AtLabel(w, "switch")
    /\ jobs' = [SwitchToTail(jobs, wrk[w].job, DONE) EXCEPT !.bits = StoredByte(w, {wrk[w].job})]
    /\ memMutex' = NoOne /\ holder' = NoRegisters
    /\ wrk' = IF Notify THEN [wrk EXCEPT ![w].pc = "notify"]
              ELSE [wrk EXCEPT ![w].pc = "top", ![w].state = "DONE", ![w].job = NoSlot]
    /\ UNCHANGED <<rec, data, busy, seeker, overlapped, condMutex, pipe, aborted>>
    /\ NoClientChange

\* ThreadPoolInstanceNotifyFinish reads thread_job again and writes the pipe.
NotifyFinish(w) ==
    /\ AtLabel(w, "notify")
    /\ pipe' = pipe + 1
    /\ wrk' = [wrk EXCEPT ![w].pc = "top", ![w].state = "DONE", ![w].job = NoSlot]
    /\ UNCHANGED <<poolVars, condMutex, aborted>> /\ NoClientChange

\* The clean_up label: nobody is told of a job without a result or cancelled.  The arena
\* asserts the block and the bit of the job.
ReleaseJob(w) ==
    /\ AtLabel(w, "release")
    /\ EnterArena(w, "clear")
    /\ jobs' = Unlisted(wrk[w].job)
    /\ aborted' = ~ (BlockOf(wrk[w].job) \in data /\ FreeAsserts(jobs, wrk[w].job))

\* Slip: the bit of a job that is given back stays set.
ReleaseKeepsBit(w) ==
    /\ AtLabel(w, "clear")
    /\ holder' = [bits |-> {}, count |-> busy[BlockOf(wrk[w].job)]]
    /\ Goto(w, "count")
    /\ UNCHANGED <<jobs, rec, memMutex, data, busy, seeker, overlapped, condMutex, pipe, aborted>>
    /\ NoClientChange

\* The byte is stored, then busy_count is loaded.
ReleaseBit(w) ==
    /\ AtLabel(w, "clear")
    /\ jobs' = [jobs EXCEPT !.bits = StoredByte(w, {})]
    /\ holder' = [bits |-> {}, count |-> busy[BlockOf(wrk[w].job)]]
    /\ Goto(w, "count")
    /\ UNCHANGED <<rec, memMutex, data, busy, seeker, overlapped, condMutex, pipe, aborted>>
    /\ NoClientChange

ReleaseCount(w) ==
    /\ AtLabel(w, "count")
    /\ Uncount(BlockOf(wrk[w].job), holder.count - 1, jobs)
    /\ memMutex' = NoOne /\ holder' = NoRegisters
    /\ wrk' = [wrk EXCEPT ![w].pc = "top", ![w].state = "DONE", ![w].job = NoSlot]
    /\ UNCHANGED <<seeker, overlapped, condMutex, pipe>> /\ NoClientChange

\* Shutdown: the job just taken is dropped where it is.
Exit(w) ==
    /\ AtLabel(w, "exit")
    /\ wrk' = [wrk EXCEPT ![w].pc = "exited", ![w].state = "SHUTDOWN"]
    /\ UNCHANGED <<poolVars, condMutex, pipe, aborted>> /\ NoClientChange

WorkerStep(w) == \/ LoopTop(w) \/ LockCond(w) \/ CheckPending(w) \/ Park(w)
                 \/ TakeJob(w) \/ UnlockCond(w) \/ Begin(w) \/ RunJob(w)
                 \/ LoadInUse(w) \/ ClearInUse(w) \/ LoadFinished(w) \/ SetFinished(w)
                 \/ EnterPublish(w) \/ Publish(w) \/ NotifyFinish(w)
                 \/ ReleaseJob(w) \/ ReleaseBit(w) \/ ReleaseCount(w) \/ Exit(w)

Next == /\ ~ aborted
        /\ \/ MainStep
           \/ NotifyPipeEventRead
           \/ ClientCall
           \/ \E w \in Workers : WorkerStep(w) \/ SpuriousWakeup(w)

Spec == Init /\ [][Next]_vars

(***************************************************************************)
(* Fairness: the operating system runs every thread that can take a step.  *)
(* The main thread finishes the call it is in; a finish callback returns,  *)
(* and so does the main thread to the event loop, which polls the notify   *)
(* pipe, however many calls of the interface either makes before.  Nobody  *)
(* has to call the interface and no spurious wakeup is owed.               *)
(***************************************************************************)
Fairness == /\ WF_vars(~ aborted /\ MainStep)
            /\ SF_vars(~ aborted /\ Notify /\ NotifyPipeEventRead)
            /\ SF_vars(~ aborted /\ CallbackReturn)
            /\ \A w \in Workers : WF_vars(~ aborted /\ WorkerStep(w))
FairSpec == Spec /\ Fairness

-----------------------------------------------------------------------------
PoolTypes ==
    /\ jobs \in Pool
    /\ rec \in [SlotIds -> Job]
    /\ memMutex \in Workers \cup {NoOne, Main}
    /\ condMutex \in Workers \cup {NoOne}
    /\ wrk \in [Workers -> Worker]
    /\ launched \in 0 .. WorkerMax + 1
    /\ main \in MainThread
    /\ pipe \in Nat
    /\ aborted \in BOOLEAN
    /\ accepted \in Seq(Kinds) /\ Len(accepted) <= MaxJobs
    /\ ran \in [Tickets -> Nat] /\ replied \in [Tickets -> Nat]
    /\ handle \in [Tickets -> SlotIds \cup {NoSlot}]
    /\ cancelled \subseteq Tickets
ArenaTypes ==
    /\ data \subseteq Blocks /\ overlapped \subseteq Blocks
    /\ busy \in [Blocks -> Int]
    /\ holder \in Registers /\ seeker \in Registers
TypeOK == PoolTypes /\ ArenaTypes

(***************************************************************************)
(* Every job slot is free or on exactly one of PENDING, WORKING and DONE,  *)
(* with its arena bit set, whatever the workers, the enqueuer, the         *)
(* collector and a cancel do at the same time; and the memory of a job on  *)
(* a list is there, unless a cancel's search of the arena, which takes no  *)
(* mutex, once overlapped with a worker's update of the same block         *)
(* (mem_slot.c:172-214, 402-436, 489-548, 616-648; mem_arena.c:192-315).   *)
(***************************************************************************)
JobSlotsWellFormed ==
    /\ WellFormed(jobs)
    /\ \A s \in Allocated(jobs) : BlockOf(s) \in data \cup overlapped

OwningPCs == {"unlock", "begin", "run", "load_in_use", "store_in_use", "load_finished",
              "store_finished", "publish", "switch", "release", "exit"}
Owns(w) == wrk[w].pc \in OwningPCs \/ (wrk[w].pc = "exited" /\ wrk[w].job # NoSlot)
Consuming == main.pc \in {"reply", "callback", "free"}
             \/ (main.ret = "callback" /\ main.pc \in {"scan", "launch", "grab", "fill",
                                                        "stuck", "signal", "return", "seek",
                                                        "add", "load", "mark", "cancel"})

(***************************************************************************)
(* A job on WORKING belongs to exactly one worker, and the job whose reply *)
(* the main thread is handling stays the head of DONE across the unlocked  *)
(* asserts and the finish callback, even one that enqueues or cancels      *)
(* (thrd_pool_base.c:272-292, 505-512).                                    *)
(***************************************************************************)
OneOwner ==
    /\ \A w \in Workers : Owns(w) => wrk[w].job \in OnList(jobs, WORKING)
    /\ \A v, w \in Workers : Owns(v) /\ Owns(w) /\ v # w => wrk[v].job # wrk[w].job
    /\ \A s \in OnList(jobs, WORKING) : \E w \in Workers : Owns(w) /\ wrk[w].job = s
    /\ Consuming => ~ IsEmptyList(jobs, DONE) /\ main.head = PointToHead(jobs, DONE)

(***************************************************************************)
(* A job's callback and its finish callback run at most once, the second   *)
(* only after the first and only if the prototype has one.                 *)
(***************************************************************************)
AtMostOnce ==
    \A t \in 1 .. Len(accepted) :
        /\ ran[t] <= 1
        /\ replied[t] <= ran[t]
        /\ replied[t] > 0 => accepted[t] = "reply"

(***************************************************************************)
(* No completion is lost: while the main thread is not collecting, a job   *)
(* on DONE has its notification in the pipe or a worker about to write it, *)
(* though the pipe is drained before DONE is read (thrd_pool_base.c:389-   *)
(* 400, 581-586).                                                          *)
(***************************************************************************)
NoLostCompletion ==
    Notify /\ ~ IsEmptyList(jobs, DONE) =>
        \/ pipe > 0
        \/ \E w \in Workers : wrk[w].pc = "notify"
        \/ Consuming \/ main.pc = "point"

\* The slot the enqueuer is still filling carries the data of its last user.
Unfilled == IF main.pc = "fill" THEN {main.slot} ELSE {}
TicketsOn(l) == {rec[s].ticket : s \in OnList(jobs, l) \ Unfilled}
InPool == TicketsOn(PENDING) \cup TicketsOn(WORKING) \cup TicketsOn(DONE)

(***************************************************************************)
(* Jobs leave PENDING in the order in which they were accepted: a job that *)
(* still waits has every later job waiting behind it.                      *)
(***************************************************************************)
NoOvertaking ==
    \A t \in TicketsOn(PENDING) : t .. Len(accepted) \subseteq TicketsOn(PENDING)

(***************************************************************************)
(* An accepted job is in the pool until its callback has run and, if it    *)
(* has a finish callback, that has run too; only a cancelled job leaves    *)
(* without.  (ThreadPoolBaseDestroy discards the rest.)                    *)
(***************************************************************************)
JobAccounted ==
    main.pc # "gone" =>
        \A t \in 1 .. Len(accepted) :
            \/ t \in InPool
            \/ t \in cancelled
            \/ ran[t] = 1 /\ (accepted[t] = "reply" => replied[t] = 1)

(***************************************************************************)
(* Every job a worker has finished leaves DONE: the notification reaches   *)
(* the event loop, which collects it.                                      *)
(***************************************************************************)
DoneIsCollected ==
    \A s \in SlotIds : s \in OnList(jobs, DONE) ~> (s \notin OnList(jobs, DONE) \/ aborted)

(***************************************************************************)
(* Jobs can only be stranded when every worker sleeps: again and again     *)
(* either PENDING is empty or all the running workers are in               *)
(* pthread_cond_wait.                                                      *)
(***************************************************************************)
OnlySleepersStrand ==
    []<>(\/ IsEmptyList(jobs, PENDING)
         \/ \A w \in Workers : wrk[w].pc \in {"off", "waiting"})

-----------------------------------------------------------------------------
(***************************************************************************)
(* "Block waiting shutdown" (thrd_pool_base.c:111): the wait ends.         *)
(***************************************************************************)
DestroyEnds == (main.pc = "join") ~> (main.pc = "gone")
=============================================================================
