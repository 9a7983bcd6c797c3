-------------------------- MODULE ThreadPoolProofs --------------------------
(***************************************************************************)
(* The thread pool, for every number of job slots, workers and jobs: types,*)
(* the integrity of the job MEM_SLOT under concurrent enqueuers, workers   *)
(* and collector, the ownership of jobs, and no lost completion; then each *)
(* accepted job, by its ticket: it runs once, is replied to once, starts   *)
(* in its turn and is not lost.                                            *)
(***************************************************************************)
EXTENDS ThreadPool, MemSlotLemmas, FiniteSetTheorems

(***************************************************************************)
(* The inductive invariant.  The properties themselves are not inductive:  *)
(* they rest on who holds which mutex at which label, on what the main     *)
(* thread's locals mean while a call is under way, and on the workers not  *)
(* yet launched being off.                                                 *)
(***************************************************************************)
LockedPCs == {"check", "park", "take", "unlock"}
Locks == /\ memMutex = Main <=> main.pc \in {"fill", "stuck"}
         /\ \A w \in Workers : condMutex = w <=> wrk[w].pc \in LockedPCs

EnqueuingPCs == {"scan", "launch", "grab", "fill"}
CancellingPCs == {"seek", "add", "load", "mark", "cancel"}
MainLocals == /\ main.pc \in EnqueuingPCs => main.kind \in Kinds /\ Len(accepted) < MaxJobs
              /\ main.pc \in {"fill", "signal", "return"} \cup CancellingPCs => main.slot \in SlotIds
              /\ main.pc \in {"signal", "return"} => Len(accepted) \in Tickets
              /\ main.pc \in CancellingPCs => main.ticket \in Tickets
              /\ Consuming => main.head \in SlotIds

UnlaunchedAreOff == \A w \in Workers : w >= launched => wrk[w].pc = "off"

SlotsWellFormed == WellFormed(jobs)

IInv == /\ PoolTypes
        /\ Locks
        /\ MainLocals
        /\ UnlaunchedAreOff
        /\ SlotsWellFormed
        /\ OneOwner
        /\ NoLostCompletion

(***************************************************************************)
(* What it rests on where a worker or a cancel updates the arena: who is   *)
(* there, and that the byte it has loaded has the bits of the other jobs.  *)
(***************************************************************************)
ArenaSteps ==
    /\ holder \in Registers /\ seeker \in Registers
    /\ \A w \in Workers :
          /\ memMutex = w <=> Updating(w)
          /\ Updating(w) => wrk[w].job \in SlotIds
          /\ wrk[w].pc \in {"clear", "count"} => wrk[w].job \notin Allocated(jobs)
          /\ wrk[w].pc \in {"switch", "clear"}
                => /\ (Allocated(jobs) \cap SameByte(wrk[w].job)) \ {wrk[w].job} \subseteq holder.bits
                   /\ holder.bits \subseteq SameByte(wrk[w].job)
    /\ main.pc = "mark"
          => /\ Allocated(jobs) \cap SameByte(main.slot) \subseteq seeker.bits
             /\ seeker.bits \subseteq SameByte(main.slot)

LEMMA ListsExist == {PENDING, WORKING, DONE} \subseteq ListIds
BY ThreadPoolAssumption, PoolAssumption DEF ListIds, PENDING, WORKING, DONE

-----------------------------------------------------------------------------
(***************************************************************************)
(* How each step moves the worker that takes it, the control of a thread   *)
(* without its data.                                                       *)
(***************************************************************************)
Moves(w, here, to) == /\ wrk[w].pc = here
                      /\ wrk'[w].pc \in to
                      /\ wrk' \in [Workers -> Worker]
                      /\ \A v \in Workers \ {w} : wrk'[v] = wrk[v]
KeepsJob(w, here, to) == Moves(w, here, to) /\ wrk'[w].job = wrk[w].job

LEMMA GotoMoves ==
  ASSUME wrk \in [Workers -> Worker], NEW w \in Workers, NEW to \in WorkerPCs, Goto(w, to)
  PROVE  /\ wrk' \in [Workers -> Worker]
         /\ \A v \in Workers \ {w} : wrk'[v] = wrk[v]
         /\ wrk'[w].job = wrk[w].job /\ wrk'[w].pc = to
BY DEF Goto, Worker

LEMMA JobOfWorker ==
  ASSUME PoolTypes, OneOwner, NEW w \in Workers, wrk[w].pc \in OwningPCs
  PROVE  /\ wrk[w].job \in SlotIds
         /\ rec[wrk[w].job] \in Job
         /\ rec[wrk[w].job].flags \in Flags
<1>1. wrk[w].job \in OnList(jobs, WORKING)
  BY DEF OneOwner, Owns
<1>2. wrk[w].job \in SlotIds
  <2>1. jobs.list[WORKING] \in Seq(SlotIds)
    BY ListsExist DEF PoolTypes, Pool
  <2>2. Range(jobs.list[WORKING]) \in SUBSET SlotIds
    BY <2>1, RangeOfSeq
  <2>. QED BY <1>1, <2>2 DEF OnList
<1>3. rec \in [SlotIds -> Job]
  BY DEF PoolTypes
<1>. QED BY <1>2, <1>3 DEF Job

LEMMA LoopTopMoves ==
  ASSUME PoolTypes, NEW w \in Workers, LoopTop(w) PROVE KeepsJob(w, "top", {"lock"})
<1>1. wrk' = [wrk EXCEPT ![w].pc = "lock", ![w].state = "FREE"] /\ wrk \in [Workers -> Worker]
  BY DEF LoopTop, PoolTypes
<1>2. "lock" \in WorkerPCs /\ "FREE" \in States
  BY DEF WorkerPCs, States
<1>3. wrk[w].pc = "top"
  BY DEF LoopTop, AtLabel
<1>. QED BY <1>1, <1>2, <1>3 DEF KeepsJob, Moves, Worker

LEMMA LockCondMoves ==
  ASSUME PoolTypes, NEW w \in Workers, LockCond(w) PROVE KeepsJob(w, "lock", {"check"})
<1>1. "check" \in WorkerPCs
  BY DEF WorkerPCs
<1>2. wrk[w].pc = "lock" /\ Goto(w, "check") /\ wrk \in [Workers -> Worker]
  BY DEF LockCond, AtLabel, PoolTypes
<1>. QED BY <1>1, <1>2, GotoMoves DEF KeepsJob, Moves

LEMMA CheckPendingMoves ==
  ASSUME PoolTypes, NEW w \in Workers, CheckPending(w) PROVE KeepsJob(w, "check", {"park", "take"})
<1>1. {"park", "take"} \subseteq WorkerPCs
  BY DEF WorkerPCs
<1>2. /\ wrk[w].pc = "check" /\ wrk \in [Workers -> Worker]
      /\ Goto(w, "park") \/ Goto(w, "take")
  BY DEF CheckPending, AtLabel, PoolTypes
<1>. QED BY <1>1, <1>2, GotoMoves DEF KeepsJob, Moves

LEMMA ParkMoves ==
  ASSUME PoolTypes, NEW w \in Workers, Park(w) PROVE KeepsJob(w, "park", {"waiting"})
<1>1. "waiting" \in WorkerPCs
  BY DEF WorkerPCs
<1>2. wrk[w].pc = "park" /\ Goto(w, "waiting") /\ wrk \in [Workers -> Worker]
  BY DEF Park, AtLabel, PoolTypes
<1>. QED BY <1>1, <1>2, GotoMoves DEF KeepsJob, Moves

LEMMA SpuriousWakeupMoves ==
  ASSUME PoolTypes, NEW w \in Workers, SpuriousWakeup(w) PROVE KeepsJob(w, "waiting", {"lock"})
<1>1. "lock" \in WorkerPCs
  BY DEF WorkerPCs
<1>2. wrk[w].pc = "waiting" /\ Goto(w, "lock") /\ wrk \in [Workers -> Worker]
  BY DEF SpuriousWakeup, AtLabel, PoolTypes
<1>. QED BY <1>1, <1>2, GotoMoves DEF KeepsJob, Moves

LEMMA UnlockCondMoves ==
  ASSUME PoolTypes, NEW w \in Workers, UnlockCond(w) PROVE KeepsJob(w, "unlock", {"begin"})
<1>1. "begin" \in WorkerPCs
  BY DEF WorkerPCs
<1>2. wrk[w].pc = "unlock" /\ Goto(w, "begin") /\ wrk \in [Workers -> Worker]
  BY DEF UnlockCond, AtLabel, PoolTypes
<1>. QED BY <1>1, <1>2, GotoMoves DEF KeepsJob, Moves

LEMMA BeginMoves ==
  ASSUME PoolTypes, OneOwner, NEW w \in Workers, Begin(w)
  PROVE  KeepsJob(w, "begin", {"exit", "load_in_use", "run"}) /\ aborted' \in BOOLEAN
<1>1. wrk[w].pc = "begin" /\ wrk \in [Workers -> Worker]
  BY DEF Begin, AtLabel, PoolTypes
<1>2. rec[wrk[w].job].flags.cancelled \in BOOLEAN /\ rec[wrk[w].job].flags.in_use \in BOOLEAN
  BY <1>1, JobOfWorker DEF OwningPCs, Flags
<1>3. PICK st \in States, cl \in BOOLEAN, to \in {"exit", "load_in_use", "run"} :
             wrk' = [wrk EXCEPT ![w].state = st, ![w].clean = cl, ![w].pc = to]
  BY <1>2 DEF Begin, States
<1>4. to \in WorkerPCs
  BY DEF WorkerPCs
<1>5. aborted' \in BOOLEAN
  BY <1>2 DEF Begin
<1>. QED BY <1>1, <1>3, <1>4, <1>5 DEF KeepsJob, Moves, Worker

LEMMA RunJobMoves ==
  ASSUME PoolTypes, NEW w \in Workers, RunJob(w) PROVE KeepsJob(w, "run", {"load_in_use"})
<1>1. "load_in_use" \in WorkerPCs
  BY DEF WorkerPCs
<1>2. wrk[w].pc = "run" /\ Goto(w, "load_in_use") /\ wrk \in [Workers -> Worker]
  BY DEF RunJob, AtLabel, PoolTypes
<1>. QED BY <1>1, <1>2, GotoMoves DEF KeepsJob, Moves

\* The load and the store of the flags word, at any of their two places.
LEMMA LoadMoves ==
  ASSUME PoolTypes, OneOwner, NEW w \in Workers, NEW here \in OwningPCs, NEW to \in WorkerPCs,
         LoadFlags(w, here, to)
  PROVE  KeepsJob(w, here, {to})
<1>1. wrk[w].pc = here /\ wrk \in [Workers -> Worker]
  BY DEF LoadFlags, AtLabel, PoolTypes
<1>2. rec[wrk[w].job].flags \in Flags
  BY <1>1, JobOfWorker
<1>3. wrk' = [wrk EXCEPT ![w].flags = rec[wrk[w].job].flags, ![w].pc = to]
  BY DEF LoadFlags
<1>. QED BY <1>1, <1>2, <1>3 DEF KeepsJob, Moves, Worker

LEMMA StoreMoves ==
  ASSUME PoolTypes, OneOwner, NEW w \in Workers, NEW here \in OwningPCs, NEW to \in WorkerPCs,
         NEW updated \in Flags, StoreFlags(w, here, updated, to)
  PROVE  KeepsJob(w, here, {to}) /\ rec' \in [SlotIds -> Job]
<1>1. wrk[w].pc = here /\ wrk \in [Workers -> Worker] /\ rec \in [SlotIds -> Job]
  BY DEF StoreFlags, AtLabel, PoolTypes
<1>2. NoFlags \in Flags
  BY DEF NoFlags, Flags
<1>3. wrk' = [wrk EXCEPT ![w].flags = NoFlags, ![w].pc = to]
  BY DEF StoreFlags
<1>4. rec' = [rec EXCEPT ![wrk[w].job].flags = updated]
  BY DEF StoreFlags
<1>5. rec' \in [SlotIds -> Job]
  BY <1>1, <1>4 DEF Job
<1>. QED BY <1>1, <1>2, <1>3, <1>5 DEF KeepsJob, Moves, Worker

LEMMA FlagMoves ==
  ASSUME PoolTypes, OneOwner, NEW w \in Workers
  PROVE  /\ LoadInUse(w) => KeepsJob(w, "load_in_use", {"store_in_use"})
         /\ ClearInUse(w) => /\ KeepsJob(w, "store_in_use", {"load_finished"})
                             /\ rec' \in [SlotIds -> Job]
         /\ LoadFinished(w) => KeepsJob(w, "load_finished", {"store_finished"})
         /\ SetFinished(w) => /\ KeepsJob(w, "store_finished", {"release", "publish"})
                              /\ rec' \in [SlotIds -> Job]
<1>1. /\ {"load_in_use", "store_in_use", "load_finished", "store_finished"}
              \subseteq OwningPCs \cap WorkerPCs
      /\ {"release", "publish"} \subseteq WorkerPCs
  BY DEF OwningPCs, WorkerPCs
<1>2. wrk[w].flags \in Flags
  BY DEF PoolTypes, Worker
<1>3. /\ [wrk[w].flags EXCEPT !.in_use = FALSE] \in Flags
      /\ [wrk[w].flags EXCEPT !.finished = TRUE] \in Flags
  BY <1>2 DEF Flags
<1>4. LoadInUse(w) => KeepsJob(w, "load_in_use", {"store_in_use"})
  BY <1>1, LoadMoves DEF LoadInUse
<1>5. LoadFinished(w) => KeepsJob(w, "load_finished", {"store_finished"})
  BY <1>1, LoadMoves DEF LoadFinished
<1>6. ClearInUse(w) => /\ KeepsJob(w, "store_in_use", {"load_finished"})
                       /\ rec' \in [SlotIds -> Job]
  BY <1>1, <1>3, StoreMoves DEF ClearInUse
<1>7. SetFinished(w) => /\ KeepsJob(w, "store_finished", {"release", "publish"})
                        /\ rec' \in [SlotIds -> Job]
  <2>. SUFFICES ASSUME SetFinished(w)
                PROVE  /\ KeepsJob(w, "store_finished", {"release", "publish"})
                       /\ rec' \in [SlotIds -> Job]
    OBVIOUS
  <2>. DEFINE to == IF wrk[w].clean THEN "release" ELSE "publish"
  <2>1. to \in WorkerPCs /\ to \in {"release", "publish"}
    BY <1>1
  <2>2. KeepsJob(w, "store_finished", {to}) /\ rec' \in [SlotIds -> Job]
    <3>. HIDE DEF to
    <3>1. StoreFlags(w, "store_finished", [wrk[w].flags EXCEPT !.finished = TRUE], to)
      BY DEF SetFinished, to
    <3>. QED BY <1>1, <1>3, <2>1, <3>1, StoreMoves
  <2>. QED BY <2>1, <2>2 DEF KeepsJob, Moves
<1>. QED BY <1>4, <1>5, <1>6, <1>7

LEMMA ExitMoves ==
  ASSUME PoolTypes, NEW w \in Workers, Exit(w) PROVE KeepsJob(w, "exit", {"exited"})
<1>1. wrk' = [wrk EXCEPT ![w].pc = "exited", ![w].state = "SHUTDOWN"]
      /\ wrk \in [Workers -> Worker]
  BY DEF Exit, PoolTypes
<1>2. "exited" \in WorkerPCs /\ "SHUTDOWN" \in States
  BY DEF WorkerPCs, States
<1>3. wrk[w].pc = "exit"
  BY DEF Exit, AtLabel
<1>. QED BY <1>1, <1>2, <1>3 DEF KeepsJob, Moves, Worker

\* The steps that change the job MEM_SLOT, or end the ownership of a job.
LEMMA TakeJobMoves ==
  ASSUME PoolTypes, SlotsWellFormed, NEW w \in Workers, TakeJob(w), ~ IsEmptyList(jobs, PENDING)
  PROVE  /\ Moves(w, "take", {"unlock"})
         /\ jobs' = HeadSwitch(jobs, PENDING, WORKING)
         /\ wrk'[w].job = PointToHead(jobs, PENDING)
<1>1. /\ wrk[w].pc = "take" /\ wrk \in [Workers -> Worker]
      /\ jobs' = HeadSwitch(jobs, PENDING, WORKING)
      /\ wrk' = [wrk EXCEPT ![w].pc = "unlock", ![w].job = PointToHead(jobs, PENDING)]
  BY DEF TakeJob, AtLabel, PoolTypes
<1>2. PointToHead(jobs, PENDING) \in SlotIds
  BY ListsExist, HeadSwitchWF DEF SlotsWellFormed
<1>3. "unlock" \in WorkerPCs
  BY DEF WorkerPCs
<1>. QED BY <1>1, <1>2, <1>3 DEF Moves, Worker

LEMMA EnterPublishMoves ==
  ASSUME PoolTypes, NEW w \in Workers, EnterPublish(w) PROVE KeepsJob(w, "publish", {"switch"})
<1>1. "switch" \in WorkerPCs
  BY DEF WorkerPCs
<1>2. wrk[w].pc = "publish" /\ Goto(w, "switch") /\ wrk \in [Workers -> Worker]
  BY DEF EnterPublish, EnterArena, AtLabel, PoolTypes
<1>. QED BY <1>1, <1>2, GotoMoves DEF KeepsJob, Moves

LEMMA PublishMoves ==
  ASSUME PoolTypes, NEW w \in Workers, Publish(w)
  PROVE  /\ Moves(w, "switch", {IF Notify THEN "notify" ELSE "top"})
         /\ wrk'[w].job \in SlotIds \cup {NoSlot}
<1>1. wrk[w].pc = "switch" /\ wrk \in [Workers -> Worker]
  BY DEF Publish, AtLabel, PoolTypes
<1>2. {"notify", "top"} \subseteq WorkerPCs /\ "DONE" \in States
  BY DEF WorkerPCs, States
<1>3. CASE Notify
  <2>1. wrk' = [wrk EXCEPT ![w].pc = "notify"]
    BY <1>3 DEF Publish
  <2>. QED BY <2>1, <1>1, <1>2, <1>3 DEF Moves, Worker
<1>4. CASE ~ Notify
  <2>1. wrk' = [wrk EXCEPT ![w].pc = "top", ![w].state = "DONE", ![w].job = NoSlot]
    BY <1>4 DEF Publish
  <2>. QED BY <2>1, <1>1, <1>2, <1>4, ZenonT(40) DEF Moves, Worker
<1>. QED BY <1>3, <1>4

LEMMA NotifyFinishMoves ==
  ASSUME PoolTypes, NEW w \in Workers, NotifyFinish(w) PROVE Moves(w, "notify", {"top"})
<1>1. /\ wrk[w].pc = "notify" /\ wrk \in [Workers -> Worker]
      /\ wrk' = [wrk EXCEPT ![w].pc = "top", ![w].state = "DONE", ![w].job = NoSlot]
  BY DEF NotifyFinish, AtLabel, PoolTypes
<1>2. "top" \in WorkerPCs /\ "DONE" \in States
  BY DEF WorkerPCs, States
<1>. QED BY <1>1, <1>2, ZenonT(40) DEF Moves, Worker

LEMMA ReleaseMoves ==
  ASSUME PoolTypes, NEW w \in Workers
  PROVE  /\ ReleaseJob(w) => KeepsJob(w, "release", {"clear"})
         /\ ReleaseBit(w) => KeepsJob(w, "clear", {"count"})
         /\ ReleaseCount(w) => Moves(w, "count", {"top"})
<1>1. {"clear", "count", "top"} \subseteq WorkerPCs /\ "DONE" \in States
  BY DEF WorkerPCs, States
<1>2. wrk \in [Workers -> Worker]
  BY DEF PoolTypes
<1>3. CASE ReleaseJob(w)
  <2>1. wrk[w].pc = "release" /\ Goto(w, "clear")
    BY <1>3 DEF ReleaseJob, EnterArena, AtLabel
  <2>. QED BY <2>1, <1>1, <1>2, GotoMoves DEF KeepsJob, Moves, ReleaseBit, ReleaseCount, AtLabel
<1>4. CASE ReleaseBit(w)
  <2>1. wrk[w].pc = "clear" /\ Goto(w, "count")
    BY <1>4 DEF ReleaseBit, AtLabel
  <2>. QED BY <2>1, <1>1, <1>2, GotoMoves DEF KeepsJob, Moves, ReleaseJob, ReleaseCount, AtLabel
<1>5. CASE ReleaseCount(w)
  <2>1. /\ wrk[w].pc = "count"
        /\ wrk' = [wrk EXCEPT ![w].pc = "top", ![w].state = "DONE", ![w].job = NoSlot]
    BY <1>5 DEF ReleaseCount, AtLabel
  <2>2. Moves(w, "count", {"top"})
    BY <2>1, <1>1, <1>2, ZenonT(40) DEF Moves, Worker
  <2>. QED BY <2>1, <2>2 DEF ReleaseJob, ReleaseBit, AtLabel
<1>. QED BY <1>3, <1>4, <1>5

-----------------------------------------------------------------------------
(***************************************************************************)
(* The arena.  Whether a base is well formed depends on its bits only as   *)
(* far as those of the listed slots are set, and a block is freed only     *)
(* when none of its slots is listed.                                       *)
(***************************************************************************)
LEMMA OtherBitsWF ==
  ASSUME NEW p, WellFormed(p), NEW B \in SUBSET SlotIds, Allocated(p) \subseteq B, NEW q,
         q = [p EXCEPT !.bits = B]
  PROVE  /\ WellFormed(q) /\ q.list = p.list /\ q.free = p.free /\ q.cur = p.cur /\ q.bits = B
         /\ Allocated(q) = Allocated(p)
<1>1. /\ q.list = p.list /\ q.free = p.free /\ q.cur = p.cur /\ q.bits = B /\ q \in Pool
  BY DEF WellFormed, Pool
<1>2. \A l \in ListIds : OnList(q, l) = OnList(p, l) /\ OnList(p, l) \subseteq B
  BY <1>1, OnListIsSlot DEF OnList
<1>3. NoDuplicates(q) /\ FreeXorListed(q) /\ MetaNamesList(q) /\ ListedHasMemory(q)
  BY <1>1, <1>2 DEF WellFormed, NoDuplicates, FreeXorListed, MetaNamesList, ListedHasMemory,
                    OnList, FreeIds
<1>. QED BY <1>1, <1>2, <1>3 DEF WellFormed, Allocated

LEMMA ListedHaveBits ==
  ASSUME NEW p, WellFormed(p)
  PROVE  Allocated(p) \subseteq p.bits /\ p.bits \subseteq SlotIds /\ Allocated(p) \subseteq SlotIds
BY DEF WellFormed, ListedHasMemory, Allocated, Pool

LEMMA UnlistedWF ==
  ASSUME SlotsWellFormed, NEW s \in Allocated(jobs)
  PROVE  /\ WellFormed(Unlisted(s))
         /\ Unlisted(s).list = SlotFree(jobs, s).list /\ Unlisted(s).bits = jobs.bits
         /\ s \notin Allocated(Unlisted(s))
         /\ Allocated(Unlisted(s)) \subseteq Allocated(jobs)
<1>. DEFINE q == SlotFree(jobs, s)
<1>1. WellFormed(q) /\ (\A l \in ListIds : OnList(q, l) = OnList(jobs, l) \ {s})
  BY SlotFreeWF DEF SlotsWellFormed
<1>2. Allocated(q) \subseteq Allocated(jobs) /\ s \notin Allocated(q)
  BY <1>1 DEF Allocated
<1>3. Allocated(jobs) \subseteq jobs.bits /\ jobs.bits \in SUBSET SlotIds
  BY ListedHaveBits DEF SlotsWellFormed
<1>4. Unlisted(s) = [q EXCEPT !.bits = jobs.bits]
  BY DEF SlotsWellFormed, WellFormed, Pool, Unlisted, SlotFree
<1>. HIDE DEF q
<1>5. /\ WellFormed(Unlisted(s)) /\ Unlisted(s).list = q.list /\ Unlisted(s).bits = jobs.bits
      /\ Allocated(Unlisted(s)) = Allocated(q)
  BY <1>1, <1>2, <1>3, <1>4, OtherBitsWF
<1>. QED BY <1>2, <1>5 DEF q

LEMMA UncountSteps ==
  ASSUME PoolTypes, NEW p, WellFormed(p), NEW b, NEW n, Uncount(b, n, p)
  PROVE  /\ WellFormed(jobs') /\ jobs'.list = p.list /\ jobs'.free = p.free
         /\ jobs'.bits \subseteq p.bits
         /\ rec' \in [SlotIds -> Job]
         /\ \A s \in Allocated(jobs') : rec'[s] = rec[s]
         /\ aborted' \in BOOLEAN
<1>1. BlankJob \in Job
  BY ThreadPoolAssumption DEF BlankJob, Job, NoFlags, Flags, JobKinds
<1>2. aborted' = (n = 0 /\ Allocated(p) \cap InBlock(b) # {}) /\ rec \in [SlotIds -> Job]
  BY DEF Uncount, PoolTypes
<1>3. CASE n = 0 /\ ~ aborted'
  <2>1. /\ jobs' = [p EXCEPT !.bits = @ \ InBlock(b)]
        /\ rec' = [s \in SlotIds |-> IF s \in InBlock(b) THEN BlankJob ELSE rec[s]]
    BY <1>3 DEF Uncount
  <2>2. Allocated(p) \subseteq p.bits /\ p.bits \subseteq SlotIds /\ Allocated(p) \cap InBlock(b) = {}
    BY <1>2, <1>3, ListedHaveBits
  <2>3. /\ p.bits \ InBlock(b) \in SUBSET SlotIds
        /\ Allocated(p) \subseteq p.bits \ InBlock(b)
        /\ jobs' = [p EXCEPT !.bits = p.bits \ InBlock(b)]
    BY <2>1, <2>2
  <2>4. /\ WellFormed(jobs') /\ jobs'.list = p.list /\ jobs'.free = p.free
        /\ jobs'.bits = p.bits \ InBlock(b) /\ Allocated(jobs') = Allocated(p)
    BY <2>3, OtherBitsWF
  <2>5. Allocated(p) \subseteq SlotIds
    BY <2>2
  <2>. QED BY <1>1, <1>2, <2>1, <2>2, <2>4, <2>5
<1>4. CASE ~ (n = 0 /\ ~ aborted')
  BY <1>2, <1>4 DEF Uncount
<1>. QED BY <1>3, <1>4

\* What freeing a listed job does, whoever frees it and whatever the arena says.
Frees(s) == /\ WellFormed(jobs')
            /\ \A l \in ListIds : OnList(jobs', l) = OnList(jobs, l) \ {s}
            /\ \A l \in ListIds : s \notin OnList(jobs, l) => jobs'.list[l] = jobs.list[l]
            /\ rec' \in [SlotIds -> Job]
            /\ \A x \in Allocated(jobs') : rec'[x] = rec[x]
            /\ aborted' \in BOOLEAN

LEMMA FreeJobFrees ==
  ASSUME PoolTypes, SlotsWellFormed, NEW l \in ListIds, NEW s \in OnList(jobs, l), FreeJob(s)
  PROVE  /\ s \in SlotIds /\ s \in Allocated(jobs) /\ Frees(s)
         /\ memMutex = NoOne /\ memMutex' = memMutex
<1>. DEFINE q == SlotFree(jobs, s)
<1>1. s \in SlotIds /\ s \in Allocated(jobs)
  BY OnListIsSlot DEF SlotsWellFormed
<1>2. /\ WellFormed(q) /\ (\A m \in ListIds : OnList(q, m) = OnList(jobs, m) \ {s})
      /\ \A m \in ListIds : s \notin OnList(jobs, m) => q.list[m] = jobs.list[m]
  BY <1>1, SlotFreeWF DEF SlotsWellFormed
<1>3. rec \in [SlotIds -> Job]
  BY DEF PoolTypes
<1>4. /\ WellFormed(jobs') /\ jobs'.list = q.list /\ rec' \in [SlotIds -> Job]
      /\ (\A x \in Allocated(jobs') : rec'[x] = rec[x]) /\ aborted' \in BOOLEAN
  <2>1. CASE BlockOf(s) \in data /\ FreeAsserts(jobs, s)
    <3>1. Uncount(BlockOf(s), busy[BlockOf(s)] - 1, q)
      BY <2>1 DEF FreeJob
    <3>. HIDE DEF q
    <3>. QED BY <1>2, <3>1, UncountSteps
  <2>2. CASE ~ (BlockOf(s) \in data /\ FreeAsserts(jobs, s))
    <3>1. jobs' = Unlisted(s) /\ rec' = rec /\ aborted' = TRUE
      BY <2>2 DEF FreeJob
    <3>. QED BY <3>1, <1>1, <1>3, UnlistedWF
  <2>. QED BY <2>1, <2>2
<1>. HIDE DEF q
<1>5. memMutex = NoOne /\ memMutex' = memMutex
  BY DEF FreeJob
<1>. QED BY <1>1, <1>2, <1>4, <1>5 DEF Frees, OnList

LEMMA ReleaseJobFrees ==
  ASSUME PoolTypes, SlotsWellFormed, NEW w \in Workers, wrk[w].job \in Allocated(jobs),
         ReleaseJob(w)
  PROVE  Frees(wrk[w].job) /\ rec' = rec
<1>. DEFINE s == wrk[w].job
            q == SlotFree(jobs, s)
<1>1. /\ WellFormed(q) /\ (\A m \in ListIds : OnList(q, m) = OnList(jobs, m) \ {s})
      /\ \A m \in ListIds : s \notin OnList(jobs, m) => q.list[m] = jobs.list[m]
  BY SlotFreeWF DEF SlotsWellFormed
<1>2. /\ jobs' = Unlisted(s) /\ rec' = rec /\ rec \in [SlotIds -> Job]
      /\ aborted' \in BOOLEAN
  BY DEF ReleaseJob, EnterArena, PoolTypes
<1>3. WellFormed(jobs') /\ jobs'.list = q.list
  BY <1>2, UnlistedWF
<1>. HIDE DEF q
<1>. QED BY <1>1, <1>2, <1>3 DEF Frees, OnList

-----------------------------------------------------------------------------
(***************************************************************************)
(* The worker's steps preserve the invariant.                              *)
(***************************************************************************)
AnyWorkerStep(w) == WorkerStep(w) \/ SpuriousWakeup(w)

QuietStep(w) == \/ LoopTop(w) \/ LockCond(w) \/ CheckPending(w) \/ Park(w)
                \/ SpuriousWakeup(w) \/ UnlockCond(w) \/ Begin(w) \/ RunJob(w)
                \/ LoadInUse(w) \/ ClearInUse(w) \/ LoadFinished(w) \/ SetFinished(w)
                \/ EnterPublish(w) \/ Exit(w)
                \/ (TakeJob(w) /\ IsEmptyList(jobs, PENDING))

\* What no worker ever touches.
LEMMA WorkerFrame ==
  ASSUME NEW w \in Workers, AnyWorkerStep(w)
  PROVE  /\ main' = main /\ launched' = launched /\ accepted' = accepted
         /\ replied' = replied /\ handle' = handle
         /\ cancelled' = cancelled
BY DEF AnyWorkerStep, WorkerStep, NoClientChange, clientVars, poolVars, LoopTop, LockCond,
       CheckPending, Park, SpuriousWakeup, TakeJob, UnlockCond, Begin, RunJob, LoadInUse,
       ClearInUse, LoadFinished, SetFinished, LoadFlags, StoreFlags, EnterArena, EnterPublish,
       Publish, NotifyFinish, ReleaseJob, ReleaseBit, ReleaseCount, Exit

\* No worker takes memslot.mutex from the main thread.
MutexKept == /\ memMutex' \in Workers \cup {NoOne, Main}
             /\ memMutex' = Main <=> memMutex = Main

LEMMA NamesDiffer == NoOne \notin Workers /\ Main \notin Workers /\ Main # NoOne
BY DEF NoOne, Main, Workers

LEMMA WorkerMutex ==
  ASSUME PoolTypes, ArenaSteps, NEW w \in Workers, AnyWorkerStep(w)
  PROVE  MutexKept
<1>1. memMutex \in Workers \cup {NoOne, Main}
  BY DEF PoolTypes
<1>2. CASE memMutex' = memMutex
  BY <1>1, <1>2 DEF MutexKept
<1>3. CASE EnterPublish(w) \/ ReleaseJob(w)
  BY <1>3, NamesDiffer DEF EnterPublish, ReleaseJob, EnterArena, MutexKept
<1>4. CASE Publish(w) \/ ReleaseCount(w)
  <2>1. memMutex = w /\ memMutex' = NoOne
    BY <1>4 DEF ArenaSteps, Updating, Publish, ReleaseCount, AtLabel
  <2>. QED BY <2>1, NamesDiffer DEF MutexKept
<1>. QED BY <1>2, <1>3, <1>4
     DEF AnyWorkerStep, WorkerStep, poolVars, LoopTop, LockCond, CheckPending, Park,
         SpuriousWakeup, TakeJob, UnlockCond, Begin, RunJob, LoadInUse, ClearInUse, LoadFinished,
         SetFinished, LoadFlags, StoreFlags, NotifyFinish, ReleaseBit, Exit

\* Taking and giving back thrd_cond.mutex.
LEMMA WorkerLocks ==
  ASSUME Locks, NEW w \in Workers, \A v \in Workers \ {w} : wrk'[v] = wrk[v],
         main' = main, MutexKept,
         \/ condMutex' = condMutex /\ (wrk[w].pc \in LockedPCs <=> wrk'[w].pc \in LockedPCs)
         \/ condMutex = NoOne /\ condMutex' = w /\ wrk'[w].pc \in LockedPCs
         \/ wrk[w].pc \in LockedPCs /\ condMutex' = NoOne /\ wrk'[w].pc \notin LockedPCs
  PROVE  Locks'
<1>1. NoOne \notin Workers
  BY DEF NoOne, Workers
<1>. QED BY <1>1 DEF Locks, MutexKept

LEMMA QuietTypes ==
  ASSUME PoolTypes, OneOwner, NEW w \in Workers, QuietStep(w), MutexKept
  PROVE  PoolTypes' /\ jobs' = jobs /\ pipe' = pipe
<1>0. /\ main' = main /\ launched' = launched /\ accepted' = accepted
      /\ replied' = replied /\ handle' = handle /\ cancelled' = cancelled
  BY WorkerFrame DEF QuietStep, AnyWorkerStep, WorkerStep
\* It is enough to type what a worker may change.
<1>g. ASSUME wrk' \in [Workers -> Worker], rec' \in [SlotIds -> Job],
             condMutex' \in Workers \cup {NoOne}, aborted' \in BOOLEAN,
             ran' \in [Tickets -> Nat], jobs' = jobs, pipe' = pipe
      PROVE  PoolTypes' /\ jobs' = jobs /\ pipe' = pipe
  BY <1>0, <1>g DEF PoolTypes, MutexKept
<1>1. /\ wrk \in [Workers -> Worker] /\ rec \in [SlotIds -> Job]
      /\ condMutex \in Workers \cup {NoOne} /\ aborted \in BOOLEAN
      /\ ran \in [Tickets -> Nat]
  BY DEF PoolTypes
<1>. USE DEF KeepsJob, Moves, NoClientChange, clientVars, poolVars
<1>2. CASE LoopTop(w)
  BY <1>2, <1>1, <1>g, LoopTopMoves DEF LoopTop
<1>3. CASE LockCond(w)
  BY <1>3, <1>1, <1>g, LockCondMoves DEF LockCond
<1>4. CASE CheckPending(w)
  BY <1>4, <1>1, <1>g, CheckPendingMoves DEF CheckPending
<1>5. CASE Park(w)
  BY <1>5, <1>1, <1>g, ParkMoves DEF Park
<1>6. CASE SpuriousWakeup(w)
  BY <1>6, <1>1, <1>g, SpuriousWakeupMoves DEF SpuriousWakeup
<1>7. CASE UnlockCond(w)
  BY <1>7, <1>1, <1>g, UnlockCondMoves DEF UnlockCond
<1>8. CASE Begin(w)
  BY <1>8, <1>1, <1>g, BeginMoves DEF Begin
<1>9. CASE RunJob(w)
  <2>. DEFINE k == rec[wrk[w].job].ticket
  <2>0. ran' = [ran EXCEPT ![k] = ran[k] + 1]
    BY <1>9 DEF RunJob
  <2>. HIDE DEF k
  <2>1. ran' \in [Tickets -> Nat]
    <3>1. CASE k \in Tickets
      BY <2>0, <3>1, <1>1
    <3>2. CASE k \notin Tickets
      BY <2>0, <3>2, <1>1
    <3>. QED BY <3>1, <3>2
  <2>. QED BY <1>9, <2>1, <1>1, <1>g, RunJobMoves DEF RunJob
<1>10. CASE LoadInUse(w)
  BY <1>10, <1>1, <1>g, FlagMoves DEF LoadInUse, LoadFlags
<1>11. CASE ClearInUse(w)
  BY <1>11, <1>1, <1>g, FlagMoves DEF ClearInUse, StoreFlags
<1>12. CASE LoadFinished(w)
  BY <1>12, <1>1, <1>g, FlagMoves DEF LoadFinished, LoadFlags
<1>13. CASE SetFinished(w)
  BY <1>13, <1>1, <1>g, FlagMoves DEF SetFinished, StoreFlags
<1>14. CASE Exit(w)
  BY <1>14, <1>1, <1>g, ExitMoves DEF Exit
<1>16. CASE EnterPublish(w)
  BY <1>16, <1>1, <1>g, EnterPublishMoves DEF EnterPublish, EnterArena
<1>15. CASE TakeJob(w) /\ IsEmptyList(jobs, PENDING)
  BY <1>15, <1>1, <1>g DEF TakeJob
<1>. QED BY <1>2, <1>3, <1>4, <1>5, <1>6, <1>7, <1>8, <1>9, <1>10, <1>11, <1>12, <1>13,
            <1>14, <1>15, <1>16 DEF QuietStep

\* A worker neither launched nor at "notify" moves; it keeps what it owns.
QuietMove(w) == /\ wrk' \in [Workers -> Worker]
                /\ \A v \in Workers \ {w} : wrk'[v] = wrk[v]
                /\ wrk'[w].job = wrk[w].job
                /\ Owns(w)' <=> Owns(w)
                /\ wrk[w].pc \notin {"off", "notify"}

LEMMA QuietMoves ==
  ASSUME PoolTypes, Locks, OneOwner, NEW w \in Workers, QuietStep(w), MutexKept
  PROVE  (QuietMove(w) \/ wrk' = wrk) /\ Locks'
<1>0. main' = main /\ MutexKept
  BY WorkerFrame DEF QuietStep, AnyWorkerStep, WorkerStep
<1>1. /\ \A x \in {"begin", "run", "load_in_use", "store_in_use", "load_finished",
                   "store_finished", "publish", "switch", "release", "exit"} :
             x \in OwningPCs /\ x \notin LockedPCs
      /\ "unlock" \in OwningPCs /\ "unlock" \in LockedPCs
  BY DEF LockedPCs, OwningPCs
<1>2. /\ \A x \in {"top", "lock", "waiting", "exited"} : x \notin OwningPCs /\ x \notin LockedPCs
      /\ \A x \in {"check", "park", "take"} : x \notin OwningPCs /\ x \in LockedPCs
  BY DEF LockedPCs, OwningPCs
<1>. DEFINE pc == wrk[w].pc
            next == wrk'[w].pc
<1>3. ASSUME wrk' \in [Workers -> Worker], \A v \in Workers \ {w} : wrk'[v] = wrk[v],
             wrk'[w].job = wrk[w].job, pc \notin {"off", "notify"},
             \/ pc \in OwningPCs /\ next \in OwningPCs
             \/ pc \notin OwningPCs \cup {"exited"} /\ next \notin OwningPCs \cup {"exited"}
             \/ pc = "exit" /\ next = "exited"
      PROVE  QuietMove(w)
  <2>1. NoSlot \notin SlotIds
    BY DEF NoSlot, SlotIds
  <2>2. pc \in OwningPCs => wrk[w].job \in SlotIds
    BY JobOfWorker
  <2>. QED BY <1>1, <1>2, <1>3, <2>1, <2>2 DEF QuietMove, Owns
<1>4. ASSUME \A v \in Workers \ {w} : wrk'[v] = wrk[v],
             \/ condMutex' = condMutex /\ (pc \in LockedPCs <=> next \in LockedPCs)
             \/ condMutex = NoOne /\ condMutex' = w /\ next \in LockedPCs
             \/ pc \in LockedPCs /\ condMutex' = NoOne /\ next \notin LockedPCs
      PROVE  Locks'
  BY <1>0, <1>4, WorkerLocks
<1>. USE DEF poolVars, KeepsJob, Moves
<1>5. CASE LoopTop(w)
  BY <1>5, <1>1, <1>2, <1>3, <1>4, LoopTopMoves DEF LoopTop
<1>6. CASE LockCond(w)
  BY <1>6, <1>1, <1>2, <1>3, <1>4, LockCondMoves DEF LockCond
<1>7. CASE CheckPending(w)
  BY <1>7, <1>1, <1>2, <1>3, <1>4, CheckPendingMoves DEF CheckPending
<1>8. CASE Park(w)
  BY <1>8, <1>1, <1>2, <1>3, <1>4, ParkMoves DEF Park
<1>9. CASE SpuriousWakeup(w)
  BY <1>9, <1>1, <1>2, <1>3, <1>4, SpuriousWakeupMoves DEF SpuriousWakeup
<1>10. CASE UnlockCond(w)
  BY <1>10, <1>1, <1>2, <1>3, <1>4, UnlockCondMoves DEF UnlockCond
<1>11. CASE Begin(w)
  BY <1>11, <1>1, <1>2, <1>3, <1>4, BeginMoves, ZenonT(40) DEF Begin
<1>12. CASE RunJob(w)
  BY <1>12, <1>1, <1>2, <1>3, <1>4, RunJobMoves DEF RunJob
<1>13. CASE LoadInUse(w)
  BY <1>13, <1>1, <1>2, <1>3, <1>4, FlagMoves DEF LoadInUse, LoadFlags
<1>14. CASE ClearInUse(w)
  BY <1>14, <1>1, <1>2, <1>3, <1>4, FlagMoves DEF ClearInUse, StoreFlags
<1>15. CASE LoadFinished(w)
  BY <1>15, <1>1, <1>2, <1>3, <1>4, FlagMoves DEF LoadFinished, LoadFlags
<1>16. CASE SetFinished(w)
  BY <1>16, <1>1, <1>2, <1>3, <1>4, FlagMoves DEF SetFinished, StoreFlags
<1>17. CASE Exit(w)
  BY <1>17, <1>1, <1>2, <1>3, <1>4, ExitMoves DEF Exit
<1>19. CASE EnterPublish(w)
  BY <1>19, <1>1, <1>2, <1>3, <1>4, EnterPublishMoves DEF EnterPublish, EnterArena
<1>18. CASE TakeJob(w) /\ IsEmptyList(jobs, PENDING)
  BY <1>0, <1>18 DEF TakeJob, Locks
<1>. QED BY <1>5, <1>6, <1>7, <1>8, <1>9, <1>10, <1>11, <1>12, <1>13, <1>14, <1>15, <1>16,
            <1>17, <1>18, <1>19 DEF QuietStep

\* A worker step that is quiet leaves every part of the invariant alone.
LEMMA WorkerSteadies ==
  ASSUME MainLocals, UnlaunchedAreOff, NEW w \in Workers, AnyWorkerStep(w),
         wrk[w].pc # "off", \A v \in Workers \ {w} : wrk'[v] = wrk[v]
  PROVE  MainLocals' /\ UnlaunchedAreOff' /\ (Consuming' <=> Consuming)
<1>1. main' = main /\ accepted' = accepted /\ launched' = launched
  BY WorkerFrame
<1>2. w < launched \/ ~ (w >= launched)
  BY DEF UnlaunchedAreOff
<1>. QED BY <1>1, <1>2 DEF MainLocals, UnlaunchedAreOff, Consuming

LEMMA QuietIInv ==
  ASSUME IInv, ArenaSteps, NEW w \in Workers, QuietStep(w)
  PROVE  IInv'
<1>0. /\ PoolTypes /\ Locks /\ MainLocals /\ UnlaunchedAreOff /\ SlotsWellFormed
      /\ OneOwner /\ NoLostCompletion
  BY DEF IInv
<1>9. MutexKept
  BY <1>0, WorkerMutex DEF QuietStep, AnyWorkerStep, WorkerStep
<1>1. PoolTypes' /\ jobs' = jobs /\ pipe' = pipe
  BY <1>0, <1>9, QuietTypes
<1>2. (QuietMove(w) \/ wrk' = wrk) /\ Locks'
  BY <1>0, <1>9, QuietMoves
<1>3. main' = main /\ accepted' = accepted /\ launched' = launched
  BY WorkerFrame DEF QuietStep, AnyWorkerStep, WorkerStep
<1>4. Consuming' <=> Consuming
  BY <1>3 DEF Consuming
<1>5. MainLocals'
  BY <1>0, <1>3, <1>4 DEF MainLocals
<1>6. SlotsWellFormed'
  BY <1>0, <1>1 DEF SlotsWellFormed
<1>7. CASE QuietMove(w)
  <2>1. UnlaunchedAreOff'
    BY <1>0, <1>3, <1>7 DEF UnlaunchedAreOff, QuietMove
  <2>2. \A v \in Workers : (Owns(v)' <=> Owns(v)) /\ wrk'[v].job = wrk[v].job
    BY <1>7 DEF QuietMove, Owns
  <2>3. OneOwner'
    BY <1>0, <1>1, <1>3, <1>4, <2>2 DEF OneOwner
  <2>4. NoLostCompletion'
    BY <1>0, <1>1, <1>3, <1>4, <1>7 DEF NoLostCompletion, QuietMove
  <2>. QED BY <1>1, <1>2, <1>5, <1>6, <2>1, <2>3, <2>4 DEF IInv
<1>8. CASE wrk' = wrk
  <2>1. UnlaunchedAreOff'
    BY <1>0, <1>3, <1>8 DEF UnlaunchedAreOff
  <2>2. OneOwner'
    BY <1>0, <1>1, <1>3, <1>4, <1>8 DEF OneOwner, Owns
  <2>3. NoLostCompletion'
    BY <1>0, <1>1, <1>3, <1>4, <1>8 DEF NoLostCompletion
  <2>. QED BY <1>1, <1>2, <1>5, <1>6, <2>1, <2>2, <2>3 DEF IInv
<1>. QED BY <1>2, <1>7, <1>8

LEMMA NotifyFinishIInv ==
  ASSUME IInv, ArenaSteps, NEW w \in Workers, NotifyFinish(w)
  PROVE  IInv'
<1>0. /\ PoolTypes /\ Locks /\ MainLocals /\ UnlaunchedAreOff /\ SlotsWellFormed
      /\ OneOwner /\ NoLostCompletion
  BY DEF IInv
<1>1. AnyWorkerStep(w)
  BY DEF AnyWorkerStep, WorkerStep
<1>m. MutexKept
  BY <1>0, <1>1, WorkerMutex
<1>2. /\ wrk[w].pc = "notify" /\ wrk'[w].pc = "top" /\ wrk' \in [Workers -> Worker]
      /\ \A v \in Workers \ {w} : wrk'[v] = wrk[v]
  BY <1>0, NotifyFinishMoves DEF Moves
<1>3. /\ main' = main /\ launched' = launched /\ accepted' = accepted
      /\ replied' = replied /\ handle' = handle /\ cancelled' = cancelled
  BY <1>1, WorkerFrame
<1>4. /\ jobs' = jobs /\ rec' = rec /\ condMutex' = condMutex /\ aborted' = aborted
      /\ ran' = ran /\ pipe' = pipe + 1 /\ pipe \in Nat
  BY <1>0 DEF NotifyFinish, poolVars, NoClientChange, clientVars, PoolTypes
<1>5. PoolTypes'
  BY <1>0, <1>2, <1>3, <1>4, <1>m DEF PoolTypes, MutexKept
<1>6. "notify" \notin LockedPCs \cup OwningPCs \cup {"exited"}
      /\ "top" \notin LockedPCs \cup OwningPCs \cup {"exited"}
  BY DEF LockedPCs, OwningPCs
<1>7. Locks'
  BY <1>0, <1>2, <1>3, <1>4, <1>6, <1>m, WorkerLocks
<1>8. MainLocals' /\ UnlaunchedAreOff' /\ (Consuming' <=> Consuming)
  BY <1>0, <1>1, <1>2, WorkerSteadies
<1>9. SlotsWellFormed'
  BY <1>0, <1>4 DEF SlotsWellFormed
<1>10. \A v \in Workers : (Owns(v)' <=> Owns(v)) /\ (Owns(v) => wrk'[v].job = wrk[v].job)
  BY <1>2, <1>6 DEF Owns
<1>11. OneOwner'
  BY <1>0, <1>3, <1>4, <1>8, <1>10 DEF OneOwner
<1>12. NoLostCompletion'
  BY <1>4 DEF NoLostCompletion
<1>. QED BY <1>5, <1>7, <1>8, <1>9, <1>11, <1>12 DEF IInv

LEMMA TakeJobIInv ==
  ASSUME IInv, ArenaSteps, NEW w \in Workers, TakeJob(w), ~ IsEmptyList(jobs, PENDING)
  PROVE  IInv'
<1>. DEFINE s == PointToHead(jobs, PENDING)
<1>0. /\ PoolTypes /\ Locks /\ MainLocals /\ UnlaunchedAreOff /\ SlotsWellFormed
      /\ OneOwner /\ NoLostCompletion /\ WellFormed(jobs)
  BY DEF IInv, SlotsWellFormed
<1>1. AnyWorkerStep(w)
  BY DEF AnyWorkerStep, WorkerStep
<1>m. MutexKept
  BY <1>0, <1>1, WorkerMutex
<1>2. /\ wrk[w].pc = "take" /\ wrk'[w].pc = "unlock" /\ wrk' \in [Workers -> Worker]
      /\ \A v \in Workers \ {w} : wrk'[v] = wrk[v]
      /\ jobs' = HeadSwitch(jobs, PENDING, WORKING) /\ wrk'[w].job = s
  BY <1>0, TakeJobMoves DEF Moves
<1>3. /\ main' = main /\ launched' = launched /\ accepted' = accepted
      /\ replied' = replied /\ handle' = handle /\ cancelled' = cancelled
  BY <1>1, WorkerFrame
<1>4. /\ rec' = rec /\ condMutex' = condMutex /\ ran' = ran /\ pipe' = pipe
      /\ aborted' = aborted
  BY DEF TakeJob, NoClientChange, clientVars
<1>5. PENDING \in ListIds /\ WORKING \in ListIds /\ DONE \in ListIds
      /\ PENDING # WORKING /\ DONE \notin {PENDING, WORKING}
  BY ListsExist DEF PENDING, WORKING, DONE
<1>6. /\ s \in OnList(jobs, PENDING)
      /\ WellFormed(jobs')
      /\ OnList(jobs', WORKING) = OnList(jobs, WORKING) \cup {s}
      /\ jobs'.list[DONE] = jobs.list[DONE]
  BY <1>0, <1>2, <1>5, HeadSwitchWF
<1>7. s \notin OnList(jobs, WORKING)
  BY <1>0, <1>5, <1>6, ListsDisjoint
<1>. HIDE DEF s
<1>8. PoolTypes'
  BY <1>0, <1>2, <1>3, <1>4, <1>6, <1>m DEF PoolTypes, WellFormed, MutexKept
<1>9. /\ "take" \in LockedPCs /\ "unlock" \in LockedPCs
      /\ "take" \notin OwningPCs /\ "unlock" \in OwningPCs
  BY DEF LockedPCs, OwningPCs
<1>10. Locks'
  BY <1>0, <1>2, <1>3, <1>4, <1>9, <1>m, WorkerLocks
<1>11. MainLocals' /\ UnlaunchedAreOff' /\ (Consuming' <=> Consuming)
  BY <1>0, <1>1, <1>2, WorkerSteadies
<1>12. /\ ~ Owns(w) /\ Owns(w)'
       /\ \A v \in Workers \ {w} : (Owns(v)' <=> Owns(v)) /\ wrk'[v].job = wrk[v].job
  BY <1>2, <1>9 DEF Owns
<1>13. OneOwner'
  <2>1. \A v \in Workers : Owns(v)' => wrk'[v].job \in OnList(jobs', WORKING)
    BY <1>0, <1>2, <1>6, <1>12 DEF OneOwner
  <2>2. \A u, v \in Workers : Owns(u)' /\ Owns(v)' /\ u # v => wrk'[u].job # wrk'[v].job
    BY <1>0, <1>2, <1>7, <1>12 DEF OneOwner
  <2>3. \A x \in OnList(jobs', WORKING) : \E v \in Workers : Owns(v)' /\ wrk'[v].job = x
    <3>. TAKE x \in OnList(jobs', WORKING)
    <3>1. CASE x = s
      BY <3>1, <1>2, <1>12
    <3>2. CASE x # s
      <4>1. PICK v \in Workers : Owns(v) /\ wrk[v].job = x
        BY <3>2, <1>0, <1>6 DEF OneOwner
      <4>. QED BY <4>1, <1>12
    <3>. QED BY <3>1, <3>2
  <2>4. Consuming' => ~ IsEmptyList(jobs', DONE) /\ main'.head = PointToHead(jobs', DONE)
    BY <1>0, <1>3, <1>6, <1>11 DEF OneOwner, IsEmptyList, PointToHead
  <2>. QED BY <2>1, <2>2, <2>3, <2>4 DEF OneOwner
<1>14. NoLostCompletion'
  BY <1>0, <1>2, <1>3, <1>4, <1>6, <1>11 DEF NoLostCompletion, IsEmptyList
<1>. QED BY <1>6, <1>8, <1>10, <1>11, <1>13, <1>14 DEF IInv, SlotsWellFormed

LEMMA StoredBits ==
  ASSUME ArenaSteps, SlotsWellFormed, NEW w \in Workers, wrk[w].pc \in {"switch", "clear"},
         NEW own \in SUBSET SlotIds
  PROVE  /\ StoredByte(w, own) \in SUBSET SlotIds /\ own \subseteq StoredByte(w, own)
         /\ Allocated(jobs) \ {wrk[w].job} \subseteq StoredByte(w, own)
<1>1. jobs.bits \subseteq SlotIds /\ Allocated(jobs) \subseteq jobs.bits
  BY ListedHaveBits DEF SlotsWellFormed
<1>2. holder.bits \subseteq SlotIds
  BY DEF ArenaSteps, Registers
<1>3. (Allocated(jobs) \cap SameByte(wrk[w].job)) \ {wrk[w].job} \subseteq holder.bits
  BY DEF ArenaSteps
<1>. QED BY <1>1, <1>2, <1>3 DEF StoredByte

\* The switch to DONE, whatever a cancel does to the bits of other slots.
LEMMA PublishSwitches ==
  ASSUME ArenaSteps, SlotsWellFormed, NEW w \in Workers, Publish(w),
         wrk[w].job \in OnList(jobs, WORKING)
  PROVE  LET s == wrk[w].job
         IN  /\ WellFormed(jobs') /\ s \in SlotIds
             /\ OnList(jobs', WORKING) = OnList(jobs, WORKING) \ {s}
             /\ OnList(jobs', DONE) = OnList(jobs, DONE) \cup {s}
             /\ jobs'.list[PENDING] = jobs.list[PENDING]
             /\ jobs.list[DONE] \in Seq(SlotIds)
             /\ jobs'.list[DONE] = Append(jobs.list[DONE], s)
             /\ Allocated(jobs') \subseteq Allocated(jobs)
<1>. DEFINE s == wrk[w].job
            q == SwitchToTail(jobs, s, DONE)
            B == StoredByte(w, {s})
<1>1. PENDING \in ListIds /\ WORKING \in ListIds /\ DONE \in ListIds
      /\ PENDING # WORKING /\ DONE \notin {PENDING, WORKING}
  BY ListsExist DEF PENDING, WORKING, DONE
<1>2. /\ s \in SlotIds /\ s \in Allocated(jobs) /\ s \notin OnList(jobs, DONE)
      /\ s \notin OnList(jobs, PENDING) /\ jobs.list[DONE] \in Seq(SlotIds)
  BY <1>1, OnListIsSlot, ListsDisjoint DEF SlotsWellFormed
<1>3. wrk[w].pc = "switch" /\ jobs' = [q EXCEPT !.bits = B]
  BY DEF Publish, AtLabel
<1>4. B \in SUBSET SlotIds /\ Allocated(jobs) \subseteq B
  BY <1>2, <1>3, StoredBits
<1>. HIDE DEF s, B
<1>5. /\ WellFormed(q) /\ OnList(q, DONE) = OnList(jobs, DONE) \cup {s}
      /\ \A m \in ListIds \ {DONE} : OnList(q, m) = OnList(jobs, m) \ {s}
  BY <1>1, <1>2, SwitchToTailWF DEF SlotsWellFormed
<1>6. q.list[DONE] = Append(jobs.list[DONE], s) /\ q.list[PENDING] = jobs.list[PENDING]
  BY <1>1, <1>2, SwitchToTailKeeps DEF SlotsWellFormed
<1>. HIDE DEF q
<1>7. Allocated(q) \subseteq Allocated(jobs)
  BY <1>1, <1>2, <1>5 DEF Allocated
<1>8. WellFormed(jobs') /\ jobs'.list = q.list /\ Allocated(jobs') = Allocated(q)
  BY <1>3, <1>4, <1>5, <1>7, OtherBitsWF
<1>. QED BY <1>1, <1>2, <1>5, <1>6, <1>7, <1>8 DEF OnList, s

LEMMA PublishIInv ==
  ASSUME IInv, ArenaSteps, NEW w \in Workers, Publish(w)
  PROVE  IInv'
<1>. DEFINE s == wrk[w].job
<1>0. /\ PoolTypes /\ Locks /\ MainLocals /\ UnlaunchedAreOff /\ SlotsWellFormed
      /\ OneOwner /\ NoLostCompletion /\ WellFormed(jobs)
  BY DEF IInv, SlotsWellFormed
<1>1. AnyWorkerStep(w)
  BY DEF AnyWorkerStep, WorkerStep
<1>m. MutexKept
  BY <1>0, <1>1, WorkerMutex
<1>2. /\ wrk[w].pc = "switch" /\ wrk'[w].pc = (IF Notify THEN "notify" ELSE "top")
      /\ wrk' \in [Workers -> Worker]
      /\ \A v \in Workers \ {w} : wrk'[v] = wrk[v]
  BY <1>0, PublishMoves DEF Moves
<1>3. /\ main' = main /\ launched' = launched /\ accepted' = accepted
      /\ replied' = replied /\ handle' = handle /\ cancelled' = cancelled
  BY <1>1, WorkerFrame
<1>4. /\ rec' = rec /\ condMutex' = condMutex /\ ran' = ran /\ pipe' = pipe
      /\ aborted' = aborted
  BY DEF Publish, NoClientChange, clientVars
<1>5. PENDING \in ListIds /\ WORKING \in ListIds /\ DONE \in ListIds
      /\ PENDING # WORKING /\ DONE \notin {PENDING, WORKING}
  BY ListsExist DEF PENDING, WORKING, DONE
<1>6. /\ "switch" \notin LockedPCs /\ "notify" \notin LockedPCs /\ "top" \notin LockedPCs
      /\ "switch" \in OwningPCs /\ "notify" \notin OwningPCs /\ "top" \notin OwningPCs
  BY DEF LockedPCs, OwningPCs
<1>7. /\ Owns(w) /\ ~ Owns(w)'
      /\ \A v \in Workers \ {w} : (Owns(v)' <=> Owns(v)) /\ wrk'[v].job = wrk[v].job
  BY <1>2, <1>6 DEF Owns
<1>8. s \in OnList(jobs, WORKING)
  BY <1>0, <1>7 DEF OneOwner
<1>10. /\ WellFormed(jobs')
       /\ OnList(jobs', WORKING) = OnList(jobs, WORKING) \ {s}
       /\ jobs'.list[DONE] = Append(jobs.list[DONE], s)
       /\ jobs.list[DONE] \in Seq(SlotIds) /\ s \in SlotIds
  BY <1>0, <1>8, PublishSwitches
<1>. HIDE DEF s
<1>11. ~ IsEmptyList(jobs, DONE) => /\ ~ IsEmptyList(jobs', DONE)
                                   /\ PointToHead(jobs', DONE) = PointToHead(jobs, DONE)
  BY <1>10 DEF IsEmptyList, PointToHead
<1>12. PoolTypes'
  BY <1>0, <1>2, <1>3, <1>4, <1>10, <1>m DEF PoolTypes, WellFormed, MutexKept
<1>13. Locks'
  BY <1>0, <1>2, <1>3, <1>4, <1>6, <1>m, WorkerLocks
<1>14. MainLocals' /\ UnlaunchedAreOff' /\ (Consuming' <=> Consuming)
  BY <1>0, <1>1, <1>2, WorkerSteadies
<1>15. OneOwner'
  <2>1. \A v \in Workers : Owns(v)' => wrk'[v].job \in OnList(jobs', WORKING)
    BY <1>0, <1>7, <1>10 DEF OneOwner, s
  <2>2. \A u, v \in Workers : Owns(u)' /\ Owns(v)' /\ u # v => wrk'[u].job # wrk'[v].job
    BY <1>0, <1>7 DEF OneOwner
  <2>3. \A x \in OnList(jobs', WORKING) : \E v \in Workers : Owns(v)' /\ wrk'[v].job = x
    <3>. TAKE x \in OnList(jobs', WORKING)
    <3>1. PICK v \in Workers : Owns(v) /\ wrk[v].job = x
      BY <1>0, <1>10 DEF OneOwner
    <3>2. v # w
      BY <3>1, <1>10 DEF s
    <3>. QED BY <3>1, <3>2, <1>7
  <2>4. Consuming' => ~ IsEmptyList(jobs', DONE) /\ main'.head = PointToHead(jobs', DONE)
    BY <1>0, <1>3, <1>11, <1>14 DEF OneOwner
  <2>. QED BY <2>1, <2>2, <2>3, <2>4 DEF OneOwner
<1>16. NoLostCompletion'
  BY <1>2 DEF NoLostCompletion
<1>. QED BY <1>10, <1>12, <1>13, <1>14, <1>15, <1>16 DEF IInv, SlotsWellFormed

LEMMA ReleaseJobIInv ==
  ASSUME IInv, ArenaSteps, NEW w \in Workers, ReleaseJob(w)
  PROVE  IInv'
<1>. DEFINE s == wrk[w].job
<1>0. /\ PoolTypes /\ Locks /\ MainLocals /\ UnlaunchedAreOff /\ SlotsWellFormed
      /\ OneOwner /\ NoLostCompletion /\ WellFormed(jobs)
  BY DEF IInv, SlotsWellFormed
<1>1. AnyWorkerStep(w)
  BY DEF AnyWorkerStep, WorkerStep
<1>m. MutexKept
  BY <1>0, <1>1, WorkerMutex
<1>2. /\ wrk[w].pc = "release" /\ wrk'[w].pc = "clear" /\ wrk' \in [Workers -> Worker]
      /\ \A v \in Workers \ {w} : wrk'[v] = wrk[v]
  BY <1>0, ReleaseMoves DEF KeepsJob, Moves
<1>3. /\ main' = main /\ launched' = launched /\ accepted' = accepted
      /\ replied' = replied /\ handle' = handle /\ cancelled' = cancelled
  BY <1>1, WorkerFrame
<1>4. /\ condMutex' = condMutex /\ ran' = ran /\ pipe' = pipe
  BY DEF ReleaseJob, EnterArena, NoClientChange, clientVars
<1>5. PENDING \in ListIds /\ WORKING \in ListIds /\ DONE \in ListIds
      /\ PENDING # WORKING /\ DONE \notin {PENDING, WORKING}
  BY ListsExist DEF PENDING, WORKING, DONE
<1>6. /\ "release" \notin LockedPCs /\ "clear" \notin LockedPCs
      /\ "release" \in OwningPCs /\ "clear" \notin OwningPCs
  BY DEF LockedPCs, OwningPCs
<1>7. /\ Owns(w) /\ ~ Owns(w)'
      /\ \A v \in Workers \ {w} : (Owns(v)' <=> Owns(v)) /\ wrk'[v].job = wrk[v].job
  BY <1>2, <1>6 DEF Owns
<1>8. s \in OnList(jobs, WORKING)
  BY <1>0, <1>7 DEF OneOwner
<1>9. s \notin OnList(jobs, DONE) /\ s \in Allocated(jobs)
  BY <1>0, <1>5, <1>8, ListsDisjoint, OnListIsSlot
<1>10. Frees(s)
  BY <1>0, <1>9, ReleaseJobFrees
<1>. HIDE DEF s
<1>11. /\ OnList(jobs', WORKING) = OnList(jobs, WORKING) \ {s}
       /\ jobs'.list[DONE] = jobs.list[DONE]
       /\ WellFormed(jobs') /\ rec' \in [SlotIds -> Job] /\ aborted' \in BOOLEAN
  BY <1>5, <1>9, <1>10 DEF Frees
<1>12. PoolTypes'
  BY <1>0, <1>2, <1>3, <1>4, <1>11, <1>m DEF PoolTypes, WellFormed, MutexKept
<1>13. Locks'
  BY <1>0, <1>2, <1>3, <1>4, <1>6, <1>m, WorkerLocks
<1>14. MainLocals' /\ UnlaunchedAreOff' /\ (Consuming' <=> Consuming)
  BY <1>0, <1>1, <1>2, WorkerSteadies
<1>15. OneOwner'
  <2>1. \A v \in Workers : Owns(v)' => wrk'[v].job \in OnList(jobs', WORKING)
    BY <1>0, <1>7, <1>11 DEF OneOwner, s
  <2>2. \A u, v \in Workers : Owns(u)' /\ Owns(v)' /\ u # v => wrk'[u].job # wrk'[v].job
    BY <1>0, <1>7 DEF OneOwner
  <2>3. \A x \in OnList(jobs', WORKING) : \E v \in Workers : Owns(v)' /\ wrk'[v].job = x
    <3>. TAKE x \in OnList(jobs', WORKING)
    <3>1. PICK v \in Workers : Owns(v) /\ wrk[v].job = x
      BY <1>0, <1>11 DEF OneOwner
    <3>2. v # w
      BY <3>1, <1>11 DEF s
    <3>. QED BY <3>1, <3>2, <1>7
  <2>4. Consuming' => ~ IsEmptyList(jobs', DONE) /\ main'.head = PointToHead(jobs', DONE)
    BY <1>0, <1>3, <1>11, <1>14 DEF OneOwner, IsEmptyList, PointToHead
  <2>. QED BY <2>1, <2>2, <2>3, <2>4 DEF OneOwner
<1>16. NoLostCompletion'
  BY <1>0, <1>2, <1>3, <1>4, <1>11, <1>14 DEF NoLostCompletion, IsEmptyList
<1>. QED BY <1>11, <1>12, <1>13, <1>14, <1>15, <1>16 DEF IInv, SlotsWellFormed

\* A worker in the arena with a job it has unlisted changes the bits alone.
LEMMA InArenaIInv ==
  ASSUME IInv, ArenaSteps, NEW w \in Workers, ReleaseBit(w) \/ ReleaseCount(w)
  PROVE  IInv'
<1>0. /\ PoolTypes /\ Locks /\ MainLocals /\ UnlaunchedAreOff /\ SlotsWellFormed
      /\ OneOwner /\ NoLostCompletion /\ WellFormed(jobs)
  BY DEF IInv, SlotsWellFormed
<1>1. AnyWorkerStep(w)
  BY DEF AnyWorkerStep, WorkerStep
<1>m. MutexKept
  BY <1>0, <1>1, WorkerMutex
<1>2. /\ wrk[w].pc \in {"clear", "count"} /\ wrk'[w].pc \in {"count", "top"}
      /\ wrk' \in [Workers -> Worker] /\ \A v \in Workers \ {w} : wrk'[v] = wrk[v]
  BY <1>0, ReleaseMoves DEF KeepsJob, Moves
<1>3. /\ main' = main /\ launched' = launched /\ accepted' = accepted
      /\ replied' = replied /\ handle' = handle /\ cancelled' = cancelled
  BY <1>1, WorkerFrame
<1>4. condMutex' = condMutex /\ ran' = ran /\ pipe' = pipe
  BY DEF ReleaseBit, ReleaseCount, NoClientChange, clientVars
<1>5. /\ WellFormed(jobs') /\ jobs'.list = jobs.list /\ rec' \in [SlotIds -> Job]
      /\ aborted' \in BOOLEAN
  <2>1. CASE ReleaseBit(w)
    <3>1. /\ jobs' = [jobs EXCEPT !.bits = StoredByte(w, {})] /\ wrk[w].pc = "clear"
          /\ rec' = rec /\ aborted' = aborted
      BY <2>1 DEF ReleaseBit, AtLabel
    <3>2. StoredByte(w, {}) \in SUBSET SlotIds /\ Allocated(jobs) \subseteq StoredByte(w, {})
      BY <1>0, <3>1, StoredBits DEF ArenaSteps
    <3>3. WellFormed(jobs') /\ jobs'.list = jobs.list
      BY <1>0, <3>1, <3>2, OtherBitsWF
    <3>. QED BY <1>0, <3>1, <3>3 DEF PoolTypes
  <2>2. CASE ReleaseCount(w)
    <3>1. Uncount(BlockOf(wrk[w].job), holder.count - 1, jobs)
      BY <2>2 DEF ReleaseCount
    <3>. QED BY <1>0, <3>1, UncountSteps
  <2>. QED BY <2>1, <2>2
<1>6. \A x \in {"clear", "count", "top"} : x \notin LockedPCs \cup OwningPCs \cup {"exited", "notify"}
  BY DEF LockedPCs, OwningPCs
<1>7. PoolTypes'
  BY <1>0, <1>2, <1>3, <1>4, <1>5, <1>m DEF PoolTypes, WellFormed, MutexKept
<1>8. Locks'
  BY <1>0, <1>2, <1>3, <1>4, <1>6, <1>m, WorkerLocks
<1>9. MainLocals' /\ UnlaunchedAreOff' /\ (Consuming' <=> Consuming)
  BY <1>0, <1>1, <1>2, WorkerSteadies
<1>10. \A v \in Workers : (Owns(v)' <=> Owns(v)) /\ (Owns(v) => wrk'[v].job = wrk[v].job)
  BY <1>2, <1>6 DEF Owns
<1>11. OneOwner'
  BY <1>0, <1>3, <1>5, <1>9, <1>10 DEF OneOwner, OnList, IsEmptyList, PointToHead
<1>12. NoLostCompletion'
  BY <1>0, <1>2, <1>3, <1>4, <1>5, <1>6, <1>9 DEF NoLostCompletion, IsEmptyList
<1>. QED BY <1>5, <1>7, <1>8, <1>9, <1>11, <1>12 DEF IInv, SlotsWellFormed

LEMMA WorkerIInv ==
  ASSUME IInv, ArenaSteps, NEW w \in Workers, WorkerStep(w) \/ SpuriousWakeup(w)
  PROVE  IInv'
BY QuietIInv, NotifyFinishIInv, TakeJobIInv, PublishIInv, ReleaseJobIInv, InArenaIInv
   DEF WorkerStep, QuietStep

-----------------------------------------------------------------------------
(***************************************************************************)
(* The main thread's steps preserve the invariant.  First those that touch *)
(* neither the job MEM_SLOT nor the workers.                               *)
(***************************************************************************)
LEMMA MainOnlyIInv ==
  ASSUME IInv, PoolTypes', MainLocals',
         jobs' = jobs \/ (SlotsWellFormed' /\ jobs'.list = jobs.list), wrk' = wrk, condMutex' = condMutex, launched' = launched,
         memMutex' = Main <=> main'.pc \in {"fill", "stuck"},
         Consuming' => ~ IsEmptyList(jobs, DONE) /\ main'.head = PointToHead(jobs, DONE),
         \/ main'.pc = "point"
         \/ /\ pipe' = pipe
            /\ Consuming \/ main.pc = "point" => Consuming' \/ IsEmptyList(jobs, DONE)
  PROVE  IInv'
<1>0. /\ Locks /\ UnlaunchedAreOff /\ SlotsWellFormed /\ OneOwner /\ NoLostCompletion
  BY DEF IInv
<1>1. Locks' /\ UnlaunchedAreOff' /\ SlotsWellFormed'
  BY <1>0 DEF Locks, UnlaunchedAreOff, SlotsWellFormed
<1>2. OneOwner'
  BY <1>0 DEF OneOwner, Owns, OnList, IsEmptyList, PointToHead
<1>3. NoLostCompletion'
  BY <1>0 DEF NoLostCompletion, IsEmptyList
<1>. QED BY <1>1, <1>2, <1>3 DEF IInv

LEMMA MainTypes ==
  ASSUME PoolTypes
  PROVE  /\ main \in MainThread /\ main.pc \in MainPCs /\ main.ret \in {"idle", "callback"}
         /\ main.kind \in JobKinds /\ main.slot \in SlotIds \cup {NoSlot}
         /\ main.head \in SlotIds \cup {NoSlot} /\ main.flags \in Flags
         /\ main.scan \in 0 .. WorkerMax + 1 /\ main.ticket \in Tickets \cup {0}
BY DEF PoolTypes, MainThread

LEMMA EnqueueStartIInv == ASSUME IInv, NEW k \in Kinds, EnqueueStart(k) PROVE IInv'
<1>0. PoolTypes /\ Locks /\ MainLocals /\ OneOwner
  BY DEF IInv
<1>1. /\ main' = [main EXCEPT !.ret = main.pc, !.kind = k, !.scan = 0,
                              !.pc = IF launched >= WorkerMax THEN "grab" ELSE "scan"]
      /\ main.pc \in {"idle", "callback"} /\ Len(accepted) < MaxJobs
      /\ jobs' = jobs /\ rec' = rec /\ memMutex' = memMutex /\ wrk' = wrk
      /\ condMutex' = condMutex /\ launched' = launched /\ pipe' = pipe
      /\ aborted' = aborted
      /\ accepted' = accepted /\ ran' = ran /\ replied' = replied /\ handle' = handle
      /\ cancelled' = cancelled
  BY DEF EnqueueStart, Callable, poolVars, clientVars
<1>2. k \in JobKinds
  BY ThreadPoolAssumption
<1>3. 0 \in 0 .. WorkerMax + 1
  BY ThreadPoolAssumption
<1>4. /\ main' \in MainThread /\ main'.pc \in {"grab", "scan"} /\ main'.ret = main.pc
      /\ main'.kind = k /\ main'.head = main.head
  BY <1>0, <1>1, <1>2, <1>3, MainTypes DEF MainThread, MainPCs
<1>. QED BY <1>0, <1>1, <1>4, MainOnlyIInv DEF PoolTypes, MainLocals, Consuming, EnqueuingPCs, CancellingPCs, Locks, OneOwner

LEMMA ScanWorkerIInv == ASSUME IInv, ScanWorker PROVE IInv'
<1>0. PoolTypes /\ Locks /\ MainLocals /\ OneOwner
  BY DEF IInv
<1>1. /\ main.pc = "scan"
      /\ main' = IF main.scan >= launched THEN [main EXCEPT !.pc = "launch"]
                 ELSE IF wrk[main.scan].state = "FREE" THEN [main EXCEPT !.pc = "grab"]
                 ELSE [main EXCEPT !.scan = @ + 1]
      /\ jobs' = jobs /\ rec' = rec /\ memMutex' = memMutex
      /\ condMutex' = condMutex /\ wrk' = wrk /\ launched' = launched
      /\ pipe' = pipe /\ aborted' = aborted /\ accepted' = accepted /\ ran' = ran
      /\ replied' = replied /\ handle' = handle /\ cancelled' = cancelled
  BY DEF ScanWorker, poolVars, clientVars
<1>2. launched \in 0 .. WorkerMax + 1 /\ WorkerMax \in Nat
  BY <1>0, ThreadPoolAssumption DEF PoolTypes
<1>3. ~ (main.scan >= launched) => main.scan + 1 \in 0 .. WorkerMax + 1
  BY <1>0, <1>2, MainTypes
<1>4. /\ main' \in MainThread /\ main'.pc \in {"scan", "launch", "grab"}
      /\ main'.ret = main.ret /\ main'.kind = main.kind /\ main'.head = main.head
  BY <1>0, <1>1, <1>3, MainTypes DEF MainThread, MainPCs
<1>. QED BY <1>0, <1>1, <1>4, MainOnlyIInv
         DEF PoolTypes, MainLocals, Consuming, EnqueuingPCs, CancellingPCs, Locks,
             OneOwner

LEMMA GrabFailsIInv == ASSUME IInv, GrabFails PROVE IInv'
<1>0. PoolTypes /\ Locks /\ MainLocals /\ OneOwner
  BY DEF IInv
<1>1. /\ main.pc = "grab"
      /\ \/ Logging /\ memMutex' = Main /\ main' = [main EXCEPT !.pc = "stuck"]
         \/ ~ Logging /\ memMutex' = NoOne /\ main' = [main EXCEPT !.pc = main.ret]
      /\ jobs' = jobs /\ rec' = rec /\ condMutex' = condMutex /\ wrk' = wrk
      /\ launched' = launched /\ pipe' = pipe /\ aborted' = aborted
      /\ accepted' = accepted /\ ran' = ran /\ replied' = replied
      /\ handle' = handle /\ cancelled' = cancelled
  BY DEF GrabFails, poolVars, clientVars
<1>2. /\ main' \in MainThread /\ main'.pc \in {"stuck", main.ret}
      /\ main'.ret = main.ret /\ main'.head = main.head /\ main.ret \in {"idle", "callback"}
      /\ memMutex' = Main <=> main'.pc = "stuck"
      /\ memMutex' \in {NoOne, Main}
  BY <1>0, <1>1, MainTypes DEF MainThread, MainPCs, NoOne, Main
<1>. QED BY <1>0, <1>1, <1>2, MainOnlyIInv
         DEF PoolTypes, MainLocals, Consuming, EnqueuingPCs, CancellingPCs, Locks,
             OneOwner

LEMMA FillAndUnlockIInv == ASSUME IInv, FillAndUnlock PROVE IInv'
<1>0. PoolTypes /\ Locks /\ MainLocals /\ OneOwner
  BY DEF IInv
<1>1. /\ main.pc = "fill" /\ memMutex' = NoOne
      /\ rec' = [rec EXCEPT ![main.slot] = [flags |-> [NoFlags EXCEPT !.in_use = TRUE],
                                            kind |-> main.kind, ticket |-> Len(accepted) + 1]]
      /\ accepted' = Append(accepted, main.kind)
      /\ main' = [main EXCEPT !.pc = "signal"]
      /\ jobs' = jobs /\ condMutex' = condMutex /\ wrk' = wrk
      /\ launched' = launched /\ pipe' = pipe /\ aborted' = aborted /\ ran' = ran
      /\ replied' = replied /\ handle' = handle /\ cancelled' = cancelled
  BY DEF FillAndUnlock, poolVars, clientVars
<1>2. main.slot \in SlotIds /\ main.kind \in Kinds /\ Len(accepted) < MaxJobs
  BY <1>0, <1>1 DEF MainLocals, EnqueuingPCs
<1>3. MaxJobs \in Nat /\ accepted \in Seq(Kinds) /\ Len(accepted) \in Nat /\ main.kind \in JobKinds
  BY <1>0, MainTypes, ThreadPoolAssumption DEF PoolTypes
<1>4. accepted' \in Seq(Kinds) /\ Len(accepted') = Len(accepted) + 1
  BY <1>1, <1>2, <1>3
<1>5. Len(accepted') \in Tickets /\ Len(accepted') <= MaxJobs
  BY <1>2, <1>3, <1>4 DEF Tickets
<1>6. rec' \in [SlotIds -> Job]
  <2>1. [NoFlags EXCEPT !.in_use = TRUE] \in Flags
    BY DEF NoFlags, Flags
  <2>2. [flags |-> [NoFlags EXCEPT !.in_use = TRUE], kind |-> main.kind,
         ticket |-> Len(accepted) + 1] \in Job
    BY <2>1, <1>3, <1>4, <1>5 DEF Job
  <2>. QED BY <1>0, <1>1, <1>2, <2>2 DEF PoolTypes
<1>7. /\ main' \in MainThread /\ main'.pc = "signal"
      /\ main'.ret = main.ret /\ main'.head = main.head /\ main'.slot = main.slot
  BY <1>0, <1>1, MainTypes DEF MainThread, MainPCs
<1>8. Main # NoOne
  BY DEF Main, NoOne
<1>. QED BY <1>0, <1>1, <1>2, <1>4, <1>5, <1>6, <1>7, <1>8, MainOnlyIInv
         DEF PoolTypes, MainLocals, Consuming, EnqueuingPCs, CancellingPCs, Locks,
             OneOwner

LEMMA EnqueueReturnIInv == ASSUME IInv, EnqueueReturn PROVE IInv'
<1>0. PoolTypes /\ Locks /\ MainLocals /\ OneOwner
  BY DEF IInv
<1>1. /\ main.pc = "return"
      /\ main' = [main EXCEPT !.pc = main.ret, !.slot = NoSlot]
      /\ jobs' = jobs /\ rec' = rec /\ memMutex' = memMutex
      /\ condMutex' = condMutex /\ wrk' = wrk /\ launched' = launched
      /\ pipe' = pipe /\ aborted' = aborted /\ accepted' = accepted /\ ran' = ran
      /\ replied' = replied /\ cancelled' = cancelled
  BY DEF EnqueueReturn, poolVars, clientVars
<1>2. main.slot \in SlotIds /\ Len(accepted) \in Tickets
  BY <1>0, <1>1 DEF MainLocals
<1>3. handle' \in [Tickets -> SlotIds \cup {NoSlot}]
  <2>1. PICK id \in IF BlockOf(main.slot) \in data THEN {main.slot} ELSE SlotIds :
             handle' = [handle EXCEPT ![Len(accepted)] = id]
    BY DEF EnqueueReturn
  <2>. QED BY <1>0, <1>2, <2>1 DEF PoolTypes
<1>4. /\ main' \in MainThread /\ main'.pc = main.ret /\ main.ret \in {"idle", "callback"}
      /\ main'.ret = main.ret /\ main'.head = main.head
  BY <1>0, <1>1, MainTypes DEF MainThread, MainPCs
<1>. QED BY <1>0, <1>1, <1>3, <1>4, MainOnlyIInv
         DEF PoolTypes, MainLocals, Consuming, EnqueuingPCs, CancellingPCs, Locks,
             OneOwner

LEMMA CancelStoreIInv == ASSUME IInv, CancelStore PROVE IInv'
<1>0. PoolTypes /\ Locks /\ MainLocals /\ OneOwner
  BY DEF IInv
<1>1. /\ main.pc = "cancel"
      /\ rec' = IF BlockStays
                THEN [rec EXCEPT ![main.slot].flags = [main.flags EXCEPT !.cancelled = TRUE]]
                ELSE rec
      /\ cancelled' = cancelled \cup {main.ticket}
      /\ main' = [main EXCEPT !.pc = main.ret, !.slot = NoSlot, !.ticket = 0,
                              !.flags = NoFlags]
      /\ jobs' = jobs /\ memMutex' = memMutex /\ condMutex' = condMutex
      /\ wrk' = wrk /\ launched' = launched /\ pipe' = pipe /\ aborted' = aborted
      /\ accepted' = accepted /\ ran' = ran /\ replied' = replied
      /\ handle' = handle
  BY DEF CancelStore, poolVars, clientVars
<1>2. main.slot \in SlotIds /\ main.ticket \in Tickets
  BY <1>0, <1>1 DEF MainLocals, CancellingPCs
<1>3. [main.flags EXCEPT !.cancelled = TRUE] \in Flags /\ NoFlags \in Flags
  BY <1>0, MainTypes DEF Flags, NoFlags
<1>4. rec' \in [SlotIds -> Job]
  BY <1>0, <1>1, <1>3 DEF PoolTypes, Job
<1>5. /\ main' \in MainThread /\ main'.pc = main.ret /\ main.ret \in {"idle", "callback"}
      /\ main'.ret = main.ret /\ main'.head = main.head
  BY <1>0, <1>1, <1>3, MainTypes DEF MainThread, MainPCs
<1>. QED BY <1>0, <1>1, <1>2, <1>4, <1>5, MainOnlyIInv
         DEF PoolTypes, MainLocals, Consuming, EnqueuingPCs, CancellingPCs, Locks,
             OneOwner

LEMMA NotifyPipeEventReadIInv == ASSUME IInv, NotifyPipeEventRead PROVE IInv'
<1>0. PoolTypes /\ Locks /\ MainLocals /\ OneOwner
  BY DEF IInv
<1>1. /\ main.pc = "idle" /\ pipe' = 0
      /\ main' = [main EXCEPT !.pc = "point"]
      /\ jobs' = jobs /\ rec' = rec /\ memMutex' = memMutex
      /\ condMutex' = condMutex /\ wrk' = wrk /\ launched' = launched
      /\ aborted' = aborted /\ accepted' = accepted /\ ran' = ran
      /\ replied' = replied /\ handle' = handle /\ cancelled' = cancelled
  BY DEF NotifyPipeEventRead, poolVars, clientVars
<1>2. /\ main' \in MainThread /\ main'.pc = "point"
  BY <1>0, <1>1, MainTypes DEF MainThread, MainPCs
<1>. QED BY <1>0, <1>1, <1>2, MainOnlyIInv
         DEF PoolTypes, MainLocals, Consuming, EnqueuingPCs, CancellingPCs, Locks,
             OneOwner

LEMMA PointToDoneIInv == ASSUME IInv, PointToDone PROVE IInv'
<1>0. PoolTypes /\ Locks /\ MainLocals /\ OneOwner
  BY DEF IInv
<1>1. /\ main.pc = "point"
      /\ main' = IF IsEmptyList(jobs, DONE) THEN [main EXCEPT !.pc = "idle"]
                 ELSE [main EXCEPT !.pc = "reply", !.head = PointToHead(jobs, DONE)]
      /\ jobs' = jobs /\ rec' = rec /\ memMutex' = memMutex
      /\ condMutex' = condMutex /\ wrk' = wrk /\ launched' = launched
      /\ pipe' = pipe /\ aborted' = aborted /\ accepted' = accepted /\ ran' = ran
      /\ replied' = replied /\ handle' = handle /\ cancelled' = cancelled
  BY DEF PointToDone, poolVars, clientVars
<1>2. ~ IsEmptyList(jobs, DONE) => PointToHead(jobs, DONE) \in SlotIds
  BY ListsExist, HeadSwitchWF DEF IInv, SlotsWellFormed
<1>3. /\ main' \in MainThread
      /\ \/ main'.pc = "idle" /\ IsEmptyList(jobs, DONE)
         \/ /\ main'.pc = "reply" /\ ~ IsEmptyList(jobs, DONE)
            /\ main'.head = PointToHead(jobs, DONE)
  BY <1>0, <1>1, <1>2, MainTypes DEF MainThread, MainPCs
<1>. QED BY <1>0, <1>1, <1>2, <1>3, MainOnlyIInv
         DEF PoolTypes, MainLocals, Consuming, EnqueuingPCs, CancellingPCs, Locks,
             OneOwner

LEMMA CallbackReturnIInv == ASSUME IInv, CallbackReturn PROVE IInv'
<1>0. PoolTypes /\ Locks /\ MainLocals /\ OneOwner
  BY DEF IInv
<1>1. /\ main.pc = "callback"
      /\ main' = [main EXCEPT !.pc = "free"]
      /\ jobs' = jobs /\ rec' = rec /\ memMutex' = memMutex
      /\ condMutex' = condMutex /\ wrk' = wrk /\ launched' = launched
      /\ pipe' = pipe /\ aborted' = aborted /\ accepted' = accepted /\ ran' = ran
      /\ replied' = replied /\ handle' = handle /\ cancelled' = cancelled
  BY DEF CallbackReturn, poolVars, clientVars
<1>2. /\ main' \in MainThread /\ main'.pc = "free" /\ main'.head = main.head
  BY <1>0, <1>1, MainTypes DEF MainThread, MainPCs
<1>. QED BY <1>0, <1>1, <1>2, MainOnlyIInv
         DEF PoolTypes, MainLocals, Consuming, EnqueuingPCs, CancellingPCs, Locks,
             OneOwner

LEMMA DestroyStartIInv == ASSUME IInv, DestroyStart PROVE IInv'
<1>0. PoolTypes /\ Locks /\ MainLocals /\ OneOwner
  BY DEF IInv
<1>1. /\ main.pc = "idle"
      /\ main' = [main EXCEPT !.pc = "flag", !.scan = 0]
      /\ jobs' = jobs /\ rec' = rec /\ memMutex' = memMutex
      /\ condMutex' = condMutex /\ wrk' = wrk /\ launched' = launched
      /\ pipe' = pipe /\ aborted' = aborted /\ accepted' = accepted /\ ran' = ran
      /\ replied' = replied /\ handle' = handle /\ cancelled' = cancelled
  BY DEF DestroyStart, poolVars, clientVars
<1>2. 0 \in 0 .. WorkerMax + 1
  BY ThreadPoolAssumption
<1>3. /\ main' \in MainThread /\ main'.pc = "flag"
  BY <1>0, <1>1, <1>2, MainTypes DEF MainThread, MainPCs
<1>. QED BY <1>0, <1>1, <1>3, MainOnlyIInv
         DEF PoolTypes, MainLocals, Consuming, EnqueuingPCs, CancellingPCs, Locks,
             OneOwner

LEMMA ReplyIInv == ASSUME IInv, Reply PROVE IInv'
<1>0. PoolTypes /\ Locks /\ MainLocals /\ OneOwner
  BY DEF IInv
<1>. DEFINE k == rec[main.head].ticket
<1>1. /\ main.pc = "reply"
      /\ main' \in {main, [main EXCEPT !.pc = "callback"], [main EXCEPT !.pc = "free"]}
      /\ aborted' \in {aborted, TRUE}
      /\ replied' \in {replied, [replied EXCEPT ![k] = replied[k] + 1]}
      /\ handle' \in {handle, [handle EXCEPT ![k] = NoSlot]}
      /\ jobs' = jobs /\ rec' = rec /\ memMutex' = memMutex
      /\ condMutex' = condMutex /\ wrk' = wrk /\ launched' = launched
      /\ pipe' = pipe /\ accepted' = accepted /\ ran' = ran
      /\ cancelled' = cancelled
  BY DEF Reply, poolVars, clientVars
<1>2. main' \in MainThread /\ main'.pc \in {"reply", "callback", "free"} /\ main'.head = main.head
  BY <1>0, <1>1, MainTypes DEF MainThread, MainPCs
<1>3. replied' \in [Tickets -> Nat] /\ handle' \in [Tickets -> SlotIds \cup {NoSlot}]
  <2>1. replied \in [Tickets -> Nat] /\ handle \in [Tickets -> SlotIds \cup {NoSlot}]
    BY <1>0 DEF PoolTypes
  <2>. HIDE DEF k
  <2>2. CASE k \in Tickets
    BY <2>1, <2>2, <1>1
  <2>3. CASE k \notin Tickets
    BY <2>1, <2>3, <1>1
  <2>. QED BY <2>2, <2>3
<1>. HIDE DEF k
<1>4. aborted' \in BOOLEAN
  BY <1>0, <1>1 DEF PoolTypes
<1>. QED BY <1>0, <1>1, <1>2, <1>3, <1>4, MainOnlyIInv
         DEF PoolTypes, MainLocals, Consuming, EnqueuingPCs, CancellingPCs, Locks,
             OneOwner

\* The main thread's steps that change the workers, but not what they own.
LEMMA MainAndWorkersIInv ==
  ASSUME IInv, wrk' \in [Workers -> Worker],
         \A w \in Workers : /\ wrk'[w].job = wrk[w].job
                            /\ Owns(w)' <=> Owns(w)
                            /\ wrk'[w].pc \in LockedPCs <=> wrk[w].pc \in LockedPCs
                            /\ wrk[w].pc = "notify" => wrk'[w].pc = "notify",
         UnlaunchedAreOff', launched' \in 0 .. WorkerMax + 1,
         main' \in MainThread, MainLocals', Consuming' <=> Consuming, main'.head = main.head,
         main.pc \notin {"fill", "stuck", "point"}, main'.pc \notin {"fill", "stuck"},
         jobs' = jobs, rec' = rec, memMutex' = memMutex, condMutex' = condMutex, pipe' = pipe,
         aborted' = aborted, accepted' = accepted, ran' = ran, replied' = replied,
         handle' = handle, cancelled' = cancelled
  PROVE  IInv'
<1>0. /\ PoolTypes /\ Locks /\ SlotsWellFormed /\ OneOwner /\ NoLostCompletion
  BY DEF IInv
<1>1. PoolTypes'
  BY <1>0 DEF PoolTypes
<1>2. Locks' /\ SlotsWellFormed'
  BY <1>0 DEF Locks, SlotsWellFormed
<1>3. OneOwner'
  BY <1>0 DEF OneOwner
<1>4. NoLostCompletion'
  BY <1>0 DEF NoLostCompletion
<1>. QED BY <1>1, <1>2, <1>3, <1>4 DEF IInv

LEMMA SignalCondIInv == ASSUME IInv, SignalCond PROVE IInv'
<1>0. PoolTypes /\ MainLocals /\ UnlaunchedAreOff /\ wrk \in [Workers -> Worker]
  BY DEF IInv, PoolTypes
<1>1. /\ main.pc = "signal" /\ main' = [main EXCEPT !.pc = "return"]
      /\ jobs' = jobs /\ rec' = rec /\ memMutex' = memMutex
      /\ condMutex' = condMutex /\ launched' = launched /\ pipe' = pipe
      /\ aborted' = aborted /\ accepted' = accepted /\ ran' = ran
      /\ replied' = replied /\ handle' = handle /\ cancelled' = cancelled
  BY DEF SignalCond, poolVars, clientVars
<1>2. /\ main' \in MainThread /\ main'.pc = "return" /\ main'.ret = main.ret
      /\ main'.head = main.head /\ main'.slot = main.slot
  BY <1>0, <1>1, MainTypes DEF MainThread, MainPCs
<1>3. MainLocals' /\ (Consuming' <=> Consuming)
  BY <1>0, <1>1, <1>2 DEF MainLocals, Consuming, EnqueuingPCs, CancellingPCs
<1>4. CASE wrk' = wrk
  BY <1>0, <1>1, <1>2, <1>3, <1>4, MainAndWorkersIInv DEF UnlaunchedAreOff, Owns, PoolTypes
<1>5. CASE \E w \in Waiting : Goto(w, "lock")
  <2>1. PICK w \in Workers : wrk[w].pc = "waiting" /\ Goto(w, "lock")
    BY <1>5 DEF Waiting
  <2>2. /\ wrk' \in [Workers -> Worker] /\ \A v \in Workers \ {w} : wrk'[v] = wrk[v]
        /\ wrk'[w].job = wrk[w].job /\ wrk'[w].pc = "lock"
    BY <1>0, <2>1, GotoMoves DEF WorkerPCs
  <2>3. /\ "waiting" \notin LockedPCs \cup OwningPCs \cup {"exited"}
        /\ "lock" \notin LockedPCs \cup OwningPCs \cup {"exited"}
    BY DEF LockedPCs, OwningPCs
  <2>4. \A v \in Workers : /\ wrk'[v].job = wrk[v].job
                           /\ Owns(v)' <=> Owns(v)
                           /\ wrk'[v].pc \in LockedPCs <=> wrk[v].pc \in LockedPCs
                           /\ wrk[v].pc = "notify" => wrk'[v].pc = "notify"
    BY <2>1, <2>2, <2>3 DEF Owns
  <2>5. UnlaunchedAreOff'
    BY <1>0, <1>1, <2>1, <2>2 DEF UnlaunchedAreOff
  <2>. QED BY <1>0, <1>1, <1>2, <1>3, <2>2, <2>4, <2>5, MainAndWorkersIInv DEF PoolTypes
<1>. QED BY <1>4, <1>5 DEF SignalCond, Goto

LEMMA LaunchedTypes ==
  ASSUME WorkerMax \in Nat, wrk \in [Workers -> Worker], NEW from \in 0 .. WorkerMax + 1,
         NEW to \in 0 .. WorkerMax + 1, NEW failed
  PROVE  /\ Launched(from, to, failed) \in [Workers -> Worker]
         /\ \A w \in Workers : /\ Launched(from, to, failed)[w].job = wrk[w].job
                               /\ Launched(from, to, failed)[w].clean = wrk[w].clean
                               /\ Launched(from, to, failed)[w].flags = wrk[w].flags
         /\ \A w \in Workers : \/ Launched(from, to, failed)[w].pc = wrk[w].pc
                               \/ /\ w \in from .. (to - 1)
                                  /\ Launched(from, to, failed)[w].pc = "top"
<1>. DEFINE new(w) == Launched(from, to, failed)[w]
<1>1. {"FAILED", "STARTING"} \subseteq States /\ "top" \in WorkerPCs
  BY DEF States, WorkerPCs
<1>2. ASSUME NEW w \in Workers
      PROVE  /\ new(w) \in Worker /\ new(w).job = wrk[w].job /\ new(w).clean = wrk[w].clean
             /\ new(w).flags = wrk[w].flags
             /\ new(w).pc = wrk[w].pc \/ (w \in from .. (to - 1) /\ new(w).pc = "top")
  <2>1. /\ [wrk[w] EXCEPT !.state = "FAILED"] \in Worker
        /\ [wrk[w] EXCEPT !.state = "FAILED"].job = wrk[w].job
        /\ [wrk[w] EXCEPT !.state = "FAILED"].clean = wrk[w].clean
        /\ [wrk[w] EXCEPT !.state = "FAILED"].flags = wrk[w].flags
        /\ [wrk[w] EXCEPT !.state = "FAILED"].pc = wrk[w].pc
    BY <1>1 DEF Worker
  <2>2. /\ [wrk[w] EXCEPT !.pc = "top", !.state = "STARTING"] \in Worker
        /\ [wrk[w] EXCEPT !.pc = "top", !.state = "STARTING"].job = wrk[w].job
        /\ [wrk[w] EXCEPT !.pc = "top", !.state = "STARTING"].clean = wrk[w].clean
        /\ [wrk[w] EXCEPT !.pc = "top", !.state = "STARTING"].flags = wrk[w].flags
        /\ [wrk[w] EXCEPT !.pc = "top", !.state = "STARTING"].pc = "top"
    BY <1>1 DEF Worker
  <2>3. new(w) = IF w \notin from .. (to - 1) THEN wrk[w]
                 ELSE IF w \in failed THEN [wrk[w] EXCEPT !.state = "FAILED"]
                 ELSE [wrk[w] EXCEPT !.pc = "top", !.state = "STARTING"]
    BY DEF Launched
  <2>. QED BY <2>1, <2>2, <2>3
<1>3. Launched(from, to, failed) = [w \in Workers |-> new(w)]
  BY DEF Launched
<1>4. /\ \A w \in Workers : /\ new(w).job = wrk[w].job /\ new(w).clean = wrk[w].clean
                            /\ new(w).flags = wrk[w].flags
      /\ \A w \in Workers : new(w).pc = wrk[w].pc \/ (w \in from .. (to - 1) /\ new(w).pc = "top")
  BY <1>2
<1>5. \A w \in Workers : new(w) \in Worker
  BY <1>2
<1>. HIDE DEF new
<1>6. Launched(from, to, failed) \in [Workers -> Worker]
  BY <1>3, <1>5
<1>. QED BY <1>4, <1>6 DEF new

LEMMA LaunchMoreIInv == ASSUME IInv, LaunchMore PROVE IInv'
<1>0. /\ PoolTypes /\ MainLocals /\ UnlaunchedAreOff /\ wrk \in [Workers -> Worker]
      /\ launched \in 0 .. WorkerMax + 1 /\ WorkerMax \in Nat /\ WorkerGrow \in Nat
  BY ThreadPoolAssumption DEF IInv, PoolTypes
<1>1. PICK failed : /\ main.pc = "launch" /\ main' = [main EXCEPT !.pc = "grab"]
                    /\ launched' = LaunchTo(WorkerGrow)
                    /\ wrk' = Launched(launched, launched', failed)
                    /\ jobs' = jobs /\ rec' = rec /\ memMutex' = memMutex
                    /\ condMutex' = condMutex /\ pipe' = pipe /\ aborted' = aborted
                    /\ accepted' = accepted /\ ran' = ran /\ replied' = replied
                    /\ handle' = handle /\ cancelled' = cancelled
  BY DEF LaunchMore, poolVars, clientVars
<1>2. launched' \in 0 .. WorkerMax + 1 /\ launched' >= launched
  BY <1>0, <1>1 DEF LaunchTo, Lowest
<1>3. /\ wrk' \in [Workers -> Worker]
      /\ \A w \in Workers : wrk'[w].job = wrk[w].job
      /\ \A w \in Workers : \/ wrk'[w].pc = wrk[w].pc
                            \/ w \in launched .. (launched' - 1) /\ wrk'[w].pc = "top"
  BY <1>0, <1>1, <1>2, LaunchedTypes
<1>4. \A w \in Workers : \/ wrk'[w].pc = wrk[w].pc
                         \/ wrk[w].pc = "off" /\ wrk'[w].pc = "top" /\ ~ (w >= launched')
  <2>. TAKE w \in Workers
  <2>1. CASE wrk'[w].pc = wrk[w].pc
    BY <2>1
  <2>2. CASE w \in launched .. (launched' - 1) /\ wrk'[w].pc = "top"
    <3>1. launched \in Int /\ launched' \in Int
      BY <1>0, <1>2
    <3>2. w >= launched /\ ~ (w >= launched')
      <4>1. \A i, j \in Int : \A k \in i .. (j - 1) : k >= i /\ ~ (k >= j)
        OBVIOUS
      <4>. QED BY <2>2, <3>1, <4>1
    <3>3. wrk[w].pc = "off"
      BY <1>0, <3>2 DEF UnlaunchedAreOff
    <3>. QED BY <2>2, <3>2, <3>3
  <2>. QED BY <1>3, <2>1, <2>2
<1>5. /\ "off" \notin LockedPCs \cup OwningPCs \cup {"exited"}
      /\ "top" \notin LockedPCs \cup OwningPCs \cup {"exited"}
  BY DEF LockedPCs, OwningPCs
<1>6. \A v \in Workers : /\ wrk'[v].job = wrk[v].job
                         /\ Owns(v)' <=> Owns(v)
                         /\ wrk'[v].pc \in LockedPCs <=> wrk[v].pc \in LockedPCs
                         /\ wrk[v].pc = "notify" => wrk'[v].pc = "notify"
  BY <1>3, <1>4, <1>5 DEF Owns
<1>7. UnlaunchedAreOff'
  BY <1>0, <1>2, <1>4 DEF UnlaunchedAreOff, Workers
<1>8. /\ main' \in MainThread /\ main'.pc = "grab" /\ main'.ret = main.ret
      /\ main'.head = main.head /\ main'.kind = main.kind
  BY <1>0, <1>1, MainTypes DEF MainThread, MainPCs
<1>9. MainLocals' /\ (Consuming' <=> Consuming)
  BY <1>0, <1>1, <1>8 DEF MainLocals, Consuming, EnqueuingPCs, CancellingPCs
<1>. QED BY <1>1, <1>2, <1>3, <1>6, <1>7, <1>8, <1>9, MainAndWorkersIInv

LEMMA FlagShutdownIInv == ASSUME IInv, FlagShutdown PROVE IInv'
<1>0. /\ PoolTypes /\ MainLocals /\ UnlaunchedAreOff /\ wrk \in [Workers -> Worker]
      /\ launched \in 0 .. WorkerMax + 1 /\ WorkerMax \in Nat /\ main.scan \in 0 .. WorkerMax + 1
  BY ThreadPoolAssumption, MainTypes DEF IInv, PoolTypes
<1>1. /\ main.pc = "flag"
      /\ jobs' = jobs /\ rec' = rec /\ memMutex' = memMutex
      /\ condMutex' = condMutex /\ launched' = launched /\ pipe' = pipe
      /\ aborted' = aborted /\ accepted' = accepted /\ ran' = ran
      /\ replied' = replied /\ handle' = handle /\ cancelled' = cancelled
  BY DEF FlagShutdown, poolVars, clientVars
<1>2. CASE main.scan < launched
  <2>1. /\ wrk' = [wrk EXCEPT ![main.scan].do_shutdown = TRUE]
        /\ main' = [main EXCEPT !.scan = @ + 1]
    BY <1>2 DEF FlagShutdown
  <2>2. main.scan \in Workers /\ main.scan + 1 \in 0 .. WorkerMax + 1
    BY <1>0, <1>2 DEF Workers
  <2>3. /\ wrk' \in [Workers -> Worker]
        /\ \A w \in Workers : wrk'[w].job = wrk[w].job /\ wrk'[w].pc = wrk[w].pc
    BY <1>0, <2>1, <2>2 DEF Worker
  <2>4. \A w \in Workers : Owns(w)' <=> Owns(w)
    BY <2>3 DEF Owns
  <2>5. /\ main' \in MainThread /\ main'.pc = "flag" /\ main'.head = main.head
    BY <1>0, <1>1, <2>1, <2>2, MainTypes DEF MainThread, MainPCs
  <2>6. MainLocals' /\ (Consuming' <=> Consuming) /\ UnlaunchedAreOff'
    BY <1>0, <1>1, <2>3, <2>5 DEF MainLocals, Consuming, EnqueuingPCs, CancellingPCs,
                                       UnlaunchedAreOff
  <2>. QED BY <1>0, <1>1, <2>3, <2>4, <2>5, <2>6, MainAndWorkersIInv
<1>3. CASE ~ (main.scan < launched)
  <2>1. wrk' = wrk /\ main' = [main EXCEPT !.pc = "join"]
    BY <1>3 DEF FlagShutdown
  <2>2. /\ main' \in MainThread /\ main'.pc = "join" /\ main'.head = main.head
    BY <1>0, <1>1, <2>1, MainTypes DEF MainThread, MainPCs
  <2>3. MainLocals' /\ (Consuming' <=> Consuming) /\ UnlaunchedAreOff'
    BY <1>0, <1>1, <2>1, <2>2 DEF MainLocals, Consuming, EnqueuingPCs, CancellingPCs,
                                       UnlaunchedAreOff
  <2>4. \A w \in Workers : Owns(w)' <=> Owns(w)
    BY <2>1 DEF Owns
  <2>. QED BY <1>0, <1>1, <2>1, <2>2, <2>3, <2>4, MainAndWorkersIInv
<1>. QED BY <1>2, <1>3

\* The main thread's steps that change the job MEM_SLOT.
LEMMA GrabJobIInv == ASSUME IInv, GrabJob PROVE IInv'
<1>. DEFINE g == GrabId(jobs)
<1>0. /\ PoolTypes /\ Locks /\ MainLocals /\ UnlaunchedAreOff /\ SlotsWellFormed
      /\ OneOwner /\ NoLostCompletion /\ WellFormed(jobs)
  BY DEF IInv, SlotsWellFormed
<1>1. /\ main.pc = "grab" /\ HasFree(jobs) /\ jobs' = Grab(jobs) /\ memMutex' = Main
      /\ main' = [main EXCEPT !.pc = "fill", !.slot = g]
      /\ aborted' = rec[g].flags.in_use
      /\ rec' = rec /\ condMutex' = condMutex /\ wrk' = wrk
      /\ launched' = launched /\ pipe' = pipe /\ accepted' = accepted
      /\ ran' = ran /\ replied' = replied /\ handle' = handle
      /\ cancelled' = cancelled
  BY DEF GrabJob, clientVars
<1>2. PENDING \in ListIds /\ WORKING \in ListIds /\ DONE \in ListIds
      /\ PENDING = 0 /\ WORKING # 0 /\ DONE # 0
  BY ListsExist DEF PENDING, WORKING, DONE
<1>3. /\ WellFormed(jobs') /\ g \in SlotIds
      /\ jobs'.list[WORKING] = jobs.list[WORKING] /\ jobs'.list[DONE] = jobs.list[DONE]
  BY <1>0, <1>1, <1>2, GrabWF
<1>. HIDE DEF g
<1>4. aborted' \in BOOLEAN
  BY <1>0, <1>1, <1>3 DEF PoolTypes, Job, Flags
<1>5. /\ main' \in MainThread /\ main'.pc = "fill" /\ main'.ret = main.ret
      /\ main'.kind = main.kind /\ main'.head = main.head /\ main'.slot = g
  BY <1>0, <1>1, <1>3, MainTypes DEF MainThread, MainPCs
<1>6. PoolTypes'
  BY <1>0, <1>1, <1>3, <1>4, <1>5 DEF PoolTypes, WellFormed
<1>7. Locks' /\ MainLocals' /\ UnlaunchedAreOff' /\ (Consuming' <=> Consuming)
  BY <1>0, <1>1, <1>3, <1>5 DEF Locks, MainLocals, UnlaunchedAreOff, Consuming, EnqueuingPCs, CancellingPCs
<1>8. OneOwner'
  BY <1>0, <1>1, <1>3, <1>5, <1>7 DEF OneOwner, Owns, OnList, IsEmptyList, PointToHead
<1>9. NoLostCompletion'
  BY <1>0, <1>1, <1>3, <1>5, <1>7 DEF NoLostCompletion, IsEmptyList
<1>. QED BY <1>3, <1>6, <1>7, <1>8, <1>9 DEF IInv, SlotsWellFormed

\* A cancel's search changes the bits of the arena alone, and leaves those of listed jobs.
LEMMA CancelSearchIInv ==
  ASSUME IInv, \/ \E k \in Tickets : CancelFind(k)
               \/ CancelTest \/ CancelCount \/ CancelLoad \/ CancelInFreed
  PROVE  IInv'
<1>0. PoolTypes /\ Locks /\ MainLocals /\ OneOwner
  BY DEF IInv
<1>1. /\ jobs' = jobs /\ rec' = rec /\ memMutex' = memMutex /\ condMutex' = condMutex
      /\ wrk' = wrk /\ launched' = launched /\ pipe' = pipe /\ accepted' = accepted
      /\ ran' = ran /\ replied' = replied /\ handle' = handle /\ cancelled' = cancelled
      /\ aborted' \in BOOLEAN
  BY <1>0 DEF CancelFind, CancelTest, CancelCount, CancelLoad, CancelInFreed, poolVars,
              clientVars, PoolTypes
<1>2. CASE \E k \in Tickets : CancelFind(k)
  <2>1. PICK k \in Tickets : /\ main.pc \in {"idle", "callback"} /\ handle[k] # NoSlot
                             /\ main' = [main EXCEPT !.ret = main.pc, !.pc = "seek",
                                                     !.slot = handle[k], !.ticket = k]
    BY <1>2 DEF CancelFind, Callable
  <2>2. handle[k] \in SlotIds
    BY <1>0, <2>1 DEF PoolTypes
  <2>3. /\ main' \in MainThread /\ main'.pc = "seek" /\ main'.ret = main.pc
        /\ main'.head = main.head /\ main'.slot = handle[k] /\ main'.ticket = k
    <3>1. main' = [pc |-> "seek", ret |-> main.pc, kind |-> main.kind, slot |-> handle[k],
                   head |-> main.head, flags |-> main.flags, scan |-> main.scan, ticket |-> k]
      BY <1>0, <2>1, MainTypes DEF MainThread
    <3>. QED BY <3>1, <1>0, <2>1, <2>2, MainTypes DEF MainThread, MainPCs
  <2>. QED BY <1>0, <1>1, <2>1, <2>2, <2>3, MainOnlyIInv
           DEF PoolTypes, MainLocals, Consuming, EnqueuingPCs, CancellingPCs, Locks,
             OneOwner
<1>3. CASE CancelTest \/ CancelCount \/ CancelLoad \/ CancelInFreed
  <2>1. /\ main.pc \in {"seek", "add", "load", "mark"}
        /\ \E pc \in {"add", "load", "mark", "cancel"} : main' = [main EXCEPT !.pc = pc]
    BY <1>3 DEF CancelTest, CancelCount, CancelLoad, CancelInFreed, Seeking
  <2>2. /\ main' \in MainThread /\ main'.pc \in {"add", "load", "mark", "cancel"}
        /\ main'.ret = main.ret /\ main'.head = main.head
        /\ main'.slot = main.slot /\ main'.ticket = main.ticket
    BY <1>0, <2>1, MainTypes DEF MainThread, MainPCs
  <2>. QED BY <1>0, <1>1, <2>1, <2>2, MainOnlyIInv
           DEF PoolTypes, MainLocals, Consuming, EnqueuingPCs, CancellingPCs, Locks,
             OneOwner
<1>. QED BY <1>2, <1>3

LEMMA CancelMarkIInv == ASSUME IInv, ArenaSteps, CancelMark PROVE IInv'
<1>0. PoolTypes /\ Locks /\ MainLocals /\ OneOwner /\ WellFormed(jobs)
  BY DEF IInv, SlotsWellFormed
<1>. DEFINE B == (jobs.bits \ SameByte(main.slot)) \cup seeker.bits \cup {main.slot}
<1>1. /\ main.pc = "mark" /\ jobs' = [jobs EXCEPT !.bits = B]
      /\ main' = [main EXCEPT !.pc = "cancel", !.flags = rec[main.slot].flags]
      /\ rec' = rec /\ memMutex' = memMutex /\ condMutex' = condMutex
      /\ wrk' = wrk /\ launched' = launched /\ pipe' = pipe /\ aborted' = aborted
      /\ accepted' = accepted /\ ran' = ran /\ replied' = replied
      /\ handle' = handle /\ cancelled' = cancelled
  BY DEF CancelMark, clientVars
<1>2. main.slot \in SlotIds
  BY <1>0, <1>1 DEF MainLocals, CancellingPCs
<1>3. B \in SUBSET SlotIds /\ Allocated(jobs) \subseteq B
  <2>1. jobs.bits \subseteq SlotIds /\ Allocated(jobs) \subseteq jobs.bits
    BY <1>0, ListedHaveBits
  <2>2. seeker.bits \subseteq SlotIds
    BY DEF ArenaSteps, Registers
  <2>3. Allocated(jobs) \cap SameByte(main.slot) \subseteq seeker.bits
    BY <1>1 DEF ArenaSteps
  <2>. QED BY <1>2, <2>1, <2>2, <2>3
<1>. HIDE DEF B
<1>4. WellFormed(jobs') /\ jobs'.list = jobs.list
  BY <1>0, <1>1, <1>3, OtherBitsWF
<1>5. rec[main.slot].flags \in Flags
  BY <1>0, <1>2 DEF PoolTypes, Job
<1>6. /\ main' \in MainThread /\ main'.pc = "cancel" /\ main'.ret = main.ret
      /\ main'.head = main.head /\ main'.slot = main.slot /\ main'.ticket = main.ticket
  BY <1>0, <1>1, <1>5, MainTypes DEF MainThread, MainPCs
<1>7. PoolTypes'
  BY <1>0, <1>1, <1>4, <1>6 DEF PoolTypes, WellFormed
<1>. QED BY <1>0, <1>1, <1>4, <1>6, <1>7, MainOnlyIInv
         DEF MainLocals, Consuming, EnqueuingPCs, CancellingPCs, Locks, OneOwner, SlotsWellFormed,
             IsEmptyList, PointToHead

LEMMA FreeDoneIInv == ASSUME IInv, FreeDone PROVE IInv'
<1>. DEFINE s == main.head
<1>0. /\ PoolTypes /\ Locks /\ MainLocals /\ UnlaunchedAreOff /\ SlotsWellFormed
      /\ OneOwner /\ WellFormed(jobs)
  BY DEF IInv, SlotsWellFormed
<1>1. /\ main.pc = "free" /\ FreeJob(s)
      /\ main' = [main EXCEPT !.pc = "point", !.head = NoSlot]
      /\ condMutex' = condMutex /\ wrk' = wrk
      /\ launched' = launched /\ pipe' = pipe /\ accepted' = accepted
      /\ ran' = ran /\ replied' = replied /\ handle' = handle
      /\ cancelled' = cancelled
  BY DEF FreeDone, clientVars
<1>2. WORKING \in ListIds /\ DONE \in ListIds /\ WORKING # DONE
  BY ListsExist DEF WORKING, DONE
<1>3. ~ IsEmptyList(jobs, DONE) /\ s = PointToHead(jobs, DONE)
  BY <1>0, <1>1 DEF OneOwner, Consuming
<1>. HIDE DEF s
<1>4. s \in OnList(jobs, DONE)
  BY <1>0, <1>2, <1>3, HeadSwitchWF
<1>5. Frees(s) /\ memMutex' = memMutex
  BY <1>0, <1>1, <1>2, <1>4, FreeJobFrees
<1>6. s \notin OnList(jobs, WORKING)
  BY <1>0, <1>2, <1>4, ListsDisjoint
<1>7. /\ jobs'.list[WORKING] = jobs.list[WORKING] /\ WellFormed(jobs')
      /\ rec' \in [SlotIds -> Job] /\ aborted' \in BOOLEAN
  BY <1>2, <1>5, <1>6 DEF Frees
<1>8. main' \in MainThread /\ main'.pc = "point"
  BY <1>0, <1>1, MainTypes DEF MainThread, MainPCs
<1>9. PoolTypes'
  BY <1>0, <1>1, <1>5, <1>7, <1>8 DEF PoolTypes, WellFormed
<1>10. Locks' /\ MainLocals' /\ UnlaunchedAreOff' /\ ~ Consuming'
  BY <1>0, <1>1, <1>5, <1>8 DEF Locks, MainLocals, UnlaunchedAreOff, Consuming, EnqueuingPCs, CancellingPCs
<1>11. OneOwner'
  BY <1>0, <1>1, <1>7, <1>10 DEF OneOwner, Owns, OnList
<1>12. NoLostCompletion'
  BY <1>8 DEF NoLostCompletion
<1>. QED BY <1>7, <1>9, <1>10, <1>11, <1>12 DEF IInv, SlotsWellFormed

LEMMA JoinAndCleanIInv == ASSUME IInv, JoinAndClean PROVE IInv'
<1>0. /\ PoolTypes /\ Locks /\ MainLocals /\ UnlaunchedAreOff
      /\ launched \in 0 .. WorkerMax + 1 /\ WorkerMax \in Nat /\ wrk \in [Workers -> Worker]
  BY ThreadPoolAssumption DEF IInv, PoolTypes
<1>1. /\ main.pc = "join" /\ main' = [main EXCEPT !.pc = "gone"] /\ jobs' = NewPool
      /\ \A w \in 0 .. (launched - 1) : wrk[w].pc = "exited"
      /\ rec' = [s \in SlotIds |-> BlankJob]
      /\ wrk' = [w \in Workers |-> [wrk[w] EXCEPT !.job = NoSlot]]
      /\ memMutex' = memMutex /\ condMutex' = condMutex /\ launched' = launched
      /\ pipe' = pipe /\ aborted' = aborted /\ accepted' = accepted /\ ran' = ran
      /\ replied' = replied /\ handle' = handle /\ cancelled' = cancelled
  BY DEF JoinAndClean, clientVars
<1>2. WellFormed(jobs') /\ \A l \in ListIds : OnList(jobs', l) = {}
  BY <1>1, NewPoolWF
<1>3. BlankJob \in Job
  BY ThreadPoolAssumption DEF BlankJob, Job, NoFlags, Flags, JobKinds
<1>4. /\ wrk' \in [Workers -> Worker]
      /\ \A w \in Workers : wrk'[w].pc = wrk[w].pc /\ wrk'[w].job = NoSlot
  BY <1>0, <1>1 DEF Worker
<1>5. \A w \in Workers : wrk[w].pc \in {"off", "exited"}
  BY <1>0, <1>1 DEF UnlaunchedAreOff, Workers
<1>6. \A w \in Workers : ~ Owns(w)'
  BY <1>4, <1>5 DEF Owns, OwningPCs
<1>7. main' \in MainThread /\ main'.pc = "gone"
  BY <1>0, <1>1, MainTypes DEF MainThread, MainPCs
<1>8. PoolTypes'
  BY <1>0, <1>1, <1>2, <1>3, <1>4, <1>7 DEF PoolTypes, WellFormed
<1>9. Locks' /\ MainLocals' /\ UnlaunchedAreOff' /\ ~ Consuming'
  BY <1>0, <1>1, <1>4, <1>7 DEF Locks, MainLocals, UnlaunchedAreOff, Consuming, EnqueuingPCs, CancellingPCs
<1>10. OneOwner'
  BY <1>2, <1>6, <1>9, ListsExist DEF OneOwner
<1>11. NoLostCompletion'
  <2>1. IsEmptyList(jobs', DONE)
    BY <1>1, ListsExist DEF IsEmptyList, NewPool
  <2>. QED BY <2>1 DEF NoLostCompletion
<1>. QED BY <1>2, <1>8, <1>9, <1>10, <1>11 DEF IInv, SlotsWellFormed

-----------------------------------------------------------------------------
LEMMA InitIInv == Init => IInv
<1>. SUFFICES ASSUME Init PROVE IInv
  OBVIOUS
<1>0. WorkerStart \in Nat \ {0} /\ WorkerMax \in Nat \ {0} /\ MaxJobs \in Nat
  BY ThreadPoolAssumption
<1>1. /\ jobs = NewPool /\ rec = [s \in SlotIds |-> BlankJob]
      /\ memMutex = NoOne /\ condMutex = NoOne /\ launched = Lowest(WorkerStart, WorkerMax + 1)
      /\ main = [pc |-> "idle", ret |-> "idle", kind |-> "none", slot |-> NoSlot,
                 head |-> NoSlot, flags |-> NoFlags, scan |-> 0, ticket |-> 0]
      /\ pipe = 0 /\ aborted = FALSE /\ accepted = << >>
      /\ ran = [t \in Tickets |-> 0] /\ replied = [t \in Tickets |-> 0]
      /\ handle = [t \in Tickets |-> NoSlot] /\ cancelled = {}
  BY DEF Init
<1>2. PICK failed : wrk = [w \in Workers |->
                       IF w >= launched THEN OffWorker
                       ELSE IF w \in failed THEN [OffWorker EXCEPT !.state = "FAILED"]
                       ELSE [OffWorker EXCEPT !.pc = "top", !.state = "STARTING"]]
  BY DEF Init
<1>3. NoFlags \in Flags
  BY DEF NoFlags, Flags
<1>4. /\ OffWorker \in Worker /\ OffWorker.pc = "off"
      /\ [OffWorker EXCEPT !.state = "FAILED"] \in Worker
      /\ [OffWorker EXCEPT !.state = "FAILED"].pc = "off"
      /\ [OffWorker EXCEPT !.pc = "top", !.state = "STARTING"] \in Worker
      /\ [OffWorker EXCEPT !.pc = "top", !.state = "STARTING"].pc = "top"
  BY <1>3 DEF OffWorker, Worker, WorkerPCs, States
<1>5. /\ wrk \in [Workers -> Worker]
      /\ \A w \in Workers : wrk[w].pc \in {"off", "top"} /\ (w >= launched => wrk[w].pc = "off")
  <2>. HIDE DEF OffWorker
  <2>. QED BY <1>2, <1>4
<1>6. launched \in 0 .. WorkerMax + 1
  BY <1>0, <1>1 DEF Lowest
<1>7. BlankJob \in Job /\ "none" \in JobKinds
  BY <1>3 DEF BlankJob, Job, JobKinds
<1>8. main \in MainThread
  BY <1>0, <1>1, <1>3, <1>7 DEF MainThread, MainPCs
<1>9. WellFormed(jobs) /\ (\A l \in ListIds : OnList(jobs, l) = {}) /\ IsEmptyList(jobs, DONE)
  BY <1>1, NewPoolWF, ListsExist DEF IsEmptyList, NewPool
<1>10. PoolTypes
  <2>1. accepted \in Seq(Kinds) /\ Len(accepted) =< MaxJobs
    BY <1>0, <1>1
  <2>2. /\ ran \in [Tickets -> Nat] /\ replied \in [Tickets -> Nat]
        /\ handle \in [Tickets -> SlotIds \cup {NoSlot}] /\ cancelled \subseteq Tickets
    BY <1>1
  <2>3. rec \in [SlotIds -> Job]
    BY <1>1, <1>7
  <2>. QED BY <1>1, <1>5, <1>6, <1>8, <1>9, <2>1, <2>2, <2>3 DEF PoolTypes, WellFormed, NoOne
<1>11. Locks
  BY <1>1, <1>5 DEF Locks, LockedPCs, NoOne, Main, Workers
<1>12. MainLocals /\ UnlaunchedAreOff /\ ~ Consuming
  BY <1>1, <1>5 DEF MainLocals, UnlaunchedAreOff, Consuming, EnqueuingPCs, CancellingPCs
<1>13. \A w \in Workers : ~ Owns(w)
  BY <1>5 DEF Owns, OwningPCs
<1>14. OneOwner
  BY <1>9, <1>12, <1>13, ListsExist DEF OneOwner
<1>15. NoLostCompletion
  BY <1>9 DEF NoLostCompletion
<1>. QED BY <1>9, <1>10, <1>11, <1>12, <1>14, <1>15 DEF IInv, SlotsWellFormed

LEMMA NextIInv == IInv /\ ArenaSteps /\ [Next]_vars => IInv'
<1>. SUFFICES ASSUME IInv, ArenaSteps, [Next]_vars PROVE IInv'
  OBVIOUS
<1>1. CASE MainStep
  BY <1>1, ScanWorkerIInv, LaunchMoreIInv, GrabJobIInv, GrabFailsIInv, FillAndUnlockIInv,
     SignalCondIInv, EnqueueReturnIInv, CancelSearchIInv, CancelMarkIInv, CancelStoreIInv, PointToDoneIInv, ReplyIInv,
     CallbackReturnIInv, FreeDoneIInv, FlagShutdownIInv, JoinAndCleanIInv DEF MainStep
<1>2. CASE NotifyPipeEventRead \/ ClientCall
  BY <1>2, NotifyPipeEventReadIInv, EnqueueStartIInv, CancelSearchIInv, DestroyStartIInv
  DEF ClientCall
<1>3. CASE \E w \in Workers : WorkerStep(w) \/ SpuriousWakeup(w)
  BY <1>3, WorkerIInv
<1>4. CASE UNCHANGED vars
  BY <1>4 DEF vars, IInv, PoolTypes, Locks, MainLocals, UnlaunchedAreOff, SlotsWellFormed,
              OneOwner, NoLostCompletion, Consuming, Owns, EnqueuingPCs, CancellingPCs
<1>. QED BY <1>1, <1>2, <1>3, <1>4 DEF Next

-----------------------------------------------------------------------------
(***************************************************************************)
(* The arena.  In a block that no cancel's search has met a worker's       *)
(* update in, the count of the block is exact but for the one update under *)
(* way, whoever makes it has loaded what is there, and a block that is not *)
(* allocated has no bit set.  So no block is freed under a listed job.     *)
(***************************************************************************)
Inside(w, b) == Updating(w) /\ BlockOf(wrk[w].job) = b
SearchedIn(b) == Seeking /\ BlockOf(main.slot) = b
BitsOf(b) == jobs.bits \cap InBlock(b)
Owed(b) == \/ \E w \in Workers : Inside(w, b) /\ wrk[w].pc = "count"
           \/ SearchedIn(b) /\ main.pc \in {"load", "mark"} /\ main.slot \notin BitsOf(b)
HolderExact(w, b) ==
    /\ b \in data /\ ~ SearchedIn(b)
    /\ wrk[w].pc \in {"switch", "clear"}
          => wrk[w].job \in BitsOf(b) /\ holder.bits = BitsOf(b) \cap SameByte(wrk[w].job)
    /\ wrk[w].pc = "count" => holder.count = busy[b]
SeekerExact(b) ==
    /\ b \in data
    /\ main.pc = "add" => main.slot \notin BitsOf(b) /\ seeker.count = busy[b]
    /\ main.pc = "mark" => seeker.bits = BitsOf(b) \cap SameByte(main.slot)
CountExact(b) == IF b \in data
                 THEN busy[b] = Cardinality(BitsOf(b)) + (IF Owed(b) THEN 1 ELSE 0)
                 ELSE BitsOf(b) = {}
BlockExact(b) == /\ CountExact(b)
                 /\ \A w \in Workers : Inside(w, b) => HolderExact(w, b)
                 /\ SearchedIn(b) => SeekerExact(b)
BlocksExact == \A b \in Blocks \ overlapped : BlockExact(b)
ArenaInv == ArenaTypes /\ ArenaSteps /\ BlocksExact

LEMMA ByteInBlock ==
  ASSUME NEW s \in SlotIds
  PROVE  /\ SameByte(s) \subseteq InBlock(BlockOf(s)) /\ s \in SameByte(s)
         /\ BlockOf(s) \in Blocks /\ s \in InBlock(BlockOf(s)) /\ SameByte(s) \subseteq SlotIds
BY DEF SameByte, InBlock, Blocks

LEMMA BitsFinite ==
  ASSUME NEW p \in Pool, NEW b
  PROVE  IsFiniteSet(p.bits \cap InBlock(b))
<1>1. IsFiniteSet(SlotIds)
  BY PoolAssumption, FS_Interval DEF SlotIds
<1>2. p.bits \cap InBlock(b) \subseteq SlotIds
  BY DEF Pool
<1>. QED BY <1>1, <1>2, FS_Subset

\* A block nobody entered or left, and where nothing changed.
LEMMA BlockKept ==
  ASSUME NEW b, BlockExact(b), busy'[b] = busy[b], b \in data' <=> b \in data,
         BitsOf(b)' = BitsOf(b),
         \A w \in Workers : Inside(w, b)' <=> Inside(w, b),
         \A w \in Workers : Inside(w, b)
            => wrk'[w].pc = wrk[w].pc /\ wrk'[w].job = wrk[w].job /\ holder' = holder,
         SearchedIn(b)' <=> SearchedIn(b),
         SearchedIn(b) => main'.pc = main.pc /\ main'.slot = main.slot /\ seeker' = seeker
  PROVE  BlockExact(b)'
<1>1. Owed(b)' <=> Owed(b)
  BY DEF Owed
<1>2. CountExact(b)'
  BY <1>1 DEF BlockExact, CountExact
<1>3. ASSUME NEW w \in Workers, Inside(w, b)' PROVE HolderExact(w, b)'
  BY <1>3 DEF BlockExact, HolderExact
<1>4. ASSUME SearchedIn(b)' PROVE SeekerExact(b)'
  BY <1>4 DEF BlockExact, SeekerExact
<1>. QED BY <1>2, <1>3, <1>4 DEF BlockExact

\* A step outside of the arena.
LEMMA OutsideKeeps ==
  ASSUME ArenaInv, arenaVars' = arenaVars, jobs'.bits = jobs.bits,
         Allocated(jobs') \subseteq Allocated(jobs),
         \A w \in Workers : Updating(w)' <=> Updating(w),
         \A w \in Workers : Updating(w) => wrk'[w].pc = wrk[w].pc /\ wrk'[w].job = wrk[w].job,
         \A w \in Workers : memMutex' = w <=> memMutex = w,
         main' = main \/ (~ Seeking /\ ~ Seeking')
  PROVE  ArenaInv'
<1>0. /\ data' = data /\ busy' = busy /\ holder' = holder /\ seeker' = seeker
      /\ overlapped' = overlapped
  BY DEF arenaVars
<1>1. ArenaTypes'
  BY <1>0 DEF ArenaInv, ArenaTypes
<1>2. main'.pc = "mark" => main' = main
  BY DEF Seeking
<1>3. ASSUME NEW w \in Workers
      PROVE  /\ memMutex' = w <=> Updating(w)'
             /\ Updating(w)' => wrk'[w].job \in SlotIds
             /\ wrk'[w].pc \in {"clear", "count"} => wrk'[w].job \notin Allocated(jobs')
             /\ wrk'[w].pc \in {"switch", "clear"}
                => /\ (Allocated(jobs') \cap SameByte(wrk'[w].job)) \ {wrk'[w].job} \subseteq holder'.bits
                   /\ holder'.bits \subseteq SameByte(wrk'[w].job)
  <2>1. CASE Updating(w)
    <3>1. wrk'[w].pc = wrk[w].pc /\ wrk'[w].job = wrk[w].job
      BY <2>1
    <3>2. /\ wrk[w].job \in SlotIds /\ memMutex = w
          /\ wrk[w].pc \in {"clear", "count"} => wrk[w].job \notin Allocated(jobs)
          /\ wrk[w].pc \in {"switch", "clear"}
             => /\ (Allocated(jobs) \cap SameByte(wrk[w].job)) \ {wrk[w].job} \subseteq holder.bits
                /\ holder.bits \subseteq SameByte(wrk[w].job)
      BY <2>1 DEF ArenaInv, ArenaSteps
    <3>. QED BY <1>0, <2>1, <3>1, <3>2
  <2>2. CASE ~ Updating(w)
    <3>1. ~ Updating(w)' /\ memMutex # w
      BY <2>2 DEF ArenaInv, ArenaSteps
    <3>. QED BY <3>1 DEF Updating
  <2>. QED BY <2>1, <2>2
<1>4. main'.pc = "mark" => /\ Allocated(jobs') \cap SameByte(main'.slot) \subseteq seeker'.bits
                           /\ seeker'.bits \subseteq SameByte(main'.slot)
  BY <1>0, <1>2 DEF ArenaInv, ArenaSteps
<1>5. ArenaSteps'
  <2>1. holder' \in Registers /\ seeker' \in Registers
    BY <1>0 DEF ArenaInv, ArenaSteps
  <2>. QED BY <1>3, <1>4, <2>1 DEF ArenaSteps
<1>6. ASSUME NEW b \in Blocks \ overlapped' PROVE BlockExact(b)'
  <2>1. BlockExact(b)
    BY <1>0, <1>6 DEF ArenaInv, BlocksExact
  <2>2. \A w \in Workers : Inside(w, b)' <=> Inside(w, b)
    BY DEF Inside
  <2>3. \A w \in Workers : Inside(w, b) => Updating(w)
    BY DEF Inside
  <2>4. BitsOf(b)' = BitsOf(b)
    BY DEF BitsOf
  <2>5. /\ SearchedIn(b)' <=> SearchedIn(b)
        /\ SearchedIn(b) => main' = main
    BY DEF SearchedIn, Seeking
  <2>. QED BY <1>0, <2>1, <2>2, <2>3, <2>4, <2>5, BlockKept
<1>. QED BY <1>1, <1>5, <1>6 DEF ArenaInv, BlocksExact

\* The workers' steps that stay out of the arena.
LEMMA WorkerOutside ==
  ASSUME IInv, ArenaInv, NEW w \in Workers, AnyWorkerStep(w),
         ~ (EnterPublish(w) \/ Publish(w) \/ ReleaseJob(w) \/ ReleaseBit(w) \/ ReleaseCount(w))
  PROVE  ArenaInv'
<1>0. PoolTypes /\ OneOwner /\ SlotsWellFormed /\ main' = main
  BY WorkerFrame DEF IInv
<1>1. /\ arenaVars' = arenaVars /\ memMutex' = memMutex
      /\ jobs' = jobs \/ (TakeJob(w) /\ ~ IsEmptyList(jobs, PENDING))
  BY DEF AnyWorkerStep, WorkerStep, poolVars, LoopTop, LockCond, CheckPending, Park,
         SpuriousWakeup, TakeJob, UnlockCond, Begin, RunJob, LoadInUse, ClearInUse, LoadFinished,
         SetFinished, LoadFlags, StoreFlags, NotifyFinish, Exit
<1>2. jobs'.bits = jobs.bits /\ Allocated(jobs') \subseteq Allocated(jobs)
  <2>1. CASE TakeJob(w) /\ ~ IsEmptyList(jobs, PENDING)
    <3>1. jobs' = HeadSwitch(jobs, PENDING, WORKING)
      BY <2>1 DEF TakeJob
    <3>2. /\ PointToHead(jobs, PENDING) \in OnList(jobs, PENDING)
          /\ OnList(jobs', WORKING) = OnList(jobs, WORKING) \cup {PointToHead(jobs, PENDING)}
          /\ \A m \in ListIds \ {WORKING} :
                OnList(jobs', m) = OnList(jobs, m) \ {PointToHead(jobs, PENDING)}
          /\ jobs'.bits = jobs.bits
      BY <1>0, <2>1, <3>1, ListsExist, HeadSwitchWF DEF SlotsWellFormed
    <3>. QED BY <3>2, ListsExist DEF Allocated
  <2>. QED BY <1>1, <2>1
<1>. DEFINE Away == {"top", "lock", "check", "park", "waiting", "take", "unlock", "begin", "run",
                     "load_in_use", "store_in_use", "load_finished", "store_finished",
                     "publish", "notify", "release", "exit", "exited"}
<1>3. \/ wrk' = wrk
      \/ /\ wrk[w].pc \in Away /\ wrk'[w].pc \in Away
         /\ \A v \in Workers \ {w} : wrk'[v] = wrk[v]
  <2>. USE <1>0 DEF KeepsJob, Moves
  <2>1. CASE LoopTop(w) \/ LockCond(w) \/ CheckPending(w) \/ Park(w) \/ SpuriousWakeup(w)
    BY <2>1, LoopTopMoves, LockCondMoves, CheckPendingMoves, ParkMoves, SpuriousWakeupMoves
  <2>2. CASE UnlockCond(w) \/ Begin(w) \/ RunJob(w) \/ Exit(w) \/ NotifyFinish(w)
    BY <2>2, UnlockCondMoves, BeginMoves, RunJobMoves, ExitMoves, NotifyFinishMoves
  <2>3. CASE LoadInUse(w) \/ ClearInUse(w) \/ LoadFinished(w) \/ SetFinished(w)
    BY <2>3, FlagMoves
  <2>4. CASE TakeJob(w)
    BY <2>4, TakeJobMoves DEF TakeJob
  <2>. QED BY <2>1, <2>2, <2>3, <2>4 DEF AnyWorkerStep, WorkerStep
<1>4. /\ \A v \in Workers : Updating(v)' <=> Updating(v)
      /\ \A v \in Workers : Updating(v) => wrk'[v].pc = wrk[v].pc /\ wrk'[v].job = wrk[v].job
  BY <1>3 DEF Updating
<1>. QED BY <1>0, <1>1, <1>2, <1>4, OutsideKeeps

\* The main thread's steps that stay out of the arena.
LEMMA MainAway ==
  ASSUME ArenaInv, arenaVars' = arenaVars, jobs' = jobs,
         \A w \in Workers : wrk'[w].pc = wrk[w].pc /\ wrk'[w].job = wrk[w].job,
         memMutex' = memMutex \/ {memMutex, memMutex'} = {NoOne, Main},
         main' = main \/ (~ Seeking /\ ~ Seeking')
  PROVE  ArenaInv'
<1>1. \A w \in Workers : memMutex' = w <=> memMutex = w
  BY NamesDiffer
<1>2. \A w \in Workers : Updating(w)' <=> Updating(w)
  BY DEF Updating
<1>. QED BY <1>1, <1>2, OutsideKeeps

LEMMA MainOutside ==
  ASSUME IInv, ArenaInv,
         \/ ScanWorker \/ GrabFails \/ FillAndUnlock \/ EnqueueReturn \/ CancelStore
         \/ PointToDone \/ Reply \/ CallbackReturn \/ NotifyPipeEventRead \/ DestroyStart
  PROVE  ArenaInv'
<1>0. PoolTypes /\ main \in MainThread /\ Locks /\ MainLocals
  BY DEF IInv, PoolTypes
<1>1. arenaVars' = arenaVars /\ jobs' = jobs /\ wrk' = wrk
  BY DEF ScanWorker, GrabFails, FillAndUnlock, EnqueueReturn, CancelStore, PointToDone, Reply,
         CallbackReturn, NotifyPipeEventRead, DestroyStart, poolVars
<1>2. memMutex' = memMutex \/ {memMutex, memMutex'} = {NoOne, Main}
  <2>1. CASE GrabFails
    BY <2>1 DEF GrabFails
  <2>2. CASE FillAndUnlock
    BY <1>0, <2>2 DEF FillAndUnlock, Locks
  <2>. QED BY <2>1, <2>2 DEF ScanWorker, EnqueueReturn, CancelStore, PointToDone, Reply,
              CallbackReturn, NotifyPipeEventRead, DestroyStart, poolVars
<1>3. main' = main \/ (~ Seeking /\ ~ Seeking')
  <2>. USE <1>0 DEF MainThread, Seeking
  <2>1. CASE ScanWorker \/ GrabFails \/ FillAndUnlock
    BY <2>1 DEF ScanWorker, GrabFails, FillAndUnlock
  <2>2. CASE EnqueueReturn
    BY <2>2 DEF EnqueueReturn
  <2>3. CASE CancelStore
    BY <2>3 DEF CancelStore
  <2>4. CASE PointToDone
    BY <2>4 DEF PointToDone
  <2>5. CASE Reply
    <3>1. \/ main' = main
          \/ main.pc = "reply" /\ \E pc \in {"callback", "free"} : main' = [main EXCEPT !.pc = pc]
      BY <2>5 DEF Reply
    <3>. QED BY <3>1
  <2>6. CASE CallbackReturn \/ NotifyPipeEventRead \/ DestroyStart
    BY <2>6 DEF CallbackReturn, NotifyPipeEventRead, DestroyStart
  <2>. QED BY <2>1, <2>2, <2>3, <2>4, <2>5, <2>6
<1>. QED BY <1>1, <1>2, <1>3, MainAway

LEMMA EnqueueStartOutside ==
  ASSUME IInv, ArenaInv, NEW k \in Kinds, EnqueueStart(k) PROVE ArenaInv'
<1>1. /\ arenaVars' = arenaVars /\ jobs' = jobs /\ wrk' = wrk /\ memMutex' = memMutex
  BY DEF EnqueueStart, poolVars
<1>2. ~ Seeking /\ ~ Seeking'
  <2>1. /\ main.pc \in {"idle", "callback"} /\ main \in MainThread
        /\ \E pc \in {"grab", "scan"} :
              main' = [main EXCEPT !.ret = main.pc, !.kind = k, !.scan = 0, !.pc = pc]
    BY DEF EnqueueStart, Callable, IInv, PoolTypes
  <2>. QED BY <2>1 DEF MainThread, Seeking
<1>. QED BY <1>1, <1>2, MainAway

LEMMA WakingOutside ==
  ASSUME IInv, ArenaInv, SignalCond \/ LaunchMore \/ FlagShutdown PROVE ArenaInv'
<1>0. /\ PoolTypes /\ main \in MainThread /\ wrk \in [Workers -> Worker] /\ UnlaunchedAreOff
      /\ launched \in 0 .. WorkerMax + 1 /\ WorkerMax \in Nat /\ WorkerGrow \in Nat
  BY ThreadPoolAssumption DEF IInv, PoolTypes
<1>1. arenaVars' = arenaVars /\ jobs' = jobs /\ memMutex' = memMutex
  BY DEF SignalCond, LaunchMore, FlagShutdown, poolVars
<1>2. ~ Seeking /\ ~ Seeking'
  <2>1. CASE SignalCond \/ LaunchMore
    BY <1>0, <2>1 DEF SignalCond, LaunchMore, Seeking, MainThread
  <2>2. CASE FlagShutdown
    <3>1. /\ main.pc = "flag"
          /\ main' = [main EXCEPT !.pc = "join"] \/ main' = [main EXCEPT !.scan = main.scan + 1]
      BY <2>2 DEF FlagShutdown
    <3>. QED BY <1>0, <3>1 DEF Seeking, MainThread
  <2>. QED BY <2>1, <2>2
<1>3. ASSUME NEW w \in Workers
      PROVE  \/ wrk'[w].pc = wrk[w].pc /\ wrk'[w].job = wrk[w].job
             \/ wrk[w].pc \in {"off", "waiting"} /\ wrk'[w].pc \in {"top", "lock"}
  <2>1. CASE wrk' = wrk
    BY <2>1
  <2>2. CASE \E v \in Waiting : wrk' = [wrk EXCEPT ![v].pc = "lock"]
    <3>1. PICK v \in Workers : wrk[v].pc = "waiting" /\ wrk' = [wrk EXCEPT ![v].pc = "lock"]
      BY <2>2 DEF Waiting
    <3>2. wrk'[v].pc = "lock" /\ \A x \in Workers \ {v} : wrk'[x] = wrk[x]
      BY <1>0, <3>1 DEF Worker
    <3>. QED BY <3>1, <3>2
  <2>3. CASE LaunchMore
    <3>1. PICK failed : /\ launched' = LaunchTo(WorkerGrow)
                        /\ wrk' = Launched(launched, launched', failed)
      BY <2>3 DEF LaunchMore
    <3>2. launched' \in 0 .. WorkerMax + 1
      BY <1>0, <3>1 DEF LaunchTo, Lowest
    <3>3. /\ wrk'[w].job = wrk[w].job
          /\ wrk'[w].pc = wrk[w].pc \/ (w \in launched .. (launched' - 1) /\ wrk'[w].pc = "top")
      BY <1>0, <3>1, <3>2, LaunchedTypes
    <3>4. w \in launched .. (launched' - 1) => wrk[w].pc = "off"
      BY <1>0, <3>2 DEF UnlaunchedAreOff
    <3>. QED BY <3>3, <3>4
  <2>4. CASE FlagShutdown /\ main.scan < launched
    <3>1. wrk' = [wrk EXCEPT ![main.scan].do_shutdown = TRUE]
      BY <2>4 DEF FlagShutdown
    <3>. QED BY <1>0, <3>1 DEF Worker
  <2>. QED BY <2>1, <2>2, <2>3, <2>4 DEF SignalCond, FlagShutdown
<1>4. /\ \A w \in Workers : Updating(w)' <=> Updating(w)
      /\ \A w \in Workers : Updating(w) => wrk'[w].pc = wrk[w].pc /\ wrk'[w].job = wrk[w].job
  BY <1>3 DEF Updating
<1>. QED BY <1>1, <1>2, <1>4, OutsideKeeps

\* A block where nobody is and nobody searches has an exact count.
LEMMA CountPlain ==
  ASSUME PoolTypes, NEW b, BlockExact(b), \A w \in Workers : ~ Inside(w, b),
         SearchedIn(b) => main.pc \in {"seek", "add"}
  PROVE  IF b \in data THEN busy[b] = Cardinality(BitsOf(b)) ELSE BitsOf(b) = {}
<1>1. CountExact(b)
  BY DEF BlockExact
<1>2. ~ (SearchedIn(b) /\ main.pc \in {"load", "mark"} /\ main.slot \notin BitsOf(b))
  OBVIOUS
<1>3. ~ Owed(b)
  BY <1>2 DEF Owed
<1>4. busy[b] = Cardinality(BitsOf(b)) + 0 => busy[b] = Cardinality(BitsOf(b))
  <2>1. IsFiniteSet(jobs.bits \cap InBlock(b))
    BY BitsFinite DEF PoolTypes
  <2>2. Cardinality(BitsOf(b)) \in Nat
    BY <2>1, FS_CardinalityType DEF BitsOf
  <2>. QED BY <2>2
<1>. QED BY <1>1, <1>3, <1>4 DEF CountExact

LEMMA PlainExact ==
  ASSUME NEW b, \A w \in Workers : ~ Inside(w, b)', ~ SearchedIn(b)',
         IF b \in data' THEN busy'[b] = Cardinality(BitsOf(b)') ELSE BitsOf(b)' = {},
         busy'[b] \in Int
  PROVE  BlockExact(b)'
<1>1. ~ Owed(b)'
  BY DEF Owed
<1>2. CASE b \in data'
  <2>1. busy'[b] = Cardinality(BitsOf(b)') /\ busy'[b] = busy'[b] + 0
    BY <1>2
  <2>2. CountExact(b)'
    BY <1>1, <1>2, <2>1 DEF CountExact
  <2>. QED BY <2>2 DEF BlockExact
<1>3. CASE b \notin data'
  <2>1. CountExact(b)'
    BY <1>3 DEF CountExact
  <2>. QED BY <2>1 DEF BlockExact
<1>. QED BY <1>2, <1>3

\* Whoever holds memslot.mutex, nobody else is in the arena with it.
LEMMA OneUpdates ==
  ASSUME ArenaInv, NEW w \in Workers, Updating(w)
  PROVE  memMutex = w /\ \A v \in Workers \ {w} : ~ Updating(v)
BY DEF ArenaInv, ArenaSteps

LEMMA NobodyUpdates ==
  ASSUME ArenaInv, memMutex \in {NoOne, Main}
  PROVE  \A w \in Workers : ~ Updating(w)
BY NamesDiffer DEF ArenaInv, ArenaSteps

\* A step of a cancel's search: what it leaves to show.
LEMMA SearchSteps ==
  ASSUME ArenaInv, wrk' = wrk, memMutex' = memMutex, holder' = holder,
         jobs'.list = jobs.list, seeker' \in Registers,
         main'.pc = "mark" => /\ Allocated(jobs) \cap SameByte(main'.slot) \subseteq seeker'.bits
                              /\ seeker'.bits \subseteq SameByte(main'.slot)
  PROVE  ArenaSteps'
<1>1. Allocated(jobs') = Allocated(jobs)
  BY DEF Allocated, OnList
<1>2. \A w \in Workers : Updating(w)' <=> Updating(w)
  BY DEF Updating
<1>. HIDE DEF Updating
<1>. QED BY <1>1, <1>2 DEF ArenaInv, ArenaSteps

LEMMA UnsearchedKept ==
  ASSUME ArenaInv, wrk' = wrk, holder' = holder, overlapped \subseteq overlapped',
         NEW b \in Blocks \ overlapped', ~ SearchedIn(b), ~ SearchedIn(b)',
         busy'[b] = busy[b], b \in data' <=> b \in data, BitsOf(b)' = BitsOf(b)
  PROVE  BlockExact(b)'
<1>1. BlockExact(b)
  BY DEF ArenaInv, BlocksExact
<1>2. \A w \in Workers : Inside(w, b)' <=> Inside(w, b)
  BY DEF Inside, Updating
<1>. QED BY <1>1, <1>2, BlockKept

LEMMA SearchedAlone ==
  ASSUME NEW b, BlockExact(b), SearchedIn(b)
  PROVE  /\ \A w \in Workers : ~ Inside(w, b)
         /\ SeekerExact(b)
         /\ Owed(b) <=> main.pc \in {"load", "mark"} /\ main.slot \notin BitsOf(b)
         /\ busy[b] = Cardinality(BitsOf(b)) + (IF Owed(b) THEN 1 ELSE 0)
<1>1. SeekerExact(b) /\ CountExact(b)
  BY DEF BlockExact
<1>2. \A w \in Workers : ~ Inside(w, b)
  BY DEF BlockExact, HolderExact
<1>3. b \in data
  BY <1>1 DEF SeekerExact
<1>4. Owed(b) <=> main.pc \in {"load", "mark"} /\ main.slot \notin BitsOf(b)
  BY <1>2 DEF Owed
<1>5. busy[b] = Cardinality(BitsOf(b)) + (IF Owed(b) THEN 1 ELSE 0)
  BY <1>1, <1>3 DEF CountExact
<1>. QED BY <1>1, <1>2, <1>4, <1>5

LEMMA CancelFindArena ==
  ASSUME IInv, ArenaInv, NEW k \in Tickets, CancelFind(k) PROVE ArenaInv'
<1>. DEFINE h == handle[k]
            c == BlockOf(h)
<1>0. PoolTypes /\ main \in MainThread /\ ArenaTypes
  BY DEF IInv, PoolTypes, ArenaInv
<1>1. /\ main.pc \in {"idle", "callback"} /\ h # NoSlot
      /\ main' = [main EXCEPT !.ret = main.pc, !.pc = "seek", !.slot = h, !.ticket = k]
  BY DEF CancelFind, Callable
<1>2. /\ data' = data \cup {c}
      /\ busy' = [busy EXCEPT ![c] = IF c \in data THEN busy[c] ELSE 0]
      /\ overlapped' = IF \E w \in Workers : Inside(w, c)
                       THEN overlapped \cup {c} ELSE overlapped
  BY DEF CancelFind, Inside
<1>3. /\ jobs' = jobs /\ memMutex' = memMutex /\ holder' = holder /\ seeker' = seeker
      /\ wrk' = wrk
  BY DEF CancelFind
<1>4. h \in SlotIds
  BY <1>0, <1>1 DEF PoolTypes
<1>5. main'.pc = "seek" /\ main'.slot = h
  BY <1>0, <1>1 DEF MainThread
<1>6. c \in Blocks /\ busy \in [Blocks -> Int]
  BY <1>0, <1>4, ByteInBlock DEF ArenaTypes
<1>. HIDE DEF c
<1>7. /\ busy' \in [Blocks -> Int] /\ busy'[c] = (IF c \in data THEN busy[c] ELSE 0)
      /\ \A b \in Blocks \ {c} : busy'[b] = busy[b]
  BY <1>2, <1>6
<1>8. ArenaTypes'
  BY <1>0, <1>2, <1>3, <1>6, <1>7 DEF ArenaTypes
<1>9. ArenaSteps'
  <2>1. seeker' \in Registers /\ jobs'.list = jobs.list /\ main'.pc # "mark"
    BY <1>0, <1>3, <1>5 DEF ArenaTypes
  <2>. QED BY <1>3, <2>1, SearchSteps
<1>10. ~ Seeking /\ \A b : SearchedIn(b)' <=> b = c
  <2>1. ~ Seeking
    BY <1>1 DEF Seeking
  <2>2. Seeking' /\ BlockOf(main'.slot) = c
    BY <1>5 DEF Seeking, c
  <2>. QED BY <2>1, <2>2 DEF SearchedIn
<1>11. ASSUME NEW b \in Blocks \ overlapped' PROVE BlockExact(b)'
  <2>0. overlapped \subseteq overlapped' /\ BitsOf(b)' = BitsOf(b) /\ ~ SearchedIn(b)
    BY <1>2, <1>3, <1>10 DEF BitsOf, SearchedIn
  <2>1. CASE b # c
    <3>1. busy'[b] = busy[b] /\ (b \in data' <=> b \in data) /\ ~ SearchedIn(b)'
      BY <1>2, <1>7, <1>10, <2>1
    <3>. QED BY <1>3, <2>0, <3>1, UnsearchedKept
  <2>2. CASE b = c
    <3>1. \A w \in Workers : ~ Inside(w, b)
      BY <1>2, <2>2
    <3>2. BlockExact(b)
      BY <2>0 DEF ArenaInv, BlocksExact
    <3>3. IF b \in data THEN busy[b] = Cardinality(BitsOf(b)) ELSE BitsOf(b) = {}
      BY <1>0, <2>0, <3>1, <3>2, CountPlain
    <3>4. busy'[b] = Cardinality(BitsOf(b)) + 0
      BY <1>6, <1>7, <2>2, <3>3, FS_EmptySet
    <3>5. \A w \in Workers : ~ Inside(w, b)'
      BY <1>3, <3>1 DEF Inside, Updating
    <3>6. b \in data' /\ ~ Owed(b)'
      BY <1>2, <1>5, <2>2, <3>5 DEF Owed
    <3>7. CountExact(b)'
      BY <2>0, <3>4, <3>6 DEF CountExact
    <3>8. SeekerExact(b)'
      BY <1>5, <3>6 DEF SeekerExact
    <3>. QED BY <3>5, <3>7, <3>8 DEF BlockExact
  <2>. QED BY <2>1, <2>2
<1>. QED BY <1>8, <1>9, <1>11 DEF ArenaInv, BlocksExact

\* The search proper, in the block of the job.
LEMMA CancelTestArena ==
  ASSUME IInv, ArenaInv, CancelTest \/ CancelCount \/ CancelLoad \/ CancelMark \/ CancelInFreed
  PROVE  ArenaInv'
<1>. DEFINE s == main.slot
            c == BlockOf(s)
<1>0. /\ PoolTypes /\ main \in MainThread /\ ArenaTypes /\ MainLocals /\ WellFormed(jobs)
      /\ ArenaSteps
  BY DEF IInv, PoolTypes, ArenaInv, SlotsWellFormed
<1>1. Seeking /\ wrk' = wrk /\ memMutex' = memMutex /\ holder' = holder /\ data' = data
      /\ overlapped' = overlapped
  BY DEF CancelTest, CancelCount, CancelLoad, CancelMark, CancelInFreed, Seeking, poolVars,
         arenaVars
<1>2. s \in SlotIds
  BY <1>0, <1>1 DEF MainLocals, CancellingPCs, Seeking
<1>3. /\ SameByte(s) \subseteq InBlock(c) /\ s \in SameByte(s) /\ c \in Blocks
      /\ s \in InBlock(c) /\ SameByte(s) \subseteq SlotIds
  BY <1>2, ByteInBlock
<1>4. busy \in [Blocks -> Int] /\ busy[c] \in Int
  BY <1>0, <1>3 DEF ArenaTypes
<1>5. /\ main'.slot = s
      /\ CancelTest => /\ main.pc = "seek"
                       /\ s \in jobs.bits => main'.pc = "load"
                       /\ s \notin jobs.bits => main'.pc = "add"
      /\ CancelCount => main.pc = "add" /\ main'.pc = "load"
      /\ CancelLoad => main.pc = "load" /\ main'.pc = "mark"
      /\ CancelMark => main.pc = "mark" /\ main'.pc = "cancel"
      /\ CancelInFreed => main'.pc = "cancel"
  <2>. USE <1>0 DEF MainThread
  <2>1. CASE CancelTest
    BY <2>1 DEF CancelTest, CancelCount, CancelLoad, CancelMark, CancelInFreed, BlockStays
  <2>2. CASE CancelCount
    BY <2>2 DEF CancelTest, CancelCount, CancelLoad, CancelMark, CancelInFreed, BlockStays
  <2>3. CASE CancelLoad
    BY <2>3 DEF CancelTest, CancelCount, CancelLoad, CancelMark, CancelInFreed, BlockStays
  <2>4. CASE CancelMark
    BY <2>4 DEF CancelTest, CancelCount, CancelLoad, CancelMark, CancelInFreed, BlockStays
  <2>5. CASE CancelInFreed
    BY <2>5 DEF CancelTest, CancelCount, CancelLoad, CancelMark, CancelInFreed, BlockStays
  <2>. QED BY <2>1, <2>2, <2>3, <2>4, <2>5
<1>6. /\ ~ CancelCount => busy' = busy
      /\ ~ CancelMark => jobs' = jobs
      /\ CancelTest => seeker' = [bits |-> {}, count |-> busy[c]]
      /\ CancelCount => busy' = [busy EXCEPT ![c] = seeker.count + 1] /\ seeker' = seeker
      /\ CancelLoad => seeker' = [bits |-> jobs.bits \cap SameByte(s), count |-> 0]
      /\ CancelMark => /\ jobs' = [jobs EXCEPT !.bits = (jobs.bits \ SameByte(s)) \cup seeker.bits
                                                        \cup {s}]
                       /\ seeker' = seeker
      /\ CancelInFreed => seeker' = seeker /\ c \notin data
  BY DEF CancelTest, CancelCount, CancelLoad, CancelMark, CancelInFreed, BlockStays, poolVars,
         arenaVars
<1>7. /\ jobs'.list = jobs.list
      /\ CancelMark => /\ jobs'.bits = (jobs.bits \ SameByte(s)) \cup seeker.bits \cup {s}
                       /\ seeker.bits \subseteq SameByte(s)
  BY <1>0, <1>5, <1>6 DEF PoolTypes, Pool, ArenaSteps
<1>. HIDE DEF c
<1>8. seeker' \in Registers
  <2>1. jobs.bits \subseteq SlotIds /\ {} \subseteq SlotIds /\ seeker \in Registers /\ 0 \in Int
    BY <1>0 DEF PoolTypes, Pool, ArenaTypes
  <2>2. jobs.bits \cap SameByte(s) \in SUBSET SlotIds
    BY <2>1
  <2>3. CASE CancelTest
    BY <1>4, <1>6, <2>1, <2>3 DEF Registers
  <2>4. CASE CancelLoad
    BY <1>6, <2>1, <2>2, <2>4 DEF Registers
  <2>. QED BY <1>6, <2>1, <2>3, <2>4
<1>9. busy' \in [Blocks -> Int] /\ \A b \in Blocks \ {c} : busy'[b] = busy[b]
  <2>1. seeker.count + 1 \in Int
    BY <1>0 DEF ArenaTypes, Registers
  <2>. QED BY <1>3, <1>4, <1>6, <2>1
<1>10. ArenaTypes'
  BY <1>0, <1>1, <1>8, <1>9 DEF ArenaTypes
<1>11. ArenaSteps'
  <2>1. main'.pc = "mark" => CancelLoad
    BY <1>5
  <2>2. Allocated(jobs) \subseteq jobs.bits
    BY <1>0, ListedHaveBits
  <2>3. main'.pc = "mark" => /\ Allocated(jobs) \cap SameByte(main'.slot) \subseteq seeker'.bits
                             /\ seeker'.bits \subseteq SameByte(main'.slot)
    BY <1>5, <1>6, <2>1, <2>2
  <2>. QED BY <1>1, <1>7, <1>8, <2>3, SearchSteps
<1>12. /\ \A b : SearchedIn(b) <=> b = c
       /\ \A b : SearchedIn(b)' => b = c
       /\ SearchedIn(c)' <=> main'.pc \in {"add", "load", "mark"}
  <2>1. main'.pc \in {"add", "load", "mark", "cancel"}
    BY <1>5
  <2>. QED BY <1>1, <1>5, <2>1 DEF SearchedIn, Seeking, c
<1>13. ASSUME NEW b \in Blocks \ overlapped', b # c PROVE BlockExact(b)'
  <2>1. ~ SearchedIn(b) /\ ~ SearchedIn(b)'
    BY <1>12, <1>13
  <2>2. InBlock(b) \cap InBlock(c) = {}
    BY <1>13 DEF InBlock
  <2>3. BitsOf(b)' = BitsOf(b)
    BY <1>3, <1>6, <1>7, <2>2 DEF BitsOf
  <2>. QED BY <1>1, <1>9, <1>13, <2>1, <2>3, UnsearchedKept
<1>14. ASSUME NEW b \in Blocks \ overlapped', b = c PROVE BlockExact(b)'
  <2>. DEFINE n == Cardinality(BitsOf(b))
  <2>1. BlockExact(b) /\ SearchedIn(b)
    BY <1>1, <1>12, <1>14 DEF ArenaInv, BlocksExact
  <2>2. /\ \A w \in Workers : ~ Inside(w, b)
        /\ SeekerExact(b)
        /\ Owed(b) <=> main.pc \in {"load", "mark"} /\ s \notin BitsOf(b)
        /\ busy[b] = n + (IF Owed(b) THEN 1 ELSE 0)
    BY <2>1, SearchedAlone
  <2>3. b \in data' /\ ~ CancelInFreed
    BY <1>1, <1>6, <1>14, <2>2 DEF SeekerExact
  <2>4. IsFiniteSet(BitsOf(b)) /\ n \in Nat
    <3>1. IsFiniteSet(jobs.bits \cap InBlock(b))
      BY <1>0, BitsFinite DEF PoolTypes
    <3>. QED BY <3>1, FS_CardinalityType DEF BitsOf
  <2>5. s \in BitsOf(b) <=> s \in jobs.bits
    BY <1>3, <1>14 DEF BitsOf
  <2>6. \A w \in Workers : ~ Inside(w, b)'
    BY <1>1, <2>2 DEF Inside, Updating
  <2>7. Owed(b)' <=> main'.pc \in {"load", "mark"} /\ s \notin BitsOf(b)'
    BY <1>5, <1>12, <1>14, <2>6 DEF Owed
  <2>. HIDE DEF n, s
  <2>8. ASSUME CountExact(b)', SeekerExact(b)' PROVE BlockExact(b)'
    BY <2>6, <2>8 DEF BlockExact
  <2>9. jobs' = jobs => BitsOf(b)' = BitsOf(b)
    BY DEF BitsOf
  <2>10. CASE CancelTest
    <3>1. /\ busy'[b] = n /\ ~ Owed(b)' /\ BitsOf(b)' = BitsOf(b)
      BY <1>5, <1>6, <2>2, <2>4, <2>5, <2>7, <2>9, <2>10
    <3>2. CountExact(b)'
      BY <2>3, <2>4, <3>1 DEF CountExact, n
    <3>3. SeekerExact(b)'
      BY <1>5, <1>6, <1>14, <2>3, <2>5, <2>10, <3>1 DEF SeekerExact
    <3>. QED BY <2>8, <3>2, <3>3
  <2>11. CASE CancelCount
    <3>1. /\ main.pc = "add" /\ s \notin BitsOf(b) /\ seeker.count = busy[b] /\ ~ Owed(b)
      BY <1>5, <2>2, <2>11 DEF SeekerExact, s
    <3>2. /\ busy'[b] = n + 1 /\ Owed(b)' /\ BitsOf(b)' = BitsOf(b) /\ main'.pc = "load"
      BY <1>4, <1>5, <1>6, <1>14, <2>2, <2>4, <2>7, <2>9, <2>11, <3>1
    <3>3. CountExact(b)'
      BY <2>3, <2>4, <3>2 DEF CountExact, n
    <3>4. SeekerExact(b)'
      BY <2>3, <3>2 DEF SeekerExact
    <3>. QED BY <2>8, <3>3, <3>4
  <2>12. CASE CancelLoad
    <3>1. /\ busy'[b] = busy[b] /\ (Owed(b)' <=> Owed(b)) /\ BitsOf(b)' = BitsOf(b)
          /\ main'.pc = "mark" /\ main'.slot = s
      BY <1>5, <1>6, <2>2, <2>7, <2>9, <2>12
    <3>2. CountExact(b)'
      BY <2>2, <2>3, <3>1 DEF CountExact, n
    <3>3. seeker'.bits = BitsOf(b) \cap SameByte(s)
      BY <1>3, <1>6, <1>14, <2>12 DEF BitsOf
    <3>4. SeekerExact(b)'
      BY <2>3, <3>1, <3>3 DEF SeekerExact
    <3>. QED BY <2>8, <3>2, <3>4
  <2>13. CASE CancelMark
    <3>1. main.pc = "mark" /\ seeker.bits = BitsOf(b) \cap SameByte(s) /\ main'.pc = "cancel"
      BY <1>5, <2>2, <2>13 DEF SeekerExact, s
    <3>2. BitsOf(b)' = BitsOf(b) \cup {s}
      BY <1>3, <1>7, <1>14, <2>13, <3>1 DEF BitsOf
    <3>3. Cardinality(BitsOf(b) \cup {s}) = n + (IF s \in BitsOf(b) THEN 0 ELSE 1)
      <4>1. CASE s \in BitsOf(b)
        <5>1. BitsOf(b) \cup {s} = BitsOf(b)
          BY <4>1
        <5>2. Cardinality(BitsOf(b) \cup {s}) = n
          BY <5>1 DEF n
        <5>. QED BY <2>4, <4>1, <5>2
      <4>2. CASE s \notin BitsOf(b)
        BY <2>4, <4>2, FS_AddElement DEF n
      <4>. QED BY <4>1, <4>2
    <3>4. busy'[b] = busy[b] /\ busy[b] = n + (IF s \in BitsOf(b) THEN 0 ELSE 1)
      <4>1. ~ CancelCount
        BY <1>5, <2>13, <3>1
      <4>2. Owed(b) <=> s \notin BitsOf(b)
        BY <2>2, <3>1
      <4>. QED BY <1>6, <2>2, <4>1, <4>2
    <3>7. ~ Owed(b)'
      BY <2>7, <3>1
    <3>8. busy'[b] = Cardinality(BitsOf(b)') /\ busy'[b] = busy'[b] + 0
      BY <2>4, <3>2, <3>3, <3>4
    <3>5. CountExact(b)'
      BY <2>3, <3>7, <3>8 DEF CountExact
    <3>6. SeekerExact(b)'
      BY <2>3, <3>1 DEF SeekerExact
    <3>. QED BY <2>8, <3>5, <3>6
  <2>. QED BY <2>3, <2>10, <2>11, <2>12, <2>13
<1>. QED BY <1>10, <1>11, <1>13, <1>14 DEF ArenaInv, BlocksExact

\* A step of the main thread that holds memslot.mutex or needs nobody to, in one block.
LEMMA AloneArena ==
  ASSUME PoolTypes, ArenaInv, memMutex = NoOne, memMutex' \in {NoOne, Main},
         \A w \in Workers : ~ Updating(w)', ~ Seeking, ~ Seeking',
         holder' = holder, seeker' = seeker, overlapped' = overlapped,
         data' \subseteq Blocks, busy' \in [Blocks -> Int],
         \A b \in Blocks \ overlapped :
            BlockExact(b) /\ (IF b \in data THEN busy[b] = Cardinality(BitsOf(b))
                                            ELSE BitsOf(b) = {})
            => IF b \in data' THEN busy'[b] = Cardinality(BitsOf(b)') ELSE BitsOf(b)' = {}
  PROVE  ArenaInv'
<1>1. \A w \in Workers : ~ Updating(w)
  BY NobodyUpdates
<1>2. ArenaTypes'
  BY DEF ArenaInv, ArenaTypes
<1>3. ArenaSteps'
  <2>1. \A w \in Workers : memMutex' # w
    BY NamesDiffer
  <2>2. \A w \in Workers : wrk'[w].pc \notin {"switch", "clear", "count"}
    BY DEF Updating
  <2>3. main'.pc # "mark"
    BY DEF Seeking
  <2>4. holder' \in Registers /\ seeker' \in Registers
    BY DEF ArenaInv, ArenaTypes
  <2>. QED BY <2>1, <2>2, <2>3, <2>4 DEF ArenaSteps, Updating
<1>4. ASSUME NEW b \in Blocks \ overlapped PROVE BlockExact(b)'
  <2>1. BlockExact(b) /\ busy'[b] \in Int
    BY DEF ArenaInv, BlocksExact
  <2>2. /\ \A w \in Workers : ~ Inside(w, b) /\ ~ Inside(w, b)'
        /\ ~ SearchedIn(b) /\ ~ SearchedIn(b)'
    BY <1>1 DEF Inside, SearchedIn
  <2>3. IF b \in data THEN busy[b] = Cardinality(BitsOf(b)) ELSE BitsOf(b) = {}
    BY <2>1, <2>2, CountPlain
  <2>4. IF b \in data' THEN busy'[b] = Cardinality(BitsOf(b)') ELSE BitsOf(b)' = {}
    BY <2>1, <2>3
  <2>. QED BY <2>1, <2>2, <2>4, PlainExact
<1>. QED BY <1>2, <1>3, <1>4 DEF ArenaInv, BlocksExact

LEMMA GrabJobArena == ASSUME IInv, ArenaInv, GrabJob PROVE ArenaInv'
<1>. DEFINE s == GrabId(jobs)
            c == BlockOf(s)
<1>0. /\ PoolTypes /\ main \in MainThread /\ WellFormed(jobs) /\ ArenaTypes /\ HasFree(jobs)
  BY DEF IInv, PoolTypes, SlotsWellFormed, ArenaInv, GrabJob
<1>1. /\ main.pc = "grab" /\ memMutex = NoOne /\ memMutex' = Main /\ jobs' = Grab(jobs)
      /\ main' = [main EXCEPT !.pc = "fill", !.slot = s] /\ wrk' = wrk
      /\ holder' = holder /\ seeker' = seeker /\ overlapped' = overlapped
      /\ data' = data \cup {c}
      /\ busy' = [busy EXCEPT ![c] = IF c \notin data THEN 1
                                     ELSE IF s \in jobs.bits THEN busy[c] ELSE busy[c] + 1]
  BY DEF GrabJob
<1>2. s \in SlotIds /\ jobs'.bits = jobs.bits \cup {s}
  BY <1>0, <1>1, GrabWF
<1>. HIDE DEF s
<1>3. c \in Blocks /\ s \in InBlock(c)
  BY <1>2, ByteInBlock
<1>. HIDE DEF c
<1>4. data \subseteq Blocks /\ busy \in [Blocks -> Int] /\ jobs \in Pool
  BY <1>0 DEF ArenaTypes, PoolTypes
<1>5. /\ data' \subseteq Blocks /\ busy' \in [Blocks -> Int]
      /\ \A b \in Blocks \ {c} : busy'[b] = busy[b]
      /\ busy'[c] = (IF c \notin data THEN 1 ELSE IF s \in jobs.bits THEN busy[c]
                     ELSE busy[c] + 1)
  BY <1>1, <1>3, <1>4
<1>6. ASSUME NEW b \in Blocks \ overlapped,
             IF b \in data THEN busy[b] = Cardinality(BitsOf(b)) ELSE BitsOf(b) = {}
      PROVE  IF b \in data' THEN busy'[b] = Cardinality(BitsOf(b)') ELSE BitsOf(b)' = {}
  <2>1. CASE b # c
    <3>1. s \notin InBlock(b)
      BY <1>3, <2>1 DEF InBlock
    <3>2. BitsOf(b)' = BitsOf(b) /\ (b \in data' <=> b \in data) /\ busy'[b] = busy[b]
      BY <1>1, <1>2, <1>5, <2>1, <3>1 DEF BitsOf
    <3>. QED BY <1>6, <3>2
  <2>2. CASE b = c
    <3>1. BitsOf(b)' = BitsOf(b) \cup {s} /\ b \in data'
      BY <1>1, <1>2, <1>3, <2>2 DEF BitsOf
    <3>2. s \in jobs.bits <=> s \in BitsOf(b)
      BY <1>3, <2>2 DEF BitsOf
    <3>3. IsFiniteSet(BitsOf(b))
      BY <1>4, BitsFinite DEF BitsOf
    <3>4. Cardinality(BitsOf(b)) \in Nat
      BY <3>3, FS_CardinalityType
    <3>5. CASE s \in BitsOf(b)
      <4>1. BitsOf(b) \cup {s} = BitsOf(b) /\ b \in data
        BY <1>6, <3>5
      <4>2. busy'[b] = busy[b]
        BY <1>5, <2>2, <3>2, <3>5, <4>1
      <4>. QED BY <1>6, <3>1, <4>1, <4>2
    <3>6. CASE s \notin BitsOf(b)
      <4>1. Cardinality(BitsOf(b) \cup {s}) = Cardinality(BitsOf(b)) + 1
        BY <3>3, <3>6, FS_AddElement
      <4>2. CASE b \in data
        BY <1>5, <1>6, <2>2, <3>1, <3>2, <3>6, <4>1, <4>2
      <4>3. CASE b \notin data
        <5>1. Cardinality(BitsOf(b)) = 0
          BY <1>6, <4>3, FS_EmptySet
        <5>. QED BY <1>5, <2>2, <3>1, <4>1, <4>3, <5>1
      <4>. QED BY <4>2, <4>3
    <3>. QED BY <3>5, <3>6
  <2>. QED BY <2>1, <2>2
<1>7. ~ Seeking /\ ~ Seeking'
  BY <1>0, <1>1 DEF Seeking, MainThread
<1>8. \A w \in Workers : ~ Updating(w)'
  BY <1>1, NobodyUpdates DEF Updating
<1>. QED BY <1>0, <1>1, <1>5, <1>6, <1>7, <1>8, AloneArena

\* The update of the count, in the block and in the others.
LEMMA UncountExact ==
  ASSUME ArenaTypes, NEW p, p \in Pool, NEW c \in Blocks, NEW n \in Int, Uncount(c, n, p)
  PROVE  /\ data' \subseteq Blocks /\ busy' \in [Blocks -> Int]
         /\ \A b \in Blocks \ {c} : /\ busy'[b] = busy[b] /\ (b \in data' <=> b \in data)
                                    /\ jobs'.bits \cap InBlock(b) = p.bits \cap InBlock(b)
         /\ c \in data /\ n = Cardinality(p.bits \cap InBlock(c))
            => IF c \in data' THEN busy'[c] = Cardinality(jobs'.bits \cap InBlock(c))
                                ELSE jobs'.bits \cap InBlock(c) = {}
<1>1. /\ busy' = [busy EXCEPT ![c] = n] /\ data' = (IF n = 0 THEN data \ {c} ELSE data)
      /\ data \subseteq Blocks /\ busy \in [Blocks -> Int]
  BY DEF Uncount, ArenaTypes
<1>2. jobs'.bits = p.bits \/ (jobs'.bits = p.bits \ InBlock(c) /\ n = 0)
  BY DEF Uncount, Pool
<1>3. \A b \in Blocks \ {c} : InBlock(b) \cap InBlock(c) = {}
  BY DEF InBlock
<1>4. /\ data' \subseteq Blocks /\ busy' \in [Blocks -> Int] /\ busy'[c] = n
      /\ \A b \in Blocks \ {c} : busy'[b] = busy[b] /\ (b \in data' <=> b \in data)
  BY <1>1
<1>5. \A b \in Blocks \ {c} : jobs'.bits \cap InBlock(b) = p.bits \cap InBlock(b)
  BY <1>2, <1>3
<1>6. ASSUME c \in data, n = Cardinality(p.bits \cap InBlock(c))
      PROVE  IF c \in data' THEN busy'[c] = Cardinality(jobs'.bits \cap InBlock(c))
                                ELSE jobs'.bits \cap InBlock(c) = {}
  <2>1. IsFiniteSet(p.bits \cap InBlock(c))
    BY BitsFinite
  <2>2. n = 0 => p.bits \cap InBlock(c) = {}
    BY <1>6, <2>1, FS_EmptySet
  <2>3. jobs'.bits \cap InBlock(c) = p.bits \cap InBlock(c)
    BY <1>2, <2>2
  <2>. QED BY <1>1, <1>4, <1>6, <2>2, <2>3
<1>. QED BY <1>4, <1>5, <1>6

LEMMA FreeDoneArena == ASSUME IInv, ArenaInv, FreeDone PROVE ArenaInv'
<1>. DEFINE s == main.head
            c == BlockOf(s)
<1>0. /\ PoolTypes /\ main \in MainThread /\ WellFormed(jobs) /\ ArenaTypes /\ OneOwner
  BY DEF IInv, PoolTypes, SlotsWellFormed, ArenaInv
<1>1. /\ main.pc = "free" /\ FreeJob(s) /\ wrk' = wrk
      /\ main' = [main EXCEPT !.pc = "point", !.head = NoSlot]
      /\ memMutex = NoOne /\ memMutex' = memMutex
      /\ holder' = holder /\ seeker' = seeker /\ overlapped' = overlapped
  BY DEF FreeDone, FreeJob
<1>2. ~ IsEmptyList(jobs, DONE) /\ s = PointToHead(jobs, DONE)
  BY <1>0, <1>1 DEF OneOwner, Consuming
<1>. HIDE DEF s
<1>3. s \in Allocated(jobs) /\ s \in SlotIds
  <2>1. s \in OnList(jobs, DONE) /\ s \in SlotIds
    BY <1>0, <1>2, ListsExist, HeadSwitchWF
  <2>. QED BY <2>1, ListsExist DEF Allocated
<1>4. c \in Blocks /\ s \in InBlock(c) /\ s \in jobs.bits
  BY <1>0, <1>3, ByteInBlock, ListedHaveBits
<1>5. data \subseteq Blocks /\ busy \in [Blocks -> Int] /\ jobs \in Pool
  BY <1>0 DEF ArenaTypes, PoolTypes
<1>6. ~ Seeking /\ ~ Seeking' /\ \A w \in Workers : ~ Updating(w)'
  BY <1>0, <1>1, NobodyUpdates DEF Seeking, MainThread, Updating
<1>7. CASE ~ (c \in data /\ FreeAsserts(jobs, s))
  <2>1. jobs' = Unlisted(s) /\ data' = data /\ busy' = busy
    BY <1>1, <1>7 DEF FreeJob, c
  <2>2. jobs'.bits = jobs.bits
    BY <1>5, <2>1 DEF Unlisted, Pool
  <2>3. \A b : BitsOf(b)' = BitsOf(b)
    BY <2>2 DEF BitsOf
  <2>. QED BY <1>0, <1>1, <1>5, <1>6, <2>1, <2>3, AloneArena
<1>8. CASE c \in data /\ FreeAsserts(jobs, s)
  <2>. DEFINE p == SlotFree(jobs, s)
              n == busy[c] - 1
  <2>1. Uncount(c, n, p)
    BY <1>1, <1>8 DEF FreeJob, c
  <2>2. p \in Pool /\ p.bits = jobs.bits \ {s} /\ n \in Int
    BY <1>0, <1>3, <1>4, <1>5, SlotFreeWF DEF WellFormed
  <2>. HIDE DEF p, n, c
  <2>3. /\ data' \subseteq Blocks /\ busy' \in [Blocks -> Int]
        /\ \A b \in Blocks \ {c} : /\ busy'[b] = busy[b] /\ (b \in data' <=> b \in data)
                                   /\ jobs'.bits \cap InBlock(b) = p.bits \cap InBlock(b)
        /\ c \in data /\ n = Cardinality(p.bits \cap InBlock(c))
           => IF c \in data' THEN busy'[c] = Cardinality(jobs'.bits \cap InBlock(c))
                                ELSE jobs'.bits \cap InBlock(c) = {}
    <3>1. ArenaTypes /\ c \in Blocks
      BY <1>0, <1>4
    <3>. QED BY <2>1, <2>2, <3>1, UncountExact
  <2>4. ASSUME NEW b \in Blocks,
               IF b \in data THEN busy[b] = Cardinality(BitsOf(b)) ELSE BitsOf(b) = {}
        PROVE  IF b \in data' THEN busy'[b] = Cardinality(BitsOf(b)') ELSE BitsOf(b)' = {}
    <3>1. CASE b # c
      <4>1. s \notin InBlock(b)
        BY <1>4, <3>1 DEF InBlock
      <4>2. BitsOf(b)' = BitsOf(b)
        BY <2>2, <2>3, <3>1, <4>1 DEF BitsOf
      <4>. QED BY <2>3, <2>4, <3>1, <4>2
    <3>2. CASE b = c
      <4>1. s \in BitsOf(b) /\ p.bits \cap InBlock(b) = BitsOf(b) \ {s}
        BY <1>4, <2>2, <3>2 DEF BitsOf
      <4>2. IsFiniteSet(BitsOf(b))
        BY <1>5, BitsFinite DEF BitsOf
      <4>3. Cardinality(BitsOf(b) \ {s}) = Cardinality(BitsOf(b)) - 1
        BY <4>1, <4>2, FS_RemoveElement
      <4>4. n = Cardinality(p.bits \cap InBlock(b))
        <5>1. busy[b] = Cardinality(BitsOf(b)) /\ n = busy[b] - 1
          BY <1>8, <2>4, <3>2 DEF n
        <5>2. n = Cardinality(BitsOf(b) \ {s})
          BY <4>3, <5>1
        <5>. QED BY <4>1, <5>2, Zenon
      <4>. QED BY <1>8, <2>3, <3>2, <4>4 DEF BitsOf
    <3>. QED BY <3>1, <3>2
  <2>. QED BY <1>0, <1>1, <1>6, <2>3, <2>4, AloneArena
<1>. QED BY <1>7, <1>8

LEMMA JoinAndCleanArena == ASSUME IInv, ArenaInv, JoinAndClean PROVE ArenaInv'
<1>0. /\ PoolTypes /\ UnlaunchedAreOff /\ ArenaTypes /\ wrk \in [Workers -> Worker]
      /\ launched \in 0 .. WorkerMax + 1 /\ WorkerMax \in Nat /\ main \in MainThread
  BY ThreadPoolAssumption DEF IInv, PoolTypes, ArenaInv
<1>1. /\ main.pc = "join" /\ main' = [main EXCEPT !.pc = "gone"] /\ jobs' = NewPool
      /\ \A w \in 0 .. (launched - 1) : wrk[w].pc = "exited"
      /\ wrk' = [w \in Workers |-> [wrk[w] EXCEPT !.job = NoSlot]]
      /\ data' = {} /\ busy' = [b \in Blocks |-> 0]
      /\ memMutex' = memMutex /\ holder' = holder /\ seeker' = seeker
      /\ overlapped' = overlapped
  BY DEF JoinAndClean
<1>2. \A w \in Workers : wrk[w].pc \in {"off", "exited"} /\ wrk'[w].pc = wrk[w].pc
  BY <1>0, <1>1 DEF UnlaunchedAreOff, Workers, Worker
<1>3. \A w \in Workers : ~ Updating(w) /\ ~ Updating(w)'
  BY <1>2 DEF Updating
<1>4. ArenaTypes' /\ ~ Seeking'
  BY <1>0, <1>1 DEF ArenaTypes, Seeking, MainThread
<1>5. ArenaSteps'
  <2>1. \A w \in Workers : memMutex' # w
    BY <1>1, <1>3 DEF ArenaInv, ArenaSteps
  <2>2. \A w \in Workers : wrk'[w].pc \notin {"switch", "clear", "count"}
    BY <1>2
  <2>. QED BY <1>1, <1>4, <2>1, <2>2 DEF ArenaSteps, Updating, Seeking, ArenaTypes
<1>6. ASSUME NEW b \in Blocks \ overlapped' PROVE BlockExact(b)'
  <2>1. BitsOf(b)' = {} /\ b \notin data' /\ busy'[b] \in Int
    BY <1>1 DEF BitsOf, NewPool
  <2>2. ~ SearchedIn(b)' /\ \A w \in Workers : ~ Inside(w, b)'
    BY <1>3, <1>4 DEF SearchedIn, Inside
  <2>. QED BY <2>1, <2>2, PlainExact
<1>. QED BY <1>4, <1>5, <1>6 DEF ArenaInv, BlocksExact

-----------------------------------------------------------------------------
(* A worker's way through the arena.                                       *)

\* What the worker's steps in the arena have in common.
LEMMA WorkerBlocks ==
  ASSUME IInv, ArenaInv, NEW w \in Workers, Updating(w) \/ Updating(w)', Updating(w)' => memMutex' = w,
         ~ Updating(w) => memMutex = NoOne,
         Updating(w) /\ Updating(w)' => wrk'[w].job = wrk[w].job,
         \A v \in Workers \ {w} : wrk'[v] = wrk[v],
         memMutex' \in {w, NoOne}, ~ Updating(w)' => memMutex' = NoOne,
         Updating(w)' => /\ wrk'[w].job \in SlotIds
                         /\ wrk'[w].pc \in {"clear", "count"} => wrk'[w].job \notin Allocated(jobs')
                         /\ wrk'[w].pc \in {"switch", "clear"}
                            => /\ (Allocated(jobs') \cap SameByte(wrk'[w].job)) \ {wrk'[w].job}
                                     \subseteq holder'.bits
                               /\ holder'.bits \subseteq SameByte(wrk'[w].job),
         main' = main, seeker' = seeker, holder' \in Registers,
         Allocated(jobs') \subseteq Allocated(jobs),
         NEW c, c = (IF Updating(w) THEN BlockOf(wrk[w].job) ELSE BlockOf(wrk'[w].job)),
         data' \subseteq Blocks, busy' \in [Blocks -> Int], overlapped' \subseteq Blocks,
         overlapped \subseteq overlapped',
         \A b \in Blocks \ {c} : /\ busy'[b] = busy[b] /\ (b \in data' <=> b \in data)
                                 /\ jobs'.bits \cap InBlock(b) = jobs.bits \cap InBlock(b),
         c \in Blocks \ overlapped' => BlockExact(c)'
  PROVE  ArenaInv'
<1>1. ArenaTypes'
  BY DEF ArenaInv, ArenaTypes
<1>2. \A v \in Workers \ {w} : ~ Updating(v) /\ ~ Updating(v)' /\ memMutex' # v
  <2>1. \A v \in Workers \ {w} : ~ Updating(v)
    BY NobodyUpdates, OneUpdates
  <2>2. NoOne \notin Workers
    BY NamesDiffer
  <2>. QED BY <2>1, <2>2 DEF Updating
<1>3. memMutex' = w <=> Updating(w)'
  BY NamesDiffer
<1>4. ArenaSteps'
  <2>1. main'.pc = "mark" => /\ Allocated(jobs') \cap SameByte(main'.slot) \subseteq seeker'.bits
                             /\ seeker'.bits \subseteq SameByte(main'.slot)
    BY DEF ArenaInv, ArenaSteps
  <2>2. seeker' \in Registers
    BY DEF ArenaInv, ArenaTypes
  <2>3. ASSUME NEW v \in Workers
        PROVE  /\ memMutex' = v <=> Updating(v)'
               /\ Updating(v)' => wrk'[v].job \in SlotIds
               /\ wrk'[v].pc \in {"clear", "count"} => wrk'[v].job \notin Allocated(jobs')
               /\ wrk'[v].pc \in {"switch", "clear"}
                  => /\ (Allocated(jobs') \cap SameByte(wrk'[v].job)) \ {wrk'[v].job}
                           \subseteq holder'.bits
                     /\ holder'.bits \subseteq SameByte(wrk'[v].job)
    <3>1. CASE v = w
      <4>1. wrk'[w].pc \in {"switch", "clear", "count"} => Updating(w)'
        BY DEF Updating
      <4>. QED BY <1>3, <3>1, <4>1
    <3>2. CASE v # w
      <4>1. wrk'[v].pc \notin {"switch", "clear", "count"}
        BY <1>2, <3>2 DEF Updating
      <4>. QED BY <1>2, <3>2, <4>1
    <3>. QED BY <3>1, <3>2
  <2>. QED BY <2>1, <2>2, <2>3 DEF ArenaSteps
<1>5. ASSUME NEW b \in Blocks \ overlapped', b # c PROVE BlockExact(b)'
  <2>1. BlockExact(b)
    BY <1>5 DEF ArenaInv, BlocksExact
  <2>2. BitsOf(b)' = BitsOf(b)
    BY <1>5 DEF BitsOf
  <2>3. ~ Inside(w, b) /\ ~ Inside(w, b)'
    <3>1. CASE Updating(w)
      BY <1>5, <3>1 DEF Inside
    <3>2. CASE ~ Updating(w)
      BY <1>5, <3>2 DEF Inside
    <3>. QED BY <3>1, <3>2
  <2>4. \A v \in Workers : ~ Inside(v, b) /\ ~ Inside(v, b)'
    BY <1>2, <2>3 DEF Inside
  <2>5. SearchedIn(b)' <=> SearchedIn(b)
    BY DEF SearchedIn, Seeking
  <2>6. busy'[b] = busy[b] /\ (b \in data' <=> b \in data)
    BY <1>5
  <2>. QED BY <2>1, <2>2, <2>4, <2>5, <2>6, BlockKept
<1>6. BlocksExact'
  BY <1>5 DEF BlocksExact
<1>. QED BY <1>1, <1>4, <1>6 DEF ArenaInv

\* A worker goes to the arena with the job it owns.
LEMMA EnterArenaKeeps ==
  ASSUME IInv, ArenaInv, NEW w \in Workers, EnterPublish(w) \/ ReleaseJob(w)
  PROVE  ArenaInv'
<1>0. /\ PoolTypes /\ OneOwner /\ WellFormed(jobs) /\ ArenaTypes /\ SlotsWellFormed
  BY DEF IInv, PoolTypes, SlotsWellFormed, ArenaInv
<1>1. PICK s \in SlotIds : s = wrk[w].job /\ s \in Allocated(jobs)
  <2>1. Owns(w)
    BY DEF EnterPublish, ReleaseJob, AtLabel, Owns, OwningPCs
  <2>2. wrk[w].job \in OnList(jobs, WORKING)
    BY <1>0, <2>1 DEF OneOwner
  <2>. QED BY <1>0, <2>2, ListsExist, OnListIsSlot
<1>2. PICK c \in Blocks : c = BlockOf(s) /\ s \in InBlock(c)
  BY ByteInBlock
<1>3. /\ wrk'[w].job = s /\ \A v \in Workers \ {w} : wrk'[v] = wrk[v]
      /\ EnterPublish(w) => wrk[w].pc = "publish" /\ wrk'[w].pc = "switch"
      /\ ReleaseJob(w) => wrk[w].pc = "release" /\ wrk'[w].pc = "clear"
  BY <1>0, <1>1, EnterPublishMoves, ReleaseMoves DEF KeepsJob, Moves
<1>4. /\ memMutex = NoOne /\ memMutex' = w
      /\ holder' = [bits |-> jobs.bits \cap SameByte(s), count |-> 0]
      /\ overlapped' = (IF SearchedIn(c) THEN overlapped \cup {c} ELSE overlapped)
      /\ data' = data /\ busy' = busy /\ seeker' = seeker
  BY <1>1, <1>2 DEF EnterPublish, ReleaseJob, EnterArena, SearchedIn
<1>5. main' = main
  BY WorkerFrame DEF AnyWorkerStep, WorkerStep
<1>6. /\ jobs'.bits = jobs.bits /\ Allocated(jobs') \subseteq Allocated(jobs)
      /\ ReleaseJob(w) => s \notin Allocated(jobs')
  <2>1. EnterPublish(w) => jobs' = jobs
    BY DEF EnterPublish
  <2>2. ReleaseJob(w) => jobs' = Unlisted(s)
    BY <1>1 DEF ReleaseJob
  <2>3. ~ (EnterPublish(w) /\ ReleaseJob(w))
    BY <1>3
  <2>. QED BY <1>0, <1>1, <2>1, <2>2, <2>3, UnlistedWF
<1>7. /\ ~ Updating(w) /\ Updating(w)' /\ wrk'[w].pc \in {"switch", "clear"}
      /\ wrk'[w].pc \in {"clear", "count"} => ReleaseJob(w)
  BY <1>3 DEF Updating
<1>8. Allocated(jobs) \subseteq jobs.bits /\ jobs.bits \subseteq SlotIds
  BY <1>0, ListedHaveBits
<1>9. /\ holder' \in Registers /\ holder'.bits = jobs.bits \cap SameByte(s)
  BY <1>4, <1>8 DEF Registers
<1>10. (Allocated(jobs') \cap SameByte(s)) \ {s} \subseteq holder'.bits /\ holder'.bits \subseteq SameByte(s)
  BY <1>6, <1>8, <1>9
<1>11. c \notin overlapped' => BlockExact(c)'
  <2>. SUFFICES ASSUME c \notin overlapped' PROVE BlockExact(c)'
    OBVIOUS
  <2>1. c \notin overlapped /\ ~ SearchedIn(c)
    BY <1>4
  <2>2. BlockExact(c)
    BY <2>1 DEF ArenaInv, BlocksExact
  <2>3. \A v \in Workers : ~ Updating(v)
    BY <1>4, NobodyUpdates
  <2>4. IF c \in data THEN busy[c] = Cardinality(BitsOf(c)) ELSE BitsOf(c) = {}
    BY <1>0, <2>1, <2>2, <2>3, CountPlain DEF Inside
  <2>5. s \in BitsOf(c) /\ BitsOf(c)' = BitsOf(c)
    BY <1>1, <1>2, <1>6, <1>8 DEF BitsOf
  <2>6. ~ SearchedIn(c)' /\ c \in data' /\ busy'[c] = Cardinality(BitsOf(c)')
    BY <1>4, <1>5, <2>1, <2>4, <2>5 DEF SearchedIn, Seeking
  <2>7. \A v \in Workers : Inside(v, c)' => v = w
    BY <1>3, <2>3 DEF Inside, Updating
  <2>8. ~ Owed(c)'
    BY <1>7, <2>6, <2>7 DEF Owed
  <2>9. CountExact(c)'
    <3>1. busy[c] \in Int
      BY <1>0 DEF ArenaTypes
    <3>2. busy'[c] = busy'[c] + 0
      BY <1>4, <3>1
    <3>. QED BY <2>6, <2>8, <3>2 DEF CountExact
  <2>10. HolderExact(w, c)'
    <3>1. holder'.bits = BitsOf(c)' \cap SameByte(s)
      BY <1>1, <1>2, <1>6, <1>9, ByteInBlock DEF BitsOf
    <3>. QED BY <1>3, <1>7, <2>5, <2>6, <3>1 DEF HolderExact
  <2>. QED BY <2>6, <2>7, <2>9, <2>10 DEF BlockExact
<1>12. c = (IF Updating(w) THEN BlockOf(wrk[w].job) ELSE BlockOf(wrk'[w].job))
  BY <1>2, <1>3, <1>7
<1>13. overlapped \subseteq overlapped' /\ overlapped' \subseteq Blocks /\ data' \subseteq Blocks
       /\ busy' \in [Blocks -> Int]
  BY <1>0, <1>4 DEF ArenaTypes
<1>. QED BY <1>3, <1>4, <1>5, <1>6, <1>7, <1>9, <1>10, <1>11, <1>12, <1>13, WorkerBlocks

\* The byte as stored changes no bit of another slot that was set when it was loaded.
LEMMA StoredElsewhere ==
  ASSUME ArenaInv, NEW w \in Workers, wrk[w].pc \in {"switch", "clear"}, NEW s \in SlotIds,
         s = wrk[w].job, NEW c, c = BlockOf(s), NEW own \in SUBSET {s}
  PROVE  /\ \A b \in Blocks \ {c} : StoredByte(w, own) \cap InBlock(b) = jobs.bits \cap InBlock(b)
         /\ c \in Blocks \ overlapped
            => /\ HolderExact(w, c) /\ s \in BitsOf(c)
               /\ StoredByte(w, own) \cap InBlock(c) = (BitsOf(c) \ {s}) \cup own
<1>1. SameByte(s) \subseteq InBlock(c) /\ s \in SameByte(s)
  BY ByteInBlock
<1>2. holder.bits \subseteq SameByte(s)
  BY DEF ArenaInv, ArenaSteps
<1>3. \A b \in Blocks \ {c} : InBlock(b) \cap InBlock(c) = {}
  BY DEF InBlock
<1>4. StoredByte(w, own) = (jobs.bits \ SameByte(s)) \cup (holder.bits \ {s}) \cup own
  BY DEF StoredByte
<1>5. ASSUME c \in Blocks \ overlapped
      PROVE  /\ HolderExact(w, c) /\ s \in BitsOf(c)
             /\ StoredByte(w, own) \cap InBlock(c) = (BitsOf(c) \ {s}) \cup own
  <2>1. BlockExact(c) /\ Inside(w, c)
    BY <1>5 DEF ArenaInv, BlocksExact, Inside, Updating
  <2>2. HolderExact(w, c)
    BY <2>1 DEF BlockExact
  <2>3. s \in BitsOf(c) /\ holder.bits = BitsOf(c) \cap SameByte(s)
    BY <2>2 DEF HolderExact
  <2>4. StoredByte(w, own) \cap InBlock(c) = (BitsOf(c) \ {s}) \cup own
    BY <1>1, <1>4, <2>3 DEF BitsOf
  <2>. QED BY <2>2, <2>3, <2>4
<1>. QED BY <1>1, <1>2, <1>3, <1>4, <1>5

LEMMA PublishArena ==
  ASSUME IInv, ArenaInv, NEW w \in Workers, Publish(w) PROVE ArenaInv'
<1>0. /\ PoolTypes /\ OneOwner /\ WellFormed(jobs) /\ ArenaTypes /\ SlotsWellFormed /\ ArenaSteps
  BY DEF IInv, PoolTypes, SlotsWellFormed, ArenaInv
<1>1. /\ wrk[w].pc = "switch" /\ wrk'[w].pc \in {"notify", "top"}
      /\ \A v \in Workers \ {w} : wrk'[v] = wrk[v]
  BY <1>0, PublishMoves DEF Moves
<1>2. PICK s \in SlotIds : s = wrk[w].job
  BY <1>0, <1>1 DEF ArenaSteps, Updating
<1>3. PICK c \in Blocks : c = BlockOf(s)
  BY ByteInBlock
<1>4. /\ memMutex' = NoOne /\ holder' = NoRegisters /\ data' = data /\ busy' = busy
      /\ seeker' = seeker /\ overlapped' = overlapped
      /\ jobs' = [SwitchToTail(jobs, s, DONE) EXCEPT !.bits = StoredByte(w, {s})]
  BY <1>2 DEF Publish
<1>5. main' = main
  BY WorkerFrame DEF AnyWorkerStep, WorkerStep
<1>6. Allocated(jobs') \subseteq Allocated(jobs)
  <2>1. wrk[w].job \in OnList(jobs, WORKING)
    BY <1>0, <1>1 DEF OneOwner, Owns, OwningPCs
  <2>. QED BY <1>0, <2>1, PublishSwitches
<1>7. jobs'.bits = StoredByte(w, {s})
  BY <1>4 DEF SwitchToTail, Relink
<1>8. Updating(w) /\ ~ Updating(w)'
  BY <1>1 DEF Updating
<1>9. holder' \in Registers
  BY <1>4 DEF NoRegisters, Registers
<1>10. \A b \in Blocks \ {c} : jobs'.bits \cap InBlock(b) = jobs.bits \cap InBlock(b)
  BY <1>1, <1>2, <1>3, <1>7, StoredElsewhere
<1>11. c \notin overlapped' => BlockExact(c)'
  <2>. SUFFICES ASSUME c \notin overlapped PROVE BlockExact(c)'
    BY <1>4
  <2>1. /\ HolderExact(w, c) /\ s \in BitsOf(c)
        /\ StoredByte(w, {s}) \cap InBlock(c) = (BitsOf(c) \ {s}) \cup {s}
    <3>1. /\ c \in Blocks \ overlapped /\ {s} \in SUBSET {s}
          /\ wrk[w].pc \in {"switch", "clear"}
      BY <1>1
    <3>. QED BY <1>2, <1>3, <3>1, StoredElsewhere
  <2>2. BitsOf(c)' = BitsOf(c)
    BY <1>7, <2>1 DEF BitsOf
  <2>3. c \in data /\ ~ SearchedIn(c)
    BY <2>1 DEF HolderExact
  <2>4. \A v \in Workers : Inside(v, c) => v = w
    BY <1>8, OneUpdates DEF Inside
  <2>5. ~ Owed(c)
    BY <1>1, <2>3, <2>4 DEF Owed
  <2>6. busy[c] = Cardinality(BitsOf(c)) + 0 /\ busy[c] \in Int
    <3>1. CountExact(c)
      BY DEF ArenaInv, BlocksExact, BlockExact
    <3>. QED BY <1>0, <2>3, <2>5, <3>1 DEF CountExact, ArenaTypes
  <2>7. busy[c] = Cardinality(BitsOf(c))
    <3>1. IsFiniteSet(jobs.bits \cap InBlock(c))
      BY <1>0, BitsFinite DEF PoolTypes
    <3>2. Cardinality(BitsOf(c)) \in Nat
      BY <3>1, FS_CardinalityType DEF BitsOf
    <3>. QED BY <2>6, <3>2
  <2>8. /\ \A v \in Workers : ~ Inside(v, c)'
        /\ ~ SearchedIn(c)'
    <3>1. \A v \in Workers \ {w} : ~ Updating(v)
      BY <1>8, OneUpdates
    <3>. QED BY <1>1, <1>5, <1>8, <2>3, <3>1 DEF Inside, Updating, SearchedIn, Seeking
  <2>. QED BY <1>4, <2>2, <2>3, <2>6, <2>7, <2>8, PlainExact
<1>12. c = (IF Updating(w) THEN BlockOf(wrk[w].job) ELSE BlockOf(wrk'[w].job))
  BY <1>2, <1>3, <1>8
<1>13. overlapped' \subseteq Blocks /\ data' \subseteq Blocks /\ busy' \in [Blocks -> Int]
  BY <1>0, <1>4 DEF ArenaTypes
<1>. QED BY <1>1, <1>4, <1>5, <1>6, <1>8, <1>9, <1>10, <1>11, <1>12, <1>13, WorkerBlocks

LEMMA ReleaseBitArena ==
  ASSUME IInv, ArenaInv, NEW w \in Workers, ReleaseBit(w) PROVE ArenaInv'
<1>0. /\ PoolTypes /\ WellFormed(jobs) /\ ArenaTypes /\ ArenaSteps
  BY DEF IInv, PoolTypes, SlotsWellFormed, ArenaInv
<1>1. /\ wrk[w].pc = "clear" /\ wrk'[w].pc = "count" /\ wrk'[w].job = wrk[w].job
      /\ \A v \in Workers \ {w} : wrk'[v] = wrk[v]
  BY <1>0, ReleaseMoves DEF KeepsJob, Moves
<1>2. PICK s \in SlotIds : s = wrk[w].job /\ s \notin Allocated(jobs)
  BY <1>0, <1>1 DEF ArenaSteps, Updating
<1>3. PICK c \in Blocks : c = BlockOf(s)
  BY ByteInBlock
<1>4. /\ memMutex' = memMutex /\ holder' = [bits |-> {}, count |-> busy[c]] /\ data' = data
      /\ busy' = busy /\ seeker' = seeker /\ overlapped' = overlapped
      /\ jobs' = [jobs EXCEPT !.bits = StoredByte(w, {})]
  BY <1>2, <1>3 DEF ReleaseBit
<1>5. main' = main
  BY WorkerFrame DEF AnyWorkerStep, WorkerStep
<1>6. jobs'.bits = StoredByte(w, {}) /\ jobs'.list = jobs.list
  BY <1>0, <1>4 DEF PoolTypes, Pool
<1>7. Allocated(jobs') = Allocated(jobs)
  BY <1>6 DEF Allocated, OnList
<1>8. Updating(w) /\ Updating(w)' /\ memMutex = w
  BY <1>1, OneUpdates DEF Updating
<1>9. busy[c] \in Int /\ holder' \in Registers /\ holder'.count = busy[c]
  BY <1>0, <1>4 DEF ArenaTypes, Registers
<1>10. \A b \in Blocks \ {c} : jobs'.bits \cap InBlock(b) = jobs.bits \cap InBlock(b)
  BY <1>1, <1>2, <1>3, <1>6, StoredElsewhere
<1>11. c \notin overlapped' => BlockExact(c)'
  <2>. SUFFICES ASSUME c \notin overlapped PROVE BlockExact(c)'
    BY <1>4
  <2>1. /\ HolderExact(w, c) /\ s \in BitsOf(c)
        /\ StoredByte(w, {}) \cap InBlock(c) = (BitsOf(c) \ {s}) \cup {}
    BY <1>1, <1>2, <1>3, StoredElsewhere
  <2>2. BitsOf(c)' = BitsOf(c) \ {s}
    BY <1>6, <2>1 DEF BitsOf
  <2>3. c \in data /\ ~ SearchedIn(c)
    BY <2>1 DEF HolderExact
  <2>4. \A v \in Workers : Inside(v, c) => v = w
    BY <1>8, OneUpdates DEF Inside
  <2>5. ~ Owed(c)
    BY <1>1, <2>3, <2>4 DEF Owed
  <2>6. busy[c] = Cardinality(BitsOf(c)) + 0
    <3>1. CountExact(c)
      BY DEF ArenaInv, BlocksExact, BlockExact
    <3>. QED BY <2>3, <2>5, <3>1 DEF CountExact
  <2>7. busy'[c] = Cardinality(BitsOf(c)') + 1
    <3>1. IsFiniteSet(BitsOf(c))
      BY <1>0, BitsFinite DEF PoolTypes, BitsOf
    <3>2. Cardinality(BitsOf(c)) \in Nat
      BY <3>1, FS_CardinalityType
    <3>3. Cardinality(BitsOf(c) \ {s}) = Cardinality(BitsOf(c)) - 1
      BY <2>1, <3>1, FS_RemoveElement
    <3>4. busy'[c] = Cardinality(BitsOf(c) \ {s}) + 1
      BY <1>4, <2>6, <3>2, <3>3
    <3>. QED BY <2>2, <3>4
  <2>8. Inside(w, c)' /\ Owed(c)' /\ ~ SearchedIn(c)'
    <3>1. Inside(w, c)'
      BY <1>1, <1>2, <1>3, <1>8 DEF Inside
    <3>. QED BY <1>1, <1>5, <2>3, <3>1 DEF Owed, SearchedIn, Seeking
  <2>9. \A v \in Workers : Inside(v, c)' => v = w
    <3>1. \A v \in Workers \ {w} : ~ Updating(v)
      BY <1>8, OneUpdates
    <3>. QED BY <1>1, <3>1 DEF Inside, Updating
  <2>10. CountExact(c)'
    BY <1>4, <2>3, <2>7, <2>8 DEF CountExact
  <2>11. HolderExact(w, c)'
    BY <1>1, <1>4, <1>9, <2>3, <2>8 DEF HolderExact
  <2>. QED BY <2>8, <2>9, <2>10, <2>11 DEF BlockExact
<1>12. c = (IF Updating(w) THEN BlockOf(wrk[w].job) ELSE BlockOf(wrk'[w].job))
  BY <1>2, <1>3, <1>8
<1>13. overlapped' \subseteq Blocks /\ data' \subseteq Blocks /\ busy' \in [Blocks -> Int]
  BY <1>0, <1>4 DEF ArenaTypes
<1>14. Updating(w)' => /\ wrk'[w].job \in SlotIds
                       /\ wrk'[w].job \notin Allocated(jobs')
                       /\ wrk'[w].pc \notin {"switch", "clear"}
  BY <1>1, <1>2, <1>7
<1>. QED BY <1>1, <1>4, <1>5, <1>7, <1>8, <1>9, <1>10, <1>11, <1>12, <1>13, <1>14, WorkerBlocks

LEMMA ReleaseCountArena ==
  ASSUME IInv, ArenaInv, NEW w \in Workers, ReleaseCount(w) PROVE ArenaInv'
<1>0. /\ PoolTypes /\ WellFormed(jobs) /\ ArenaTypes /\ ArenaSteps
  BY DEF IInv, PoolTypes, SlotsWellFormed, ArenaInv
<1>1. /\ wrk[w].pc = "count" /\ wrk'[w].pc = "top"
      /\ \A v \in Workers \ {w} : wrk'[v] = wrk[v]
  BY <1>0, ReleaseMoves DEF Moves
<1>2. PICK s \in SlotIds : s = wrk[w].job
  BY <1>0, <1>1 DEF ArenaSteps, Updating
<1>3. PICK c \in Blocks : c = BlockOf(s)
  BY ByteInBlock
<1>4. PICK n \in Int : n = holder.count - 1
  BY <1>0 DEF ArenaTypes, Registers
<1>5. /\ memMutex' = NoOne /\ holder' = NoRegisters /\ seeker' = seeker
      /\ overlapped' = overlapped /\ Uncount(c, n, jobs)
  BY <1>2, <1>3, <1>4 DEF ReleaseCount
<1>6. main' = main
  BY WorkerFrame DEF AnyWorkerStep, WorkerStep
<1>7. /\ data' \subseteq Blocks /\ busy' \in [Blocks -> Int]
      /\ \A b \in Blocks \ {c} : /\ busy'[b] = busy[b] /\ (b \in data' <=> b \in data)
                                 /\ jobs'.bits \cap InBlock(b) = jobs.bits \cap InBlock(b)
      /\ c \in data /\ n = Cardinality(jobs.bits \cap InBlock(c))
         => IF c \in data' THEN busy'[c] = Cardinality(jobs'.bits \cap InBlock(c))
                                ELSE jobs'.bits \cap InBlock(c) = {}
  <2>1. jobs \in Pool
    BY <1>0 DEF PoolTypes
  <2>. QED BY <1>0, <1>5, <2>1, UncountExact
<1>8. Allocated(jobs') = Allocated(jobs)
  <2>1. jobs'.list = jobs.list
    BY <1>0, <1>5, UncountSteps
  <2>. QED BY <2>1 DEF Allocated, OnList
<1>9. Updating(w) /\ ~ Updating(w)' /\ \A v \in Workers \ {w} : ~ Updating(v)
  BY <1>1, OneUpdates DEF Updating
<1>10. holder' \in Registers
  BY <1>5 DEF NoRegisters, Registers
<1>11. c \notin overlapped' => BlockExact(c)'
  <2>. SUFFICES ASSUME c \notin overlapped PROVE BlockExact(c)'
    BY <1>5
  <2>1. BlockExact(c) /\ Inside(w, c)
    BY <1>2, <1>3, <1>9 DEF ArenaInv, BlocksExact, Inside
  <2>2. c \in data /\ ~ SearchedIn(c) /\ holder.count = busy[c]
    BY <1>1, <2>1 DEF BlockExact, HolderExact
  <2>3. busy[c] = Cardinality(BitsOf(c)) + 1
    <3>1. Owed(c)
      BY <1>1, <2>1 DEF Owed
    <3>. QED BY <2>1, <2>2, <3>1 DEF BlockExact, CountExact
  <2>4. n = Cardinality(BitsOf(c))
    <3>1. IsFiniteSet(BitsOf(c))
      BY <1>0, BitsFinite DEF PoolTypes, BitsOf
    <3>2. Cardinality(BitsOf(c)) \in Nat
      BY <3>1, FS_CardinalityType
    <3>. QED BY <1>4, <2>2, <2>3, <3>2
  <2>5. IF c \in data' THEN busy'[c] = Cardinality(BitsOf(c)') ELSE BitsOf(c)' = {}
    BY <1>7, <2>2, <2>4 DEF BitsOf
  <2>6. ~ SearchedIn(c)' /\ \A v \in Workers : ~ Inside(v, c)'
    BY <1>1, <1>6, <1>9, <2>2 DEF SearchedIn, Seeking, Inside, Updating
  <2>7. busy'[c] \in Int
    BY <1>7
  <2>. QED BY <2>5, <2>6, <2>7, PlainExact
<1>12. c = (IF Updating(w) THEN BlockOf(wrk[w].job) ELSE BlockOf(wrk'[w].job))
  BY <1>2, <1>3, <1>9
<1>13. overlapped' \subseteq Blocks
  BY <1>0, <1>5 DEF ArenaTypes
<1>. QED BY <1>1, <1>5, <1>6, <1>7, <1>8, <1>9, <1>10, <1>11, <1>12, <1>13, WorkerBlocks

-----------------------------------------------------------------------------
LEMMA InitArena == Init => ArenaInv
<1>. SUFFICES ASSUME Init PROVE ArenaInv
  OBVIOUS
<1>1. /\ jobs = NewPool /\ data = {} /\ busy = [b \in Blocks |-> 0] /\ overlapped = {}
      /\ holder = NoRegisters /\ seeker = NoRegisters /\ memMutex = NoOne /\ main.pc = "idle"
  BY DEF Init
<1>2. \A w \in Workers : wrk[w].pc \in {"off", "top"}
  <2>. TAKE w \in Workers
  <2>1. PICK failed : wrk = [v \in Workers |->
                               IF v >= launched THEN OffWorker
                               ELSE IF v \in failed THEN [OffWorker EXCEPT !.state = "FAILED"]
                               ELSE [OffWorker EXCEPT !.pc = "top", !.state = "STARTING"]]
    BY DEF Init
  <2>2. \/ wrk[w] = OffWorker
        \/ wrk[w] = [OffWorker EXCEPT !.state = "FAILED"]
        \/ wrk[w] = [OffWorker EXCEPT !.pc = "top", !.state = "STARTING"]
    BY <2>1
  <2>3. OffWorker \in Worker /\ OffWorker.pc = "off"
    BY DEF OffWorker, Worker, WorkerPCs, States, Flags, NoFlags, NoSlot
  <2>. QED BY <2>2, <2>3 DEF Worker
<1>3. holder \in Registers
  BY <1>1 DEF NoRegisters, Registers
<1>4. ArenaTypes
  BY <1>1, <1>3 DEF ArenaTypes
<1>5. ~ Seeking /\ \A w \in Workers : ~ Updating(w)
  BY <1>1, <1>2 DEF Seeking, Updating
<1>6. ArenaSteps
  BY <1>1, <1>2, <1>3, <1>5, NamesDiffer DEF ArenaSteps
<1>7. ASSUME NEW b \in Blocks PROVE BlockExact(b)
  <2>1. BitsOf(b) = {} /\ b \notin data
    BY <1>1 DEF BitsOf, NewPool
  <2>2. CountExact(b)
    BY <2>1 DEF CountExact
  <2>. QED BY <1>5, <2>2 DEF BlockExact, Inside, SearchedIn
<1>. QED BY <1>4, <1>6, <1>7 DEF ArenaInv, BlocksExact

LEMMA NextArena == IInv /\ ArenaInv /\ [Next]_vars => ArenaInv'
<1>. SUFFICES ASSUME IInv, ArenaInv, [Next]_vars PROVE ArenaInv'
  OBVIOUS
<1>1. CASE MainStep
  BY <1>1, MainOutside, WakingOutside, GrabJobArena, CancelTestArena, FreeDoneArena,
     JoinAndCleanArena DEF MainStep
<1>2. CASE NotifyPipeEventRead \/ ClientCall
  BY <1>2, MainOutside, EnqueueStartOutside, CancelFindArena DEF ClientCall
<1>3. ASSUME NEW w \in Workers, WorkerStep(w) \/ SpuriousWakeup(w) PROVE ArenaInv'
  <2>1. AnyWorkerStep(w)
    BY <1>3 DEF AnyWorkerStep
  <2>. QED BY <2>1, WorkerOutside, EnterArenaKeeps, PublishArena, ReleaseBitArena, ReleaseCountArena
<1>4. CASE UNCHANGED vars
  <2>1. /\ arenaVars' = arenaVars /\ jobs' = jobs /\ wrk' = wrk /\ main' = main
        /\ memMutex' = memMutex
    BY <1>4 DEF vars
  <2>. QED BY <2>1, MainAway
<1>. QED BY <1>1, <1>2, <1>3, <1>4 DEF Next

\* The memory of a listed job is there: a block without memory has no bit set.
LEMMA ListedHaveBlocks == IInv /\ ArenaInv => JobSlotsWellFormed
<1>. SUFFICES ASSUME IInv, ArenaInv, NEW s \in Allocated(jobs), BlockOf(s) \notin overlapped
              PROVE  BlockOf(s) \in data
  BY DEF IInv, SlotsWellFormed, JobSlotsWellFormed
<1>1. s \in jobs.bits /\ s \in SlotIds
  BY ListedHaveBits DEF IInv, SlotsWellFormed
<1>2. PICK c \in Blocks : c = BlockOf(s) /\ s \in InBlock(c)
  BY <1>1, ByteInBlock
<1>3. CountExact(c)
  BY <1>2 DEF ArenaInv, BlocksExact, BlockExact
<1>. QED BY <1>1, <1>2, <1>3 DEF CountExact, BitsOf


LEMMA PoolInvariant == Spec => [](IInv /\ ArenaInv)
<1>1. Init => IInv /\ ArenaInv
  BY InitIInv, InitArena
<1>2. IInv /\ ArenaInv /\ [Next]_vars => (IInv /\ ArenaInv)'
  BY NextIInv, NextArena DEF ArenaInv
<1>. QED BY <1>1, <1>2, PTL DEF Spec

(***************************************************************************)
(* Whatever the workers, the enqueuer, the canceller and the collector do  *)
(* at the same time, every variable keeps its type, every job slot is free *)
(* or on exactly one list, and the memory of every listed job is there,    *)
(* unless ThreadPoolJobCancel, which locks nothing, once looked a handle   *)
(* up in the same arena block while a worker was clearing a bit there      *)
(* (mem_slot.c:402-505, mem_arena.c:192-315).                              *)
(***************************************************************************)
THEOREM ThreadPoolSlotsSafe == Spec => [](TypeOK /\ JobSlotsWellFormed)
<1>1. IInv /\ ArenaInv => TypeOK /\ JobSlotsWellFormed
  BY ListedHaveBlocks DEF IInv, ArenaInv, TypeOK
<1>. QED BY <1>1, PoolInvariant, PTL

(***************************************************************************)
(* A running job belongs to one worker, and the completed job the main     *)
(* thread is handling stays the head of DONE until it is freed.            *)
(***************************************************************************)
THEOREM ThreadPoolOneOwner == Spec => []OneOwner
<1>1. IInv => OneOwner
  BY DEF IInv
<1>. QED BY <1>1, PoolInvariant, PTL

(***************************************************************************)
(* Draining the notify pipe before reading DONE loses no completion.       *)
(***************************************************************************)
THEOREM ThreadPoolLosesNoCompletion == Spec => []NoLostCompletion
<1>1. IInv => NoLostCompletion
  BY DEF IInv
<1>. QED BY <1>1, PoolInvariant, PTL

-----------------------------------------------------------------------------
(***************************************************************************)
(* The jobs.  A job runs and is replied to at most once, in whatever slot  *)
(* it lies and whatever the cancelled handles name; jobs leave PENDING in  *)
(* order; and none is lost while nothing is cancelled.                     *)
(***************************************************************************)

(***************************************************************************)
(* The inductive invariant, beside IInv.  PENDING holds the last Fresh     *)
(* tickets in order, but for the slot at its tail that is being filled, so *)
(* Taken tickets have left it.  Slots on WORKING and DONE hold different   *)
(* ones of these.  What was told of a ticket follows from the label of the *)
(* worker that owns its slot, or from its slot being on DONE.              *)
(***************************************************************************)
Queue == jobs.list[PENDING]
Fresh == Len(Queue) - (IF main.pc = "fill" THEN 1 ELSE 0)
Taken == Len(accepted) - Fresh
Begun == OnList(jobs, WORKING) \cup OnList(jobs, DONE)
Ticket(s) == rec[s].ticket

QueueInOrder == /\ main.pc = "fill" => Len(Queue) > 0 /\ Queue[Len(Queue)] = main.slot
                /\ Taken \in Nat
                /\ \A i \in 1 .. Fresh : Ticket(Queue[i]) = Taken + i
KindKept(s) == rec[s].kind = accepted[Ticket(s)]
TicketsExact == /\ \A s \in Begun : Ticket(s) \in 1 .. Taken
                /\ \A r, s \in Begun : r # s => Ticket(r) # Ticket(s)
                /\ \A s \in Begun : KindKept(s)
                /\ \A i \in 1 .. Fresh : KindKept(Queue[i])

UnrunPCs == {"unlock", "begin", "run", "exit", "exited"}
ToldOf(w) == LET t == Ticket(wrk[w].job)
             IN  /\ replied[t] = 0
                 /\ wrk[w].pc \in UnrunPCs => ran[t] = 0
                 /\ ran[t] <= 1
                 /\ wrk[w].pc \notin UnrunPCs /\ ~ wrk[w].clean => ran[t] = 1
                 /\ wrk[w].pc \in {"publish", "switch"} => ~ wrk[w].clean
IsReplied(s) == Consuming /\ main.pc # "reply" /\ s = main.head
StagesTold == /\ \A t \in Tickets : t > Taken => ran[t] = 0 /\ replied[t] = 0
              /\ \A w \in Workers : Owns(w) => ToldOf(w)
              /\ \A s \in OnList(jobs, DONE) :
                    ran[Ticket(s)] = 1 /\ (~ IsReplied(s) => replied[Ticket(s)] = 0)

JobInv == QueueInOrder /\ TicketsExact /\ StagesTold /\ AtMostOnce

(***************************************************************************)
(* The queue as a sequence, and where the slots of the invariant are.      *)
(***************************************************************************)
LEMMA QueueFacts ==
  ASSUME IInv
  PROVE  /\ Queue \in Seq(SlotIds) /\ IsInjective(Queue) /\ Len(Queue) \in Nat
         /\ OnList(jobs, PENDING) = Range(Queue)
         /\ \A i \in 1 .. Len(Queue) : Queue[i] \in OnList(jobs, PENDING) /\ Queue[i] \in SlotIds
         /\ Begun \subseteq SlotIds
         /\ Len(accepted) \in Nat /\ Fresh \in Int /\ Taken \in Int /\ Fresh = Len(accepted) - Taken
         /\ 1 .. Len(accepted) \subseteq Tickets
         /\ PENDING \in ListIds /\ WORKING \in ListIds /\ DONE \in ListIds
<1>1. WellFormed(jobs) /\ accepted \in Seq(Kinds) /\ Len(accepted) <= MaxJobs /\ MaxJobs \in Nat
  BY ThreadPoolAssumption DEF IInv, SlotsWellFormed, PoolTypes
<1>2. PENDING \in ListIds /\ WORKING \in ListIds /\ DONE \in ListIds
  BY ListsExist
<1>3. Queue \in Seq(SlotIds) /\ IsInjective(Queue)
  BY <1>1, <1>2, OnListIsSlot DEF Queue
<1>4. Begun \subseteq SlotIds
  BY <1>1, <1>2, OnListIsSlot DEF Begun
<1>5. Len(Queue) \in Nat /\ Len(accepted) \in Nat
  BY <1>1, <1>3
<1>6. Fresh \in Int /\ Taken \in Int /\ Fresh = Len(accepted) - Taken
  BY <1>5 DEF Fresh, Taken
<1>7. OnList(jobs, PENDING) = Range(Queue)
  BY DEF OnList, Queue
<1>8. \A i \in 1 .. Len(Queue) : Queue[i] \in Range(Queue) /\ Queue[i] \in SlotIds
  BY <1>3 DEF Range
<1>. QED BY <1>1, <1>2, <1>3, <1>4, <1>5, <1>6, <1>7, <1>8 DEF Tickets

(***************************************************************************)
(* Jobs wait in the order of their tickets: the property from the          *)
(* invariant.                                                              *)
(***************************************************************************)
LEMMA QueueKeepsOrder ==
  ASSUME IInv, QueueInOrder
  PROVE  NoOvertaking
<1>. SUFFICES ASSUME NEW t \in TicketsOn(PENDING), NEW u \in t .. Len(accepted)
              PROVE  u \in TicketsOn(PENDING)
  BY DEF NoOvertaking
<1>1. /\ Queue \in Seq(SlotIds) /\ IsInjective(Queue) /\ Len(Queue) \in Nat
      /\ OnList(jobs, PENDING) = Range(Queue)
      /\ Len(accepted) \in Nat /\ Taken \in Int /\ Fresh = Len(accepted) - Taken
      /\ Fresh = Len(Queue) - (IF main.pc = "fill" THEN 1 ELSE 0)
  BY QueueFacts DEF Fresh
<1>2. PICK s \in OnList(jobs, PENDING) \ Unfilled : t = Ticket(s)
  BY DEF TicketsOn, Ticket
<1>3. PICK i \in 1 .. Len(Queue) : s = Queue[i]
  BY <1>1 DEF Range
<1>4. i \in 1 .. Fresh
  BY <1>1, <1>2, <1>3 DEF Unfilled, QueueInOrder
<1>5. t = Taken + i /\ u \in Int /\ u >= t /\ u <= Len(accepted)
  BY <1>1, <1>2, <1>3, <1>4 DEF QueueInOrder
<1>6. PICK j \in 1 .. Fresh : u = Taken + j
  <2>1. u - Taken \in 1 .. Fresh /\ u = Taken + (u - Taken)
    BY <1>1, <1>4, <1>5
  <2>. QED BY <2>1
<1>7. j \in 1 .. Len(Queue)
  BY <1>1
<1>8. Queue[j] \in OnList(jobs, PENDING) /\ Ticket(Queue[j]) = u
  BY <1>1, <1>6, <1>7 DEF Range, QueueInOrder
<1>9. Queue[j] \notin Unfilled
  <2>. SUFFICES ASSUME main.pc = "fill" PROVE Queue[j] # Queue[Len(Queue)]
    BY DEF Unfilled, QueueInOrder
  <2>1. j # Len(Queue) /\ Len(Queue) \in 1 .. Len(Queue)
    BY <1>1, <1>7
  <2>. QED BY <1>1, <1>7, <2>1 DEF IsInjective
<1>. QED BY <1>8, <1>9 DEF TicketsOn, Ticket

-----------------------------------------------------------------------------
(***************************************************************************)
(* Steps that leave the lists and the data of every job alone: it is       *)
(* enough to look at the labels of the workers and at the reply under way. *)
(***************************************************************************)
SameJob(s) == rec'[s].ticket = rec[s].ticket /\ rec'[s].kind = rec[s].kind
SameJobs == \A s \in SlotIds : SameJob(s)

LEMMA OrderShrinks ==
  ASSUME IInv, QueueInOrder, TicketsExact, Queue' = Queue, Begun' \subseteq Begun,
         \A s \in Begun' \cup OnList(jobs, PENDING) : SameJob(s),
         accepted' = accepted, main' = main \/ (main.pc # "fill" /\ main'.pc # "fill")
  PROVE  QueueInOrder' /\ TicketsExact' /\ Taken' = Taken
<1>1. Fresh' = Fresh /\ Taken' = Taken
  BY DEF Fresh, Taken
<1>2. \A i \in 1 .. Fresh : i \in 1 .. Len(Queue) /\ Queue[i] \in OnList(jobs, PENDING)
  BY QueueFacts DEF Fresh
<1>3. QueueInOrder'
  BY <1>1, <1>2 DEF QueueInOrder, SameJob, Ticket
<1>4. TicketsExact'
  BY <1>1, <1>2 DEF TicketsExact, SameJob, Ticket, KindKept
<1>. QED BY <1>1, <1>3, <1>4

LEMMA OrderKept ==
  ASSUME IInv, QueueInOrder, TicketsExact, jobs'.list = jobs.list, accepted' = accepted, SameJobs,
         main' = main \/ (main.pc # "fill" /\ main'.pc # "fill")
  PROVE  QueueInOrder' /\ TicketsExact' /\ Taken' = Taken
<1>1. Queue' = Queue /\ Begun' = Begun
  BY DEF Queue, OnList, Begun
<1>2. Begun \cup OnList(jobs, PENDING) \subseteq SlotIds
  BY QueueFacts, OnListIsSlot DEF IInv, SlotsWellFormed
<1>. QED BY <1>1, <1>2, OrderShrinks DEF SameJobs, SameJob

\* What the label of a worker says of its job is not more than it was.
StageKept(w) == /\ wrk'[w].pc \in UnrunPCs => wrk[w].pc \in UnrunPCs
                /\ wrk'[w].pc \notin UnrunPCs /\ ~ wrk'[w].clean
                      => wrk[w].pc \notin UnrunPCs /\ ~ wrk[w].clean
                /\ wrk'[w].pc \in {"publish", "switch"} => ~ wrk'[w].clean

LEMMA StagesKept ==
  ASSUME IInv, JobInv, jobs'.list = jobs.list, accepted' = accepted, SameJobs, Taken' = Taken,
         ran' = ran, replied' = replied,
         \A w \in Workers : Owns(w)' => Owns(w) /\ wrk'[w].job = wrk[w].job /\ StageKept(w),
         \A s \in SlotIds : IsReplied(s) => IsReplied(s)'
  PROVE  StagesTold' /\ AtMostOnce'
<1>1. OnList(jobs', DONE) = OnList(jobs, DONE)
  BY DEF OnList
<1>2. AtMostOnce'
  BY DEF JobInv, AtMostOnce
<1>3. \A w \in Workers : Owns(w) => wrk[w].job \in SlotIds
  BY QueueFacts DEF IInv, OneOwner, Begun
<1>4. OnList(jobs, DONE) \subseteq SlotIds
  BY QueueFacts DEF Begun
<1>5. \A w \in Workers : Owns(w)' => ToldOf(w)'
  BY <1>3 DEF JobInv, StagesTold, ToldOf, StageKept, SameJobs, SameJob, Ticket
<1>6. StagesTold'
  BY <1>1, <1>4, <1>5 DEF JobInv, StagesTold, SameJobs, SameJob, Ticket
<1>. QED BY <1>2, <1>6

-----------------------------------------------------------------------------
(***************************************************************************)
(* The worker's steps preserve the invariant.  First those that neither    *)
(* run the job nor move it.                                                *)
(***************************************************************************)
LEMMA WorkerKeepsReply ==
  ASSUME NEW w \in Workers, AnyWorkerStep(w)
  PROVE  /\ main' = main /\ accepted' = accepted /\ replied' = replied
         /\ \A s \in SlotIds : IsReplied(s)' <=> IsReplied(s)
BY WorkerFrame DEF IsReplied, Consuming

LEMMA SilentJobInv ==
  ASSUME IInv, JobInv, NEW w \in Workers, AnyWorkerStep(w),
         jobs'.list = jobs.list, ran' = ran, SameJobs, \A v \in Workers \ {w} : wrk'[v] = wrk[v],
         Owns(w)' => Owns(w) /\ wrk'[w].job = wrk[w].job /\ StageKept(w)
  PROVE  JobInv'
<1>1. /\ main' = main /\ accepted' = accepted /\ replied' = replied
      /\ \A s \in SlotIds : IsReplied(s)' <=> IsReplied(s)
  BY WorkerKeepsReply
<1>2. QueueInOrder' /\ TicketsExact' /\ Taken' = Taken
  BY <1>1, OrderKept DEF JobInv
<1>3. \A v \in Workers \ {w} :
         Owns(v)' => Owns(v) /\ wrk'[v].job = wrk[v].job /\ StageKept(v)
  <2>. SUFFICES ASSUME NEW v \in Workers \ {w}, Owns(v)'
                PROVE  Owns(v) /\ wrk'[v].job = wrk[v].job /\ StageKept(v)
    OBVIOUS
  <2>1. wrk'[v] = wrk[v] /\ Owns(v)
    BY DEF Owns
  <2>2. ToldOf(v)
    BY <2>1 DEF JobInv, StagesTold
  <2>. QED BY <2>1, <2>2 DEF StageKept, ToldOf
<1>4. StagesTold' /\ AtMostOnce'
  BY <1>1, <1>2, <1>3, StagesKept
<1>. QED BY <1>2, <1>4 DEF JobInv

\* A worker that owns no job before or after the step has nothing to keep.
LEMMA IdleJobInv ==
  ASSUME IInv, JobInv, NEW w \in Workers,
         \/ LoopTop(w) \/ LockCond(w) \/ CheckPending(w) \/ Park(w) \/ SpuriousWakeup(w)
         \/ NotifyFinish(w)
         \/ TakeJob(w) /\ IsEmptyList(jobs, PENDING)
  PROVE  JobInv'
<1>0. PoolTypes /\ AnyWorkerStep(w)
  BY DEF IInv, AnyWorkerStep, WorkerStep
<1>1. jobs' = jobs /\ ran' = ran /\ SameJobs
  BY DEF LoopTop, LockCond, CheckPending, Park, SpuriousWakeup, NotifyFinish, TakeJob,
         NoClientChange, clientVars, poolVars, SameJobs, SameJob
<1>2. CASE TakeJob(w) /\ IsEmptyList(jobs, PENDING)
  <2>1. wrk' = wrk /\ main' = main
    BY <1>0, <1>2, WorkerFrame DEF TakeJob
  <2>2. Owns(w)' => Owns(w) /\ ToldOf(w)
    BY <2>1 DEF Owns, JobInv, StagesTold
  <2>3. Owns(w)' => Owns(w) /\ wrk'[w].job = wrk[w].job /\ StageKept(w)
    BY <2>1, <2>2 DEF StageKept, ToldOf
  <2>. QED BY <1>0, <1>1, <2>1, <2>3, SilentJobInv
<1>3. CASE \/ LoopTop(w) \/ LockCond(w) \/ CheckPending(w) \/ Park(w)
           \/ SpuriousWakeup(w) \/ NotifyFinish(w)
  <2>1. \A v \in Workers \ {w} : wrk'[v] = wrk[v]
    BY <1>0, <1>3, LoopTopMoves, LockCondMoves, CheckPendingMoves, ParkMoves,
       SpuriousWakeupMoves, NotifyFinishMoves DEF KeepsJob, Moves
  <2>2. wrk'[w].pc \in {"top", "lock", "check", "park", "take", "waiting"}
    BY <1>0, <1>3, LoopTopMoves, LockCondMoves, CheckPendingMoves, ParkMoves,
       SpuriousWakeupMoves, NotifyFinishMoves DEF KeepsJob, Moves
  <2>3. ~ Owns(w)'
    BY <2>2 DEF Owns, OwningPCs
  <2>. QED BY <1>0, <1>1, <2>1, <2>3, SilentJobInv
<1>. QED BY <1>2, <1>3

\* A worker on its way with the job it owns.
LEMMA OnTheWayJobInv ==
  ASSUME IInv, JobInv, NEW w \in Workers,
         \/ UnlockCond(w) \/ Begin(w) \/ LoadInUse(w) \/ ClearInUse(w) \/ LoadFinished(w)
         \/ SetFinished(w) \/ EnterPublish(w) \/ Exit(w)
  PROVE  JobInv'
<1>0. PoolTypes /\ OneOwner /\ AnyWorkerStep(w) /\ wrk \in [Workers -> Worker]
  BY DEF IInv, AnyWorkerStep, WorkerStep, PoolTypes
<1>1. jobs' = jobs /\ ran' = ran
  BY DEF UnlockCond, Begin, LoadInUse, ClearInUse, LoadFinished, SetFinished, LoadFlags,
         StoreFlags, EnterPublish, EnterArena, Exit, NoClientChange, clientVars, poolVars
<1>2. Owns(w) /\ wrk[w].pc \in OwningPCs
  BY DEF UnlockCond, Begin, LoadInUse, ClearInUse, LoadFinished, SetFinished, LoadFlags,
         StoreFlags, EnterPublish, Exit, AtLabel, Owns, OwningPCs
<1>3. ToldOf(w) /\ wrk[w].job \in SlotIds
  BY <1>0, <1>2, JobOfWorker DEF JobInv, StagesTold
<1>4. SameJobs
  <2>1. CASE rec' = rec
    BY <2>1 DEF SameJobs, SameJob
  <2>2. CASE ClearInUse(w) \/ SetFinished(w)
    <3>1. PICK f : rec' = [rec EXCEPT ![wrk[w].job].flags = f]
      BY <2>2 DEF ClearInUse, SetFinished, StoreFlags
    <3>2. rec \in [SlotIds -> Job]
      BY <1>0 DEF PoolTypes
    <3>. QED BY <3>1, <3>2 DEF SameJobs, SameJob, Job
  <2>3. UnlockCond(w) \/ Begin(w) \/ LoadInUse(w) \/ LoadFinished(w) \/ EnterPublish(w) \/ Exit(w)
           => rec' = rec
    BY DEF UnlockCond, Begin, LoadInUse, LoadFinished, LoadFlags, EnterPublish, EnterArena, Exit,
           poolVars
  <2>. QED BY <2>1, <2>2, <2>3
\* It is enough to see where the worker goes.
<1>g. ASSUME wrk' \in [Workers -> Worker], \A v \in Workers \ {w} : wrk'[v] = wrk[v],
             wrk'[w].job = wrk[w].job, StageKept(w)
      PROVE  JobInv'
  <2>1. jobs'.list = jobs.list /\ ran' = ran
    BY <1>1
  <2>2. Owns(w)' => Owns(w) /\ wrk'[w].job = wrk[w].job /\ StageKept(w)
    BY <1>g, <1>2
  <2>3. \A v \in Workers \ {w} : wrk'[v] = wrk[v]
    BY <1>g
  <2>4. AnyWorkerStep(w)
    BY <1>0
  <2>. QED BY <1>4, <2>1, <2>2, <2>3, <2>4, SilentJobInv
<1>. USE DEF UnrunPCs, StageKept, AtLabel
<1>5. CASE UnlockCond(w)
  <2>1. KeepsJob(w, "unlock", {"begin"})
    BY <1>0, <1>5, UnlockCondMoves
  <2>. QED BY <1>g, <2>1 DEF KeepsJob, Moves
<1>6. CASE Begin(w)
  <2>1. KeepsJob(w, "begin", {"exit", "load_in_use", "run"}) /\ wrk[w].pc = "begin"
    BY <1>0, <1>6, BeginMoves DEF KeepsJob, Moves
  <2>2. wrk[w] \in Worker
    BY <1>0
  <2>3. /\ wrk'[w].clean = (rec[wrk[w].job].flags.cancelled \/ rec[wrk[w].job].kind = "none")
        /\ wrk'[w].pc = "load_in_use" => rec[wrk[w].job].flags.cancelled
    BY <1>0, <1>6, <2>2 DEF Begin, Worker
  <2>. QED BY <1>g, <2>1, <2>3 DEF KeepsJob, Moves
<1>7. CASE LoadInUse(w) \/ ClearInUse(w) \/ LoadFinished(w) \/ SetFinished(w)
  <2>1. /\ wrk[w].pc \notin UnrunPCs
        /\ KeepsJob(w, wrk[w].pc, {"store_in_use", "load_finished", "store_finished",
                                   "release", "publish"})
    BY <1>0, <1>7, FlagMoves DEF KeepsJob, Moves
  <2>2. wrk'[w].clean = wrk[w].clean
    BY <1>0, <1>7 DEF LoadInUse, ClearInUse, LoadFinished, SetFinished, LoadFlags, StoreFlags,
                      Worker
  <2>3. wrk'[w].pc = "publish" => ~ wrk[w].clean
    <3>1. CASE SetFinished(w)
      <4>. DEFINE next == IF wrk[w].clean THEN "release" ELSE "publish"
      <4>1. wrk' = [wrk EXCEPT ![w].flags = NoFlags, ![w].pc = next]
        BY <3>1 DEF SetFinished, StoreFlags
      <4>. HIDE DEF next
      <4>2. wrk'[w].pc = next
        BY <1>0, <4>1 DEF Worker
      <4>. QED BY <4>2 DEF next
    <3>2. CASE LoadInUse(w) \/ ClearInUse(w) \/ LoadFinished(w)
      BY <1>0, <3>2, FlagMoves DEF KeepsJob, Moves
    <3>. QED BY <1>7, <3>1, <3>2
  <2>. QED BY <1>g, <2>1, <2>2, <2>3 DEF KeepsJob, Moves
<1>8. CASE Exit(w)
  <2>1. KeepsJob(w, "exit", {"exited"})
    BY <1>0, <1>8, ExitMoves
  <2>. QED BY <1>g, <2>1 DEF KeepsJob, Moves
<1>9. CASE EnterPublish(w)
  <2>1. KeepsJob(w, "publish", {"switch"}) /\ wrk[w].pc = "publish" /\ wrk'[w].clean = wrk[w].clean
    BY <1>0, <1>9, EnterPublishMoves DEF EnterPublish, EnterArena, Goto, Worker
  <2>2. ~ wrk[w].clean
    BY <1>3, <2>1 DEF ToldOf
  <2>. QED BY <1>g, <2>1, <2>2 DEF KeepsJob, Moves
<1>. QED BY <1>5, <1>6, <1>7, <1>8, <1>9

(***************************************************************************)
(* The job's callback runs: the worker owns the job and has not run it.    *)
(***************************************************************************)
LEMMA RunJobInv == ASSUME IInv, JobInv, NEW w \in Workers, RunJob(w) PROVE JobInv'
<1>. DEFINE t == Ticket(wrk[w].job)
<1>0. PoolTypes /\ OneOwner /\ AnyWorkerStep(w) /\ ran \in [Tickets -> Nat]
  BY DEF IInv, AnyWorkerStep, WorkerStep, PoolTypes
<1>1. /\ main' = main /\ accepted' = accepted /\ replied' = replied
      /\ \A s \in SlotIds : IsReplied(s)' <=> IsReplied(s)
  BY <1>0, WorkerKeepsReply
<1>2. /\ KeepsJob(w, "run", {"load_in_use"}) /\ jobs' = jobs /\ rec' = rec
      /\ ran' = [ran EXCEPT ![t] = ran[t] + 1] /\ wrk[w].pc = "run"
      /\ wrk'[w] = [wrk[w] EXCEPT !.pc = "load_in_use"]
  BY <1>0, RunJobMoves DEF RunJob, poolVars, Ticket, AtLabel, Goto, PoolTypes
<1>3. Owns(w) /\ wrk[w].job \in OnList(jobs, WORKING)
  BY <1>0, <1>2 DEF Owns, OwningPCs, OneOwner
<1>4. t \in 1 .. Taken /\ t \in Tickets /\ ran[t] = 0 /\ replied[t] = 0
  <2>1. t \in 1 .. Taken /\ Taken <= Len(accepted)
    BY <1>3, QueueFacts DEF JobInv, TicketsExact, Begun, Fresh, Taken, QueueInOrder
  <2>2. t \in Tickets
    BY <2>1, QueueFacts
  <2>. QED BY <1>2, <1>3, <2>1, <2>2 DEF JobInv, StagesTold, ToldOf, UnrunPCs
<1>. HIDE DEF t
<1>5. ran'[t] = 1 /\ \A u \in Tickets \ {t} : ran'[u] = ran[u]
  BY <1>0, <1>2, <1>4
<1>6. QueueInOrder' /\ TicketsExact' /\ Taken' = Taken
  BY <1>1, <1>2, OrderKept DEF JobInv, SameJobs, SameJob
<1>7. AtMostOnce'
  <2>1. \A u \in 1 .. Len(accepted) : u \in Tickets
    BY QueueFacts
  <2>. QED BY <1>1, <1>4, <1>5, <2>1 DEF JobInv, AtMostOnce
<1>8. \A u \in Tickets : u > Taken => ran'[u] = 0 /\ replied'[u] = 0
  <2>1. Taken \in Int
    BY QueueFacts
  <2>. QED BY <1>1, <1>4, <1>5, <2>1 DEF JobInv, StagesTold
\* The other slots of the invariant hold other tickets.
<1>9. \A s \in Begun : /\ s \in SlotIds /\ Ticket(s) \in Tickets /\ Ticket(s)' = Ticket(s)
                       /\ s # wrk[w].job => Ticket(s) # t
  <2>1. \A s \in Begun : Ticket(s) \in Tickets
    BY QueueFacts DEF JobInv, TicketsExact, QueueInOrder, Fresh, Taken
  <2>2. \A s \in Begun : s # wrk[w].job => Ticket(s) # t
    BY <1>3 DEF JobInv, TicketsExact, Begun, t
  <2>. QED BY <2>1, <2>2, <1>2, QueueFacts DEF Ticket
<1>10. \A v \in Workers : Owns(v)' => ToldOf(v)'
  <2>. SUFFICES ASSUME NEW v \in Workers, Owns(v)' PROVE ToldOf(v)'
    OBVIOUS
  <2>1. CASE v = w
    BY <2>1, <1>1, <1>2, <1>4, <1>5 DEF ToldOf, Ticket, t, KeepsJob, UnrunPCs
  <2>2. CASE v # w
    <3>1. wrk'[v] = wrk[v] /\ Owns(v)
      BY <2>2, <1>2 DEF KeepsJob, Moves, Owns
    <3>2. wrk[v].job \in Begun /\ wrk[v].job # wrk[w].job
      BY <3>1, <2>2, <1>0, <1>3 DEF OneOwner, Begun
    <3>3. Ticket(wrk[v].job) \in Tickets \ {t}
      BY <3>2, <1>9
    <3>. QED BY <3>1, <3>3, <1>1, <1>2, <1>5 DEF JobInv, StagesTold, ToldOf, Ticket
  <2>. QED BY <2>1, <2>2
<1>11. \A s \in OnList(jobs', DONE) :
          ran'[Ticket(s)'] = 1 /\ (~ IsReplied(s)' => replied'[Ticket(s)'] = 0)
  <2>. SUFFICES ASSUME NEW s \in OnList(jobs, DONE)
                PROVE  ran'[Ticket(s)'] = 1 /\ (~ IsReplied(s)' => replied'[Ticket(s)'] = 0)
    BY <1>2
  <2>1. s \in Begun /\ s # wrk[w].job
    BY <1>3, QueueFacts, ListsDisjoint DEF Begun, IInv, SlotsWellFormed, WORKING, DONE
  <2>2. Ticket(s) \in Tickets \ {t}
    BY <2>1, <1>9
  <2>. QED BY <2>1, <2>2, <1>1, <1>5, <1>9 DEF JobInv, StagesTold
<1>12. StagesTold'
  BY <1>6, <1>8, <1>10, <1>11 DEF StagesTold
<1>. QED BY <1>6, <1>7, <1>12 DEF JobInv

(***************************************************************************)
(* A worker takes the oldest job: the first ticket of PENDING is the next  *)
(* to leave, so it is no slot's yet, and nothing was told of it.           *)
(***************************************************************************)
LEMMA TakeJobInv ==
  ASSUME IInv, JobInv, NEW w \in Workers, TakeJob(w), ~ IsEmptyList(jobs, PENDING)
  PROVE  JobInv'
<1>. DEFINE s == PointToHead(jobs, PENDING)
<1>0. /\ PoolTypes /\ OneOwner /\ AnyWorkerStep(w) /\ WellFormed(jobs) /\ SlotsWellFormed
      /\ Locks
  BY DEF IInv, AnyWorkerStep, WorkerStep, SlotsWellFormed
<1>1. /\ main' = main /\ accepted' = accepted /\ replied' = replied
      /\ \A x \in SlotIds : IsReplied(x)' <=> IsReplied(x)
  BY <1>0, WorkerKeepsReply
<1>2. /\ wrk'[w].pc = "unlock" /\ wrk'[w].job = s /\ wrk[w].pc = "take"
      /\ \A v \in Workers \ {w} : wrk'[v] = wrk[v]
      /\ jobs' = HeadSwitch(jobs, PENDING, WORKING) /\ rec' = rec /\ ran' = ran
  BY <1>0, TakeJobMoves DEF Moves, TakeJob, NoClientChange, clientVars
<1>3. main.pc # "fill"
  BY <1>0 DEF TakeJob, Locks, Main, NoOne
<1>4. /\ PENDING \in ListIds /\ WORKING \in ListIds /\ DONE \in ListIds
      /\ PENDING # WORKING /\ DONE \notin {PENDING, WORKING}
  BY ListsExist DEF PENDING, WORKING, DONE
<1>5. /\ s \in SlotIds
      /\ OnList(jobs', WORKING) = OnList(jobs, WORKING) \cup {s}
      /\ OnList(jobs', DONE) = OnList(jobs, DONE)
      /\ Queue' = Tail(Queue)
  <2>1. ~ IsEmptyList(jobs, PENDING)
    OBVIOUS
  <2>2. s \in SlotIds /\ OnList(jobs', WORKING) = OnList(jobs, WORKING) \cup {s}
    BY <1>0, <1>2, <1>4, <2>1, HeadSwitchWF
  <2>3. jobs'.list[DONE] = jobs.list[DONE]
    BY <1>0, <1>2, <1>4, <2>1, HeadSwitchWF
  <2>4. jobs'.list[PENDING] = Tail(jobs.list[PENDING])
    BY <1>0, <1>2, <1>4, <2>1, HeadSwitchTail
  <2>. QED BY <2>2, <2>3, <2>4 DEF OnList, Queue
<1>6. /\ Queue \in Seq(SlotIds) /\ Len(Queue) \in Nat \ {0} /\ s = Queue[1]
      /\ Len(Queue') = Len(Queue) - 1
      /\ \A i \in 1 .. Len(Queue') : Queue'[i] = Queue[i + 1]
  <2>1. Queue \in Seq(SlotIds) /\ Queue # << >>
    BY QueueFacts DEF IsEmptyList, Queue
  <2>2. s = Head(Queue)
    BY DEF PointToHead, Queue
  <2>. QED BY <1>5, <2>1, <2>2, HeadTailProperties
<1>. HIDE DEF s
<1>7. /\ Fresh = Len(Queue) /\ Fresh' = Fresh - 1 /\ Taken' = Taken + 1 /\ Taken \in Nat
      /\ Len(Queue') = Fresh'
  BY <1>1, <1>3, <1>6, QueueFacts DEF Fresh, Taken, JobInv, QueueInOrder
<1>8. Begun' = Begun \cup {s}
  BY <1>5 DEF Begun
<1>9. /\ Ticket(s) = Taken + 1 /\ KindKept(s)
      /\ \A i \in 1 .. Fresh' : /\ Queue'[i] = Queue[i + 1] /\ i + 1 \in 1 .. Fresh
                                /\ Ticket(Queue[i + 1]) = Taken + (i + 1)
                                /\ KindKept(Queue[i + 1])
  BY <1>6, <1>7 DEF JobInv, QueueInOrder, TicketsExact
<1>10. \A x \in Begun : Ticket(x) \in 1 .. Taken
  BY DEF JobInv, TicketsExact
<1>11. \A x : Ticket(x)' = Ticket(x) /\ KindKept(x)' = KindKept(x)
  BY <1>1, <1>2 DEF Ticket, KindKept
<1>12. QueueInOrder'
  <2>1. Taken' \in Nat /\ main'.pc # "fill"
    BY <1>1, <1>3, <1>7
  <2>2. \A i \in 1 .. Fresh' : Ticket(Queue[i])' = Taken' + i
    BY <1>2, <1>7, <1>9 DEF Ticket
  <2>. QED BY <2>1, <2>2 DEF QueueInOrder
<1>13. TicketsExact'
  <2>1. \A x \in Begun' : Ticket(x) \in 1 .. Taken'
    BY <1>7, <1>8, <1>9, <1>10
  <2>2. \A x, y \in Begun' : x # y => Ticket(x) # Ticket(y)
    <3>1. Taken + 1 \notin 1 .. Taken
      BY <1>7
    <3>. QED BY <3>1, <1>8, <1>9, <1>10 DEF JobInv, TicketsExact
  <2>3. \A x \in Begun' : KindKept(x)
    BY <1>8, <1>9 DEF JobInv, TicketsExact
  <2>. QED BY <2>1, <2>2, <2>3, <1>9, <1>11 DEF TicketsExact
<1>14. StagesTold'
  <2>1. \A t \in Tickets : t > Taken' => ran'[t] = 0 /\ replied'[t] = 0
    <3>1. \A t \in Tickets : t > Taken' => t > Taken
      BY <1>7 DEF Tickets
    <3>. QED BY <3>1, <1>1, <1>2 DEF JobInv, StagesTold
  <2>2. ASSUME NEW v \in Workers, Owns(v)' PROVE ToldOf(v)'
    <3>1. CASE v = w
      <4>1. Ticket(s) > Taken /\ Ticket(s) \in Tickets
        <5>1. Taken + 1 <= Len(accepted) /\ Taken + 1 \in 1 .. Len(accepted)
          BY <1>6, <1>7, QueueFacts
        <5>. QED BY <5>1, <1>7, <1>9, QueueFacts, SMTT(30)
      <4>2. ran[Ticket(s)] = 0 /\ replied[Ticket(s)] = 0
        BY <4>1 DEF JobInv, StagesTold
      <4>. QED BY <3>1, <4>2, <1>1, <1>2 DEF ToldOf, Ticket, UnrunPCs
    <3>2. CASE v # w
      <4>1. wrk'[v] = wrk[v] /\ Owns(v)
        BY <1>2, <2>2, <3>2 DEF Owns
      <4>. QED BY <4>1, <1>1, <1>2 DEF JobInv, StagesTold, ToldOf, Ticket
    <3>. QED BY <3>1, <3>2
  <2>3. \A x \in OnList(jobs', DONE) :
           ran'[Ticket(x)'] = 1 /\ (~ IsReplied(x)' => replied'[Ticket(x)'] = 0)
    BY <1>1, <1>2, <1>5, <1>11, OnListIsSlot, <1>0, <1>4 DEF JobInv, StagesTold
  <2>. QED BY <2>1, <2>2, <2>3 DEF StagesTold
<1>15. AtMostOnce'
  BY <1>1, <1>2 DEF JobInv, AtMostOnce
<1>. QED BY <1>12, <1>13, <1>14, <1>15 DEF JobInv

(***************************************************************************)
(* A worker gives its job up: to DONE, where the callback has run and the  *)
(* reply is due; or to nobody.                                             *)
(***************************************************************************)
LEMMA OthersStillTold ==
  ASSUME IInv, JobInv, NEW w \in Workers, AnyWorkerStep(w), Taken' = Taken, ran' = ran,
         Begun' \subseteq Begun, ~ Owns(w)', OnList(jobs', WORKING) \subseteq Begun',
         \A s \in Begun' : SameJob(s), OneOwner',
         \A v \in Workers \ {w} : wrk'[v] = wrk[v]
  PROVE  /\ \A t \in Tickets : t > Taken' => ran'[t] = 0 /\ replied'[t] = 0
         /\ \A v \in Workers : Owns(v)' => ToldOf(v)'
         /\ AtMostOnce'
<1>1. accepted' = accepted /\ replied' = replied
  BY WorkerFrame
<1>2. \A t \in Tickets : t > Taken' => ran'[t] = 0 /\ replied'[t] = 0
  BY <1>1 DEF JobInv, StagesTold
<1>3. ASSUME NEW v \in Workers, Owns(v)' PROVE ToldOf(v)'
  <2>1. v # w
    BY <1>3
  <2>2. wrk'[v] = wrk[v] /\ Owns(v)
    BY <1>3, <2>1 DEF Owns
  <2>3. wrk'[v].job \in Begun'
    BY <1>3 DEF OneOwner
  <2>4. SameJob(wrk[v].job)
    BY <2>2, <2>3
  <2>. QED BY <1>1, <2>2, <2>4 DEF JobInv, StagesTold, ToldOf, SameJob, Ticket
<1>4. AtMostOnce'
  BY <1>1 DEF JobInv, AtMostOnce
<1>. QED BY <1>2, <1>3, <1>4

LEMMA PublishJobInv ==
  ASSUME IInv, IInv', ArenaSteps, JobInv, NEW w \in Workers, Publish(w) PROVE JobInv'
<1>. DEFINE s == wrk[w].job
<1>0. /\ PoolTypes /\ OneOwner /\ AnyWorkerStep(w) /\ WellFormed(jobs) /\ OneOwner'
      /\ SlotsWellFormed
  BY DEF IInv, AnyWorkerStep, WorkerStep, SlotsWellFormed
<1>1. /\ main' = main /\ accepted' = accepted /\ replied' = replied
      /\ \A x \in SlotIds : IsReplied(x)' <=> IsReplied(x)
  BY <1>0, WorkerKeepsReply
<1>2. /\ wrk[w].pc = "switch" /\ wrk'[w].pc \in {"notify", "top"}
      /\ \A v \in Workers \ {w} : wrk'[v] = wrk[v]
      /\ rec' = rec /\ ran' = ran
  <2>1. rec' = rec /\ ran' = ran
    BY DEF Publish, NoClientChange, clientVars
  <2>2. Moves(w, "switch", {IF Notify THEN "notify" ELSE "top"})
    BY <1>0, PublishMoves
  <2>. QED BY <2>1, <2>2 DEF Moves
<1>3. Owns(w) /\ ~ Owns(w)' /\ s \in OnList(jobs, WORKING) /\ ToldOf(w)
  BY <1>0, <1>2 DEF Owns, OwningPCs, OneOwner, JobInv, StagesTold
<1>4. /\ PENDING \in ListIds /\ WORKING \in ListIds /\ DONE \in ListIds
      /\ PENDING # WORKING /\ DONE \notin {PENDING, WORKING}
  BY ListsExist DEF PENDING, WORKING, DONE
<1>5. s \in Allocated(jobs) /\ s \in SlotIds /\ s \notin OnList(jobs, DONE)
      /\ s \notin OnList(jobs, PENDING)
  BY <1>0, <1>3, <1>4, OnListIsSlot, ListsDisjoint
<1>6. ran[Ticket(s)] = 1 /\ replied[Ticket(s)] = 0
  BY <1>2, <1>3 DEF ToldOf, UnrunPCs
<1>7. /\ OnList(jobs', WORKING) = OnList(jobs, WORKING) \ {s}
      /\ OnList(jobs', DONE) = OnList(jobs, DONE) \cup {s}
      /\ Queue' = Queue
  BY <1>0, <1>3, PublishSwitches DEF Queue
<1>. HIDE DEF s
<1>9. Begun' = Begun
  BY <1>3, <1>7 DEF Begun
<1>10. QueueInOrder' /\ TicketsExact' /\ Taken' = Taken
  BY <1>1, <1>2, <1>7, <1>9, OrderShrinks DEF JobInv, SameJob
<1>11. /\ \A t \in Tickets : t > Taken' => ran'[t] = 0 /\ replied'[t] = 0
       /\ \A v \in Workers : Owns(v)' => ToldOf(v)'
       /\ AtMostOnce'
  <2>1. OnList(jobs', WORKING) \subseteq Begun' /\ \A x \in Begun' : SameJob(x)
    BY <1>2 DEF Begun, SameJob
  <2>. QED BY <1>0, <1>2, <1>3, <1>9, <1>10, <2>1, OthersStillTold
<1>12. \A x \in OnList(jobs', DONE) :
          ran'[Ticket(x)'] = 1 /\ (~ IsReplied(x)' => replied'[Ticket(x)'] = 0)
  <2>1. OnList(jobs, DONE) \subseteq SlotIds
    BY <1>0, <1>4, OnListIsSlot
  <2>. QED BY <2>1, <1>1, <1>2, <1>5, <1>6, <1>7 DEF JobInv, StagesTold, Ticket
<1>13. StagesTold'
  BY <1>11, <1>12 DEF StagesTold
<1>. QED BY <1>10, <1>11, <1>13 DEF JobInv

LEMMA ReleaseJobInv ==
  ASSUME IInv, IInv', JobInv, NEW w \in Workers, ReleaseJob(w) PROVE JobInv'
<1>. DEFINE s == wrk[w].job
<1>0. /\ PoolTypes /\ OneOwner /\ AnyWorkerStep(w) /\ WellFormed(jobs) /\ SlotsWellFormed
      /\ OneOwner'
  BY DEF IInv, AnyWorkerStep, WorkerStep, SlotsWellFormed
<1>1. /\ main' = main /\ accepted' = accepted /\ replied' = replied
      /\ \A x \in SlotIds : IsReplied(x)' <=> IsReplied(x)
  BY <1>0, WorkerKeepsReply
<1>2. /\ wrk[w].pc = "release" /\ wrk'[w].pc = "clear"
      /\ \A v \in Workers \ {w} : wrk'[v] = wrk[v]
      /\ ran' = ran
  BY <1>0, ReleaseMoves DEF KeepsJob, Moves, ReleaseJob, EnterArena, NoClientChange, clientVars
<1>3. Owns(w) /\ ~ Owns(w)' /\ s \in OnList(jobs, WORKING)
  BY <1>0, <1>2 DEF Owns, OwningPCs, OneOwner
<1>4. /\ PENDING \in ListIds /\ WORKING \in ListIds /\ DONE \in ListIds
      /\ PENDING # WORKING /\ DONE \notin {PENDING, WORKING}
  BY ListsExist DEF PENDING, WORKING, DONE
<1>5. s \notin OnList(jobs, DONE) /\ s \notin OnList(jobs, PENDING)
  BY <1>0, <1>3, <1>4, ListsDisjoint
<1>6. Frees(s) /\ rec' = rec
  BY <1>0, <1>3, <1>4, ReleaseJobFrees, OnListIsSlot
<1>. HIDE DEF s
<1>7. /\ OnList(jobs', WORKING) = OnList(jobs, WORKING) \ {s}
      /\ jobs'.list[DONE] = jobs.list[DONE] /\ jobs'.list[PENDING] = jobs.list[PENDING]
  BY <1>4, <1>5, <1>6 DEF Frees
<1>8. /\ Queue' = Queue /\ Begun' \subseteq Begun
      /\ OnList(jobs', DONE) = OnList(jobs, DONE)
      /\ OnList(jobs', PENDING) = OnList(jobs, PENDING)
  BY <1>7 DEF Queue, Begun, OnList
<1>9. \A x \in Begun' \cup OnList(jobs, PENDING) : SameJob(x)
  BY <1>6 DEF SameJob
<1>10. QueueInOrder' /\ TicketsExact' /\ Taken' = Taken
  BY <1>1, <1>8, <1>9, OrderShrinks DEF JobInv
<1>11. /\ \A t \in Tickets : t > Taken' => ran'[t] = 0 /\ replied'[t] = 0
       /\ \A v \in Workers : Owns(v)' => ToldOf(v)'
       /\ AtMostOnce'
  <2>1. OnList(jobs', WORKING) \subseteq Begun'
    BY DEF Begun
  <2>. QED BY <1>0, <1>2, <1>3, <1>8, <1>9, <1>10, <2>1, OthersStillTold
<1>12. \A x \in OnList(jobs', DONE) :
          ran'[Ticket(x)'] = 1 /\ (~ IsReplied(x)' => replied'[Ticket(x)'] = 0)
  <2>1. OnList(jobs, DONE) \subseteq SlotIds /\ OnList(jobs', DONE) \subseteq Begun'
    BY <1>0, <1>4, OnListIsSlot DEF Begun
  <2>. QED BY <2>1, <1>1, <1>2, <1>8, <1>9 DEF JobInv, StagesTold, Ticket, SameJob
<1>13. StagesTold'
  BY <1>11, <1>12 DEF StagesTold
<1>. QED BY <1>10, <1>11, <1>13 DEF JobInv

\* In the arena the worker owns no job any more; a block it frees has no listed slot.
LEMMA InArenaJobInv ==
  ASSUME IInv, IInv', JobInv, NEW w \in Workers, ReleaseBit(w) \/ ReleaseCount(w) PROVE JobInv'
<1>0. /\ PoolTypes /\ AnyWorkerStep(w) /\ WellFormed(jobs) /\ WellFormed(jobs') /\ OneOwner'
  BY DEF IInv, AnyWorkerStep, WorkerStep, SlotsWellFormed
<1>1. /\ main' = main /\ accepted' = accepted /\ replied' = replied
      /\ \A x \in SlotIds : IsReplied(x)' <=> IsReplied(x)
  BY <1>0, WorkerKeepsReply
<1>2. /\ ~ Owns(w)' /\ \A v \in Workers \ {w} : wrk'[v] = wrk[v]
  BY <1>0, ReleaseMoves DEF KeepsJob, Moves, Owns, OwningPCs
<1>3. /\ ran' = ran /\ jobs'.list = jobs.list /\ \A x \in Allocated(jobs') : SameJob(x)
  <2>1. CASE ReleaseBit(w)
    BY <2>1, <1>0 DEF ReleaseBit, NoClientChange, clientVars, WellFormed, Pool, SameJob
  <2>2. CASE ReleaseCount(w)
    <3>1. Uncount(BlockOf(wrk[w].job), holder.count - 1, jobs) /\ ran' = ran
      BY <2>2 DEF ReleaseCount, NoClientChange, clientVars
    <3>. QED BY <1>0, <3>1, UncountSteps DEF SameJob
  <2>. QED BY <2>1, <2>2
<1>4. /\ PENDING \in ListIds /\ WORKING \in ListIds /\ DONE \in ListIds
  BY ListsExist
<1>5. /\ Queue' = Queue /\ Begun' = Begun /\ OnList(jobs', DONE) = OnList(jobs, DONE)
      /\ OnList(jobs', PENDING) = OnList(jobs, PENDING)
  BY <1>3 DEF Queue, Begun, OnList
<1>6. \A x \in Begun' \cup OnList(jobs, PENDING) : SameJob(x)
  BY <1>0, <1>3, <1>4, <1>5, OnListIsSlot DEF Begun
<1>7. QueueInOrder' /\ TicketsExact' /\ Taken' = Taken
  BY <1>1, <1>5, <1>6, OrderShrinks DEF JobInv
<1>8. /\ \A t \in Tickets : t > Taken' => ran'[t] = 0 /\ replied'[t] = 0
      /\ \A v \in Workers : Owns(v)' => ToldOf(v)'
      /\ AtMostOnce'
  <2>1. OnList(jobs', WORKING) \subseteq Begun'
    BY DEF Begun
  <2>. QED BY <1>0, <1>2, <1>3, <1>5, <1>6, <1>7, <2>1, OthersStillTold
<1>9. \A x \in OnList(jobs', DONE) :
         ran'[Ticket(x)'] = 1 /\ (~ IsReplied(x)' => replied'[Ticket(x)'] = 0)
  <2>1. OnList(jobs, DONE) \subseteq SlotIds /\ OnList(jobs', DONE) \subseteq Begun'
    BY <1>0, <1>4, OnListIsSlot DEF Begun
  <2>. QED BY <2>1, <1>1, <1>3, <1>5, <1>6 DEF JobInv, StagesTold, Ticket, SameJob
<1>10. StagesTold'
  BY <1>8, <1>9 DEF StagesTold
<1>. QED BY <1>7, <1>8, <1>10 DEF JobInv

LEMMA WorkerJobInv ==
  ASSUME IInv, IInv', ArenaSteps, JobInv, NEW w \in Workers, WorkerStep(w) \/ SpuriousWakeup(w)
  PROVE  JobInv'
BY IdleJobInv, OnTheWayJobInv, RunJobInv, TakeJobInv, PublishJobInv, ReleaseJobInv, InArenaJobInv
   DEF WorkerStep

-----------------------------------------------------------------------------
(***************************************************************************)
(* The main thread's steps preserve the invariant.  Most neither touch the *)
(* lists nor tell of a job.                                                *)
(***************************************************************************)
LEMMA MainSilentJobInv ==
  ASSUME IInv, JobInv, jobs'.list = jobs.list, accepted' = accepted, ran' = ran,
         replied' = replied, SameJobs, main.pc # "fill", main'.pc # "fill",
         \A w \in Workers : Owns(w)' => /\ Owns(w) /\ wrk'[w].job = wrk[w].job
                                        /\ wrk'[w].pc = wrk[w].pc
                                        /\ wrk'[w].clean = wrk[w].clean,
         Consuming /\ main.pc # "reply"
            => Consuming' /\ main'.pc # "reply" /\ main'.head = main.head
  PROVE  JobInv'
<1>1. QueueInOrder' /\ TicketsExact' /\ Taken' = Taken
  BY OrderKept DEF JobInv
<1>2. ASSUME NEW w \in Workers, Owns(w)'
      PROVE  Owns(w) /\ wrk'[w].job = wrk[w].job /\ StageKept(w)
  <2>1. ToldOf(w)
    BY <1>2 DEF JobInv, StagesTold
  <2>. QED BY <1>2, <2>1 DEF StageKept, ToldOf
<1>3. \A s \in SlotIds : IsReplied(s) => IsReplied(s)'
  BY DEF IsReplied
<1>4. StagesTold' /\ AtMostOnce'
  BY <1>1, <1>2, <1>3, StagesKept
<1>. QED BY <1>1, <1>4 DEF JobInv

\* The steps of the main thread on its own.
LEMMA MainQuietJobInv ==
  ASSUME IInv, JobInv, wrk' = wrk, accepted' = accepted, ran' = ran, replied' = replied,
         jobs'.list = jobs.list, SameJobs, main.pc # "fill", main'.pc # "fill",
         Consuming /\ main.pc # "reply"
            => Consuming' /\ main'.pc # "reply" /\ main'.head = main.head
  PROVE  JobInv'
<1>1. \A w \in Workers : Owns(w)' => /\ Owns(w) /\ wrk'[w].job = wrk[w].job
                                     /\ wrk'[w].pc = wrk[w].pc /\ wrk'[w].clean = wrk[w].clean
  BY DEF Owns
<1>. QED BY <1>1, MainSilentJobInv

LEMMA EnqueueStartJobInv ==
  ASSUME IInv, JobInv, NEW k \in Kinds, EnqueueStart(k) PROVE JobInv'
<1>0. main \in MainThread
  BY DEF IInv, PoolTypes
<1>1. /\ main.pc \in {"idle", "callback"} /\ main'.ret = main.pc /\ main'.head = main.head
      /\ main'.pc \in {"grab", "scan"}
  BY <1>0 DEF EnqueueStart, Callable, MainThread
<1>2. /\ rec' = rec /\ jobs' = jobs /\ wrk' = wrk /\ accepted' = accepted /\ ran' = ran
      /\ replied' = replied
  BY DEF EnqueueStart, poolVars, clientVars
<1>. QED BY <1>1, <1>2, MainQuietJobInv DEF SameJobs, SameJob, Consuming

LEMMA CancelFindJobInv ==
  ASSUME IInv, JobInv, NEW t \in Tickets, CancelFind(t) PROVE JobInv'
<1>0. main \in MainThread
  BY DEF IInv, PoolTypes
<1>1. /\ main.pc \in {"idle", "callback"} /\ main'.ret = main.pc /\ main'.head = main.head
      /\ main'.pc = "seek"
  BY <1>0 DEF CancelFind, Callable, MainThread
<1>2. /\ rec' = rec /\ jobs' = jobs /\ wrk' = wrk /\ accepted' = accepted /\ ran' = ran
      /\ replied' = replied
  BY DEF CancelFind, clientVars
<1>. QED BY <1>1, <1>2, MainQuietJobInv DEF SameJobs, SameJob, Consuming

\* The steps by which a cancel looks for its job.
LEMMA CancelSearchJobInv ==
  ASSUME IInv, JobInv, CancelTest \/ CancelCount \/ CancelLoad \/ CancelMark \/ CancelInFreed
  PROVE  JobInv'
<1>0. main \in MainThread /\ jobs \in Pool
  BY DEF IInv, PoolTypes
<1>1. /\ main.pc \in {"seek", "add", "load", "mark"} /\ rec' = rec /\ wrk' = wrk
      /\ accepted' = accepted /\ ran' = ran /\ replied' = replied
  BY DEF CancelTest, CancelCount, CancelLoad, CancelMark, CancelInFreed, Seeking, poolVars,
         clientVars
<1>2. \/ \E pc \in {"add", "load", "mark", "cancel"} : main' = [main EXCEPT !.pc = pc]
      \/ main' = [main EXCEPT !.pc = "cancel", !.flags = rec[main.slot].flags]
  BY DEF CancelTest, CancelCount, CancelLoad, CancelMark, CancelInFreed
<1>3. /\ main'.pc \in {"add", "load", "mark", "cancel"} /\ main'.ret = main.ret
      /\ main'.head = main.head
  BY <1>0, <1>2 DEF MainThread
<1>4. jobs'.list = jobs.list
  <2>1. CASE CancelMark
    BY <1>0, <2>1 DEF CancelMark, Pool
  <2>2. ~ CancelMark => jobs' = jobs
    BY DEF CancelTest, CancelCount, CancelLoad, CancelInFreed, poolVars
  <2>. QED BY <2>1, <2>2
<1>. QED BY <1>1, <1>3, <1>4, MainQuietJobInv DEF SameJobs, SameJob, Consuming

\* The end of an enqueue and of a cancel.
LEMMA EndJobInv == ASSUME IInv, JobInv, EnqueueReturn \/ CancelStore PROVE JobInv'
<1>0. PoolTypes /\ MainLocals /\ main \in MainThread
  BY DEF IInv, PoolTypes
<1>1. /\ main.pc \in {"return", "cancel"} /\ wrk' = wrk /\ jobs' = jobs /\ accepted' = accepted
      /\ ran' = ran /\ replied' = replied
      /\ \/ main' = [main EXCEPT !.pc = main.ret, !.slot = NoSlot]
         \/ main' = [main EXCEPT !.pc = main.ret, !.slot = NoSlot, !.ticket = 0,
                                 !.flags = NoFlags]
  <2>1. CASE EnqueueReturn
    BY <2>1 DEF EnqueueReturn, poolVars
  <2>2. CASE CancelStore
    BY <2>2 DEF CancelStore
  <2>. QED BY <2>1, <2>2
<1>2. SameJobs
  <2>1. CASE rec' = rec
    BY <2>1 DEF SameJobs, SameJob
  <2>2. CASE rec' # rec
    <3>1. /\ main.slot \in SlotIds /\ rec \in [SlotIds -> Job]
          /\ \E f : rec' = [rec EXCEPT ![main.slot].flags = f]
      <4>1. CancelStore
        BY <2>2 DEF EnqueueReturn, poolVars
      <4>. QED BY <4>1, <2>2, <1>0 DEF CancelStore, MainLocals, CancellingPCs, PoolTypes
    <3>. QED BY <3>1 DEF SameJobs, SameJob, Job
  <2>. QED BY <2>1, <2>2
<1>3. /\ main.ret \in {"idle", "callback"} /\ main'.pc = main.ret /\ main'.ret = main.ret
      /\ main'.head = main.head
  BY <1>0, <1>1 DEF MainThread
<1>. QED BY <1>1, <1>2, <1>3, MainQuietJobInv DEF Consuming

\* The other steps of the main thread on its own.
LEMMA MainOnlyJobInv ==
  ASSUME IInv, JobInv,
         ScanWorker \/ GrabFails \/ NotifyPipeEventRead \/ PointToDone \/ CallbackReturn \/ DestroyStart
  PROVE  JobInv'
<1>0. main \in MainThread
  BY DEF IInv, PoolTypes
<1>1. /\ wrk' = wrk /\ jobs' = jobs /\ rec' = rec /\ accepted' = accepted /\ ran' = ran
      /\ replied' = replied
  BY DEF ScanWorker, GrabFails, NotifyPipeEventRead, PointToDone, CallbackReturn, DestroyStart,
         clientVars, poolVars
<1>2. CASE ScanWorker \/ GrabFails
  <2>1. /\ main.pc \in {"scan", "grab"} /\ main.ret \in {"idle", "callback"}
        /\ main'.head = main.head /\ main'.ret = main.ret
        /\ main'.pc \in {"scan", "launch", "grab", "stuck", main.ret}
    BY <1>0, <1>2 DEF ScanWorker, GrabFails, MainThread
  <2>. QED BY <1>1, <2>1, MainQuietJobInv DEF SameJobs, SameJob, Consuming
<1>3. CASE NotifyPipeEventRead \/ PointToDone \/ CallbackReturn \/ DestroyStart
  <2>1. /\ main.pc \in {"idle", "point", "callback"}
        /\ main'.pc \in {"point", "idle", "reply", "free", "flag"}
        /\ main.pc = "callback" => main'.pc = "free" /\ main'.head = main.head
    BY <1>0, <1>3 DEF NotifyPipeEventRead, PointToDone, CallbackReturn, DestroyStart, MainThread
  <2>. QED BY <1>1, <2>1, MainQuietJobInv DEF SameJobs, SameJob, Consuming
<1>. QED BY <1>2, <1>3

\* The steps of the main thread that wake, launch or flag workers.
LEMMA WakingFrame ==
  ASSUME IInv, SignalCond \/ LaunchMore \/ FlagShutdown, NEW w \in Workers, Owns(w)'
  PROVE  /\ Owns(w) /\ wrk'[w].job = wrk[w].job
         /\ wrk'[w].pc = wrk[w].pc /\ wrk'[w].clean = wrk[w].clean
<1>0. /\ PoolTypes /\ wrk \in [Workers -> Worker]
  BY DEF IInv, PoolTypes
<1>. USE DEF Owns, OwningPCs
<1>1. CASE wrk' = wrk
  BY <1>1
<1>2. CASE \E v \in Waiting : wrk' = [wrk EXCEPT ![v].pc = "lock"]
  <2>1. PICK v \in Workers : wrk' = [wrk EXCEPT ![v].pc = "lock"]
    BY <1>2 DEF Waiting
  <2>2. wrk'[v].pc = "lock" /\ \A x \in Workers \ {v} : wrk'[x] = wrk[x]
    BY <1>0, <2>1 DEF Worker
  <2>. QED BY <2>2
<1>3. CASE LaunchMore
  <2>1. PICK failed : /\ launched' = LaunchTo(WorkerGrow)
                      /\ wrk' = Launched(launched, launched', failed)
    BY <1>3 DEF LaunchMore
  <2>2. /\ launched \in 0 .. WorkerMax + 1 /\ WorkerMax \in Nat /\ WorkerGrow \in Nat
    BY <1>0, ThreadPoolAssumption DEF PoolTypes
  <2>3. launched' \in 0 .. WorkerMax + 1
    BY <2>1, <2>2 DEF LaunchTo, Lowest
  <2>4. /\ wrk'[w].job = wrk[w].job /\ wrk'[w].clean = wrk[w].clean
        /\ wrk'[w].pc = wrk[w].pc \/ wrk'[w].pc = "top"
    BY <1>0, <2>1, <2>2, <2>3, LaunchedTypes
  <2>. QED BY <2>4
<1>4. CASE FlagShutdown /\ main.scan < launched
  <2>1. wrk' = [wrk EXCEPT ![main.scan].do_shutdown = TRUE]
    BY <1>4 DEF FlagShutdown
  <2>2. /\ wrk'[w].pc = wrk[w].pc /\ wrk'[w].job = wrk[w].job
        /\ wrk'[w].clean = wrk[w].clean
    BY <1>0, <2>1 DEF Worker
  <2>. QED BY <2>2
<1>. QED BY <1>1, <1>2, <1>3, <1>4 DEF SignalCond, FlagShutdown

LEMMA WakingJobInv ==
  ASSUME IInv, JobInv, SignalCond \/ LaunchMore \/ FlagShutdown PROVE JobInv'
<1>0. /\ PoolTypes /\ main \in MainThread /\ wrk \in [Workers -> Worker] /\ UnlaunchedAreOff
      /\ launched \in 0 .. WorkerMax + 1 /\ WorkerMax \in Nat /\ WorkerGrow \in Nat
  BY ThreadPoolAssumption DEF IInv, PoolTypes
<1>1. /\ jobs' = jobs /\ rec' = rec /\ accepted' = accepted /\ ran' = ran /\ replied' = replied
  BY DEF SignalCond, LaunchMore, FlagShutdown, clientVars, poolVars
<1>2. \A w \in Workers : Owns(w)' => /\ Owns(w) /\ wrk'[w].job = wrk[w].job
                                     /\ wrk'[w].pc = wrk[w].pc
                                     /\ wrk'[w].clean = wrk[w].clean
  BY WakingFrame
<1>3. main.pc # "fill" /\ main'.pc # "fill"
  <2>. USE <1>0, MainTypes DEF MainThread
  <2>1. CASE SignalCond
    BY <2>1 DEF SignalCond
  <2>2. CASE LaunchMore
    BY <2>2 DEF LaunchMore
  <2>3. CASE FlagShutdown
    BY <2>3 DEF FlagShutdown
  <2>. QED BY <2>1, <2>2, <2>3
<1>4. Consuming /\ main.pc # "reply"
         => Consuming' /\ main'.pc # "reply" /\ main'.head = main.head
  <2>. USE <1>0, MainTypes DEF MainThread, Consuming
  <2>1. CASE SignalCond
    BY <2>1 DEF SignalCond
  <2>2. CASE LaunchMore
    BY <2>2 DEF LaunchMore
  <2>3. CASE FlagShutdown
    BY <2>3 DEF FlagShutdown
  <2>. QED BY <2>1, <2>2, <2>3
<1>5. SameJobs
  BY <1>1 DEF SameJobs, SameJob
<1>. QED BY <1>1, <1>2, <1>3, <1>4, <1>5, MainSilentJobInv

(***************************************************************************)
(* Enqueueing: the slot grabbed last stays out of the order until it is    *)
(* filled, and gets the next ticket then.                                  *)
(***************************************************************************)
LEMMA GrabJobInv == ASSUME IInv, JobInv, GrabJob PROVE JobInv'
<1>. DEFINE g == GrabId(jobs)
<1>0. /\ PoolTypes /\ WellFormed(jobs) /\ main \in MainThread
  BY DEF IInv, SlotsWellFormed, PoolTypes
<1>1. /\ main.pc = "grab" /\ HasFree(jobs) /\ jobs' = Grab(jobs)
      /\ main' = [main EXCEPT !.pc = "fill", !.slot = g]
      /\ rec' = rec /\ wrk' = wrk /\ accepted' = accepted /\ ran' = ran /\ replied' = replied
  BY DEF GrabJob, clientVars
<1>2. PENDING \in ListIds /\ WORKING \in ListIds /\ DONE \in ListIds
      /\ PENDING = 0 /\ WORKING # 0 /\ DONE # 0
  BY ListsExist DEF PENDING, WORKING, DONE
<1>3. /\ g \in SlotIds
      /\ jobs'.list[WORKING] = jobs.list[WORKING] /\ jobs'.list[DONE] = jobs.list[DONE]
  BY <1>0, <1>1, <1>2, GrabWF
<1>4. Queue' = Append(Queue, g)
  BY <1>0, <1>1, <1>2 DEF Grab, Queue, WellFormed, Pool
<1>. HIDE DEF g
<1>5. main'.pc = "fill" /\ main'.slot = g /\ main'.head = main.head /\ main'.ret = main.ret
  BY <1>0, <1>1 DEF MainThread
<1>6. Queue \in Seq(SlotIds) /\ Len(Queue) \in Nat
  BY QueueFacts
<1>7. /\ Len(Queue') = Len(Queue) + 1 /\ Queue'[Len(Queue) + 1] = g
      /\ \A i \in 1 .. Len(Queue) : Queue'[i] = Queue[i]
  BY <1>3, <1>4, <1>6, AppendProperties
<1>8. Fresh' = Fresh /\ Taken' = Taken /\ Fresh = Len(Queue)
  BY <1>1, <1>5, <1>6, <1>7 DEF Fresh, Taken
<1>9. Begun' = Begun /\ OnList(jobs', DONE) = OnList(jobs, DONE)
  BY <1>3 DEF Begun, OnList
<1>10. QueueInOrder'
  <2>1. \A i \in 1 .. Fresh : Ticket(Queue[i])' = Ticket(Queue[i])
    BY <1>1, <1>7, <1>8 DEF Ticket
  <2>2. Len(Queue') > 0 /\ Queue'[Len(Queue')] = main'.slot
    BY <1>5, <1>6, <1>7
  <2>. QED BY <1>8, <2>1, <2>2 DEF JobInv, QueueInOrder
<1>11. TicketsExact'
  <2>1. \A i \in 1 .. Fresh : KindKept(Queue[i])' = KindKept(Queue[i])
    BY <1>1, <1>7, <1>8 DEF KindKept, Ticket
  <2>. QED BY <1>1, <1>8, <1>9, <2>1 DEF JobInv, TicketsExact, KindKept, Ticket
<1>12. StagesTold'
  <2>1. \A s \in SlotIds : IsReplied(s) => IsReplied(s)'
    BY <1>1, <1>5 DEF IsReplied, Consuming
  <2>2. OnList(jobs, DONE) \subseteq SlotIds
    BY <1>0, <1>2, OnListIsSlot
  <2>3. \A w \in Workers : Owns(w)' => ToldOf(w)'
    BY <1>1 DEF JobInv, StagesTold, ToldOf, Owns, Ticket
  <2>. QED BY <1>1, <1>8, <1>9, <2>1, <2>2, <2>3 DEF JobInv, StagesTold, Ticket
<1>13. AtMostOnce'
  BY <1>1 DEF JobInv, AtMostOnce
<1>. QED BY <1>10, <1>11, <1>12, <1>13 DEF JobInv

LEMMA FillAndUnlockJobInv == ASSUME IInv, JobInv, FillAndUnlock PROVE JobInv'
<1>. DEFINE q == main.slot
            n == Len(accepted) + 1
<1>0. /\ PoolTypes /\ WellFormed(jobs) /\ main \in MainThread /\ MainLocals /\ OneOwner
      /\ rec \in [SlotIds -> Job] /\ accepted \in Seq(Kinds)
  BY DEF IInv, SlotsWellFormed, PoolTypes
<1>1. /\ main.pc = "fill"
      /\ rec' = [rec EXCEPT ![q] = [flags |-> [NoFlags EXCEPT !.in_use = TRUE],
                                    kind |-> main.kind, ticket |-> n]]
      /\ accepted' = Append(accepted, main.kind)
      /\ main' = [main EXCEPT !.pc = "signal"]
      /\ jobs' = jobs /\ wrk' = wrk /\ ran' = ran /\ replied' = replied
  BY DEF FillAndUnlock, clientVars
<1>2. /\ PENDING \in ListIds /\ WORKING \in ListIds /\ DONE \in ListIds
      /\ PENDING \notin {WORKING, DONE}
  BY ListsExist DEF PENDING, WORKING, DONE
<1>3. main'.pc = "signal" /\ main'.head = main.head /\ main'.ret = main.ret
  BY <1>0, <1>1 DEF MainThread
<1>4. q \in SlotIds /\ main.kind \in Kinds
  BY <1>0, <1>1 DEF MainLocals, EnqueuingPCs
<1>5. /\ Len(Queue) \in Nat \ {0} /\ q = Queue[Len(Queue)]
      /\ Len(accepted) \in Nat /\ Taken \in Nat /\ IsInjective(Queue)
      /\ Fresh = Len(Queue) - 1 /\ Fresh = Len(accepted) - Taken
  BY <1>1, QueueFacts DEF JobInv, QueueInOrder, Fresh
<1>6. /\ Len(accepted') = n /\ accepted'[n] = main.kind
      /\ \A t \in 1 .. Len(accepted) : accepted'[t] = accepted[t]
  BY <1>0, <1>1, <1>4, AppendProperties
<1>7. /\ Queue' = Queue /\ Begun' = Begun /\ Fresh' = Fresh + 1 /\ Taken' = Taken
      /\ Fresh' = Len(Queue)
  BY <1>1, <1>3, <1>5, <1>6 DEF Queue, Begun, Fresh, Taken
<1>. HIDE DEF q
\* Only the slot being filled changes, and it lies at the tail of PENDING.
<1>8. q \in OnList(jobs, PENDING) /\ q \notin Begun
  <2>1. q \in OnList(jobs, PENDING)
    BY <1>5, QueueFacts
  <2>. QED BY <2>1, <1>0, <1>2, ListsDisjoint DEF Begun
<1>9. \A x \in SlotIds \ {q} : Ticket(x)' = Ticket(x) /\ rec'[x].kind = rec[x].kind
  BY <1>0, <1>1 DEF Ticket
<1>10. rec'[q].ticket = n /\ rec'[q].kind = main.kind
  BY <1>0, <1>1, <1>4
<1>11. \A x \in Begun : x \in SlotIds \ {q} /\ Ticket(x) \in 1 .. Len(accepted)
  <2>1. \A t \in 1 .. Taken : t \in 1 .. Len(accepted)
    BY <1>5
  <2>. QED BY <2>1, <1>8, QueueFacts DEF JobInv, TicketsExact
<1>12. \A i \in 1 .. Fresh : /\ Queue[i] \in SlotIds \ {q} /\ Ticket(Queue[i]) = Taken + i
                             /\ Taken + i \in 1 .. Len(accepted)
  <2>. TAKE i \in 1 .. Fresh
  <2>1. i \in 1 .. Len(Queue) /\ i # Len(Queue) /\ Len(Queue) \in 1 .. Len(Queue)
    BY <1>5
  <2>2. Queue[i] # Queue[Len(Queue)]
    BY <1>5, <2>1 DEF IsInjective
  <2>3. Taken + i \in 1 .. Len(accepted)
    BY <1>5
  <2>. QED BY <1>5, <2>1, <2>2, <2>3, QueueFacts DEF JobInv, QueueInOrder
<1>13. \A i \in 1 .. Fresh' : i \in 1 .. Fresh \/ (i = Len(Queue) /\ Taken + i = n)
  BY <1>5, <1>7
<1>14. QueueInOrder'
  <2>1. \A i \in 1 .. Fresh' : rec'[Queue[i]].ticket = Taken + i
    BY <1>5, <1>9, <1>10, <1>12, <1>13 DEF Ticket
  <2>. QED BY <2>1, <1>3, <1>5, <1>7 DEF QueueInOrder, Ticket
<1>15. TicketsExact'
  <2>1. \A x \in Begun : KindKept(x)'
    BY <1>6, <1>9, <1>11 DEF JobInv, TicketsExact, KindKept, Ticket
  <2>2. \A i \in 1 .. Fresh' : rec'[Queue[i]].kind = accepted'[rec'[Queue[i]].ticket]
    <3>. TAKE i \in 1 .. Fresh'
    <3>1. CASE i \in 1 .. Fresh
      BY <3>1, <1>6, <1>9, <1>12 DEF JobInv, TicketsExact, KindKept, Ticket
    <3>2. CASE i = Len(Queue)
      BY <3>2, <1>5, <1>6, <1>10
    <3>. QED BY <3>1, <3>2, <1>13
  <2>3. \A i \in 1 .. Fresh' : KindKept(Queue[i])'
    BY <2>2, <1>7 DEF KindKept, Ticket
  <2>. QED BY <2>1, <2>3, <1>7, <1>9, <1>11 DEF JobInv, TicketsExact, Ticket
<1>16. StagesTold'
  <2>1. \A x \in SlotIds : IsReplied(x) => IsReplied(x)'
    BY <1>1, <1>3 DEF IsReplied, Consuming
  <2>2. OnList(jobs, DONE) \subseteq Begun /\ OnList(jobs, WORKING) \subseteq Begun
    BY DEF Begun
  <2>3. ASSUME NEW w \in Workers, Owns(w)' PROVE ToldOf(w)'
    <3>1. Owns(w) /\ wrk[w].job \in Begun
      BY <1>0, <1>1, <2>2, <2>3 DEF OneOwner, Owns
    <3>2. Ticket(wrk[w].job)' = Ticket(wrk[w].job)
      BY <1>1, <1>9, <1>11, <3>1 DEF Ticket
    <3>. QED BY <3>1, <3>2, <1>1 DEF JobInv, StagesTold, ToldOf, Ticket
  <2>. QED BY <1>1, <1>7, <1>9, <1>11, <2>1, <2>2, <2>3 DEF JobInv, StagesTold
<1>17. AtMostOnce'
  <2>1. n \in Tickets /\ n > Taken
    BY <1>0, <1>1, <1>5, ThreadPoolAssumption DEF MainLocals, EnqueuingPCs, Tickets
  <2>2. ran[n] = 0 /\ replied[n] = 0
    BY <2>1 DEF JobInv, StagesTold
  <2>3. \A t \in 1 .. n : t \in 1 .. Len(accepted) \/ t = n
    BY <1>5
  <2>. QED BY <1>1, <1>6, <2>2, <2>3 DEF JobInv, AtMostOnce
<1>. QED BY <1>14, <1>15, <1>16, <1>17 DEF JobInv

(***************************************************************************)
(* Collecting: the head of DONE has run and was not replied to, then it is *)
(* the one replied to, then it leaves.                                     *)
(***************************************************************************)
LEMMA DoneHead ==
  ASSUME IInv, JobInv, Consuming
  PROVE  /\ main.head \in OnList(jobs, DONE) /\ main.head \in Begun /\ main.head \in SlotIds
         /\ Ticket(main.head) \in 1 .. Taken /\ Ticket(main.head) \in Tickets
         /\ Ticket(main.head) \in 1 .. Len(accepted)
         /\ ran[Ticket(main.head)] = 1
         /\ \A s \in Begun \ {main.head} : Ticket(s) # Ticket(main.head)
<1>0. OneOwner /\ WellFormed(jobs) /\ DONE \in ListIds
  BY ListsExist DEF IInv, SlotsWellFormed
<1>1. main.head \in OnList(jobs, DONE) /\ main.head \in SlotIds
  BY <1>0, HeadSwitchWF DEF OneOwner
<1>2. main.head \in Begun
  BY <1>1 DEF Begun
<1>3. Ticket(main.head) \in 1 .. Taken
  BY <1>2 DEF JobInv, TicketsExact
<1>4. Ticket(main.head) \in 1 .. Len(accepted)
  <2>1. Taken <= Len(accepted) /\ Taken \in Nat /\ Len(accepted) \in Nat
    BY QueueFacts DEF JobInv, QueueInOrder, Fresh, Taken
  <2>. QED BY <1>3, <2>1
<1>5. ran[Ticket(main.head)] = 1
  BY <1>1 DEF JobInv, StagesTold
<1>6. \A s \in Begun \ {main.head} : Ticket(s) # Ticket(main.head)
  BY <1>2 DEF JobInv, TicketsExact
<1>. QED BY <1>1, <1>2, <1>3, <1>4, <1>5, <1>6, QueueFacts

LEMMA ReplyJobInv == ASSUME IInv, JobInv, Reply PROVE JobInv'
<1>. DEFINE h == main.head
            t == Ticket(h)
            calls == rec[h].kind = "reply" /\ ~ rec[h].flags.cancelled
<1>0. /\ PoolTypes /\ OneOwner /\ WellFormed(jobs) /\ main \in MainThread
      /\ replied \in [Tickets -> Nat]
  BY DEF IInv, SlotsWellFormed, PoolTypes
<1>1. /\ main.pc = "reply"
      /\ jobs' = jobs /\ rec' = rec /\ wrk' = wrk /\ accepted' = accepted /\ ran' = ran
  BY DEF Reply, poolVars
<1>2. \/ main' = main /\ replied' = replied
      \/ /\ ~ calls /\ replied' = replied /\ main' = [main EXCEPT !.pc = "free"]
      \/ /\ calls /\ replied' = [replied EXCEPT ![t] = replied[t] + 1]
         /\ main' = [main EXCEPT !.pc = "callback"]
  BY DEF Reply, Ticket
<1>3. Consuming
  BY <1>1 DEF Consuming
<1>4. /\ h \in OnList(jobs, DONE) /\ h \in Begun /\ h \in SlotIds
      /\ t \in 1 .. Taken /\ t \in Tickets /\ t \in 1 .. Len(accepted) /\ ran[t] = 1
      /\ \A s \in Begun \ {h} : Ticket(s) # t
  BY <1>3, DoneHead
<1>5. replied[t] = 0
  BY <1>1, <1>4 DEF JobInv, StagesTold, IsReplied
<1>6. calls => accepted[t] = "reply"
  BY <1>4 DEF JobInv, TicketsExact, KindKept
<1>. HIDE DEF calls, t, h
<1>7. /\ main'.pc # "fill" /\ main.pc # "fill"
      /\ \/ main' = main /\ replied' = replied
         \/ main'.pc \in {"free", "callback"} /\ main'.head = h
  BY <1>0, <1>1, <1>2 DEF MainThread, h
<1>8. /\ \A u \in Tickets \ {t} : replied'[u] = replied[u]
      /\ replied'[t] \in {0, 1} /\ (replied'[t] = 1 => calls)
  BY <1>0, <1>2, <1>4, <1>5
<1>9. QueueInOrder' /\ TicketsExact' /\ Taken' = Taken
  BY <1>1, <1>7, OrderKept DEF JobInv, SameJobs, SameJob
<1>10. AtMostOnce'
  <2>1. \A u \in 1 .. Len(accepted) : u \in Tickets
    BY QueueFacts
  <2>. QED BY <2>1, <1>1, <1>4, <1>6, <1>8 DEF JobInv, AtMostOnce
<1>11. \A u \in Tickets : u > Taken => ran'[u] = 0 /\ replied'[u] = 0
  <2>1. Taken \in Int
    BY QueueFacts
  <2>. QED BY <2>1, <1>1, <1>4, <1>8 DEF JobInv, StagesTold
<1>12. \A s \in Begun : Ticket(s) \in Tickets /\ (s # h => replied'[Ticket(s)] = replied[Ticket(s)])
  <2>1. \A s \in Begun : Ticket(s) \in Tickets
    BY QueueFacts DEF JobInv, TicketsExact, QueueInOrder, Fresh, Taken
  <2>2. \A s \in Begun : s # h => Ticket(s) \in Tickets \ {t}
    BY <2>1, <1>4
  <2>. QED BY <2>1, <2>2, <1>8
<1>13. ASSUME NEW w \in Workers, Owns(w)' PROVE ToldOf(w)'
  <2>1. Owns(w) /\ wrk[w].job \in OnList(jobs, WORKING)
    BY <1>0, <1>1, <1>13 DEF Owns, OneOwner
  <2>2. wrk[w].job \in Begun /\ wrk[w].job # h
    BY <2>1, <1>0, <1>4, ListsExist, ListsDisjoint DEF Begun, WORKING, DONE
  <2>. QED BY <2>1, <2>2, <1>1, <1>12 DEF JobInv, StagesTold, ToldOf, Ticket
<1>14. \A s \in OnList(jobs', DONE) :
          ran'[Ticket(s)'] = 1 /\ (~ IsReplied(s)' => replied'[Ticket(s)'] = 0)
  <2>. SUFFICES ASSUME NEW s \in OnList(jobs, DONE)
                PROVE  ran'[Ticket(s)'] = 1 /\ (~ IsReplied(s)' => replied'[Ticket(s)'] = 0)
    BY <1>1
  <2>1. Ticket(s)' = Ticket(s) /\ ran'[Ticket(s)'] = 1 /\ s \in Begun
    BY <1>1 DEF JobInv, StagesTold, Ticket, Begun
  <2>2. replied[Ticket(s)] = 0
    BY <1>1 DEF JobInv, StagesTold, IsReplied
  <2>3. CASE s # h
    BY <2>1, <2>2, <2>3, <1>12
  <2>4. CASE s = h /\ main' = main /\ replied' = replied
    BY <2>1, <2>2, <2>4
  <2>5. CASE s = h /\ main'.pc \in {"free", "callback"} /\ main'.head = h
    <3>1. IsReplied(s)'
      BY <2>5 DEF IsReplied, Consuming
    <3>. QED BY <2>1, <3>1
  <2>. QED BY <1>7, <2>3, <2>4, <2>5
<1>15. StagesTold'
  BY <1>9, <1>11, <1>13, <1>14 DEF StagesTold
<1>. QED BY <1>9, <1>10, <1>15 DEF JobInv

LEMMA FreeDoneJobInv == ASSUME IInv, JobInv, FreeDone PROVE JobInv'
<1>. DEFINE h == main.head
<1>0. /\ PoolTypes /\ OneOwner /\ WellFormed(jobs) /\ SlotsWellFormed /\ main \in MainThread
  BY DEF IInv, SlotsWellFormed, PoolTypes
<1>1. /\ main.pc = "free" /\ FreeJob(h) /\ main' = [main EXCEPT !.pc = "point", !.head = NoSlot]
      /\ wrk' = wrk /\ accepted' = accepted /\ ran' = ran /\ replied' = replied
  BY DEF FreeDone, clientVars
<1>2. /\ PENDING \in ListIds /\ WORKING \in ListIds /\ DONE \in ListIds
      /\ DONE \notin {PENDING, WORKING}
  BY ListsExist DEF PENDING, WORKING, DONE
<1>3. h \in OnList(jobs, DONE)
  BY <1>1, DoneHead DEF Consuming
<1>4. h \notin OnList(jobs, PENDING) /\ h \notin OnList(jobs, WORKING)
  BY <1>0, <1>2, <1>3, ListsDisjoint
<1>6. main'.pc = "point" /\ \A x : IsReplied(x) => x = h
  BY <1>0, <1>1 DEF IsReplied, MainThread
<1>. HIDE DEF h
<1>7. Frees(h)
  BY <1>0, <1>1, <1>2, <1>3, FreeJobFrees
<1>8. /\ OnList(jobs', DONE) = OnList(jobs, DONE) \ {h}
      /\ jobs'.list[WORKING] = jobs.list[WORKING] /\ jobs'.list[PENDING] = jobs.list[PENDING]
  BY <1>2, <1>4, <1>7 DEF Frees
<1>9. /\ Queue' = Queue /\ Begun' \subseteq Begun
      /\ OnList(jobs', WORKING) = OnList(jobs, WORKING)
      /\ OnList(jobs', PENDING) = OnList(jobs, PENDING)
  BY <1>8 DEF Queue, Begun, OnList
<1>10. \A x \in Begun' \cup OnList(jobs, PENDING) : SameJob(x)
  <2>. SUFFICES ASSUME NEW x \in Begun' \cup OnList(jobs, PENDING) PROVE rec'[x] = rec[x]
    BY DEF SameJob
  <2>1. \E l \in ListIds : x \in OnList(jobs', l)
    BY <1>2, <1>9 DEF Begun
  <2>2. WellFormed(jobs') /\ \A y \in Allocated(jobs') : rec'[y] = rec[y]
    BY <1>7 DEF Frees
  <2>. QED BY <2>1, <2>2, OnListIsSlot
<1>11. QueueInOrder' /\ TicketsExact' /\ Taken' = Taken
  BY <1>1, <1>6, <1>9, <1>10, OrderShrinks DEF JobInv
<1>12. AtMostOnce'
  BY <1>1 DEF JobInv, AtMostOnce
<1>13. ASSUME NEW w \in Workers, Owns(w)' PROVE ToldOf(w)'
  <2>1. Owns(w) /\ wrk[w].job \in Begun'
    BY <1>0, <1>1, <1>9, <1>13 DEF Owns, OneOwner, Begun
  <2>. QED BY <2>1, <1>1, <1>10 DEF JobInv, StagesTold, ToldOf, Ticket, SameJob
<1>14. \A x \in OnList(jobs', DONE) :
          ran'[Ticket(x)'] = 1 /\ (~ IsReplied(x)' => replied'[Ticket(x)'] = 0)
  <2>1. OnList(jobs', DONE) \subseteq Begun'
    BY DEF Begun
  <2>. QED BY <2>1, <1>1, <1>6, <1>8, <1>10 DEF JobInv, StagesTold, Ticket, SameJob
<1>15. StagesTold'
  BY <1>1, <1>11, <1>13, <1>14 DEF JobInv, StagesTold
<1>. QED BY <1>11, <1>12, <1>15 DEF JobInv

\* The pool is discarded with what it holds.
LEMMA JoinAndCleanJobInv == ASSUME IInv, JobInv, JoinAndClean PROVE JobInv'
<1>0. /\ PoolTypes /\ UnlaunchedAreOff /\ main \in MainThread /\ wrk \in [Workers -> Worker]
      /\ launched \in 0 .. WorkerMax + 1 /\ WorkerMax \in Nat
  BY ThreadPoolAssumption DEF IInv, PoolTypes
<1>1. /\ main.pc = "join" /\ \A w \in 0 .. (launched - 1) : wrk[w].pc = "exited"
      /\ jobs' = NewPool /\ wrk' = [w \in Workers |-> [wrk[w] EXCEPT !.job = NoSlot]]
      /\ main' = [main EXCEPT !.pc = "gone"]
      /\ accepted' = accepted /\ ran' = ran /\ replied' = replied
  BY DEF JoinAndClean, clientVars
<1>2. main'.pc = "gone"
  BY <1>0, <1>1 DEF MainThread
<1>3. Queue' = << >> /\ Begun' = {} /\ OnList(jobs', DONE) = {}
  BY <1>1, ListsExist, NewPoolWF DEF NewPool, Queue, Begun
<1>4. /\ Len(accepted) \in Nat /\ Taken' = Len(accepted) /\ Fresh' = 0
      /\ Taken <= Len(accepted) /\ Taken \in Int
  BY <1>1, <1>2, <1>3, QueueFacts DEF Fresh, Taken
<1>5. QueueInOrder' /\ TicketsExact'
  BY <1>2, <1>3, <1>4 DEF QueueInOrder, TicketsExact
<1>6. \A w \in Workers : ~ Owns(w)'
  <2>. TAKE w \in Workers
  <2>1. wrk'[w].pc \in {"exited", "off"}
    <3>1. w \in 0 .. (launched - 1) \/ w >= launched
      BY <1>0 DEF Workers
    <3>. QED BY <3>1, <1>0, <1>1 DEF UnlaunchedAreOff, Worker
  <2>2. wrk'[w].job = NoSlot
    BY <1>0, <1>1 DEF Worker
  <2>. QED BY <2>1, <2>2 DEF Owns, OwningPCs
<1>7. \A t \in Tickets : t > Taken' => ran'[t] = 0 /\ replied'[t] = 0
  BY <1>1, <1>4 DEF JobInv, StagesTold, Tickets
<1>8. StagesTold'
  BY <1>3, <1>6, <1>7 DEF StagesTold
<1>9. AtMostOnce'
  BY <1>1 DEF JobInv, AtMostOnce
<1>. QED BY <1>5, <1>8, <1>9 DEF JobInv

LEMMA MainJobInv ==
  ASSUME IInv, JobInv, MainStep \/ NotifyPipeEventRead \/ ClientCall
  PROVE  JobInv'
<1>1. CASE ClientCall
  <2>1. CASE \E k \in Kinds : EnqueueStart(k)
    BY <2>1, EnqueueStartJobInv
  <2>2. CASE \E t \in Tickets : CancelFind(t)
    BY <2>2, CancelFindJobInv
  <2>. QED BY <1>1, <2>1, <2>2, MainOnlyJobInv DEF ClientCall
<1>2. CASE MainStep \/ NotifyPipeEventRead
  BY <1>2, MainOnlyJobInv, CancelSearchJobInv, EndJobInv, WakingJobInv, GrabJobInv,
     FillAndUnlockJobInv, ReplyJobInv, FreeDoneJobInv, JoinAndCleanJobInv DEF MainStep
<1>. QED BY <1>1, <1>2

LEMMA InitJobInv == Init => JobInv
<1>. SUFFICES ASSUME Init PROVE JobInv
  OBVIOUS
<1>1. /\ jobs = NewPool /\ accepted = << >> /\ main.pc = "idle"
      /\ \A t \in Tickets : ran[t] = 0 /\ replied[t] = 0
  BY DEF Init
<1>2. Queue = << >> /\ Begun = {} /\ OnList(jobs, DONE) = {}
  BY <1>1, ListsExist, NewPoolWF DEF NewPool, Queue, Begun
<1>3. Len(accepted) = 0 /\ Fresh = 0 /\ Taken = 0
  BY <1>1, <1>2 DEF Fresh, Taken
<1>4. QueueInOrder /\ TicketsExact /\ AtMostOnce
  BY <1>1, <1>2, <1>3 DEF QueueInOrder, TicketsExact, AtMostOnce
<1>5. \A w \in Workers : ~ Owns(w)
  BY <1>2, InitIInv DEF IInv, OneOwner, Begun
<1>6. StagesTold
  BY <1>1, <1>2, <1>5 DEF StagesTold
<1>. QED BY <1>4, <1>6 DEF JobInv

LEMMA NextJobInv == IInv /\ IInv' /\ ArenaSteps /\ JobInv /\ [Next]_vars => JobInv'
<1>. SUFFICES ASSUME IInv, IInv', ArenaSteps, JobInv, [Next]_vars PROVE JobInv'
  OBVIOUS
<1>1. CASE Next
  BY <1>1, MainJobInv, WorkerJobInv DEF Next
<1>2. CASE UNCHANGED vars
  <2>1. /\ jobs' = jobs /\ rec' = rec /\ wrk' = wrk /\ main' = main /\ accepted' = accepted
        /\ ran' = ran /\ replied' = replied
    BY <1>2 DEF vars
  <2>2. QueueInOrder' /\ TicketsExact' /\ Taken' = Taken
    BY <2>1, OrderKept DEF JobInv, SameJobs, SameJob
  <2>3. \A w \in Workers : Owns(w)' => ToldOf(w)'
    BY <2>1 DEF JobInv, StagesTold, Owns, ToldOf, Ticket
  <2>4. \A s \in OnList(jobs, DONE) :
           ran'[Ticket(s)'] = 1 /\ (~ IsReplied(s)' => replied'[Ticket(s)'] = 0)
    BY <2>1 DEF JobInv, StagesTold, Ticket, IsReplied, Consuming
  <2>5. StagesTold' /\ AtMostOnce'
    BY <2>1, <2>2, <2>3, <2>4 DEF JobInv, StagesTold, AtMostOnce
  <2>. QED BY <2>2, <2>5 DEF JobInv
<1>. QED BY <1>1, <1>2

(***************************************************************************)
(* The tickets of the jobs and what was told of each are as the lists and  *)
(* the labels of the workers say, in every reachable state                 *)
(* (thrd_pool_base.c:176-239, 264-299, 474-621).                           *)
(***************************************************************************)
THEOREM JobsInvariant == Spec => [](IInv /\ JobInv)
<1>1. Init => JobInv
  BY InitJobInv
<1>2. IInv /\ IInv' /\ ArenaInv /\ JobInv /\ [Next]_vars => JobInv'
  BY NextJobInv DEF ArenaInv
<1>. QED BY <1>1, <1>2, PoolInvariant, PTL DEF Spec

(***************************************************************************)
(* Whatever workers, cancels and slots there are, no job runs twice and no *)
(* finish callback is called twice, or before its job has run: a slot used *)
(* again carries another ticket, and cancelling by a stale handle never    *)
(* makes a job run again (thrd_pool_base.c:161-174, 264-299, 505-512).     *)
(***************************************************************************)
THEOREM JobsRunAndReplyOnce == Spec => []AtMostOnce
<1>1. IInv /\ JobInv => AtMostOnce
  BY DEF JobInv
<1>. QED BY <1>1, JobsInvariant, PTL

(***************************************************************************)
(* Whatever workers race for them, jobs leave PENDING in the order in      *)
(* which they were accepted: the grab appends to the list that the worker  *)
(* takes the head of (mem_slot.c:172-214, 507-548).                        *)
(***************************************************************************)
THEOREM JobsStartInOrder == Spec => []NoOvertaking
<1>1. IInv /\ JobInv => NoOvertaking
  BY QueueKeepsOrder DEF JobInv
<1>. QED BY <1>1, JobsInvariant, PTL

-----------------------------------------------------------------------------
(***************************************************************************)
(* No job is lost.  A handle is a slot, and a slot is used again, so the   *)
(* cancel of one job may stop another (the Destroy run shows it does):     *)
(* the claim is about the time before the first cancel.  Until then no     *)
(* cancelled flag is up in a record or in the register of a flag update,   *)
(* so only a job without a result is taken to clean_up, after its          *)
(* callback has run.                                                       *)
(***************************************************************************)
NoCancelYet == cancelled = {} /\ main.pc \notin CancellingPCs

FlagsUntouched == /\ \A s \in SlotIds : ~ rec[s].flags.cancelled
                  /\ \A w \in Workers : ~ wrk[w].flags.cancelled
CleanOf(w) == /\ wrk[w].pc \notin UnrunPCs => ran[Ticket(wrk[w].job)] = 1
              /\ wrk[w].pc \notin UnrunPCs \ {"run"} /\ wrk[w].clean
                    => rec[wrk[w].job].kind # "reply"
              /\ wrk[w].pc = "release" => wrk[w].clean
CleanIsSilent == \A w \in Workers : Owns(w) => CleanOf(w)
HeadTold == Consuming /\ main.pc # "reply" /\ rec[main.head].kind = "reply"
               => replied[Ticket(main.head)] = 1
AccountInv == NoCancelYet => FlagsUntouched /\ CleanIsSilent /\ HeadTold /\ JobAccounted

\* A cancel cannot be undone.
LEMMA StillNoCancel ==
  ASSUME IInv, [Next]_vars, NoCancelYet' PROVE NoCancelYet
<1>0. main \in MainThread
  BY DEF IInv, PoolTypes
<1>1. CASE MainStep /\ main.pc \in CancellingPCs
  <2>1. CancelTest \/ CancelCount \/ CancelLoad \/ CancelMark \/ CancelInFreed \/ CancelStore
    BY <1>1 DEF MainStep, ScanWorker, LaunchMore, GrabJob, GrabFails, FillAndUnlock, SignalCond,
                EnqueueReturn, PointToDone, Reply, CallbackReturn, FreeDone, FlagShutdown,
                JoinAndClean, CancellingPCs
  <2>2. CASE CancelStore
    BY <2>2 DEF CancelStore, NoCancelYet
  <2>3. CASE CancelTest \/ CancelCount \/ CancelLoad \/ CancelMark \/ CancelInFreed
    <3>1. \/ \E pc \in {"add", "load", "mark", "cancel"} : main' = [main EXCEPT !.pc = pc]
          \/ main' = [main EXCEPT !.pc = "cancel", !.flags = rec[main.slot].flags]
      BY <2>3 DEF CancelTest, CancelCount, CancelLoad, CancelMark, CancelInFreed
    <3>. QED BY <1>0, <3>1 DEF MainThread, NoCancelYet, CancellingPCs
  <2>. QED BY <2>1, <2>2, <2>3
<1>2. CASE MainStep /\ main.pc \notin CancellingPCs
  <2>1. ~ (CancelTest \/ CancelCount \/ CancelLoad \/ CancelMark \/ CancelInFreed \/ CancelStore)
    BY <1>2 DEF CancelTest, CancelCount, CancelLoad, CancelMark, CancelInFreed, CancelStore,
                Seeking, CancellingPCs
  <2>2. cancelled' = cancelled
    BY <1>2, <2>1
       DEF MainStep, ScanWorker, LaunchMore, GrabJob, GrabFails, FillAndUnlock, SignalCond,
           EnqueueReturn, PointToDone, Reply, CallbackReturn, FreeDone, FlagShutdown,
           JoinAndClean, clientVars
  <2>. QED BY <1>2, <2>2 DEF NoCancelYet
<1>3. CASE NotifyPipeEventRead \/ ClientCall
  <2>1. ASSUME NEW k, EnqueueStart(k)
        PROVE  cancelled' = cancelled /\ main.pc \in {"idle", "callback"}
    BY <2>1 DEF EnqueueStart, Callable, clientVars
  <2>2. ASSUME NEW x, CancelFind(x)
        PROVE  cancelled' = cancelled /\ main.pc \in {"idle", "callback"}
    BY <2>2 DEF CancelFind, Callable, clientVars
  <2>3. CASE NotifyPipeEventRead \/ DestroyStart
    BY <2>3 DEF NotifyPipeEventRead, DestroyStart, clientVars, NoCancelYet, CancellingPCs
  <2>. QED BY <1>3, <2>1, <2>2, <2>3 DEF ClientCall, NoCancelYet, CancellingPCs
<1>4. CASE \E w \in Workers : WorkerStep(w) \/ SpuriousWakeup(w)
  BY <1>4, WorkerFrame DEF NoCancelYet, AnyWorkerStep
<1>5. CASE UNCHANGED vars
  BY <1>5 DEF vars, NoCancelYet
<1>. QED BY <1>1, <1>2, <1>3, <1>4, <1>5 DEF Next

\* Where the flags of a job come from.
LEMMA WorkerFlags ==
  ASSUME IInv, FlagsUntouched, NEW w \in Workers, AnyWorkerStep(w) PROVE FlagsUntouched'
<1>0. PoolTypes /\ OneOwner /\ wrk \in [Workers -> Worker] /\ rec \in [SlotIds -> Job]
  BY DEF IInv, PoolTypes
<1>1. CASE LoadInUse(w) \/ LoadFinished(w)
  <2>1. PICK next : LoadFlags(w, wrk[w].pc, next) /\ wrk[w].pc \in OwningPCs
    BY <1>1 DEF LoadInUse, LoadFinished, LoadFlags, AtLabel, OwningPCs
  <2>2. wrk[w].job \in SlotIds
    BY <1>0, <2>1, JobOfWorker
  <2>3. /\ rec' = rec
        /\ wrk' = [wrk EXCEPT ![w].flags = rec[wrk[w].job].flags, ![w].pc = next]
    BY <2>1 DEF LoadFlags, poolVars
  <2>4. \A v \in Workers : wrk'[v].flags \in {wrk[v].flags, rec[wrk[w].job].flags}
    BY <1>0, <2>3 DEF Worker
  <2>. QED BY <2>2, <2>3, <2>4 DEF FlagsUntouched
<1>2. CASE ClearInUse(w) \/ SetFinished(w)
  <2>1. PICK f \in {[wrk[w].flags EXCEPT !.in_use = FALSE],
                    [wrk[w].flags EXCEPT !.finished = TRUE]} :
             \E pc : StoreFlags(w, wrk[w].pc, f, pc)
    <3>1. CASE ClearInUse(w)
      BY <3>1 DEF ClearInUse, StoreFlags, AtLabel
    <3>2. CASE SetFinished(w)
      BY <3>2 DEF SetFinished, StoreFlags, AtLabel
    <3>. QED BY <1>2, <3>1, <3>2
  <2>2. /\ rec' = [rec EXCEPT ![wrk[w].job].flags = f]
        /\ \E pc : wrk' = [wrk EXCEPT ![w].flags = NoFlags, ![w].pc = pc]
    BY <2>1 DEF StoreFlags
  <2>3. wrk[w].flags \in Flags
    BY <1>0 DEF Worker
  <2>4. ~ f.cancelled /\ ~ NoFlags.cancelled
    BY <2>3 DEF FlagsUntouched, Flags, NoFlags
  <2>. HIDE DEF NoFlags
  <2>5. \A v \in Workers : wrk'[v].flags \in {wrk[v].flags, NoFlags}
    BY <1>0, <2>2 DEF Worker
  <2>6. \A s \in SlotIds : rec'[s].flags \in {rec[s].flags, f}
    BY <1>0, <2>2 DEF Job
  <2>. QED BY <2>4, <2>5, <2>6 DEF FlagsUntouched
<1>3. CASE ReleaseCount(w)
  <2>1. wrk' = [wrk EXCEPT ![w].pc = "top", ![w].state = "DONE", ![w].job = NoSlot]
    BY <1>3 DEF ReleaseCount
  <2>2. \/ rec' = rec
        \/ rec' = [s \in SlotIds |-> IF s \in InBlock(BlockOf(wrk[w].job)) THEN BlankJob
                                     ELSE rec[s]]
    BY <1>3 DEF ReleaseCount, Uncount
  <2>3. \A v \in Workers : wrk'[v].flags = wrk[v].flags
    BY <1>0, <2>1 DEF Worker
  <2>4. \A s \in SlotIds : rec'[s] \in {rec[s], BlankJob}
    BY <2>2
  <2>5. ~ BlankJob.flags.cancelled
    BY DEF BlankJob, NoFlags
  <2>. QED BY <2>3, <2>4, <2>5 DEF FlagsUntouched
<1>4. ASSUME rec' = rec, \A v \in Workers : wrk'[v].flags = wrk[v].flags
      PROVE  FlagsUntouched'
  BY <1>4 DEF FlagsUntouched
<1>5. ASSUME NEW to, Goto(w, to) PROVE \A v \in Workers : wrk'[v].flags = wrk[v].flags
  BY <1>0, <1>5 DEF Goto, Worker
<1>6. CASE LockCond(w) \/ CheckPending(w) \/ Park(w) \/ SpuriousWakeup(w) \/ UnlockCond(w)
           \/ RunJob(w)
  BY <1>4, <1>5, <1>6 DEF LockCond, CheckPending, Park, SpuriousWakeup, UnlockCond, RunJob, poolVars
<1>11. CASE EnterPublish(w) \/ ReleaseJob(w) \/ ReleaseBit(w)
  BY <1>4, <1>5, <1>11 DEF EnterPublish, ReleaseJob, ReleaseBit, EnterArena
<1>7. CASE LoopTop(w) \/ Exit(w)
  <2>1. rec' = rec /\ \E x \in {"lock", "exited"}, y \in {"FREE", "SHUTDOWN"} :
                         wrk' = [wrk EXCEPT ![w].pc = x, ![w].state = y]
    BY <1>7 DEF LoopTop, Exit, poolVars
  <2>2. \A v \in Workers : wrk'[v].flags = wrk[v].flags
    BY <1>0, <2>1 DEF Worker
  <2>. QED BY <1>4, <2>1, <2>2
<1>8. CASE TakeJob(w)
  <2>1. rec' = rec /\ (wrk' = wrk \/
                       wrk' = [wrk EXCEPT ![w].pc = "unlock", ![w].job = PointToHead(jobs, PENDING)])
    BY <1>8 DEF TakeJob
  <2>2. \A v \in Workers : wrk'[v].flags = wrk[v].flags
    BY <1>0, <2>1 DEF Worker
  <2>. QED BY <1>4, <2>1, <2>2
<1>9. CASE Begin(w)
  <2>. DEFINE c == rec[wrk[w].job].flags.cancelled \/ rec[wrk[w].job].kind = "none"
              p == IF wrk[w].do_shutdown THEN "exit"
                   ELSE IF rec[wrk[w].job].flags.cancelled THEN "load_in_use" ELSE "run"
  <2>1. wrk' = [wrk EXCEPT ![w].state = "BUSY", ![w].clean = c, ![w].pc = p]
    BY <1>9 DEF Begin
  <2>. HIDE DEF c, p
  <2>2. rec' = rec
    BY <1>9 DEF Begin, poolVars
  <2>3. \A v \in Workers : wrk'[v].flags = wrk[v].flags
    BY <1>0, <2>1, SMTT(30) DEF Worker
  <2>. QED BY <1>4, <2>2, <2>3
<1>10. CASE Publish(w) \/ NotifyFinish(w)
  <2>1. /\ rec' = rec
        /\ \/ wrk' = [wrk EXCEPT ![w].pc = "notify"]
           \/ wrk' = [wrk EXCEPT ![w].pc = "top", ![w].state = "DONE", ![w].job = NoSlot]
    BY <1>10 DEF Publish, NotifyFinish, poolVars
  <2>2. \A v \in Workers : wrk'[v].flags = wrk[v].flags
    BY <1>0, <2>1 DEF Worker
  <2>. QED BY <1>4, <2>1, <2>2
<1>. QED BY <1>1, <1>2, <1>3, <1>6, <1>7, <1>8, <1>9, <1>10, <1>11 DEF AnyWorkerStep, WorkerStep

LEMMA MainFlags ==
  ASSUME IInv, FlagsUntouched, MainStep \/ NotifyPipeEventRead \/ ClientCall, cancelled' = {}
  PROVE  FlagsUntouched'
<1>0. /\ PoolTypes /\ MainLocals /\ wrk \in [Workers -> Worker] /\ rec \in [SlotIds -> Job]
  BY DEF IInv, PoolTypes
<1>1. ASSUME \A s \in SlotIds : rec'[s] = rec[s] \/ ~ rec'[s].flags.cancelled,
             \A w \in Workers : wrk'[w].flags = wrk[w].flags
      PROVE  FlagsUntouched'
  BY <1>1 DEF FlagsUntouched
<1>2. ASSUME rec' = rec, wrk' = wrk PROVE FlagsUntouched'
  BY <1>2 DEF FlagsUntouched
<1>3. ~ BlankJob.flags.cancelled
  BY DEF BlankJob, NoFlags
<1>4. CASE ScanWorker \/ GrabJob \/ GrabFails \/ EnqueueReturn \/ PointToDone \/ Reply
           \/ CallbackReturn \/ NotifyPipeEventRead
  BY <1>2, <1>4 DEF ScanWorker, GrabJob, GrabFails, EnqueueReturn, PointToDone, Reply,
        CallbackReturn, NotifyPipeEventRead, poolVars
<1>13. CASE ClientCall
  <2>1. ASSUME NEW k, EnqueueStart(k) PROVE rec' = rec /\ wrk' = wrk
    BY <2>1 DEF EnqueueStart, poolVars
  <2>2. ASSUME NEW x, CancelFind(x) PROVE rec' = rec /\ wrk' = wrk
    BY <2>2 DEF CancelFind
  <2>3. CASE DestroyStart
    BY <1>2, <2>3 DEF DestroyStart, poolVars
  <2>. QED BY <1>2, <1>13, <2>1, <2>2, <2>3 DEF ClientCall
<1>12. CASE CancelTest \/ CancelCount \/ CancelLoad \/ CancelMark \/ CancelInFreed
  BY <1>2, <1>12 DEF CancelTest, CancelCount, CancelLoad, CancelMark, CancelInFreed, poolVars
<1>5. CASE LaunchMore
  <2>1. PICK failed : rec' = rec /\ wrk' = Launched(launched, launched', failed)
    BY <1>5 DEF LaunchMore, poolVars
  <2>3. /\ launched \in 0 .. WorkerMax + 1 /\ launched' \in 0 .. WorkerMax + 1
        /\ WorkerMax \in Nat
    BY <1>5, ThreadPoolAssumption DEF LaunchMore, LaunchTo, Lowest, IInv, PoolTypes
  <2>2. \A w \in Workers : wrk'[w].flags = wrk[w].flags
    BY <1>0, <2>1, <2>3, LaunchedTypes
  <2>. QED BY <1>1, <2>1, <2>2
<1>6. CASE SignalCond
  <2>1. rec' = rec /\ (wrk' = wrk \/ \E w \in Waiting : wrk' = [wrk EXCEPT ![w].pc = "lock"])
    BY <1>6 DEF SignalCond, poolVars
  <2>2. \A w \in Workers : wrk'[w].flags = wrk[w].flags
    BY <1>0, <2>1 DEF Worker
  <2>. QED BY <1>1, <2>1, <2>2
<1>7. CASE FlagShutdown
  <2>1. rec' = rec /\ (wrk' = wrk \/ wrk' = [wrk EXCEPT ![main.scan].do_shutdown = TRUE])
    BY <1>7 DEF FlagShutdown, poolVars
  <2>2. \A w \in Workers : wrk'[w].flags = wrk[w].flags
    BY <1>0, <2>1 DEF Worker
  <2>. QED BY <1>1, <2>1, <2>2
<1>8. CASE JoinAndClean
  <2>1. /\ rec' = [s \in SlotIds |-> BlankJob]
        /\ wrk' = [w \in Workers |-> [wrk[w] EXCEPT !.job = NoSlot]]
    BY <1>8 DEF JoinAndClean
  <2>2. \A w \in Workers : wrk'[w].flags = wrk[w].flags
    BY <1>0, <2>1 DEF Worker
  <2>. QED BY <1>1, <1>3, <2>1, <2>2
<1>9. CASE FillAndUnlock
  <2>. DEFINE j == [flags |-> [NoFlags EXCEPT !.in_use = TRUE],
                    kind |-> main.kind, ticket |-> Len(accepted) + 1]
  <2>1. rec' = [rec EXCEPT ![main.slot] = j] /\ wrk' = wrk
    BY <1>9 DEF FillAndUnlock
  <2>2. ~ j.flags.cancelled
    BY DEF NoFlags
  <2>. HIDE DEF j
  <2>3. \A s \in SlotIds : rec'[s] \in {rec[s], j}
    BY <1>0, <2>1
  <2>. QED BY <1>1, <2>1, <2>2, <2>3
<1>10. CASE CancelStore
  <2>1. main.ticket \in cancelled'
    BY <1>10 DEF CancelStore
  <2>. QED BY <2>1
<1>11. CASE FreeDone
  <2>1. /\ wrk' = wrk
        /\ \/ rec' = rec
           \/ rec' = [s \in SlotIds |-> IF s \in InBlock(BlockOf(main.head)) THEN BlankJob
                                        ELSE rec[s]]
    BY <1>11 DEF FreeDone, FreeJob, Uncount
  <2>2. \A s \in SlotIds : rec'[s] \in {rec[s], BlankJob}
    BY <2>1
  <2>. QED BY <1>1, <1>3, <2>1, <2>2
<1>. QED BY <1>4, <1>5, <1>6, <1>7, <1>8, <1>9, <1>10, <1>11, <1>12, <1>13 DEF MainStep

(***************************************************************************)
(* Accounting: a step keeps what was accounted for if every ticket in the  *)
(* pool stays there or has had all that is due.                            *)
(***************************************************************************)
Served(t) == ran[t] = 1 /\ (accepted[t] = "reply" => replied[t] = 1)

LEMMA AccountKept ==
  ASSUME IInv, IInv', JobAccounted, AtMostOnce', accepted' = accepted, cancelled = {},
         main.pc = "gone" => main'.pc = "gone",
         \A t \in Tickets : ran'[t] >= ran[t] /\ replied'[t] >= replied[t],
         main'.pc # "gone" => \A t \in InPool : t \in InPool' \/ Served(t)'
  PROVE  JobAccounted'
<1>. SUFFICES ASSUME main'.pc # "gone", NEW t \in 1 .. Len(accepted)
              PROVE  t \in InPool' \/ Served(t)'
  BY DEF JobAccounted, Served
<1>1. t \in Tickets
  BY QueueFacts
<1>2. t \in InPool \/ Served(t)
  BY DEF JobAccounted, Served
<1>3. CASE t \in InPool
  BY <1>3
<1>4. CASE Served(t)
  <2>1. ran'[t] \in Nat /\ replied'[t] \in Nat
    BY <1>1 DEF IInv, PoolTypes
  <2>2. ran'[t] <= 1 /\ replied'[t] <= ran'[t]
    BY DEF AtMostOnce
  <2>3. ran'[t] >= 1 /\ (accepted[t] = "reply" => replied'[t] >= 1)
    BY <1>1, <1>4 DEF Served
  <2>. QED BY <2>1, <2>2, <2>3 DEF Served
<1>. QED BY <1>2, <1>3, <1>4

\* The pool holds the same tickets after a step that moves no filled slot.
LEMMA PoolKept ==
  ASSUME IInv, jobs'.list = jobs.list, SameJobs, Unfilled' = Unfilled
  PROVE  InPool' = InPool
<1>1. \A l \in {PENDING, WORKING, DONE} :
         OnList(jobs', l) = OnList(jobs, l) /\ OnList(jobs, l) \subseteq SlotIds
  BY ListsExist, OnListIsSlot DEF OnList, IInv, SlotsWellFormed
<1>2. \A l \in {PENDING, WORKING, DONE} : TicketsOn(l)' = TicketsOn(l)
  <2>. TAKE l \in {PENDING, WORKING, DONE}
  <2>1. TicketsOn(l)' = {rec'[s].ticket : s \in OnList(jobs', l) \ Unfilled'}
    BY DEF TicketsOn
  <2>2. \A s \in OnList(jobs, l) : rec'[s].ticket = rec[s].ticket
    BY <1>1 DEF SameJobs, SameJob
  <2>. QED BY <1>1, <2>1, <2>2 DEF TicketsOn
<1>. QED BY <1>2 DEF InPool

(***************************************************************************)
(* The worker's steps keep the accounts.                                   *)
(***************************************************************************)
AccountParts == FlagsUntouched /\ CleanIsSilent /\ HeadTold /\ JobAccounted

\* The workers that do not move, the reply under way.
LEMMA OthersClean ==
  ASSUME IInv, CleanIsSilent, NEW w \in Workers, NEW v \in Workers \ {w}, wrk'[v] = wrk[v],
         Owns(v)', SameJob(wrk[v].job),
         ran'[Ticket(wrk[v].job)] = ran[Ticket(wrk[v].job)]
  PROVE  CleanOf(v)'
<1>1. Owns(v) /\ CleanOf(v)
  BY DEF Owns, CleanIsSilent
<1>. QED BY <1>1 DEF CleanOf, SameJob, Ticket

LEMMA HeadStillTold ==
  ASSUME HeadTold, main' = main, replied' = replied, Consuming => SameJob(main.head)
  PROVE  HeadTold'
BY DEF HeadTold, Consuming, SameJob, Ticket

LEMMA SilentAccount ==
  ASSUME IInv, IInv', JobInv, JobInv', AccountParts, cancelled = {},
         NEW w \in Workers, AnyWorkerStep(w), jobs'.list = jobs.list, SameJobs,
         \A v \in Workers \ {w} : wrk'[v] = wrk[v],
         Owns(w)' => CleanOf(w)',
         \A t \in Tickets : ran'[t] >= ran[t],
         \A v \in Workers \ {w} : Owns(v) =>
             ran'[Ticket(wrk[v].job)] = ran[Ticket(wrk[v].job)]
  PROVE  CleanIsSilent' /\ HeadTold' /\ JobAccounted'
<1>1. main' = main /\ accepted' = accepted /\ replied' = replied
  BY WorkerFrame
<1>2. \A v \in Workers : Owns(v) => wrk[v].job \in SlotIds
  BY QueueFacts DEF IInv, OneOwner, Begun
<1>3. \A v \in Workers \ {w} : Owns(v)' => Owns(v)
  BY DEF Owns
<1>4. CleanIsSilent'
  BY <1>2, <1>3, OthersClean DEF CleanIsSilent, AccountParts, SameJobs
<1>5. HeadTold'
  BY <1>1, HeadStillTold DEF AccountParts, SameJobs, IInv, MainLocals
<1>6. InPool' = InPool
  BY <1>1, PoolKept DEF Unfilled
<1>7. \A t \in Tickets : replied'[t] >= replied[t]
  BY <1>1 DEF IInv, PoolTypes
<1>8. JobAccounted'
  BY <1>1, <1>6, <1>7, AccountKept DEF AccountParts, JobInv
<1>. QED BY <1>4, <1>5, <1>8

LEMMA IdleAccount ==
  ASSUME IInv, IInv', JobInv, JobInv', AccountParts, cancelled = {}, NEW w \in Workers,
         \/ LoopTop(w) \/ LockCond(w) \/ CheckPending(w) \/ Park(w) \/ SpuriousWakeup(w)
         \/ NotifyFinish(w)
         \/ TakeJob(w) /\ IsEmptyList(jobs, PENDING)
  PROVE  CleanIsSilent' /\ HeadTold' /\ JobAccounted'
<1>0. PoolTypes /\ AnyWorkerStep(w) /\ ran \in [Tickets -> Nat]
  BY DEF IInv, PoolTypes, AnyWorkerStep, WorkerStep
<1>1. jobs' = jobs /\ ran' = ran /\ SameJobs
  BY DEF LoopTop, LockCond, CheckPending, Park, SpuriousWakeup, NotifyFinish, TakeJob,
         NoClientChange, clientVars, poolVars, SameJobs, SameJob
<1>2. \A t \in Tickets : ran'[t] >= ran[t]
  BY <1>0, <1>1
<1>3. CASE TakeJob(w) /\ IsEmptyList(jobs, PENDING)
  <2>1. wrk' = wrk /\ rec' = rec
    BY <1>3 DEF TakeJob
  <2>2. Owns(w)' => CleanOf(w)'
    BY <1>1, <2>1 DEF Owns, CleanOf, AccountParts, CleanIsSilent, Ticket
  <2>. QED BY <1>0, <1>1, <1>2, <2>1, <2>2, SilentAccount
<1>4. CASE \/ LoopTop(w) \/ LockCond(w) \/ CheckPending(w) \/ Park(w)
           \/ SpuriousWakeup(w) \/ NotifyFinish(w)
  <2>1. \A v \in Workers \ {w} : wrk'[v] = wrk[v]
    BY <1>0, <1>4, LoopTopMoves, LockCondMoves, CheckPendingMoves, ParkMoves,
       SpuriousWakeupMoves, NotifyFinishMoves DEF KeepsJob, Moves
  <2>2. wrk'[w].pc \in {"top", "lock", "check", "park", "take", "waiting"}
    BY <1>0, <1>4, LoopTopMoves, LockCondMoves, CheckPendingMoves, ParkMoves,
       SpuriousWakeupMoves, NotifyFinishMoves DEF KeepsJob, Moves
  <2>3. ~ Owns(w)'
    BY <2>2 DEF Owns, OwningPCs
  <2>. QED BY <1>0, <1>1, <1>2, <2>1, <2>3, SilentAccount
<1>. QED BY <1>3, <1>4

LEMMA OnTheWayAccount ==
  ASSUME IInv, IInv', JobInv, JobInv', AccountParts, cancelled = {}, NEW w \in Workers,
         \/ UnlockCond(w) \/ Begin(w) \/ LoadInUse(w) \/ ClearInUse(w) \/ LoadFinished(w)
         \/ SetFinished(w) \/ EnterPublish(w) \/ Exit(w)
  PROVE  CleanIsSilent' /\ HeadTold' /\ JobAccounted'
<1>. DEFINE s == wrk[w].job
<1>0. /\ PoolTypes /\ OneOwner /\ AnyWorkerStep(w) /\ wrk \in [Workers -> Worker]
      /\ ran \in [Tickets -> Nat]
  BY DEF IInv, AnyWorkerStep, WorkerStep, PoolTypes
<1>1. jobs' = jobs /\ ran' = ran
  BY DEF UnlockCond, Begin, LoadInUse, ClearInUse, LoadFinished, SetFinished, LoadFlags,
         StoreFlags, EnterPublish, EnterArena, Exit, NoClientChange, clientVars, poolVars
<1>2. wrk[w].pc \in OwningPCs
  BY DEF UnlockCond, Begin, LoadInUse, ClearInUse, LoadFinished, SetFinished, LoadFlags,
         StoreFlags, EnterPublish, Exit, AtLabel, OwningPCs
<1>3. CleanOf(w) /\ s \in SlotIds /\ ~ rec[s].flags.cancelled
  BY <1>0, <1>2, JobOfWorker DEF AccountParts, CleanIsSilent, FlagsUntouched, Owns
<1>4. SameJobs
  <2>1. CASE rec' = rec
    BY <2>1 DEF SameJobs, SameJob
  <2>2. CASE ClearInUse(w) \/ SetFinished(w)
    <3>1. PICK f : rec' = [rec EXCEPT ![wrk[w].job].flags = f]
      BY <2>2 DEF ClearInUse, SetFinished, StoreFlags
    <3>2. rec \in [SlotIds -> Job]
      BY <1>0 DEF PoolTypes
    <3>. QED BY <3>1, <3>2 DEF SameJobs, SameJob, Job
  <2>3. UnlockCond(w) \/ Begin(w) \/ LoadInUse(w) \/ LoadFinished(w) \/ EnterPublish(w) \/ Exit(w)
           => rec' = rec
    BY DEF UnlockCond, Begin, LoadInUse, LoadFinished, LoadFlags, EnterPublish, EnterArena, Exit,
           poolVars
  <2>. QED BY <2>1, <2>2, <2>3
<1>g. ASSUME \A v \in Workers \ {w} : wrk'[v] = wrk[v], wrk'[w].job = s,
             wrk'[w].pc \notin UnrunPCs => wrk[w].pc \notin UnrunPCs,
             \/ wrk'[w].pc \in UnrunPCs \ {"run"}
             \/ wrk[w].pc \notin UnrunPCs \ {"run"} /\ wrk'[w].clean = wrk[w].clean
             \/ wrk'[w].clean => rec[s].kind # "reply",
             wrk'[w].pc = "release" => wrk'[w].clean
      PROVE  CleanIsSilent' /\ HeadTold' /\ JobAccounted'
  <2>1. SameJob(s)
    BY <1>3, <1>4 DEF SameJobs
  <2>2. CleanOf(w)'
    BY <1>g, <1>1, <1>3, <2>1 DEF CleanOf, SameJob, Ticket
  <2>3. \A t \in Tickets : ran'[t] >= ran[t]
    BY <1>0, <1>1
  <2>4. \A v \in Workers \ {w} : ran'[Ticket(wrk[v].job)] = ran[Ticket(wrk[v].job)]
    BY <1>1
  <2>5. jobs'.list = jobs.list /\ AnyWorkerStep(w)
    BY <1>0, <1>1
  <2>6. \A v \in Workers \ {w} : wrk'[v] = wrk[v]
    BY <1>g
  <2>. QED BY <1>4, <2>2, <2>3, <2>4, <2>5, <2>6, SilentAccount
<1>. USE DEF UnrunPCs, AtLabel
<1>5. CASE UnlockCond(w)
  <2>1. KeepsJob(w, "unlock", {"begin"})
    BY <1>0, <1>5, UnlockCondMoves
  <2>. QED BY <1>g, <2>1 DEF KeepsJob, Moves
<1>6. CASE Begin(w)
  <2>1. KeepsJob(w, "begin", {"exit", "load_in_use", "run"}) /\ wrk[w].pc = "begin"
    BY <1>0, <1>6, BeginMoves DEF KeepsJob, Moves
  <2>2. wrk[w] \in Worker
    BY <1>0
  <2>3. /\ wrk'[w].clean => rec[s].kind = "none"
        /\ wrk'[w].pc \in {"exit", "run"}
    BY <1>0, <1>3, <1>6, <2>2 DEF Begin, Worker
  <2>. QED BY <1>g, <2>1, <2>3 DEF KeepsJob, Moves
<1>7. CASE LoadInUse(w) \/ ClearInUse(w) \/ LoadFinished(w) \/ SetFinished(w)
  <2>1. /\ wrk[w].pc \notin UnrunPCs
        /\ KeepsJob(w, wrk[w].pc, {"store_in_use", "load_finished", "store_finished",
                                   "release", "publish"})
    BY <1>0, <1>7, FlagMoves DEF KeepsJob, Moves
  <2>2. wrk'[w].clean = wrk[w].clean
    BY <1>0, <1>7 DEF LoadInUse, ClearInUse, LoadFinished, SetFinished, LoadFlags, StoreFlags,
                      Worker
  <2>3. wrk'[w].pc = "release" => wrk[w].clean
    <3>1. CASE SetFinished(w)
      <4>. DEFINE next == IF wrk[w].clean THEN "release" ELSE "publish"
      <4>1. wrk' = [wrk EXCEPT ![w].flags = NoFlags, ![w].pc = next]
        BY <3>1 DEF SetFinished, StoreFlags
      <4>. HIDE DEF next
      <4>2. wrk'[w].pc = next
        BY <1>0, <4>1 DEF Worker
      <4>. QED BY <4>2 DEF next
    <3>2. CASE LoadInUse(w) \/ ClearInUse(w) \/ LoadFinished(w)
      BY <1>0, <3>2, FlagMoves DEF KeepsJob, Moves
    <3>. QED BY <1>7, <3>1, <3>2
  <2>. QED BY <1>g, <2>1, <2>2, <2>3 DEF KeepsJob, Moves
<1>8. CASE Exit(w)
  <2>1. KeepsJob(w, "exit", {"exited"})
    BY <1>0, <1>8, ExitMoves
  <2>. QED BY <1>g, <2>1 DEF KeepsJob, Moves
<1>9. CASE EnterPublish(w)
  <2>1. KeepsJob(w, "publish", {"switch"}) /\ wrk[w].pc = "publish" /\ wrk'[w].clean = wrk[w].clean
    BY <1>0, <1>9, EnterPublishMoves DEF EnterPublish, EnterArena, Goto, Worker
  <2>. QED BY <1>g, <2>1 DEF KeepsJob, Moves
<1>. QED BY <1>5, <1>6, <1>7, <1>8, <1>9

LEMMA RunJobAccount ==
  ASSUME IInv, IInv', JobInv, JobInv', AccountParts, cancelled = {}, NEW w \in Workers,
         RunJob(w)
  PROVE  CleanIsSilent' /\ HeadTold' /\ JobAccounted'
<1>. DEFINE s == wrk[w].job
            t == Ticket(s)
<1>0. /\ PoolTypes /\ OneOwner /\ AnyWorkerStep(w) /\ wrk \in [Workers -> Worker]
      /\ ran \in [Tickets -> Nat]
  BY DEF IInv, AnyWorkerStep, WorkerStep, PoolTypes
<1>1. /\ KeepsJob(w, "run", {"load_in_use"}) /\ jobs' = jobs /\ rec' = rec
      /\ ran' = [ran EXCEPT ![t] = ran[t] + 1] /\ wrk[w].pc = "run"
      /\ wrk'[w] = [wrk[w] EXCEPT !.pc = "load_in_use"]
  BY <1>0, RunJobMoves DEF RunJob, poolVars, Ticket, AtLabel, Goto, PoolTypes
<1>2. Owns(w) /\ s \in OnList(jobs, WORKING) /\ CleanOf(w) /\ ToldOf(w)
  BY <1>0, <1>1
     DEF Owns, OwningPCs, OneOwner, AccountParts, CleanIsSilent, JobInv, StagesTold
<1>3. s \in Begun /\ t \in Tickets /\ ran[t] = 0
  <2>1. s \in Begun /\ ran[t] = 0
    BY <1>1, <1>2 DEF Begun, ToldOf, UnrunPCs
  <2>2. t \in 1 .. Len(accepted)
    BY <2>1, QueueFacts DEF JobInv, TicketsExact, QueueInOrder, Fresh, Taken
  <2>. QED BY <2>1, <2>2, QueueFacts
<1>. HIDE DEF t
<1>4. ran'[t] = 1 /\ \A u \in Tickets \ {t} : ran'[u] = ran[u]
  BY <1>0, <1>1, <1>3
<1>5. CleanOf(w)'
  <2>1. Ticket(wrk[w].job)' = t /\ rec'[wrk'[w].job].kind = rec[s].kind
        /\ wrk'[w].clean = wrk[w].clean /\ wrk'[w].pc = "load_in_use"
    BY <1>0, <1>1 DEF KeepsJob, Moves, Ticket, t, Worker
  <2>. QED BY <1>1, <1>2, <1>4, <2>1 DEF CleanOf, UnrunPCs
<1>6. \A u \in Tickets : ran'[u] >= ran[u]
  BY <1>0, <1>3, <1>4
<1>7. ASSUME NEW v \in Workers \ {w}, Owns(v)
      PROVE  ran'[Ticket(wrk[v].job)] = ran[Ticket(wrk[v].job)]
  <2>1. wrk[v].job \in Begun /\ wrk[v].job # s
    BY <1>0, <1>2, <1>7 DEF OneOwner, Begun
  <2>2. Ticket(wrk[v].job) # t
    BY <1>3, <2>1 DEF JobInv, TicketsExact, t
  <2>3. Ticket(wrk[v].job) \in Tickets
    BY <2>1, QueueFacts DEF JobInv, TicketsExact, QueueInOrder, Fresh, Taken
  <2>. QED BY <1>4, <2>2, <2>3
<1>8. SameJobs /\ \A v \in Workers \ {w} : wrk'[v] = wrk[v]
  BY <1>1 DEF SameJobs, SameJob, KeepsJob, Moves
<1>. QED BY <1>0, <1>1, <1>5, <1>6, <1>7, <1>8, SilentAccount

(***************************************************************************)
(* Steps that move a slot from list to list: a ticket stays in the pool    *)
(* with its slot, or it was served.                                        *)
(***************************************************************************)
Filled == (OnList(jobs, PENDING) \cup OnList(jobs, WORKING) \cup OnList(jobs, DONE)) \ Unfilled

LEMMA PoolIsFilled == InPool = {Ticket(s) : s \in Filled}
BY DEF InPool, TicketsOn, Filled, Ticket

LEMMA PoolIsFilledNext == InPool' = {rec'[s].ticket : s \in Filled'}
BY DEF InPool, TicketsOn, Filled

LEMMA PoolMoves ==
  ASSUME NEW x, NEW u, u = Ticket(x), Filled \subseteq Filled' \cup {x},
         \A s \in Filled : s \in Filled' => SameJob(s),
         x \in Filled' \/ Served(u)'
  PROVE  \A t \in InPool : t \in InPool' \/ Served(t)'
<1>. TAKE t \in InPool
<1>1. InPool' = {rec'[s].ticket : s \in Filled'}
  BY PoolIsFilledNext
<1>2. PICK s \in Filled : t = Ticket(s)
  BY PoolIsFilled
<1>3. CASE s \in Filled'
  BY <1>1, <1>2, <1>3 DEF SameJob, Ticket
<1>4. CASE s \notin Filled'
  BY <1>2, <1>4
<1>. QED BY <1>3, <1>4

LEMMA MovedAccount ==
  ASSUME IInv, IInv', JobInv, JobInv', AccountParts, cancelled = {},
         NEW w \in Workers, AnyWorkerStep(w), ran' = ran,
         \A v \in Workers \ {w} : wrk'[v] = wrk[v],
         \A v \in Workers \ {w} : Owns(v) => SameJob(wrk[v].job),
         Owns(w)' => CleanOf(w)',
         Consuming => SameJob(main.head),
         \A t \in InPool : t \in InPool' \/ Served(t)'
  PROVE  CleanIsSilent' /\ HeadTold' /\ JobAccounted'
<1>1. main' = main /\ accepted' = accepted /\ replied' = replied
  BY WorkerFrame
<1>2. \A v \in Workers \ {w} : Owns(v)' => Owns(v)
  BY DEF Owns
<1>3. CleanIsSilent'
  BY <1>2, OthersClean DEF CleanIsSilent, AccountParts
<1>4. HeadTold'
  BY <1>1, HeadStillTold DEF AccountParts
<1>5. \A t \in Tickets : ran'[t] >= ran[t] /\ replied'[t] >= replied[t]
  BY <1>1 DEF IInv, PoolTypes
<1>6. JobAccounted'
  BY <1>1, <1>5, AccountKept DEF AccountParts, JobInv
<1>. QED BY <1>3, <1>4, <1>6

LEMMA TakeJobAccount ==
  ASSUME IInv, IInv', JobInv, JobInv', AccountParts, cancelled = {}, NEW w \in Workers,
         TakeJob(w), ~ IsEmptyList(jobs, PENDING)
  PROVE  CleanIsSilent' /\ HeadTold' /\ JobAccounted'
<1>. DEFINE s == PointToHead(jobs, PENDING)
<1>0. /\ PoolTypes /\ OneOwner /\ AnyWorkerStep(w) /\ WellFormed(jobs) /\ SlotsWellFormed
      /\ Locks
  BY DEF IInv, AnyWorkerStep, WorkerStep, SlotsWellFormed
<1>1. main' = main
  BY <1>0, WorkerFrame
<1>2. /\ wrk'[w].pc = "unlock" /\ wrk'[w].job = s
      /\ \A v \in Workers \ {w} : wrk'[v] = wrk[v]
      /\ jobs' = HeadSwitch(jobs, PENDING, WORKING) /\ rec' = rec /\ ran' = ran
  BY <1>0, TakeJobMoves DEF Moves, TakeJob, NoClientChange, clientVars
<1>3. Unfilled = {} /\ Unfilled' = {}
  BY <1>0, <1>1 DEF TakeJob, Locks, Main, NoOne, Unfilled
<1>4. Filled \subseteq Filled'
  <2>1. /\ PENDING \in ListIds /\ WORKING \in ListIds /\ DONE \in ListIds
        /\ DONE \notin {PENDING, WORKING} /\ PENDING # WORKING
    BY ListsExist DEF PENDING, WORKING, DONE
  <2>2. ~ IsEmptyList(jobs, PENDING)
    OBVIOUS
  <2>3. /\ OnList(jobs', WORKING) = OnList(jobs, WORKING) \cup {s}
        /\ OnList(jobs', PENDING) = OnList(jobs, PENDING) \ {s}
    BY <1>0, <1>2, <2>1, <2>2, HeadSwitchWF
  <2>4. OnList(jobs', DONE) = OnList(jobs, DONE)
    BY <1>0, <1>2, <2>1, <2>2, HeadSwitchWF DEF OnList
  <2>. HIDE DEF s
  <2>. QED BY <1>3, <2>3, <2>4 DEF Filled
<1>. HIDE DEF s
<1>5. \A t \in InPool : t \in InPool' \/ Served(t)'
  BY <1>2, <1>4, PoolIsFilled, PoolIsFilledNext DEF Ticket
<1>6. CleanOf(w)'
  BY <1>2 DEF CleanOf, UnrunPCs
<1>7. \A x : SameJob(x)
  BY <1>2 DEF SameJob
<1>. QED BY <1>0, <1>2, <1>5, <1>6, <1>7, MovedAccount

LEMMA PublishAccount ==
  ASSUME IInv, IInv', ArenaSteps, JobInv, JobInv', AccountParts, cancelled = {},
         NEW w \in Workers, Publish(w)
  PROVE  CleanIsSilent' /\ HeadTold' /\ JobAccounted'
<1>. DEFINE s == wrk[w].job
<1>0. PoolTypes /\ OneOwner /\ AnyWorkerStep(w) /\ WellFormed(jobs) /\ SlotsWellFormed
  BY DEF IInv, AnyWorkerStep, WorkerStep, SlotsWellFormed
<1>1. main' = main
  BY <1>0, WorkerFrame
<1>2. /\ wrk[w].pc = "switch" /\ wrk'[w].pc \in {"notify", "top"}
      /\ \A v \in Workers \ {w} : wrk'[v] = wrk[v]
      /\ rec' = rec /\ ran' = ran
  <2>1. rec' = rec /\ ran' = ran
    BY DEF Publish, NoClientChange, clientVars
  <2>2. Moves(w, "switch", {IF Notify THEN "notify" ELSE "top"})
    BY <1>0, PublishMoves
  <2>. QED BY <2>1, <2>2 DEF Moves
<1>3. ~ Owns(w)' /\ s \in OnList(jobs, WORKING)
  BY <1>0, <1>2 DEF Owns, OwningPCs, OneOwner
<1>4. /\ PENDING \in ListIds /\ WORKING \in ListIds /\ DONE \in ListIds
      /\ PENDING # WORKING /\ DONE \notin {PENDING, WORKING}
  BY ListsExist DEF PENDING, WORKING, DONE
<1>6. /\ OnList(jobs', WORKING) = OnList(jobs, WORKING) \ {s}
      /\ OnList(jobs', DONE) = OnList(jobs, DONE) \cup {s}
      /\ OnList(jobs', PENDING) = OnList(jobs, PENDING)
  BY <1>0, <1>3, PublishSwitches DEF OnList
<1>. HIDE DEF s
<1>7. Filled \subseteq Filled'
  <2>1. Unfilled' = Unfilled
    BY <1>1 DEF Unfilled
  <2>2. OnList(jobs, PENDING) \cup OnList(jobs, WORKING) \cup OnList(jobs, DONE)
           \subseteq OnList(jobs', PENDING) \cup OnList(jobs', WORKING) \cup OnList(jobs', DONE)
    BY <1>3, <1>6
  <2>. QED BY <2>1, <2>2 DEF Filled
<1>8. \A t \in InPool : t \in InPool' \/ Served(t)'
  BY <1>2, <1>7, PoolIsFilled, PoolIsFilledNext DEF Ticket
<1>9. \A x : SameJob(x)
  BY <1>2 DEF SameJob
<1>. QED BY <1>0, <1>2, <1>3, <1>8, <1>9, MovedAccount

\* A job that leaves through clean_up has run and has no reply due.
LEMMA ReleaseAccount ==
  ASSUME IInv, IInv', JobInv, JobInv', AccountParts, cancelled = {}, NEW w \in Workers,
         ReleaseJob(w)
  PROVE  CleanIsSilent' /\ HeadTold' /\ JobAccounted'
<1>. PICK s : s = wrk[w].job
  OBVIOUS
<1>. PICK u : u = Ticket(s)
  OBVIOUS
<1>0. PoolTypes /\ OneOwner /\ AnyWorkerStep(w) /\ WellFormed(jobs) /\ SlotsWellFormed
  BY DEF IInv, AnyWorkerStep, WorkerStep, SlotsWellFormed
<1>1. main' = main /\ accepted' = accepted
  BY <1>0, WorkerFrame
<1>2. /\ wrk[w].pc = "release" /\ wrk'[w].pc = "clear"
      /\ \A v \in Workers \ {w} : wrk'[v] = wrk[v]
      /\ ran' = ran
  BY <1>0, ReleaseMoves DEF KeepsJob, Moves, ReleaseJob, EnterArena, NoClientChange, clientVars
<1>3. Owns(w) /\ ~ Owns(w)' /\ s \in OnList(jobs, WORKING)
  BY <1>0, <1>2 DEF Owns, OwningPCs, OneOwner
<1>4. /\ PENDING \in ListIds /\ WORKING \in ListIds /\ DONE \in ListIds
      /\ PENDING # WORKING /\ DONE \notin {PENDING, WORKING}
  BY ListsExist DEF PENDING, WORKING, DONE
<1>5. Served(u)'
  <2>1. ran[u] = 1 /\ rec[s].kind # "reply"
    BY <1>2, <1>3 DEF AccountParts, CleanIsSilent, CleanOf, UnrunPCs
  <2>2. rec[s].kind = accepted[u]
    BY <1>3 DEF JobInv, TicketsExact, KindKept, Begun, Ticket
  <2>. QED BY <1>1, <1>2, <2>1, <2>2 DEF Served
<1>6. Frees(s) /\ rec' = rec
  BY <1>0, <1>3, <1>4, ReleaseJobFrees, OnListIsSlot
<1>7. \A l \in ListIds : OnList(jobs', l) = OnList(jobs, l) \ {s}
  BY <1>6 DEF Frees
<1>8. Filled' = Filled \ {s}
  BY <1>1, <1>4, <1>7 DEF Filled, Unfilled
<1>9. \A l \in ListIds : \A x \in OnList(jobs', l) : SameJob(x)
  BY <1>6 DEF SameJob
<1>10. \A x \in Filled' : SameJob(x)
  BY <1>4, <1>9 DEF Filled
<1>11. \A t \in InPool : t \in InPool' \/ Served(t)'
  BY <1>5, <1>8, <1>10, PoolMoves
<1>12. ASSUME NEW v \in Workers \ {w}, Owns(v) PROVE SameJob(wrk[v].job)
  <2>1. wrk[v].job \in OnList(jobs, WORKING) /\ wrk[v].job # s
    BY <1>0, <1>3, <1>12 DEF OneOwner
  <2>. QED BY <2>1, <1>4, <1>7, <1>9
<1>13. Consuming => SameJob(main.head)
  <2>. SUFFICES ASSUME Consuming PROVE SameJob(main.head)
    OBVIOUS
  <2>1. main.head \in OnList(jobs, DONE)
    BY DoneHead
  <2>2. main.head # s
    BY <1>0, <1>3, <1>4, <2>1, ListsDisjoint
  <2>. QED BY <2>1, <2>2, <1>4, <1>7, <1>9
<1>. QED BY <1>0, <1>2, <1>3, <1>11, <1>12, <1>13, MovedAccount

\* The steps in the arena move no job.
LEMMA InArenaAccount ==
  ASSUME IInv, IInv', JobInv, JobInv', AccountParts, cancelled = {}, NEW w \in Workers,
         ReleaseBit(w) \/ ReleaseCount(w)
  PROVE  CleanIsSilent' /\ HeadTold' /\ JobAccounted'
<1>0. /\ PoolTypes /\ OneOwner /\ AnyWorkerStep(w) /\ WellFormed(jobs) /\ WellFormed(jobs')
  BY DEF IInv, AnyWorkerStep, WorkerStep, SlotsWellFormed
<1>1. main' = main
  BY <1>0, WorkerFrame
<1>2. /\ ~ Owns(w)' /\ \A v \in Workers \ {w} : wrk'[v] = wrk[v]
  BY <1>0, ReleaseMoves DEF KeepsJob, Moves, Owns, OwningPCs
<1>3. /\ ran' = ran /\ jobs'.list = jobs.list /\ \A x \in Allocated(jobs') : SameJob(x)
  <2>1. CASE ReleaseBit(w)
    BY <2>1, <1>0 DEF ReleaseBit, NoClientChange, clientVars, WellFormed, Pool, SameJob
  <2>2. CASE ReleaseCount(w)
    <3>1. Uncount(BlockOf(wrk[w].job), holder.count - 1, jobs) /\ ran' = ran
      BY <2>2 DEF ReleaseCount, NoClientChange, clientVars
    <3>. QED BY <1>0, <3>1, UncountSteps DEF SameJob
  <2>. QED BY <2>1, <2>2
<1>4. \A l \in {PENDING, WORKING, DONE} :
         OnList(jobs', l) = OnList(jobs, l) /\ \A x \in OnList(jobs, l) : SameJob(x)
  BY <1>0, <1>3, ListsExist, OnListIsSlot DEF OnList
<1>5. Filled' = Filled /\ \A x \in Filled : SameJob(x)
  BY <1>1, <1>4 DEF Filled, Unfilled
<1>6. \A t \in InPool : t \in InPool' \/ Served(t)'
  BY <1>5, PoolIsFilled, PoolIsFilledNext DEF Ticket, SameJob
<1>7. \A v \in Workers \ {w} : Owns(v) => SameJob(wrk[v].job)
  BY <1>0, <1>4 DEF OneOwner
<1>8. Consuming => SameJob(main.head)
  BY <1>4, DoneHead
<1>. QED BY <1>0, <1>2, <1>3, <1>6, <1>7, <1>8, MovedAccount

LEMMA WorkerAccount ==
  ASSUME IInv, IInv', ArenaSteps, JobInv, JobInv', AccountParts, cancelled = {}, NEW w \in Workers,
         WorkerStep(w) \/ SpuriousWakeup(w)
  PROVE  AccountParts'
<1>1. CleanIsSilent' /\ HeadTold' /\ JobAccounted'
  BY IdleAccount, OnTheWayAccount, RunJobAccount, TakeJobAccount, PublishAccount, ReleaseAccount,
     InArenaAccount
     DEF WorkerStep
<1>2. FlagsUntouched'
  BY WorkerFlags DEF AnyWorkerStep, AccountParts
<1>. QED BY <1>1, <1>2 DEF AccountParts

(***************************************************************************)
(* The main thread's steps keep the accounts, as long as none of them      *)
(* cancels.                                                                *)
(***************************************************************************)
LEMMA MainSilentAccount ==
  ASSUME IInv, IInv', JobInv, JobInv', AccountParts, cancelled = {},
         jobs'.list = jobs.list, accepted' = accepted, ran' = ran, replied' = replied, SameJobs,
         main.pc # "fill", main'.pc # "fill", main.pc # "gone",
         \A w \in Workers : Owns(w)' => /\ Owns(w) /\ wrk'[w].job = wrk[w].job
                                        /\ wrk'[w].pc = wrk[w].pc
                                        /\ wrk'[w].clean = wrk[w].clean,
         Consuming' /\ main'.pc # "reply"
            => Consuming /\ main.pc # "reply" /\ main'.head = main.head
  PROVE  CleanIsSilent' /\ HeadTold' /\ JobAccounted'
<1>1. \A w \in Workers : Owns(w) => wrk[w].job \in SlotIds
  BY QueueFacts DEF IInv, OneOwner, Begun
<1>2. CleanIsSilent'
  BY <1>1 DEF AccountParts, CleanIsSilent, CleanOf, SameJobs, SameJob, Ticket
<1>3. HeadTold'
  BY DEF AccountParts, HeadTold, SameJobs, SameJob, Ticket, IInv, MainLocals
<1>4. InPool' = InPool
  BY PoolKept DEF Unfilled
<1>5. \A t \in Tickets : ran'[t] >= ran[t] /\ replied'[t] >= replied[t]
  BY DEF IInv, PoolTypes
<1>6. JobAccounted'
  BY <1>4, <1>5, AccountKept DEF AccountParts, JobInv
<1>. QED BY <1>2, <1>3, <1>6

\* The steps of the main thread on its own, but for those of a cancel.
LEMMA MainQuietAccount ==
  ASSUME IInv, IInv', JobInv, JobInv', AccountParts, cancelled = {}, jobs' = jobs, rec' = rec,
         wrk' = wrk, accepted' = accepted, ran' = ran, replied' = replied,
         main.pc \notin {"fill", "gone"}, main'.pc # "fill",
         Consuming' /\ main'.pc # "reply"
            => Consuming /\ main.pc # "reply" /\ main'.head = main.head
  PROVE  CleanIsSilent' /\ HeadTold' /\ JobAccounted'
<1>1. SameJobs /\ \A w \in Workers : Owns(w)' => Owns(w)
  BY DEF SameJobs, SameJob, Owns
<1>. QED BY <1>1, MainSilentAccount

LEMMA EnqueueStartAccount ==
  ASSUME IInv, IInv', JobInv, JobInv', AccountParts, cancelled = {}, NEW k \in Kinds,
         EnqueueStart(k)
  PROVE  CleanIsSilent' /\ HeadTold' /\ JobAccounted'
<1>0. main \in MainThread
  BY DEF IInv, PoolTypes
<1>1. /\ main.pc \in {"idle", "callback"} /\ main'.ret = main.pc /\ main'.head = main.head
      /\ main'.pc \in {"grab", "scan"}
  BY <1>0 DEF EnqueueStart, Callable, MainThread
<1>2. /\ rec' = rec /\ jobs' = jobs /\ wrk' = wrk /\ accepted' = accepted /\ ran' = ran
      /\ replied' = replied
  BY DEF EnqueueStart, poolVars, clientVars
<1>. QED BY <1>1, <1>2, MainQuietAccount DEF Consuming

LEMMA MainOnlyAccount ==
  ASSUME IInv, IInv', JobInv, JobInv', AccountParts, cancelled = {},
         \/ ScanWorker \/ GrabFails \/ EnqueueReturn
         \/ NotifyPipeEventRead \/ PointToDone \/ CallbackReturn \/ DestroyStart
  PROVE  CleanIsSilent' /\ HeadTold' /\ JobAccounted'
<1>0. main \in MainThread
  BY DEF IInv, PoolTypes
<1>1. CASE EnqueueReturn
  <2>1. /\ jobs' = jobs /\ rec' = rec /\ wrk' = wrk
        /\ accepted' = accepted /\ ran' = ran /\ replied' = replied
        /\ main.pc = "return" /\ main' = [main EXCEPT !.pc = main.ret, !.slot = NoSlot]
    BY <1>1 DEF EnqueueReturn, poolVars
  <2>2. /\ main'.pc = main.ret /\ main.ret \in {"idle", "callback"} /\ main'.ret = main.ret
        /\ main'.head = main.head
    BY <1>0, <2>1 DEF MainThread
  <2>. QED BY <2>1, <2>2, MainQuietAccount DEF Consuming
<1>2. CASE \/ ScanWorker \/ GrabFails \/ NotifyPipeEventRead \/ PointToDone \/ CallbackReturn
           \/ DestroyStart
  <2>1. /\ jobs' = jobs /\ rec' = rec /\ wrk' = wrk
        /\ accepted' = accepted /\ ran' = ran /\ replied' = replied
    BY <1>2 DEF ScanWorker, GrabFails, NotifyPipeEventRead, PointToDone, CallbackReturn,
                DestroyStart, clientVars, poolVars
  <2>2. CASE ScanWorker \/ GrabFails
    <3>1. /\ main.pc \in {"scan", "grab"} /\ main.ret \in {"idle", "callback"}
          /\ main'.head = main.head /\ main'.ret = main.ret
          /\ main'.pc \in {"scan", "launch", "grab", "stuck", main.ret}
      BY <1>0, <2>2 DEF ScanWorker, GrabFails, MainThread
    <3>. QED BY <2>1, <3>1, MainQuietAccount DEF Consuming
  <2>3. CASE NotifyPipeEventRead \/ PointToDone \/ CallbackReturn \/ DestroyStart
    <3>1. /\ main.pc \in {"idle", "point", "callback"}
          /\ main'.pc \in {"point", "idle", "reply", "free", "flag"}
          /\ main'.pc = "free" => main.pc = "callback" /\ main'.head = main.head
      BY <1>0, <2>3 DEF NotifyPipeEventRead, PointToDone, CallbackReturn, DestroyStart, MainThread
    <3>. QED BY <2>1, <3>1, MainQuietAccount DEF Consuming
  <2>. QED BY <1>2, <2>2, <2>3
<1>. QED BY <1>1, <1>2

LEMMA WakingAccount ==
  ASSUME IInv, IInv', JobInv, JobInv', AccountParts, cancelled = {},
         SignalCond \/ LaunchMore \/ FlagShutdown
  PROVE  CleanIsSilent' /\ HeadTold' /\ JobAccounted'
<1>0. main \in MainThread
  BY DEF IInv, PoolTypes
<1>1. /\ jobs' = jobs /\ rec' = rec /\ accepted' = accepted /\ ran' = ran /\ replied' = replied
  BY DEF SignalCond, LaunchMore, FlagShutdown, clientVars, poolVars
<1>2. /\ main.pc \notin {"fill", "gone"} /\ main'.pc # "fill"
      /\ Consuming' /\ main'.pc # "reply"
            => Consuming /\ main.pc # "reply" /\ main'.head = main.head
  <2>. USE <1>0, MainTypes DEF MainThread, Consuming
  <2>1. CASE SignalCond
    BY <2>1 DEF SignalCond
  <2>2. CASE LaunchMore
    BY <2>2 DEF LaunchMore
  <2>3. CASE FlagShutdown
    BY <2>3 DEF FlagShutdown
  <2>. QED BY <2>1, <2>2, <2>3
<1>3. SameJobs
  BY <1>1 DEF SameJobs, SameJob
<1>. QED BY <1>1, <1>2, <1>3, WakingFrame, MainSilentAccount

\* Steps of the main thread that move a slot, or fill one, or reply.
LEMMA MainMovedAccount ==
  ASSUME IInv, IInv', JobInv, JobInv', AccountParts, cancelled = {}, main.pc # "gone",
         accepted' = accepted, ran' = ran, wrk' = wrk,
         \A t \in Tickets : replied'[t] >= replied[t],
         \A w \in Workers : Owns(w) => SameJob(wrk[w].job),
         \A t \in InPool : t \in InPool' \/ Served(t)'
  PROVE  CleanIsSilent' /\ JobAccounted'
<1>1. CleanIsSilent'
  BY DEF AccountParts, CleanIsSilent, CleanOf, Owns, SameJob, Ticket
<1>2. \A t \in Tickets : ran'[t] >= ran[t]
  BY DEF IInv, PoolTypes
<1>3. JobAccounted'
  BY <1>2, AccountKept DEF AccountParts, JobInv
<1>. QED BY <1>1, <1>3

LEMMA GrabJobAccount ==
  ASSUME IInv, IInv', JobInv, JobInv', AccountParts, cancelled = {}, GrabJob
  PROVE  CleanIsSilent' /\ HeadTold' /\ JobAccounted'
<1>. DEFINE g == GrabId(jobs)
<1>0. /\ PoolTypes /\ WellFormed(jobs) /\ main \in MainThread
      /\ replied \in [Tickets -> Nat]
  BY DEF IInv, SlotsWellFormed, PoolTypes
<1>1. /\ main.pc = "grab" /\ HasFree(jobs) /\ jobs' = Grab(jobs)
      /\ main' = [main EXCEPT !.pc = "fill", !.slot = g]
      /\ rec' = rec /\ wrk' = wrk /\ accepted' = accepted /\ ran' = ran /\ replied' = replied
  BY DEF GrabJob, clientVars
<1>2. PENDING \in ListIds /\ WORKING \in ListIds /\ DONE \in ListIds
      /\ PENDING = 0 /\ WORKING # 0 /\ DONE # 0
  BY ListsExist DEF PENDING, WORKING, DONE
<1>3. /\ \A l \in {PENDING, WORKING, DONE} : g \notin OnList(jobs, l)
      /\ jobs'.list[WORKING] = jobs.list[WORKING] /\ jobs'.list[DONE] = jobs.list[DONE]
      /\ OnList(jobs', PENDING) = OnList(jobs, PENDING) \cup {g}
  BY <1>0, <1>1, <1>2, GrabWF
<1>. HIDE DEF g
<1>4. main'.pc = "fill" /\ main'.slot = g /\ main'.head = main.head /\ main'.ret = main.ret
  BY <1>0, <1>1 DEF MainThread
<1>5. Filled' = Filled
  <2>1. OnList(jobs', WORKING) = OnList(jobs, WORKING) /\ OnList(jobs', DONE) = OnList(jobs, DONE)
    BY <1>3 DEF OnList
  <2>2. Unfilled = {} /\ Unfilled' = {g}
    BY <1>1, <1>4 DEF Unfilled
  <2>. QED BY <1>3, <2>1, <2>2 DEF Filled
<1>6. InPool' = InPool
  BY <1>1, <1>5, PoolIsFilled, PoolIsFilledNext DEF Ticket
<1>7. HeadTold'
  BY <1>1, <1>4 DEF AccountParts, HeadTold, Consuming, Ticket
<1>8. \A x : SameJob(x)
  BY <1>1 DEF SameJob
<1>9. \A t \in Tickets : replied'[t] >= replied[t]
  BY <1>0, <1>1
<1>. QED BY <1>1, <1>6, <1>7, <1>8, <1>9, MainMovedAccount

LEMMA ReplyAccount ==
  ASSUME IInv, IInv', JobInv, JobInv', AccountParts, cancelled = {}, Reply
  PROVE  CleanIsSilent' /\ HeadTold' /\ JobAccounted'
<1>. DEFINE t == Ticket(main.head)
            calls == rec[main.head].kind = "reply" /\ ~ rec[main.head].flags.cancelled
<1>0. main \in MainThread /\ replied \in [Tickets -> Nat]
  BY DEF IInv, PoolTypes
<1>1. /\ main.pc = "reply"
      /\ jobs' = jobs /\ rec' = rec /\ wrk' = wrk /\ accepted' = accepted /\ ran' = ran
  BY DEF Reply, poolVars
<1>2. \/ main' = main /\ replied' = replied
      \/ /\ ~ calls /\ replied' = replied /\ main' = [main EXCEPT !.pc = "free"]
      \/ /\ calls /\ replied' = [replied EXCEPT ![t] = replied[t] + 1]
         /\ main' = [main EXCEPT !.pc = "callback"]
  BY DEF Reply, Ticket
<1>3. /\ main.head \in OnList(jobs, DONE) /\ main.head \in SlotIds /\ t \in Tickets
  BY <1>1, DoneHead DEF Consuming
<1>4. replied[t] = 0
  BY <1>1, <1>3 DEF JobInv, StagesTold, IsReplied
<1>5. calls <=> rec[main.head].kind = "reply"
  BY <1>3 DEF AccountParts, FlagsUntouched
<1>. HIDE DEF calls, t
<1>6. /\ main'.head = main.head /\ main'.pc \in {"reply", "free", "callback"}
      /\ main'.pc = "free" => ~ calls
      /\ main'.pc = "callback" => replied'[t] = 1
      /\ \A u \in Tickets : replied'[u] >= replied[u]
  BY <1>0, <1>1, <1>2, <1>3, <1>4 DEF MainThread
<1>7. HeadTold'
  BY <1>1, <1>5, <1>6 DEF HeadTold, Ticket, t
<1>8. main'.pc # "fill" /\ main.pc # "fill" /\ main.pc # "gone"
  BY <1>1, <1>6
<1>9. InPool' = InPool
  BY <1>1, <1>8, PoolKept DEF Unfilled, SameJobs, SameJob
<1>10. \A x : SameJob(x)
  BY <1>1 DEF SameJob
<1>. QED BY <1>1, <1>6, <1>7, <1>8, <1>9, <1>10, MainMovedAccount

\* The job filled gets its ticket and is in the pool with it.
LEMMA FillAndUnlockAccount ==
  ASSUME IInv, IInv', JobInv, JobInv', AccountParts, cancelled = {}, FillAndUnlock
  PROVE  CleanIsSilent' /\ HeadTold' /\ JobAccounted'
<1>. PICK q : q = main.slot
  OBVIOUS
<1>. PICK n : n = Len(accepted) + 1
  OBVIOUS
<1>0. /\ PoolTypes /\ MainLocals /\ OneOwner /\ WellFormed(jobs) /\ main \in MainThread
      /\ rec \in [SlotIds -> Job] /\ accepted \in Seq(Kinds)
  BY DEF IInv, SlotsWellFormed, PoolTypes
<1>1. /\ main.pc = "fill"
      /\ rec' = [rec EXCEPT ![q] = [flags |-> [NoFlags EXCEPT !.in_use = TRUE],
                                    kind |-> main.kind, ticket |-> n]]
      /\ accepted' = Append(accepted, main.kind)
      /\ main' = [main EXCEPT !.pc = "signal"]
      /\ jobs' = jobs /\ wrk' = wrk /\ ran' = ran /\ replied' = replied
  BY DEF FillAndUnlock, clientVars
<1>2. /\ PENDING \in ListIds /\ WORKING \in ListIds /\ DONE \in ListIds
      /\ PENDING \notin {WORKING, DONE}
  BY ListsExist DEF PENDING, WORKING, DONE
<1>3. main'.pc = "signal" /\ main'.head = main.head /\ main'.ret = main.ret
  BY <1>0, <1>1 DEF MainThread
<1>4. q \in SlotIds /\ main.kind \in Kinds
  BY <1>0, <1>1 DEF MainLocals, EnqueuingPCs
<1>5. q \in OnList(jobs, PENDING) /\ q \notin Begun
  <2>1. q \in OnList(jobs, PENDING)
    <3>1. Len(Queue) \in 1 .. Len(Queue) /\ q = Queue[Len(Queue)]
      BY <1>1, QueueFacts DEF JobInv, QueueInOrder
    <3>. QED BY <3>1, QueueFacts
  <2>. QED BY <2>1, <1>0, <1>2, ListsDisjoint DEF Begun
<1>6. \A x \in SlotIds \ {q} : SameJob(x)
  BY <1>0, <1>1 DEF SameJob
<1>7. rec'[q].ticket = n
  BY <1>0, <1>1, <1>4
<1>8. /\ Len(accepted') = n /\ Len(accepted) \in Nat
      /\ \A t \in 1 .. Len(accepted) : accepted'[t] = accepted[t]
  BY <1>0, <1>1, <1>4, AppendProperties
\* Whoever has begun lies elsewhere.
<1>9. \A x \in Begun : x \in SlotIds /\ SameJob(x)
  BY <1>5, <1>6, QueueFacts
<1>10. CleanIsSilent'
  <2>1. \A w \in Workers : Owns(w) => SameJob(wrk[w].job)
    BY <1>0, <1>9 DEF OneOwner, Begun
  <2>. QED BY <1>1, <2>1 DEF AccountParts, CleanIsSilent, CleanOf, Owns, SameJob, Ticket
<1>11. HeadTold'
  <2>1. Consuming' => Consuming
    BY <1>1, <1>3 DEF Consuming
  <2>2. Consuming => SameJob(main.head)
    BY <1>9, DoneHead
  <2>. QED BY <2>1, <2>2, <1>1, <1>3 DEF AccountParts, HeadTold, SameJob, Ticket
<1>12. Filled' = Filled \cup {q} /\ q \notin Filled
  <2>1. Unfilled = {q} /\ Unfilled' = {}
    BY <1>1, <1>3 DEF Unfilled
  <2>. QED BY <1>1, <1>5, <2>1 DEF Filled
<1>13. InPool \subseteq InPool' /\ n \in InPool'
  <2>1. Filled \subseteq SlotIds \ {q}
    <3>1. Filled \subseteq SlotIds
      BY <1>0, <1>2, OnListIsSlot DEF Filled
    <3>. QED BY <3>1, <1>12
  <2>. QED BY <2>1, <1>6, <1>7, <1>12, PoolIsFilled, PoolIsFilledNext DEF Ticket, SameJob
<1>14. JobAccounted'
  <2>. SUFFICES ASSUME NEW t \in 1 .. Len(accepted')
                PROVE  t \in InPool' \/ Served(t)'
    BY DEF JobAccounted, Served
  <2>1. t = n \/ t \in 1 .. Len(accepted)
    BY <1>8
  <2>2. CASE t = n
    BY <2>2, <1>13
  <2>3. CASE t \in 1 .. Len(accepted)
    <3>1. t \in InPool \/ Served(t)
      BY <2>3, <1>1 DEF AccountParts, JobAccounted, Served
    <3>. QED BY <2>3, <3>1, <1>1, <1>8, <1>13 DEF Served
  <2>. QED BY <2>1, <2>2, <2>3
<1>. QED BY <1>10, <1>11, <1>14

\* The job collected has run, and was replied to if a reply was due.
LEMMA FreeDoneAccount ==
  ASSUME IInv, IInv', JobInv, JobInv', AccountParts, cancelled = {}, FreeDone
  PROVE  CleanIsSilent' /\ HeadTold' /\ JobAccounted'
<1>. PICK h : h = main.head
  OBVIOUS
<1>. PICK u : u = Ticket(h)
  OBVIOUS
<1>0. /\ PoolTypes /\ OneOwner /\ WellFormed(jobs) /\ SlotsWellFormed /\ main \in MainThread
      /\ replied \in [Tickets -> Nat]
  BY DEF IInv, SlotsWellFormed, PoolTypes
<1>1. /\ main.pc = "free" /\ FreeJob(h) /\ main' = [main EXCEPT !.pc = "point", !.head = NoSlot]
      /\ wrk' = wrk /\ accepted' = accepted /\ ran' = ran /\ replied' = replied
  BY DEF FreeDone, clientVars
<1>2. /\ PENDING \in ListIds /\ WORKING \in ListIds /\ DONE \in ListIds
      /\ DONE \notin {PENDING, WORKING}
  BY ListsExist DEF PENDING, WORKING, DONE
<1>3. Consuming /\ h \in OnList(jobs, DONE) /\ h \in Begun /\ ran[u] = 1
  <2>1. Consuming
    BY <1>1 DEF Consuming
  <2>. QED BY <2>1, DoneHead
<1>4. main'.pc = "point"
  BY <1>0, <1>1 DEF MainThread
<1>5. Served(u)'
  <2>1. rec[h].kind = accepted[u]
    BY <1>3 DEF JobInv, TicketsExact, KindKept, Ticket
  <2>2. rec[h].kind = "reply" => replied[u] = 1
    BY <1>1, <1>3 DEF AccountParts, HeadTold
  <2>. QED BY <1>1, <1>3, <2>1, <2>2 DEF Served
<1>6. Frees(h)
  BY <1>0, <1>1, <1>2, <1>3, FreeJobFrees
<1>7. \A l \in ListIds : OnList(jobs', l) = OnList(jobs, l) \ {h}
  BY <1>6 DEF Frees
<1>8. Filled' = Filled \ {h}
  BY <1>1, <1>2, <1>4, <1>7 DEF Filled, Unfilled
<1>9. \A l \in ListIds : \A x \in OnList(jobs', l) : SameJob(x)
  BY <1>6, OnListIsSlot DEF Frees, SameJob
<1>10. \A x \in Filled' : SameJob(x)
  BY <1>2, <1>9 DEF Filled
<1>11. \A t \in InPool : t \in InPool' \/ Served(t)'
  BY <1>5, <1>8, <1>10, PoolMoves
<1>12. ASSUME NEW w \in Workers, Owns(w) PROVE SameJob(wrk[w].job)
  <2>1. wrk[w].job \in OnList(jobs, WORKING)
    BY <1>0, <1>12 DEF OneOwner
  <2>2. wrk[w].job # h
    BY <1>0, <1>2, <1>3, <2>1, ListsDisjoint
  <2>. QED BY <2>1, <2>2, <1>2, <1>7, <1>9
<1>13. HeadTold'
  BY <1>4 DEF HeadTold, Consuming
<1>14. \A t \in Tickets : replied'[t] >= replied[t]
  BY <1>0, <1>1
<1>. QED BY <1>1, <1>11, <1>12, <1>13, <1>14, MainMovedAccount

LEMMA JoinAndCleanAccount ==
  ASSUME IInv, IInv', JoinAndClean
  PROVE  CleanIsSilent' /\ HeadTold' /\ JobAccounted'
<1>1. main'.pc = "gone" /\ jobs' = NewPool
  BY DEF JoinAndClean, IInv, PoolTypes, MainThread
<1>2. \A w \in Workers : ~ Owns(w)'
  <2>1. OnList(jobs', WORKING) = {}
    BY <1>1, ListsExist, NewPoolWF
  <2>. QED BY <2>1 DEF IInv, OneOwner
<1>. QED BY <1>1, <1>2 DEF CleanIsSilent, HeadTold, Consuming, JobAccounted

LEMMA MainAccount ==
  ASSUME IInv, IInv', JobInv, JobInv', AccountParts, NoCancelYet, NoCancelYet',
         MainStep \/ NotifyPipeEventRead \/ ClientCall
  PROVE  AccountParts'
<1>1. FlagsUntouched'
  BY MainFlags DEF NoCancelYet, AccountParts
<1>2. ASSUME NEW t \in Tickets, CancelFind(t) PROVE FALSE
  BY <1>2 DEF CancelFind, NoCancelYet, CancellingPCs, IInv, PoolTypes, MainThread
<1>3. ~ (CancelTest \/ CancelCount \/ CancelLoad \/ CancelMark \/ CancelInFreed \/ CancelStore)
  BY DEF CancelTest, CancelCount, CancelLoad, CancelMark, CancelInFreed, CancelStore, Seeking,
         NoCancelYet, CancellingPCs
<1>4. CleanIsSilent' /\ HeadTold' /\ JobAccounted'
  <2>1. CASE ClientCall
    BY <2>1, <1>2, EnqueueStartAccount, MainOnlyAccount DEF ClientCall, NoCancelYet
  <2>2. CASE MainStep \/ NotifyPipeEventRead
    BY <2>2, <1>3, MainOnlyAccount, WakingAccount, GrabJobAccount, ReplyAccount,
       FillAndUnlockAccount, FreeDoneAccount, JoinAndCleanAccount DEF MainStep, NoCancelYet
  <2>. QED BY <2>1, <2>2
<1>. QED BY <1>1, <1>4 DEF AccountParts

LEMMA InitAccountInv == Init => AccountInv
<1>. SUFFICES ASSUME Init PROVE AccountParts
  BY DEF AccountInv, AccountParts
<1>1. /\ jobs = NewPool /\ accepted = << >> /\ main.pc = "idle" /\ main.ret = "idle"
      /\ rec = [s \in SlotIds |-> BlankJob]
  BY DEF Init
<1>2. \A w \in Workers : ~ Owns(w)
  <2>1. OnList(jobs, WORKING) = {}
    BY <1>1, ListsExist, NewPoolWF
  <2>. QED BY <2>1, InitIInv DEF IInv, OneOwner
<1>3. \A w \in Workers : ~ wrk[w].flags.cancelled
  <2>. TAKE w \in Workers
  <2>1. PICK failed : wrk = [v \in Workers |->
                               IF v >= launched THEN OffWorker
                               ELSE IF v \in failed THEN [OffWorker EXCEPT !.state = "FAILED"]
                               ELSE [OffWorker EXCEPT !.pc = "top", !.state = "STARTING"]]
    BY DEF Init
  <2>2. \/ wrk[w] = OffWorker
        \/ wrk[w] = [OffWorker EXCEPT !.state = "FAILED"]
        \/ wrk[w] = [OffWorker EXCEPT !.pc = "top", !.state = "STARTING"]
    BY <2>1
  <2>3. OffWorker \in Worker /\ OffWorker.flags = NoFlags
    BY DEF OffWorker, Worker, WorkerPCs, States, Flags, NoFlags, NoSlot
  <2>4. wrk[w].flags = NoFlags
    BY <2>2, <2>3 DEF Worker
  <2>. QED BY <2>4 DEF NoFlags
<1>. QED BY <1>1, <1>2, <1>3
        DEF AccountParts, FlagsUntouched, CleanIsSilent, HeadTold, Consuming, JobAccounted,
            BlankJob, NoFlags

LEMMA NextAccountInv ==
  IInv /\ ArenaSteps /\ JobInv /\ AccountInv /\ [Next]_vars => AccountInv'
<1>. SUFFICES ASSUME IInv, ArenaSteps, JobInv, AccountInv, [Next]_vars, NoCancelYet'
              PROVE  AccountParts'
  BY DEF AccountInv, AccountParts
<1>1. NoCancelYet /\ cancelled = {}
  BY StillNoCancel DEF NoCancelYet
<1>2. AccountParts /\ IInv' /\ JobInv'
  BY <1>1, NextIInv, NextJobInv DEF AccountInv, AccountParts
<1>3. CASE Next
  BY <1>1, <1>2, <1>3, MainAccount, WorkerAccount DEF Next
<1>4. CASE UNCHANGED vars
  <2>1. /\ jobs' = jobs /\ rec' = rec /\ wrk' = wrk /\ main' = main /\ accepted' = accepted
        /\ ran' = ran /\ replied' = replied /\ cancelled' = cancelled
    BY <1>4 DEF vars
  <2>2. FlagsUntouched' /\ CleanIsSilent' /\ HeadTold'
    BY <2>1, <1>2 DEF AccountParts, FlagsUntouched, CleanIsSilent, CleanOf, Owns, HeadTold,
                      Consuming, Ticket
  <2>3. JobAccounted'
    BY <2>1, <1>2 DEF AccountParts, JobAccounted, InPool, TicketsOn, Unfilled
  <2>. QED BY <2>2, <2>3 DEF AccountParts
<1>. QED BY <1>3, <1>4

(***************************************************************************)
(* Whatever workers, slots and jobs there are, and whether or not the pool *)
(* is being destroyed: as long as ThreadPoolJobCancel was not called, an   *)
(* accepted job is in the pool until its callback has run and, if it has   *)
(* one, its finish callback too (thrd_pool_base.c:176-239, 264-299,        *)
(* 474-621).  After a cancel this need not be so, for the handle of a job  *)
(* whose slot was used again names another job.                            *)
(***************************************************************************)
THEOREM NoJobIsLost == Spec => [](NoCancelYet => JobAccounted)
<1>1. Init => AccountInv
  BY InitAccountInv
<1>2. IInv /\ ArenaInv /\ JobInv /\ AccountInv /\ [Next]_vars => AccountInv'
  BY NextAccountInv DEF ArenaInv
<1>3. AccountInv => (NoCancelYet => JobAccounted)
  BY DEF AccountInv
<1>. QED BY <1>1, <1>2, <1>3, PoolInvariant, JobsInvariant, PTL DEF Spec

(***************************************************************************)
(* In particular, in a program that never cancels, no accepted job is ever *)
(* lost (thrd_pool_base.c:176-239, 264-299, 474-621).                      *)
(***************************************************************************)
COROLLARY NoJobIsLostWithoutCancel ==
  ASSUME MaxCancels = 0 PROVE Spec => []JobAccounted
<1>1. Init => NoCancelYet
  BY DEF Init, NoCancelYet, CancellingPCs
<1>2. PoolTypes /\ NoCancelYet /\ [Next]_vars => NoCancelYet'
  <2>. SUFFICES ASSUME PoolTypes, NoCancelYet, [Next]_vars PROVE NoCancelYet'
    OBVIOUS
  <2>0. main \in MainThread
    BY DEF PoolTypes
  <2>1. ~ (CancelTest \/ CancelCount \/ CancelLoad \/ CancelMark \/ CancelInFreed \/ CancelStore)
    BY DEF CancelTest, CancelCount, CancelLoad, CancelMark, CancelInFreed, CancelStore, Seeking,
           NoCancelYet, CancellingPCs
  <2>2. \A t \in Tickets : ~ CancelFind(t)
    <3>1. Cardinality({}) = 0
      BY FS_EmptySet
    <3>2. ~ (Cardinality(cancelled) < MaxCancels)
      BY <3>1 DEF NoCancelYet
    <3>. QED BY <3>2 DEF CancelFind
  <2>3. cancelled' = cancelled
    <3>1. CASE MainStep
      BY <2>1, <3>1
         DEF MainStep, ScanWorker, LaunchMore, GrabJob, GrabFails, FillAndUnlock, SignalCond,
             EnqueueReturn, PointToDone, Reply, CallbackReturn, FreeDone, FlagShutdown,
             JoinAndClean, clientVars
    <3>2. CASE NotifyPipeEventRead
      BY <3>2 DEF NotifyPipeEventRead, clientVars
    <3>3. ASSUME NEW k \in Kinds, EnqueueStart(k) PROVE cancelled' = cancelled
      BY <3>3 DEF EnqueueStart, clientVars
    <3>4. CASE DestroyStart
      BY <3>4 DEF DestroyStart, clientVars
    <3>5. CASE \E w \in Workers : WorkerStep(w) \/ SpuriousWakeup(w)
      BY <3>5, WorkerFrame DEF AnyWorkerStep
    <3>6. CASE UNCHANGED vars
      BY <3>6 DEF vars
    <3>. QED BY <2>2, <3>1, <3>2, <3>3, <3>4, <3>5, <3>6 DEF Next, ClientCall
  <2>4. main'.pc \notin CancellingPCs
    <3>. USE <2>0, MainTypes DEF MainThread, CancellingPCs
    <3>1. CASE ScanWorker \/ LaunchMore \/ GrabJob \/ GrabFails \/ FillAndUnlock \/ SignalCond
      BY <3>1 DEF ScanWorker, LaunchMore, GrabJob, GrabFails, FillAndUnlock, SignalCond
    <3>2. CASE EnqueueReturn \/ PointToDone \/ CallbackReturn \/ FreeDone \/ FlagShutdown
               \/ JoinAndClean
      BY <3>2 DEF EnqueueReturn, PointToDone, CallbackReturn, FreeDone, FlagShutdown,
                  JoinAndClean
    <3>3. CASE Reply
      <4>1. main' \in {main, [main EXCEPT !.pc = "callback"], [main EXCEPT !.pc = "free"]}
        BY <3>3 DEF Reply
      <4>. QED BY <4>1 DEF NoCancelYet
    <3>4. CASE NotifyPipeEventRead
      BY <3>4 DEF NotifyPipeEventRead, Callable
    <3>5. ASSUME NEW k \in Kinds, EnqueueStart(k) PROVE main'.pc \notin CancellingPCs
      <4>1. main'.pc \in {"grab", "scan"}
        BY <3>5 DEF EnqueueStart
      <4>. QED BY <4>1
    <3>6. CASE DestroyStart
      BY <3>6 DEF DestroyStart
    <3>7. CASE \E w \in Workers : WorkerStep(w) \/ SpuriousWakeup(w)
      BY <3>7, WorkerFrame DEF AnyWorkerStep, NoCancelYet
    <3>8. CASE UNCHANGED vars
      BY <3>8 DEF vars, NoCancelYet
    <3>. QED BY <2>1, <2>2, <3>1, <3>2, <3>3, <3>4, <3>5, <3>6, <3>7, <3>8
             DEF Next, MainStep, ClientCall
  <2>. QED BY <2>3, <2>4 DEF NoCancelYet
<1>3. (NoCancelYet => JobAccounted) /\ NoCancelYet => JobAccounted
  OBVIOUS
<1>4. IInv => PoolTypes
  BY DEF IInv
<1>. QED BY <1>1, <1>2, <1>3, <1>4, NoJobIsLost, PoolInvariant, PTL DEF Spec
=============================================================================
