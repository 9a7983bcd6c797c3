------------------------------- MODULE EvJobs -------------------------------
(***************************************************************************)
(* Jobs of the event loop (event/core/ev_kq_jobs.c).  A job waits for a    *)
(* number of I/O loops, or for a time of day, and is a slot of a MEM_SLOT: *)
(* list JOB_TYPE_IOLOOP is walked by EvKQInvokeKQueueOnce before kevent(), *)
(* list JOB_TYPE_TIMED by a timer that fires every second.  A walk saves   *)
(* the next node, then runs the callback of a job, which may add, enable,  *)
(* disable and delete jobs: its own and the next one too, although the     *)
(* walk holds pointers to them and goes on with what it finds there.       *)
(*                                                                         *)
(* Time is counted in ticks, DayTicks to a day, modulo a week.             *)
(***************************************************************************)
EXTENDS MemSlotOps

CONSTANTS Counts,       \* ioloop_count values callers ask for
          TimedDays,    \* days callers ask for
          Ats,          \* times of day callers ask for, in ticks
          DaysOfWeek,   \* 7 in the code
          DayTicks,     \* ticks of a day
          Window,       \* ticks in which a timed job may run (60 of time_mask)
          Recent,       \* ticks in which it may not run again (120 seconds)
          AddsPerWalk   \* bound: jobs the callbacks of one walk add

IOLOOP == 0                             \* JOB_TYPE_IOLOOP
TIMED == 1                              \* JOB_TYPE_TIMED
MONDAY == 1
FRIDAY == 5
MONDAY_FRIDAY == DaysOfWeek
EVERYDAY == DaysOfWeek + 1
Days == 0 .. EVERYDAY
Never == -1                             \* job.time.invoke_day of a new job
None == -1                              \* NULL

ASSUME JobsAssumption ==
    /\ ListCount = 2 /\ Counts \subseteq Nat /\ AddsPerWalk \in Nat
    /\ DaysOfWeek \in Nat \ {0} /\ TimedDays \subseteq Days
    /\ DayTicks \in Nat \ {0} /\ Ats \subseteq 0 .. (DayTicks - 1)
    /\ Window \in Nat \ {0} /\ Recent \in Nat /\ Window + Recent < DayTicks

(***************************************************************************)
(* EvKQQueuedJob.  left is ioloop_target - ioloop_cur, the loops a job has *)
(* still to wait; since the ticks since invoke_ts, Recent standing for a   *)
(* longer time and for never.                                              *)
(***************************************************************************)
Job == [active : BOOLEAN, enabled : BOOLEAN, persist : BOOLEAN, timed : BOOLEAN,
        target : Counts \cup {0}, left : Nat,
        day : Days, at : Ats \cup {0},
        invoke_day : Days \cup {Never}, since : 0 .. Recent]
BlankJob == [active |-> FALSE, enabled |-> FALSE, persist |-> FALSE, timed |-> FALSE,
             target |-> 0, left |-> 0, day |-> 0, at |-> 0,
             invoke_day |-> Never, since |-> Recent]

VARIABLES pool,     \* kq_base->queued_job.memslot
          job,      \* the EvKQQueuedJob in each slot
          timer,    \* queued_job.timer_id > -1
          pc,       \* "loop", "walk", "callback", "events", "stopped": see Next
          list,     \* the list walked
          node,     \* the node the walk goes to next
          run,      \* the job whose callback runs
          added,    \* jobs added in this walk
          clock,    \* the tick of the week, stats.cur_invoke_ts_sec
          polled,   \* the timer fired in this tick
          todo,     \* jobs this walk has to visit (history)
          seen,     \* jobs this walk visited (history)
          today,    \* runs of a timed job since midnight (history)
          astray,   \* timed jobs run by a walk of the other list since (history)
          cut,      \* "run" if the callback deleted its job, "node" if one of this walk
                    \* deleted the job the walk went to next (history)
          dangling  \* the pointers to jobs whose arena block was freed (history)

vars == <<pool, job, timer, pc, list, node, run, added, clock, polled, todo, seen, today,
          astray, cut, dangling>>
walk == <<list, node, added>>
time == <<clock, polled>>
held == <<cut, dangling>>

Init == /\ pool = NewPool
        /\ job = [id \in SlotIds |-> BlankJob]
        /\ timer = FALSE
        /\ pc = "loop" /\ list = IOLOOP /\ node = None /\ run = None /\ added = 0
        /\ clock = 0 /\ polled = FALSE
        /\ todo = {} /\ seen = {}
        /\ today = [id \in SlotIds |-> 0] /\ astray = {}
        /\ cut = {} /\ dangling = {}

week_day == clock \div DayTicks
TickOfDay == clock % DayTicks

-----------------------------------------------------------------------------
(* The library's calls, made by the callback of a job, or by another event. *)

InWalk == pc = "callback"
Callable == pc \in {"loop", "callback", "events"}

\* EvKQJobsAddInternal up to the kind of job: a slot, and a clean record.
NewJob(new) ==
    /\ HasFree(pool)            \* no slot: -1 is returned, nothing changes
    /\ InWalk => added < AddsPerWalk
    /\ added' = IF InWalk THEN added + 1 ELSE added
    /\ job' = [job EXCEPT ![GrabId(pool)] = new]
    /\ seen' = seen \ {GrabId(pool)}
    /\ today' = [today EXCEPT ![GrabId(pool)] = 0]
    /\ astray' = astray \ {GrabId(pool)}
    /\ UNCHANGED <<pc, list, node, run, time, todo, held>>

EvKQJobsAdd(persist, count) ==
    /\ Callable
    /\ NewJob([BlankJob EXCEPT !.active = TRUE, !.enabled = TRUE, !.persist = persist,
                               !.target = count, !.left = count])
    /\ pool' = Grab(pool)
    /\ UNCHANGED timer

\* The slot goes to the HEAD of the timed list; the first timed job adds the timer,
\* and the next one if that failed.
EvKQJobsAddTimed(persist, day, at) ==
    /\ Callable
    /\ NewJob([BlankJob EXCEPT !.active = TRUE, !.enabled = TRUE, !.persist = persist,
                               !.timed = TRUE, !.day = day, !.at = at])
    /\ pool' = Switch(Grab(pool), GrabId(pool), TIMED)
    /\ timer' \in {TRUE, timer}

\* The pointers a walk holds to jobs: kq_job while the callback runs, and node.
Pointers == {"run", "node"}
PointsTo(w) == IF w = "run" THEN run ELSE node

\* EvKQJobsCtl.  An id that is not active is an assertion failure.
Enable(id) == /\ job' = [job EXCEPT ![id].enabled = TRUE]
              /\ UNCHANGED <<pool, todo, held>>
Disable(id) == /\ job' = [job EXCEPT ![id].enabled = FALSE]
               /\ UNCHANGED <<pool, todo, held>>
\* Slip: the slot is not given back.
DeleteKeepsSlot(id) == /\ job' = [job EXCEPT ![id] = BlankJob]
                       /\ todo' = todo \ {id}
                       /\ UNCHANGED <<pool, held>>
Delete(id) == /\ job' = [job EXCEPT ![id] = BlankJob]
              /\ pool' = SlotFree(pool, id)
              /\ todo' = todo \ {id}
              /\ cut' = cut \cup {w \in Pointers : PointsTo(w) = id}
              /\ dangling' = dangling \cup {w \in cut' : ~ Live(pool', PointsTo(w))}

EvKQJobsCtl(id) ==
    /\ Callable /\ job[id].active
    /\ Enable(id) \/ Disable(id) \/ Delete(id)
    /\ UNCHANGED <<timer, pc, walk, run, time, seen, today, astray>>

-----------------------------------------------------------------------------
(* EvKQJobsDispatch, and EvKQJobsDispatchTimed called by the timer.         *)

HeadOf(l) == IF IsEmptyList(pool, l) THEN None ELSE PointToHead(pool, l)

Walk(l) == /\ list' = l /\ node' = HeadOf(l) /\ added' = 0
           /\ todo' = OnList(pool, l) /\ seen' = {}
           /\ pc' = "walk"
           /\ cut' = {} /\ dangling' = {}
           /\ UNCHANGED <<pool, job, timer, run, clock, today, astray>>

EvKQJobsDispatch == pc = "loop" /\ Walk(IOLOOP) /\ UNCHANGED polled

EvKQJobsTimerEvent == pc = "events" /\ timer /\ Walk(TIMED) /\ polled' = TRUE

\* node->next, on whatever list the node is now; NULL for a node on none.
NodeAfter(id) ==
    LET l == pool.list[pool.cur[id]]
        i == SelectInSeq(l, LAMBDA s : s = id)
    IN  IF i = 0 \/ i = Len(l) THEN None ELSE l[i + 1]

InWindow(j) == TickOfDay - j.at \in 0 .. (Window - 1)
\* Slip: EVERYDAY is compared with the day of the week as any other day.
WillDispatchOnItsDay(j) ==
    j.enabled /\ week_day = j.day /\ InWindow(j) /\ j.invoke_day # week_day /\ j.since = Recent
EvKQJobsTimedWillDispatch(j) ==
    /\ j.enabled
    /\ j.day = MONDAY_FRIDAY => week_day \in MONDAY .. FRIDAY
    /\ j.day # EVERYDAY => week_day = j.day
    /\ InWindow(j)
    /\ j.invoke_day # week_day          \* "Safety cap, invoked today"
    /\ j.since = Recent                 \* "Safety cap, recently invoked"

WillRun(id) == IF list = TIMED THEN EvKQJobsTimedWillDispatch(job[id])
               ELSE job[id].enabled /\ job[id].left = 0

\* One turn of the loop over the list: the next node is read before the callback.
\* The job met is one of the other list if the slot was deleted and added again.
Visit ==
    /\ pc = "walk" /\ node # None /\ job[node].active
    /\ node' = NodeAfter(node)
    /\ todo' = todo \ {node} /\ seen' = seen \cup {node}
    /\ IF WillRun(node)
       THEN /\ pc' = "callback" /\ run' = node
            /\ today' = [today EXCEPT ![node] = IF job[node].timed THEN @ + 1 ELSE @]
            /\ astray' = IF job[node].timed /\ list = IOLOOP THEN astray \cup {node}
                                                              ELSE astray
            /\ UNCHANGED job
       ELSE /\ job' = [job EXCEPT ![node].left =
                            IF list = IOLOOP /\ job[node].enabled THEN @ - 1 ELSE @]
            /\ UNCHANGED <<pc, run, today, astray>>
    /\ dangling' = {}
    /\ UNCHANGED <<pool, timer, list, added, time, cut>>

\* Slip: the time of the run is not kept.
InvokedUnnoticed(j) == IF list = TIMED THEN j ELSE [j EXCEPT !.left = j.target]
\* The end of that turn: the job now in the slot, which is another one if the callback
\* deleted its own and added one, is cleared and freed if it is not persistent, and
\* starts to wait again if it is.
Invoked(j) == IF list = TIMED THEN [j EXCEPT !.since = 0, !.invoke_day = week_day]
              ELSE [j EXCEPT !.left = j.target]
\* Slip: the next node is read after the job was freed.
AdvanceLate ==
    /\ pc = "callback" /\ job[run].active
    /\ pc' = "walk" /\ run' = None
    /\ IF job[run].persist
       THEN /\ job' = [job EXCEPT ![run] = Invoked(@)] /\ node' = NodeAfter(run)
            /\ UNCHANGED pool
       ELSE /\ job' = [job EXCEPT ![run] = BlankJob] /\ node' = None
            /\ pool' = SlotFree(pool, run)
    /\ cut' = cut \ {"run"} /\ dangling' = dangling \ {"run"}
    /\ UNCHANGED <<timer, list, added, time, todo, seen, today, astray>>

CallbackReturn ==
    /\ pc = "callback" /\ job[run].active
    /\ pc' = "walk" /\ run' = None
    /\ IF job[run].persist
       THEN /\ job' = [job EXCEPT ![run] = Invoked(@)]
            /\ UNCHANGED pool
       ELSE /\ FreeAsserts(pool, run)
            /\ job' = [job EXCEPT ![run] = BlankJob]
            /\ pool' = SlotFree(pool, run)
    /\ cut' = cut \ {"run"} /\ dangling' = dangling \ {"run"}
    /\ UNCHANGED <<timer, walk, time, todo, seen, today, astray>>

(***************************************************************************)
(* The program ends in the walk.  A next job that is not active fails the  *)
(* assertion of lines 110 and 522; a job deleted by its own callback is    *)
(* cleared, so not persistent, and freed again, which fails the assertion  *)
(* of MemArenaReleaseByID.  A pointer into a block that was freed may find *)
(* the slot again, if calloc() gave the block the same place, or anything. *)
(***************************************************************************)
Spoilt(w) == ~ job[PointsTo(w)].active \/ w \in dangling
WalkStops ==
    /\ \/ pc = "callback" /\ Spoilt("run")
       \/ pc = "walk" /\ node # None /\ Spoilt("node")
    /\ pc' = "stopped"
    /\ UNCHANGED <<pool, job, timer, walk, run, time, todo, seen, today, astray, held>>

EndOfWalk ==
    /\ pc = "walk" /\ node = None
    /\ pc' = IF list = IOLOOP THEN "events" ELSE "loop"
    /\ todo' = {} /\ seen' = {} /\ cut' = {} /\ dangling' = {}
    /\ UNCHANGED <<pool, job, timer, walk, run, time, today, astray>>

\* kevent() returned without the event of the timer, or the timer came earlier.
EndOfEvents ==
    /\ pc = "events"
    /\ pc' = "loop"
    /\ UNCHANGED <<pool, job, timer, walk, run, time, todo, seen, today, astray, held>>

\* The clock is read once per loop.  The loop turns at least once per tick, so the
\* timer fires in each.
Tick ==
    /\ pc = "loop" /\ (timer => polled)
    /\ clock' = (clock + 1) % (DaysOfWeek * DayTicks)
    /\ polled' = FALSE
    /\ job' = [id \in SlotIds |-> [job[id] EXCEPT !.since = IF @ < Recent THEN @ + 1 ELSE @]]
    /\ IF TickOfDay = DayTicks - 1
       THEN today' = [id \in SlotIds |-> 0] /\ astray' = {}
       ELSE UNCHANGED <<today, astray>>
    /\ UNCHANGED <<pool, timer, pc, walk, run, todo, seen, held>>

ClientCall ==
    \/ \E persist \in BOOLEAN, count \in Counts : EvKQJobsAdd(persist, count)
    \/ \E persist \in BOOLEAN, day \in TimedDays, at \in Ats :
            EvKQJobsAddTimed(persist, day, at)
    \/ \E id \in SlotIds : EvKQJobsCtl(id)

LoopStep == \/ EvKQJobsDispatch \/ Visit \/ CallbackReturn \/ WalkStops
            \/ EndOfWalk \/ EndOfEvents

Next == LoopStep \/ EvKQJobsTimerEvent \/ Tick \/ ClientCall

Spec == Init /\ [][Next]_vars

(***************************************************************************)
(* Fairness: the thread in EvKQBaseDispatch keeps turning, a callback      *)
(* returns, time passes and the timer of the timed jobs fires.             *)
(***************************************************************************)
Fairness == WF_vars(LoopStep) /\ SF_vars(EvKQJobsTimerEvent) /\ SF_vars(Tick)
FairSpec == Spec /\ Fairness

-----------------------------------------------------------------------------
TypeOK ==
    /\ pool \in Pool
    /\ job \in [SlotIds -> Job]
    /\ timer \in BOOLEAN /\ polled \in BOOLEAN
    /\ pc \in {"loop", "walk", "callback", "events", "stopped"}
    /\ list \in {IOLOOP, TIMED}
    /\ node \in SlotIds \cup {None} /\ run \in SlotIds \cup {None}
    /\ added \in 0 .. AddsPerWalk
    /\ clock \in 0 .. (DaysOfWeek * DayTicks - 1)
    /\ todo \subseteq SlotIds /\ seen \subseteq SlotIds
    /\ today \in [SlotIds -> Nat] /\ astray \subseteq SlotIds
    /\ cut \subseteq Pointers /\ dangling \subseteq cut

(***************************************************************************)
(* The slots of the MEM_SLOT are the active jobs, each on the list of its  *)
(* kind, and the arena bits are theirs: whatever callbacks add and delete  *)
(* during a walk, no slot leaks and none is freed twice                    *)
(* (ev_kq_jobs.c:132-145, 240-247, 340-341).                               *)
(***************************************************************************)
JobSlotsExact ==
    /\ TypeOK
    /\ WellFormed(pool)
    /\ OnList(pool, TIMED) = {id \in SlotIds : job[id].active /\ job[id].timed}
    /\ OnList(pool, IOLOOP) = {id \in SlotIds : job[id].active /\ ~ job[id].timed}
    /\ pool.bits = Allocated(pool)

(***************************************************************************)
(* A walk visits every job that was on its list when it began, unless a    *)
(* callback deletes it first, and visits none twice, although callbacks    *)
(* change the list under it; only a callback that deletes the very job the *)
(* walk goes to next can lead it astray, and only one that deletes that    *)
(* job or its own can end the program in it (ev_kq_jobs.c:103-159,         *)
(* 240-247, 515-554).                                                      *)
(***************************************************************************)
EachOnce ==
    /\ pc = "walk" /\ "node" \notin cut => /\ node = None => todo = {}
                                           /\ node # None => node \notin seen
    /\ pc = "stopped" => cut # {}

(***************************************************************************)
(* A timed job runs at most once a day, however often its timer fires      *)
(* inside the minute it asked for, unless a walk of the other list was led *)
(* to it (ev_kq_jobs.c:458-474).                                           *)
(***************************************************************************)
OncePerDay == \A id \in SlotIds : today[id] > 1 => id \in astray

(***************************************************************************)
(* "Safety cap, invoked today" (ev_kq_jobs.c:460): at the time and on the  *)
(* day a job asked for, the cap that compares invoke_day with the day of   *)
(* the week holds back only a job that ran today.                          *)
(***************************************************************************)
AskedForNow(j) == /\ j.active /\ j.enabled /\ j.timed /\ InWindow(j)
                  /\ j.day \in {EVERYDAY, week_day}
CapMeansToday == \A id \in SlotIds : AskedForNow(job[id]) /\ job[id].invoke_day = week_day
                                        => today[id] > 0

(***************************************************************************)
(* An enabled I/O loop job runs, and so does a timed job for every day     *)
(* once its timer exists, unless it is disabled or deleted first, or a     *)
(* callback deletes the job its walk goes to next.                         *)
(***************************************************************************)
Due(id) == /\ job[id].active /\ job[id].enabled
           /\ job[id].timed => timer /\ job[id].day = EVERYDAY
JobRuns == \A id \in SlotIds :
               Due(id) ~> (run = id \/ ~ Due(id) \/ "node" \in cut \/ pc = "stopped")
=============================================================================
