------------------------------ MODULE EvTimers ------------------------------
(***************************************************************************)
(* Timers of the event loop (event/core/ev_kq_timer.c) and the descriptor  *)
(* timeouts built on them (event/core/ev_kq_timeout.c), inside the loop    *)
(* that hands changes to kevent() and dispatches what it returns           *)
(* (event/core/ev_kq_base.c).                                              *)
(*                                                                         *)
(* A timer is a slot of a MEM_SLOT; its slot id is the ident of a kernel   *)
(* timer.  The library never talks to the kernel at once: it queues        *)
(* changes, kevent() applies them all and returns a batch of events, and   *)
(* the callbacks run for that batch change timers the rest of the batch is *)
(* about.  Slot ids are reused last in, first out.                         *)
(***************************************************************************)
EXTENDS MemSlotOps

CONSTANTS Fds,          \* descriptors with timeouts
          MaxAdds,      \* bound: timers added over the run
          MaxChanges    \* bound: changes queued between two kevent() calls

Types == {"READ", "WRITE", "BOTH"}      \* KQ_CB_TIMEOUT_READ .. LASTITEM
User == "user"                          \* timers added by EvKQBaseTimerAdd itself
ASSUME TimersAssumption == /\ MaxAdds \in Nat /\ MaxChanges \in Nat
                           /\ ListCount = 1 /\ User \notin Fds

Adds == 1 .. MaxAdds
NoTimer == -1

(***************************************************************************)
(* EvBaseKQTimer.  in_use stands for in_use and active, set and cleared    *)
(* together.  add numbers the EvKQBaseTimerAdd that made the timer and     *)
(* paused tells whether it was ever disabled: neither is in the code, they *)
(* name a timer in the properties.                                         *)
(***************************************************************************)
Timer == [in_use : BOOLEAN, enabled : BOOLEAN, persist : BOOLEAN,
          owner : Fds \cup {User}, add : Adds \cup {0}, paused : BOOLEAN]
BlankTimer == [in_use |-> FALSE, enabled |-> FALSE, persist |-> FALSE,
               owner |-> User, add |-> 0, paused |-> FALSE]

Actions == {"ADD_VOLATILE", "ADD_PERSIST", "ENABLE", "DISABLE", "DELETE"}
Change == [id : SlotIds, action : Actions, add : Adds \cup {0}]
KNote == [present : BOOLEAN, enabled : BOOLEAN, oneshot : BOOLEAN,
          due : BOOLEAN, add : Adds \cup {0}]
NoKNote == [present |-> FALSE, enabled |-> FALSE, oneshot |-> FALSE,
            due |-> FALSE, add |-> 0]
Event == [id : SlotIds, add : Adds \cup {0}]

VARIABLES pool,     \* kq_base->timer.memslot
          timer,    \* the EvBaseKQTimer in each slot
          timeout,  \* kq_fd->timeout[type].timer_id of each descriptor
          chg,      \* kq_base->ke_chg
          knote,    \* the kernel's timers
          batch,    \* the timer events of ev_arr still to be dispatched
          pc,       \* "loop": outside kevent() and its callbacks; "batch"; "callback"
          adds      \* calls of EvKQBaseTimerAdd that succeeded

vars == <<pool, timer, timeout, chg, knote, batch, pc, adds>>

Init == /\ pool = NewPool
        /\ timer = [id \in SlotIds |-> BlankTimer]
        /\ timeout = [fd \in Fds |-> [t \in Types |-> NoTimer]]
        /\ chg = << >> /\ batch = << >>
        /\ knote = [id \in SlotIds |-> NoKNote]
        /\ pc = "loop"
        /\ adds = 0

-----------------------------------------------------------------------------
(* The kernel (external): what kevent() does with a change list and which   *)
(* timers it returns.                                                       *)

ApplyChange(k, c) ==
    [k EXCEPT ![c.id] =
        IF c.action \in {"ADD_VOLATILE", "ADD_PERSIST"}
        THEN [present |-> TRUE, enabled |-> TRUE, oneshot |-> c.action = "ADD_VOLATILE",
              due |-> FALSE, add |-> c.add]
        ELSE IF ~ @.present \/ c.action = "DELETE" THEN NoKNote     \* ENOENT
        ELSE [@ EXCEPT !.enabled = (c.action = "ENABLE")]]
ApplyChanges(k, changes) == FoldLeft(ApplyChange, k, changes)

Ready(k) == {id \in SlotIds : k[id].present /\ k[id].enabled /\ k[id].due}

\* An interval ends.
Expire(id) ==
    /\ knote[id].present /\ ~ knote[id].due
    /\ knote' = [knote EXCEPT ![id].due = TRUE]
    /\ UNCHANGED <<pool, timer, timeout, chg, batch, pc, adds>>

-----------------------------------------------------------------------------
(* The library's calls, made by a callback or, between two kevent() calls,  *)
(* by a job or by the program before it enters the loop.                    *)

Callable == pc \in {"loop", "callback"}

\* EvKQBaseEnqueueTimerChg.
Enqueue(id, action, add) == Append(chg, [id |-> id, action |-> action, add |-> add])
RoomFor(n) == Len(chg) + n <= MaxChanges

\* EvKQBaseTimerNewFromArena and the rest of EvKQBaseTimerAdd, for one owner.
AddTimer(action, owner) ==
    /\ pool' = Grab(pool)
    /\ adds' = adds + 1
    /\ timer' = [timer EXCEPT ![GrabId(pool)] =
                    [in_use |-> TRUE, enabled |-> TRUE, persist |-> action = "ADD_PERSIST",
                     owner |-> owner, add |-> adds + 1, paused |-> FALSE]]
    /\ chg' = Enqueue(GrabId(pool), action, adds + 1)

TimerAdd(action) ==
    /\ Callable /\ adds < MaxAdds /\ RoomFor(1)
    /\ HasFree(pool)            \* no slot: -1 is returned, nothing changes
    /\ AddTimer(action, User)
    /\ UNCHANGED <<timeout, knote, batch, pc>>

\* Slip: the record is not cleared.
KeepRecord(tm, id) == tm
\* EvKQBaseTimerReleaseFromArena: the record is cleared, the slot freed.
ClearRecord(tm, id) == [tm EXCEPT ![id] = BlankTimer]
Release(id) == pool' = SlotFree(pool, id) /\ timer' = ClearRecord(timer, id)

\* EvKQBaseTimerCtl.  EvKQBaseTimerGrabFromArena marks the slot of an id that is not
\* in use and releases it again.  The client does not name the timer of a timeout.
\* Slip: the kernel is not told.
DisableQuietly(id) ==
    /\ timer[id].enabled
    /\ timer' = [timer EXCEPT ![id].enabled = FALSE, ![id].paused = TRUE]
    /\ UNCHANGED <<pool, chg>>
Disable(id) ==
    /\ timer[id].enabled
    /\ chg' = Enqueue(id, "DISABLE", 0)
    /\ timer' = [timer EXCEPT ![id].enabled = FALSE, ![id].paused = TRUE]
    /\ UNCHANGED pool

Enable(id) ==
    /\ ~ timer[id].enabled
    /\ chg' = Enqueue(id, "ENABLE", 0)
    /\ timer' = [timer EXCEPT ![id].enabled = TRUE]
    /\ UNCHANGED pool

Delete(id) ==
    /\ chg' = Enqueue(id, "DELETE", 0)
    /\ Release(id)

TimerCtl(id) ==
    /\ Callable /\ RoomFor(1)
    /\ timer[id].in_use /\ timer[id].owner = User
    /\ Disable(id) \/ Enable(id) \/ Delete(id)
    /\ UNCHANGED <<timeout, knote, batch, pc, adds>>

-----------------------------------------------------------------------------
(* Descriptor timeouts.                                                     *)

\* EvKQBaseTimeoutSet with a handler; a timeout already set is left alone, also
\* by a call with a NULL handler, which therefore never changes anything.
TimeoutSet(fd, type) ==
    /\ Callable /\ adds < MaxAdds /\ RoomFor(1)
    /\ timeout[fd][type] = NoTimer
    /\ HasFree(pool)            \* no slot: timer_id stays -1
    /\ timeout' = [timeout EXCEPT ![fd][type] = GrabId(pool)]
    /\ AddTimer("ADD_VOLATILE", fd)
    /\ UNCHANGED <<knote, batch, pc>>

\* EvKQBaseTimeoutClearByKQFD on s, what it may change: the timer of the timeout is
\* deleted as EvKQBaseTimerCtl does, and the timeout disabled.
Now == [pool |-> pool, timer |-> timer, timeout |-> timeout, chg |-> chg]
ClearTimeout(s, fd, type) ==
    LET id == s.timeout[fd][type]
    IN  IF id = NoTimer THEN s
        ELSE [pool |-> SlotFree(s.pool, id),
              timer |-> ClearRecord(s.timer, id),
              timeout |-> [s.timeout EXCEPT ![fd][type] = NoTimer],
              chg |-> Append(s.chg, [id |-> id, action |-> "DELETE", add |-> 0])]
Become(s) == /\ Len(s.chg) <= MaxChanges
             /\ pool' = s.pool /\ timer' = s.timer
             /\ timeout' = s.timeout /\ chg' = s.chg

\* EvKQBaseTimeoutClear, and EvKQBaseTimeoutClearAll as it is called when the
\* descriptor is closed.
TimeoutClear(fd, type) ==
    /\ Callable /\ timeout[fd][type] # NoTimer
    /\ Become(ClearTimeout(Now, fd, type))
    /\ UNCHANGED <<knote, batch, pc, adds>>

TimeoutClearAll(fd) ==
    /\ Callable /\ \E t \in Types : timeout[fd][t] # NoTimer
    /\ Become(ClearTimeout(ClearTimeout(ClearTimeout(Now, fd, "READ"), fd, "WRITE"),
                           fd, "BOTH"))
    /\ UNCHANGED <<knote, batch, pc, adds>>

-----------------------------------------------------------------------------
(* EvKQInvokeKQueueOnce and EvKQInvokeKQFDCallbacks.                        *)

\* Slip: the change list is reset before the call.
KEventDropsChanges ==
    /\ pc = "loop"
    /\ \E order \in SetToSeqs(Ready(knote)) :
          batch' = [i \in 1 .. Len(order) |-> [id |-> order[i], add |-> knote[order[i]].add]]
    /\ knote' = [id \in SlotIds |-> IF id \notin Ready(knote) THEN knote[id]
                                    ELSE IF knote[id].oneshot THEN NoKNote
                                    ELSE [knote[id] EXCEPT !.due = FALSE]]
    /\ chg' = << >>
    /\ pc' = "batch"
    /\ UNCHANGED <<pool, timer, timeout, adds>>

\* EvKQBaseKEventInvoke: a one-shot timer leaves the kernel with its event.
KEvent ==
    /\ pc = "loop"
    /\ LET k == ApplyChanges(knote, chg)
       IN  /\ \E order \in SetToSeqs(Ready(k)) :
                 batch' = [i \in 1 .. Len(order) |->
                             [id |-> order[i], add |-> k[order[i]].add]]
           /\ knote' = [id \in SlotIds |-> IF id \notin Ready(k) THEN k[id]
                                           ELSE IF k[id].oneshot THEN NoKNote
                                           ELSE [k[id] EXCEPT !.due = FALSE]]
    /\ chg' = << >>
    /\ pc' = "batch"
    /\ UNCHANGED <<pool, timer, timeout, adds>>

\* An event of the batch reads or writes a descriptor: EvKQBaseFDEventInvoke clears
\* its timeouts, then its handler runs.
FDEvent(fd, type) ==
    /\ pc = "batch"
    /\ Become(ClearTimeout(ClearTimeout(Now, fd, type), fd, "BOTH"))
    /\ pc' = "callback"
    /\ UNCHANGED <<knote, batch, adds>>

\* EvKQBaseTimerDispatch of a timer deleted or disabled in this very same IO loop.
NextEvent(id) == pc = "batch" /\ batch # << >> /\ Head(batch).id = id
Alive(id) == timer[id].in_use /\ timer[id].enabled
DispatchDead(id) ==
    /\ NextEvent(id) /\ ~ Alive(id)
    /\ batch' = Tail(batch)
    /\ UNCHANGED <<pool, timer, timeout, chg, knote, pc, adds>>

\* EvKQBaseTimeoutInternalEvent forgets the timeout before the user's handler runs.
\* Slip: the timeout keeps the id of the timer that fired.
Remember(fd, id) == timeout
Forget(fd, id) ==
    IF fd = User THEN timeout
    ELSE [timeout EXCEPT ![fd] = [t \in Types |-> IF @[t] = id THEN NoTimer ELSE @[t]]]

\* EvKQBaseTimerDispatch: a one-shot timer is released before its callback runs.
Dispatch(id) ==
    /\ NextEvent(id) /\ Alive(id)
    /\ IF timer[id].persist THEN UNCHANGED <<pool, timer>> ELSE Release(id)
    /\ timeout' = Forget(timer[id].owner, id)
    /\ batch' = Tail(batch)
    /\ pc' = "callback"
    /\ UNCHANGED <<chg, knote, adds>>

CallbackReturn ==
    /\ pc = "callback"
    /\ pc' = "batch"
    /\ UNCHANGED <<pool, timer, timeout, chg, knote, batch, adds>>

EndOfBatch ==
    /\ pc = "batch" /\ batch = << >>
    /\ pc' = "loop"
    /\ UNCHANGED <<pool, timer, timeout, chg, knote, batch, adds>>

ClientCall == \/ \E action \in {"ADD_VOLATILE", "ADD_PERSIST"} : TimerAdd(action)
              \/ \E id \in SlotIds : TimerCtl(id)
              \/ \E fd \in Fds, type \in Types : \/ TimeoutSet(fd, type)
                                                 \/ TimeoutClear(fd, type)
              \/ \E fd \in Fds : TimeoutClearAll(fd)

BatchStep == \/ EndOfBatch
             \/ \E id \in SlotIds : DispatchDead(id) \/ Dispatch(id)

Next == \/ KEvent \/ BatchStep \/ CallbackReturn
        \/ ClientCall
        \/ \E fd \in Fds, type \in {"READ", "WRITE"} : FDEvent(fd, type)
        \/ \E id \in SlotIds : Expire(id)

Spec == Init /\ [][Next]_vars

(***************************************************************************)
(* Fairness: intervals end; the thread in EvKQBaseDispatch keeps turning:  *)
(* it calls kevent(), callbacks return, and the descriptor events of a     *)
(* batch, being finitely many, do not keep it from the rest of the batch.  *)
(***************************************************************************)
Fairness == /\ \A id \in SlotIds : WF_vars(Expire(id))
            /\ WF_vars(KEvent \/ CallbackReturn)
            /\ SF_vars(BatchStep)
FairSpec == Spec /\ Fairness

-----------------------------------------------------------------------------
TypeOK ==
    /\ pool \in Pool
    /\ timer \in [SlotIds -> Timer]
    /\ timeout \in [Fds -> [Types -> SlotIds \cup {NoTimer}]]
    /\ chg \in Seq(Change)
    /\ knote \in [SlotIds -> KNote]
    /\ batch \in Seq(Event)
    /\ pc \in {"loop", "batch", "callback"}
    /\ adds \in 0 .. MaxAdds

(***************************************************************************)
(* The slots taken from the timer MEM_SLOT are those of the timers in use, *)
(* and no arena bit outlives its timer (ev_kq_timer.c:80-113): no timer    *)
(* slot leaks and none is freed twice, whatever the batch still holds.     *)
(***************************************************************************)
SlotsMatch(p, tm) == /\ WellFormed(p)
                     /\ Allocated(p) = {id \in SlotIds : tm[id].in_use}
                     /\ p.bits = Allocated(p)
SlotsMatchTimers == SlotsMatch(pool, timer)

(***************************************************************************)
(* A timeout and its timer know each other: the id a descriptor holds is a *)
(* one-shot timer in use that will report to that descriptor, no two       *)
(* timeouts share a timer, and every timer made for a descriptor is held   *)
(* by one of its timeouts (ev_kq_timeout.c:86, 167-177, 228-257).          *)
(***************************************************************************)
HoldsItsTimer(tm, to) ==
    \A fd \in Fds, t \in Types : to[fd][t] # NoTimer =>
        /\ to[fd][t] \in SlotIds
        /\ tm[to[fd][t]].in_use /\ tm[to[fd][t]].owner = fd /\ ~ tm[to[fd][t]].persist
NoSharedTimer(to) ==
    \A fd \in Fds, t, u \in Types : to[fd][t] = to[fd][u] /\ t # u => to[fd][t] = NoTimer
IsHeld(tm, to) ==
    \A id \in SlotIds : tm[id].in_use /\ tm[id].owner # User =>
        \E t \in Types : to[tm[id].owner][t] = id
TimeoutOwnsTimer == /\ HoldsItsTimer(timer, timeout)
                    /\ NoSharedTimer(timeout)
                    /\ IsHeld(timer, timeout)

Flushed(id) == ApplyChanges(knote, chg)[id]
InBatch(id) == \E i \in 1 .. Len(batch) : batch[i].id = id

(***************************************************************************)
(* Once the queued changes are applied, the kernel has a timer for each    *)
(* timer in use, enabled and one-shot as the library believes, or the      *)
(* batch holds its event.  A timer that was ever disabled is excepted from *)
(* the existence part: see the README on DISABLE of a timer that fired.    *)
(***************************************************************************)
KernelAgrees ==
    /\ TypeOK
    /\ \A id \in SlotIds :
           timer[id].in_use =>
               /\ Flushed(id).present =>
                     /\ Flushed(id).enabled = timer[id].enabled
                     /\ Flushed(id).oneshot = ~ timer[id].persist
                     /\ Flushed(id).add = timer[id].add
               /\ ~ Flushed(id).present => timer[id].paused \/ InBatch(id)

(***************************************************************************)
(* A one-shot timer that is never disabled ends: it fires, or is deleted.  *)
(***************************************************************************)
Armed(n) == \E id \in SlotIds : timer[id].in_use /\ timer[id].add = n
                                /\ ~ timer[id].persist /\ ~ timer[id].paused
OneShotEnds == \A n \in Adds : Armed(n) ~> ~ Armed(n)

(***************************************************************************)
(* "Someone might have DELETED or DISABLED this TIMER in this very same IO *)
(* loop, so check flags before moving on" (ev_kq_timer.c:237): the check   *)
(* keeps an event from a timer it was not meant for.                       *)
(***************************************************************************)
FiresItsOwnEvent ==
    [][\A id \in SlotIds : Dispatch(id) => Head(batch).add = timer[id].add]_vars
=============================================================================
