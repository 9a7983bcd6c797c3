--------------------------- MODULE EvTimersProofs ---------------------------
(***************************************************************************)
(* For every number of slots, descriptors and timers: no slot of the timer *)
(* MEM_SLOT leaks or is freed twice, a timeout and its timer know each     *)
(* other, and the kernel's timers are those the change list has asked for. *)
(***************************************************************************)
EXTENDS EvTimers, MemSlotLemmas, FiniteSetTheorems

(***************************************************************************)
(* The inductive invariant, on the record ClearTimeout works on: neither   *)
(* part is inductive alone, for the id a timeout holds is freed because it *)
(* is believed in use.                                                     *)
(***************************************************************************)
Consistent(s) == /\ s.timer \in [SlotIds -> Timer]
                 /\ s.timeout \in [Fds -> [Types -> SlotIds \cup {NoTimer}]]
                 /\ SlotsMatch(s.pool, s.timer)
                 /\ HoldsItsTimer(s.timer, s.timeout)
                 /\ NoSharedTimer(s.timeout)
                 /\ IsHeld(s.timer, s.timeout)
TInv == Consistent(Now) /\ adds \in Nat

LEMMA BlankFacts ==
  /\ BlankTimer \in Timer /\ ~ BlankTimer.in_use
  /\ NoTimer \notin SlotIds /\ User \notin Fds
BY TimersAssumption, PoolAssumption DEF BlankTimer, Timer, NoTimer, SlotIds

(* EvKQBaseTimerReleaseFromArena of a timer in use. *)
LEMMA ReleaseMatches ==
  ASSUME NEW p, NEW tm \in [SlotIds -> Timer], SlotsMatch(p, tm),
         NEW id \in SlotIds, tm[id].in_use
  PROVE  /\ SlotsMatch(SlotFree(p, id), ClearRecord(tm, id))
         /\ ClearRecord(tm, id) \in [SlotIds -> Timer]
<1>1. WellFormed(p) /\ id \in Allocated(p) /\ p.bits = Allocated(p)
  BY DEF SlotsMatch
<1>2. /\ WellFormed(SlotFree(p, id))
      /\ \A l \in ListIds : OnList(SlotFree(p, id), l) = OnList(p, l) \ {id}
      /\ SlotFree(p, id).bits = p.bits \ {id}
  BY <1>1, SlotFreeWF
<1>3. Allocated(SlotFree(p, id)) = Allocated(p) \ {id}
  BY <1>2, AllocatedLeaves
<1>4. /\ ClearRecord(tm, id) \in [SlotIds -> Timer]
      /\ {i \in SlotIds : ClearRecord(tm, id)[i].in_use} = {i \in SlotIds : tm[i].in_use} \ {id}
  BY BlankFacts DEF ClearRecord
<1>. QED BY <1>1, <1>2, <1>3, <1>4 DEF SlotsMatch

(* EvKQBaseTimerNewFromArena: the slot it takes was not in use. *)
LEMMA NewMatches ==
  ASSUME NEW p, NEW tm \in [SlotIds -> Timer], SlotsMatch(p, tm), HasFree(p),
         NEW new \in Timer, new.in_use
  PROVE  /\ GrabId(p) \in SlotIds /\ ~ tm[GrabId(p)].in_use
         /\ SlotsMatch(Grab(p), [tm EXCEPT ![GrabId(p)] = new])
<1>1. WellFormed(p) /\ p.bits = Allocated(p)
  BY DEF SlotsMatch
<1>2. /\ WellFormed(Grab(p)) /\ Grab(p).bits = p.bits \cup {GrabId(p)}
      /\ Allocated(Grab(p)) = Allocated(p) \cup {GrabId(p)}
      /\ GrabId(p) \in SlotIds \ Allocated(p)
  BY <1>1, GrabWF, GrabAllocates
<1>3. {i \in SlotIds : [tm EXCEPT ![GrabId(p)] = new][i].in_use}
        = {i \in SlotIds : tm[i].in_use} \cup {GrabId(p)}
  BY <1>2
<1>. QED BY <1>1, <1>2, <1>3 DEF SlotsMatch

(* EvKQBaseTimeoutClearByKQFD *)
LEMMA ClearTimeoutConsistent ==
  ASSUME NEW s, Consistent(s), NEW fd \in Fds, NEW type \in Types
  PROVE  Consistent(ClearTimeout(s, fd, type))
<1>. DEFINE id == s.timeout[fd][type]
            q == ClearTimeout(s, fd, type)
<1>1. CASE id = NoTimer
  BY <1>1 DEF ClearTimeout
<1>2. CASE id # NoTimer
  <2>1. id \in SlotIds /\ s.timer[id].in_use /\ s.timer[id].owner = fd
    BY <1>2 DEF Consistent, HoldsItsTimer
  <2>2. /\ q.pool = SlotFree(s.pool, id) /\ q.timer = ClearRecord(s.timer, id)
        /\ q.timeout = [s.timeout EXCEPT ![fd][type] = NoTimer]
    BY <1>2 DEF ClearTimeout
  <2>3. SlotsMatch(q.pool, q.timer) /\ q.timer \in [SlotIds -> Timer]
    BY <2>1, <2>2, ReleaseMatches DEF Consistent
  <2>4. q.timeout \in [Fds -> [Types -> SlotIds \cup {NoTimer}]]
    BY <2>2 DEF Consistent
  <2>5. /\ q.timeout[fd][type] = NoTimer
        /\ \A f \in Fds, t \in Types : f # fd \/ t # type => q.timeout[f][t] = s.timeout[f][t]
    BY <2>2 DEF Consistent
  <2>6. /\ q.timer[id] = BlankTimer
        /\ \A i \in SlotIds : i # id => q.timer[i] = s.timer[i]
    BY <2>1, <2>2 DEF Consistent, ClearRecord
  <2>. HIDE DEF q
  \* No other timeout of fd shares the id, and one of another descriptor has another owner.
  <2>7. \A f \in Fds, t \in Types : f # fd \/ t # type => s.timeout[f][t] # id
    BY <1>2, <2>1 DEF Consistent, HoldsItsTimer, NoSharedTimer
  <2>8. HoldsItsTimer(q.timer, q.timeout)
    BY <2>5, <2>6, <2>7 DEF Consistent, HoldsItsTimer
  <2>9. NoSharedTimer(q.timeout)
    BY <2>5 DEF Consistent, NoSharedTimer
  <2>10. IsHeld(q.timer, q.timeout)
    <3>1. SUFFICES ASSUME NEW i \in SlotIds, q.timer[i].in_use, q.timer[i].owner # User
                   PROVE  \E t \in Types : q.timeout[q.timer[i].owner][t] = i
      BY DEF IsHeld
    <3>2. i # id /\ q.timer[i] = s.timer[i]
      BY <2>6, <3>1, BlankFacts
    <3>3. PICK t \in Types : s.timeout[s.timer[i].owner][t] = i
      BY <3>1, <3>2 DEF Consistent, IsHeld
    <3>4. s.timer[i].owner \in Fds
      BY <3>1, <3>2 DEF Consistent, Timer
    <3>. QED BY <2>5, <3>2, <3>3, <3>4
  <2>11. Consistent(q)
    BY <2>3, <2>4, <2>8, <2>9, <2>10 DEF Consistent
  <2>. QED BY <2>11 DEF q
<1>. QED BY <1>1, <1>2

LEMMA InitTInv == Init => TInv
<1>. SUFFICES ASSUME Init PROVE TInv
  OBVIOUS
<1>1. /\ pool = NewPool /\ timer = [id \in SlotIds |-> BlankTimer] /\ adds = 0
      /\ timeout = [fd \in Fds |-> [t \in Types |-> NoTimer]]
  BY DEF Init
<1>2. WellFormed(pool) /\ Allocated(pool) = {} /\ pool.bits = {}
  BY <1>1, NewPoolWF DEF Allocated, NewPool
<1>3. \A id \in SlotIds : timer[id] = BlankTimer
  BY <1>1
<1>4. \A fd \in Fds, t \in Types : timeout[fd][t] = NoTimer
  BY <1>1
<1>5. SlotsMatch(pool, timer)
  BY <1>2, <1>3, BlankFacts DEF SlotsMatch
<1>6. /\ timer \in [SlotIds -> Timer]
      /\ timeout \in [Fds -> [Types -> SlotIds \cup {NoTimer}]]
  BY <1>1, BlankFacts
<1>7. HoldsItsTimer(timer, timeout) /\ NoSharedTimer(timeout) /\ IsHeld(timer, timeout)
  BY <1>3, <1>4, BlankFacts DEF HoldsItsTimer, NoSharedTimer, IsHeld
<1>. QED BY <1>1, <1>5, <1>6, <1>7 DEF TInv, Consistent, Now

(* EvKQBaseTimerAdd of a timer of the program itself. *)
LEMMA TimerAddConsistent ==
  ASSUME TInv, NEW action, TimerAdd(action)
  PROVE  TInv'
<1>. DEFINE g == GrabId(pool)
            new == [in_use |-> TRUE, enabled |-> TRUE, persist |-> action = "ADD_PERSIST",
                    owner |-> User, add |-> adds + 1, paused |-> FALSE]
<1>1. /\ timer \in [SlotIds -> Timer] /\ SlotsMatch(pool, timer) /\ adds \in Nat
      /\ timeout \in [Fds -> [Types -> SlotIds \cup {NoTimer}]]
      /\ HoldsItsTimer(timer, timeout) /\ NoSharedTimer(timeout) /\ IsHeld(timer, timeout)
  BY DEF TInv, Consistent, Now
<1>2. /\ HasFree(pool) /\ adds < MaxAdds /\ pool' = Grab(pool)
      /\ timer' = [timer EXCEPT ![g] = new]
      /\ timeout' = timeout /\ adds' = adds + 1
  BY DEF TimerAdd, AddTimer
<1>3. new \in Timer /\ new.in_use /\ new.owner = User
  BY <1>1, <1>2, TimersAssumption DEF Timer, Adds
<1>. HIDE DEF g, new
<1>4. g \in SlotIds /\ ~ timer[g].in_use /\ SlotsMatch(pool', timer')
  BY <1>1, <1>2, <1>3, NewMatches DEF g
<1>5. timer' \in [SlotIds -> Timer] /\ timer'[g] = new
  BY <1>1, <1>2, <1>3, <1>4
<1>6. \A i \in SlotIds : i # g => timer'[i] = timer[i]
  BY <1>1, <1>2, <1>4
<1>7. HoldsItsTimer(timer', timeout')
  BY <1>1, <1>2, <1>4, <1>6 DEF HoldsItsTimer
<1>8. IsHeld(timer', timeout')
  BY <1>1, <1>2, <1>3, <1>5, <1>6 DEF IsHeld
<1>. QED BY <1>1, <1>2, <1>4, <1>5, <1>7, <1>8 DEF TInv, Consistent, Now

(* EvKQBaseTimeoutSet: the new timer is held by the timeout that was empty. *)
LEMMA TimeoutSetConsistent ==
  ASSUME TInv, NEW fd \in Fds, NEW type \in Types, TimeoutSet(fd, type)
  PROVE  TInv'
<1>. DEFINE g == GrabId(pool)
            new == [in_use |-> TRUE, enabled |-> TRUE, persist |-> FALSE,
                    owner |-> fd, add |-> adds + 1, paused |-> FALSE]
<1>1. /\ timer \in [SlotIds -> Timer] /\ SlotsMatch(pool, timer) /\ adds \in Nat
      /\ timeout \in [Fds -> [Types -> SlotIds \cup {NoTimer}]]
      /\ HoldsItsTimer(timer, timeout) /\ NoSharedTimer(timeout) /\ IsHeld(timer, timeout)
  BY DEF TInv, Consistent, Now
<1>2. /\ HasFree(pool) /\ adds < MaxAdds /\ pool' = Grab(pool) /\ adds' = adds + 1
      /\ timer' = [timer EXCEPT ![g] = new]
      /\ timeout' = [timeout EXCEPT ![fd][type] = g] /\ timeout[fd][type] = NoTimer
  <2>1. ("ADD_VOLATILE" = "ADD_PERSIST") = FALSE
    OBVIOUS
  <2>. QED BY <2>1 DEF TimeoutSet, AddTimer
<1>3. new \in Timer /\ new.in_use /\ new.owner = fd /\ ~ new.persist
  BY <1>1, <1>2, TimersAssumption DEF Timer, Adds
<1>. HIDE DEF g, new
<1>4. g \in SlotIds /\ ~ timer[g].in_use /\ SlotsMatch(pool', timer')
  BY <1>1, <1>2, <1>3, NewMatches DEF g
<1>5. timer' \in [SlotIds -> Timer] /\ timer'[g] = new
  BY <1>1, <1>2, <1>3, <1>4
<1>6. \A i \in SlotIds : i # g => timer'[i] = timer[i]
  BY <1>1, <1>2, <1>4
<1>7. timeout' \in [Fds -> [Types -> SlotIds \cup {NoTimer}]] /\ timeout'[fd][type] = g
  BY <1>1, <1>2, <1>4
<1>8. \A f \in Fds, t \in Types : f # fd \/ t # type => timeout'[f][t] = timeout[f][t]
  BY <1>1, <1>2
\* No timeout held the id the slot queue gave.
<1>9. \A f \in Fds, t \in Types : timeout[f][t] # g
  BY <1>1, <1>4, BlankFacts DEF HoldsItsTimer
<1>10. HoldsItsTimer(timer', timeout')
  BY <1>1, <1>3, <1>4, <1>5, <1>6, <1>7, <1>8, <1>9 DEF HoldsItsTimer
<1>11. NoSharedTimer(timeout')
  BY <1>1, <1>7, <1>8, <1>9 DEF NoSharedTimer
<1>12. IsHeld(timer', timeout')
  <2>1. SUFFICES ASSUME NEW i \in SlotIds, timer'[i].in_use, timer'[i].owner # User
                 PROVE  \E t \in Types : timeout'[timer'[i].owner][t] = i
    BY DEF IsHeld
  <2>2. CASE i = g
    BY <1>3, <1>5, <1>7, <2>2
  <2>3. CASE i # g
    <3>1. timer'[i] = timer[i] /\ timer[i].owner \in Fds
      BY <1>1, <1>6, <2>1, <2>3 DEF Timer
    <3>2. PICK t \in Types : timeout[timer[i].owner][t] = i
      BY <1>1, <2>1, <3>1 DEF IsHeld
    <3>3. timer[i].owner # fd \/ t # type
      BY <1>2, <3>2, BlankFacts
    <3>. QED BY <1>8, <3>1, <3>2, <3>3
  <2>. QED BY <2>2, <2>3
<1>. QED BY <1>1, <1>2, <1>4, <1>5, <1>7, <1>10, <1>11, <1>12 DEF TInv, Consistent, Now

(* EvKQBaseTimerCtl: DISABLE and ENABLE touch no flag the invariant reads. *)
LEMMA TimerCtlConsistent ==
  ASSUME TInv, NEW id \in SlotIds, TimerCtl(id)
  PROVE  TInv'
<1>1. /\ timer \in [SlotIds -> Timer] /\ SlotsMatch(pool, timer) /\ adds \in Nat
      /\ timeout \in [Fds -> [Types -> SlotIds \cup {NoTimer}]]
      /\ HoldsItsTimer(timer, timeout) /\ NoSharedTimer(timeout) /\ IsHeld(timer, timeout)
  BY DEF TInv, Consistent, Now
<1>2. /\ timer[id].in_use /\ timer[id].owner = User
      /\ timeout' = timeout /\ adds' = adds
  BY DEF TimerCtl
<1>3. \A i \in SlotIds : i # id => timer'[i] = timer[i]
  BY <1>1 DEF TimerCtl, Disable, Enable, Delete, Release, ClearRecord
<1>4. /\ timer' \in [SlotIds -> Timer] /\ SlotsMatch(pool', timer')
      /\ timer'[id].in_use => timer'[id].owner = User
  <2>1. CASE Disable(id) \/ Enable(id)
    <3>1. /\ timer' \in [SlotIds -> Timer] /\ pool' = pool
          /\ timer'[id].in_use = timer[id].in_use /\ timer'[id].owner = timer[id].owner
      <4>1. CASE Disable(id)
        BY <1>1, <4>1, ZenonT(40) DEF Disable, Timer
      <4>2. CASE Enable(id)
        BY <1>1, <4>2, ZenonT(40) DEF Enable, Timer
      <4>. QED BY <2>1, <4>1, <4>2
    <3>2. {i \in SlotIds : timer'[i].in_use} = {i \in SlotIds : timer[i].in_use}
      BY <1>3, <3>1
    <3>. QED BY <1>1, <1>2, <3>1, <3>2 DEF SlotsMatch
  <2>2. CASE Delete(id)
    <3>1. pool' = SlotFree(pool, id) /\ timer' = ClearRecord(timer, id)
      BY <2>2 DEF Delete, Release
    <3>2. timer'[id] = BlankTimer
      BY <1>1, <3>1 DEF ClearRecord
    <3>. QED BY <1>1, <1>2, <3>1, <3>2, ReleaseMatches, BlankFacts
  <2>. QED BY <2>1, <2>2 DEF TimerCtl
\* No timeout holds a timer of the program.
<1>5. \A fd \in Fds, t \in Types : timeout[fd][t] # id
  BY <1>1, <1>2, BlankFacts DEF HoldsItsTimer
<1>6. HoldsItsTimer(timer', timeout')
  BY <1>1, <1>2, <1>3, <1>5 DEF HoldsItsTimer
<1>7. IsHeld(timer', timeout')
  BY <1>1, <1>2, <1>3, <1>4 DEF IsHeld
<1>. QED BY <1>1, <1>2, <1>4, <1>6, <1>7 DEF TInv, Consistent, Now

(* EvKQBaseTimerDispatch of a live timer, with EvKQBaseTimeoutInternalEvent. *)
LEMMA DispatchConsistent ==
  ASSUME TInv, NEW id \in SlotIds, Dispatch(id)
  PROVE  TInv'
<1>. DEFINE fd == timer[id].owner
<1>1. /\ timer \in [SlotIds -> Timer] /\ SlotsMatch(pool, timer) /\ adds \in Nat
      /\ timeout \in [Fds -> [Types -> SlotIds \cup {NoTimer}]]
      /\ HoldsItsTimer(timer, timeout) /\ NoSharedTimer(timeout) /\ IsHeld(timer, timeout)
  BY DEF TInv, Consistent, Now
<1>2. timer[id].in_use /\ adds' = adds /\ timeout' = Forget(fd, id) /\ fd \in Fds \cup {User}
  BY <1>1 DEF Dispatch, Alive, Timer
<1>3. CASE timer[id].persist
  \* A persistent timer is the program's own, so no timeout is forgotten.
  <2>1. fd = User
    BY <1>1, <1>2, <1>3, BlankFacts DEF HoldsItsTimer, IsHeld
  <2>2. pool' = pool /\ timer' = timer /\ timeout' = timeout
    BY <1>2, <1>3, <2>1 DEF Dispatch, Forget
  <2>. QED BY <1>1, <1>2, <2>2 DEF TInv, Consistent, Now
<1>4. CASE ~ timer[id].persist
  <2>1. pool' = SlotFree(pool, id) /\ timer' = ClearRecord(timer, id)
    BY <1>4 DEF Dispatch, Release
  <2>2. SlotsMatch(pool', timer') /\ timer' \in [SlotIds -> Timer]
    BY <1>1, <1>2, <2>1, ReleaseMatches
  <2>3. timer'[id] = BlankTimer /\ \A i \in SlotIds : i # id => timer'[i] = timer[i]
    BY <1>1, <2>1 DEF ClearRecord
  <2>4. /\ timeout' \in [Fds -> [Types -> SlotIds \cup {NoTimer}]]
        /\ \A f \in Fds, t \in Types :
              timeout'[f][t] = IF f = fd /\ timeout[f][t] = id THEN NoTimer ELSE timeout[f][t]
    <3>1. CASE fd = User
      BY <1>1, <1>2, <3>1, BlankFacts DEF Forget
    <3>2. CASE fd # User
      BY <1>1, <1>2, <3>2 DEF Forget
    <3>. QED BY <3>1, <3>2
  <2>. HIDE DEF fd
  \* A timeout that held the id belonged to fd, so no timeout holds it now.
  <2>5. \A f \in Fds, t \in Types : timeout[f][t] = id => f = fd
    BY <1>1, BlankFacts DEF HoldsItsTimer, fd
  <2>6. \A f \in Fds, t \in Types :
          timeout'[f][t] # NoTimer => timeout'[f][t] = timeout[f][t] /\ timeout[f][t] # id
    BY <2>4, <2>5
  <2>7. HoldsItsTimer(timer', timeout')
    BY <1>1, <2>3, <2>6 DEF HoldsItsTimer
  <2>8. NoSharedTimer(timeout')
    BY <1>1, <2>6 DEF NoSharedTimer
  <2>9. IsHeld(timer', timeout')
    <3>1. SUFFICES ASSUME NEW i \in SlotIds, timer'[i].in_use, timer'[i].owner # User
                   PROVE  \E t \in Types : timeout'[timer'[i].owner][t] = i
      BY DEF IsHeld
    <3>2. i # id /\ timer'[i] = timer[i]
      BY <2>3, <3>1, BlankFacts
    <3>3. timer[i].owner \in Fds
      BY <1>1, <3>1, <3>2 DEF Timer
    <3>4. PICK t \in Types : timeout[timer[i].owner][t] = i
      BY <1>1, <3>1, <3>2 DEF IsHeld
    <3>. QED BY <2>4, <3>2, <3>3, <3>4
  <2>. QED BY <1>1, <1>2, <2>2, <2>4, <2>7, <2>8, <2>9 DEF TInv, Consistent, Now
<1>. QED BY <1>3, <1>4

(* The steps that clear timeouts, and those that touch neither timers nor timeouts. *)
LEMMA BecomeConsistent ==
  ASSUME NEW s, Consistent(s), Become(s), adds \in Nat, adds' = adds
  PROVE  TInv'
BY DEF TInv, Consistent, Become, Now

LEMMA NextTInv == TInv /\ [Next]_vars => TInv'
<1>. SUFFICES ASSUME TInv, [Next]_vars PROVE TInv'
  OBVIOUS
<1>0. Consistent(Now) /\ adds \in Nat /\ {"READ", "WRITE", "BOTH"} \subseteq Types
  BY DEF TInv, Types
<1>1. ASSUME NEW action, TimerAdd(action) PROVE TInv'
  BY <1>1, TimerAddConsistent
<1>2. ASSUME NEW id \in SlotIds, TimerCtl(id) PROVE TInv'
  BY <1>2, TimerCtlConsistent
<1>3. ASSUME NEW fd \in Fds, NEW type \in Types, TimeoutSet(fd, type) PROVE TInv'
  BY <1>3, TimeoutSetConsistent
<1>4. ASSUME NEW fd \in Fds, NEW type \in Types, TimeoutClear(fd, type) PROVE TInv'
  BY <1>0, <1>4, ClearTimeoutConsistent, BecomeConsistent DEF TimeoutClear
<1>5. ASSUME NEW fd \in Fds, TimeoutClearAll(fd) PROVE TInv'
  <2>1. Consistent(ClearTimeout(Now, fd, "READ"))
    BY <1>0, ClearTimeoutConsistent
  <2>2. Consistent(ClearTimeout(ClearTimeout(Now, fd, "READ"), fd, "WRITE"))
    BY <1>0, <2>1, ClearTimeoutConsistent
  <2>3. Consistent(ClearTimeout(ClearTimeout(ClearTimeout(Now, fd, "READ"), fd, "WRITE"),
                                fd, "BOTH"))
    BY <1>0, <2>2, ClearTimeoutConsistent
  <2>. QED BY <1>0, <1>5, <2>3, BecomeConsistent DEF TimeoutClearAll
<1>6. ASSUME NEW fd \in Fds, NEW type \in {"READ", "WRITE"}, FDEvent(fd, type) PROVE TInv'
  <2>1. Consistent(ClearTimeout(Now, fd, type))
    BY <1>0, ClearTimeoutConsistent
  <2>2. Consistent(ClearTimeout(ClearTimeout(Now, fd, type), fd, "BOTH"))
    BY <1>0, <2>1, ClearTimeoutConsistent
  <2>. QED BY <1>0, <1>6, <2>2, BecomeConsistent DEF FDEvent
<1>7. ASSUME NEW id \in SlotIds, Dispatch(id) PROVE TInv'
  BY <1>7, DispatchConsistent
<1>8. CASE UNCHANGED <<pool, timer, timeout, adds>>
  BY <1>0, <1>8 DEF TInv, Consistent, Now
<1>9. ASSUME NEW id \in SlotIds, DispatchDead(id) \/ Expire(id) PROVE TInv'
  BY <1>8, <1>9 DEF DispatchDead, Expire
<1>10. CASE KEvent \/ EndOfBatch \/ CallbackReturn \/ UNCHANGED vars
  BY <1>8, <1>10 DEF KEvent, EndOfBatch, CallbackReturn, vars
<1>. QED BY <1>1, <1>2, <1>3, <1>4, <1>5, <1>6, <1>7, <1>9, <1>10
         DEF Next, ClientCall, BatchStep

(***************************************************************************)
(* The slots taken from the timer MEM_SLOT are always those of the timers  *)
(* in use: EvKQBaseTimerAdd, EvKQBaseTimerCtl, the timeouts and the        *)
(* dispatch of a batch leak no slot and free none twice.                   *)
(***************************************************************************)
THEOREM TimersLeakNoSlot == Spec => []SlotsMatchTimers
<1>1. TInv => SlotsMatchTimers
  BY DEF TInv, Consistent, Now, SlotsMatchTimers
<1>. QED BY <1>1, InitTInv, NextTInv, PTL DEF Spec

(***************************************************************************)
(* A timeout of a descriptor and its timer always know each other, so an   *)
(* expiry reaches the handler of the descriptor that asked for it and a    *)
(* cleared timeout leaves no timer behind.                                 *)
(***************************************************************************)
THEOREM TimeoutsOwnTheirTimers == Spec => []TimeoutOwnsTimer
<1>1. TInv => TimeoutOwnsTimer
  BY DEF TInv, Consistent, Now, TimeoutOwnsTimer
<1>. QED BY <1>1, InitTInv, NextTInv, PTL DEF Spec

-----------------------------------------------------------------------------
(***************************************************************************)
(* Induction on natural numbers, for a set instead of a predicate.         *)
(***************************************************************************)
LEMMA LeastNat ==
  ASSUME NEW T, T \subseteq Nat, T # {}
  PROVE  \E x \in T : \A y \in T : x <= y
<1>. DEFINE R == OpToRel(<, Nat)
<1>1. IsWellFoundedOn(R, Nat)
  BY NatLessThanWellFounded
<1>2. \A x, y \in Nat : <<y, x>> \in R <=> y < x
  BY DEF OpToRel
<1>. HIDE DEF R
<1>3. PICK x \in T : \A y \in T : ~ (<<y, x>> \in R)
  BY <1>1, WFMin
<1>4. ASSUME NEW y \in T PROVE x <= y
  <2>1. x \in Nat /\ y \in Nat /\ ~ (<<y, x>> \in R)
    BY <1>3
  <2>2. ~ (y < x)
    BY <1>2, <2>1
  <2>. QED BY <2>1, <2>2
<1>. QED BY <1>4

LEMMA InductNat ==
  ASSUME NEW T, 0 \in T, \A n \in Nat : n \in T => n + 1 \in T
  PROVE  Nat \subseteq T
<1>. DEFINE U == Nat \ T
<1>. SUFFICES ASSUME U # {} PROVE FALSE
  OBVIOUS
<1>1. PICK x \in U : \A y \in U : x <= y
  BY LeastNat
<1>2. x # 0 /\ x - 1 \in Nat /\ x - 1 \in T /\ (x - 1) + 1 = x
  BY <1>1
<1>. QED BY <1>2

(***************************************************************************)
(* What kevent() does with a change list, change by change.  ApplyChanges  *)
(* folds over the set of positions, taking the largest off first.          *)
(***************************************************************************)
Iterates(F, n, k, q) ==
    F = [s \in SUBSET (1 .. n) |->
            IF s = {} THEN k ELSE ApplyChange(F[s \ {Max(s)}], q[Max(s)])]

LEMMA MaxOfInterval ==
  ASSUME NEW n \in Nat, NEW s \in SUBSET (1 .. (n + 1)), n + 1 \in s
  PROVE  Max(s) = n + 1 /\ s \ {n + 1} \in SUBSET (1 .. n)
<1>1. \A y \in s : n + 1 >= y
  OBVIOUS
<1>2. \A x \in s : (\A y \in s : x >= y) => x = n + 1
  OBVIOUS
<1>3. Max(s) = n + 1
  BY <1>1, <1>2 DEF Max
<1>. QED BY <1>3

LEMMA IterateExists ==
  ASSUME NEW k, NEW q, NEW n \in Nat
  PROVE  \E F : Iterates(F, n, k, q)
<1>. DEFINE T == {m \in Nat : \E F : Iterates(F, m, k, q)}
<1>1. 0 \in T
  <2>1. SUBSET (1 .. 0) = {{}}
    OBVIOUS
  <2>2. Iterates([s \in SUBSET (1 .. 0) |-> k], 0, k, q)
    BY <2>1 DEF Iterates
  <2>. QED BY <2>2
<1>2. ASSUME NEW m \in Nat, m \in T PROVE m + 1 \in T
  <2>1. PICK F : Iterates(F, m, k, q)
    BY <1>2
  <2>. DEFINE G == [s \in SUBSET (1 .. (m + 1)) |->
                       IF m + 1 \in s THEN ApplyChange(F[s \ {m + 1}], q[m + 1]) ELSE F[s]]
  <2>2. ASSUME NEW s \in SUBSET (1 .. (m + 1))
        PROVE  G[s] = IF s = {} THEN k ELSE ApplyChange(G[s \ {Max(s)}], q[Max(s)])
    <3>1. CASE m + 1 \in s
      <4>1. Max(s) = m + 1 /\ s \ {m + 1} \in SUBSET (1 .. m)
        BY <3>1, MaxOfInterval
      <4>2. s \ {m + 1} \in SUBSET (1 .. (m + 1)) /\ m + 1 \notin s \ {m + 1}
        OBVIOUS
      <4>. QED BY <3>1, <4>1, <4>2
    <3>2. CASE m + 1 \notin s
      <4>0. \A x \in 1 .. (m + 1) : x # m + 1 => x \in 1 .. m
        OBVIOUS
      <4>1. s \in SUBSET (1 .. m) /\ s \ {Max(s)} \in SUBSET (1 .. m)
        BY <3>2, <4>0
      <4>2. s \ {Max(s)} \in SUBSET (1 .. (m + 1)) /\ m + 1 \notin s \ {Max(s)}
        BY <3>2
      <4>3. F[s] = IF s = {} THEN k ELSE ApplyChange(F[s \ {Max(s)}], q[Max(s)])
        BY <2>1, <4>1 DEF Iterates
      <4>. QED BY <3>2, <4>2, <4>3
    <3>. QED BY <3>1, <3>2
  <2>3. Iterates(G, m + 1, k, q)
    BY <2>2 DEF Iterates
  <2>. QED BY <2>3
<1>. HIDE DEF T
<1>3. Nat \subseteq T
  BY <1>1, <1>2, InductNat
<1>. QED BY <1>3 DEF T

\* The states the kernel's timers go through while the list is applied.
Stages(g, k, q) ==
    /\ g[0] = k
    /\ \A i \in 1 .. Len(q) : g[i] = ApplyChange(g[i - 1], q[i])

LEMMA StagesApply ==
  ASSUME NEW k, NEW q \in Seq(Change)
  PROVE  \E g : Stages(g, k, q) /\ ApplyChanges(k, q) = g[Len(q)]
<1>. PICK n : n = Len(q)
  OBVIOUS
<1>0. n \in Nat /\ DOMAIN q = 1 .. n
  OBVIOUS
<1>1. ApplyChanges(k, q) = (CHOOSE F : Iterates(F, n, k, q))[1 .. n]
  BY <1>0 DEF ApplyChanges, FoldLeft, MapThenFoldSet, Iterates
<1>2. PICK F : Iterates(F, n, k, q) /\ ApplyChanges(k, q) = F[1 .. n]
  BY <1>0, <1>1, IterateExists
<1>. DEFINE g == [i \in 0 .. n |-> F[1 .. i]]
<1>3. g[0] = k
  <2>1. 1 .. 0 = {} /\ {} \in SUBSET (1 .. n)
    OBVIOUS
  <2>2. F[{}] = k
    BY <1>2, <2>1 DEF Iterates
  <2>. QED BY <1>0, <2>1, <2>2
<1>4. ASSUME NEW i \in 1 .. n PROVE g[i] = ApplyChange(g[i - 1], q[i])
  <2>0. i - 1 \in Nat /\ (i - 1) + 1 = i /\ i \in 1 .. i
    BY <1>0
  <2>1. Max(1 .. i) = i
    BY <2>0, MaxOfInterval
  <2>2. (1 .. i) \ {i} = 1 .. (i - 1) /\ 1 .. i \in SUBSET (1 .. n) /\ 1 .. i # {}
    <3>1. \A x : x \in (1 .. i) \ {i} <=> x \in 1 .. (i - 1)
      BY <2>0
    <3>2. \A x \in 1 .. i : x \in 1 .. n
      BY <1>0
    <3>. QED BY <2>0, <3>1, <3>2
  <2>3. F[1 .. i] = ApplyChange(F[(1 .. i) \ {i}], q[i])
    BY <1>2, <2>1, <2>2 DEF Iterates
  <2>4. g[i] = F[1 .. i] /\ g[i - 1] = F[1 .. (i - 1)]
    BY <1>0
  <2>. QED BY <2>2, <2>3, <2>4
<1>5. g[n] = F[1 .. n]
  BY <1>0
<1>6. Stages(g, k, q)
  BY <1>3, <1>4 DEF Stages
<1>. QED BY <1>2, <1>5, <1>6

LEMMA StagesAgree ==
  ASSUME NEW k, NEW q \in Seq(Change), NEW r \in Seq(Change), NEW g, NEW h,
         Stages(g, k, q), Stages(h, k, r), Len(q) <= Len(r),
         \A i \in 1 .. Len(q) : q[i] = r[i]
  PROVE  \A i \in 0 .. Len(q) : g[i] = h[i]
<1>. DEFINE T == {i \in Nat : i \in 0 .. Len(q) => g[i] = h[i]}
<1>0. Len(q) \in Nat /\ Len(r) \in Nat
  OBVIOUS
<1>1. 0 \in T
  BY DEF Stages
<1>2. ASSUME NEW i \in Nat, i \in T PROVE i + 1 \in T
  <2>. SUFFICES ASSUME i + 1 \in 0 .. Len(q) PROVE g[i + 1] = h[i + 1]
    OBVIOUS
  <2>1. i \in 0 .. Len(q) /\ i + 1 \in 1 .. Len(q) /\ i + 1 \in 1 .. Len(r) /\ (i + 1) - 1 = i
    BY <1>0
  <2>2. g[i] = h[i]
    BY <1>2, <2>1
  <2>3. g[i + 1] = ApplyChange(g[i], q[i + 1]) /\ h[i + 1] = ApplyChange(h[i], r[i + 1])
    BY <2>1 DEF Stages
  <2>. QED BY <2>1, <2>2, <2>3
<1>. HIDE DEF T
<1>3. Nat \subseteq T
  BY <1>1, <1>2, InductNat
<1>. QED BY <1>0, <1>3 DEF T

\* EvKQBaseEnqueueTimerChg appends: the change applies to what the list leaves.
LEMMA ApplyOneMore ==
  ASSUME NEW k, NEW q \in Seq(Change), NEW r \in Seq(Change), NEW c,
         Len(r) = Len(q) + 1, r[Len(q) + 1] = c, \A i \in 1 .. Len(q) : r[i] = q[i]
  PROVE  ApplyChanges(k, r) = ApplyChange(ApplyChanges(k, q), c)
<1>1. PICK g : Stages(g, k, q) /\ ApplyChanges(k, q) = g[Len(q)]
  BY StagesApply
<1>2. PICK h : Stages(h, k, r) /\ ApplyChanges(k, r) = h[Len(r)]
  BY StagesApply
<1>3. Len(q) \in Nat /\ Len(q) <= Len(r) /\ Len(q) \in 0 .. Len(q)
  OBVIOUS
<1>4. \A i \in 0 .. Len(q) : g[i] = h[i]
  <2>1. \A i \in 1 .. Len(q) : q[i] = r[i]
    OBVIOUS
  <2>2. Stages(g, k, q) /\ Stages(h, k, r) /\ Len(q) <= Len(r)
    BY <1>1, <1>2, <1>3
  <2>. QED BY <2>1, <2>2, StagesAgree, SMTT(30)
<1>5. h[Len(r)] = ApplyChange(h[Len(q)], c)
  <2>1. Len(r) \in 1 .. Len(r) /\ Len(r) - 1 = Len(q)
    BY <1>3
  <2>. QED BY <2>1, <1>2 DEF Stages
<1>. QED BY <1>1, <1>2, <1>3, <1>4, <1>5

LEMMA ApplyAppend ==
  ASSUME NEW k, NEW q \in Seq(Change), NEW c \in Change
  PROVE  ApplyChanges(k, Append(q, c)) = ApplyChange(ApplyChanges(k, q), c)
<1>1. /\ Append(q, c) \in Seq(Change) /\ Len(Append(q, c)) = Len(q) + 1
      /\ Append(q, c)[Len(q) + 1] = c
      /\ \A i \in 1 .. Len(q) : Append(q, c)[i] = q[i]
  BY AppendProperties
<1>. QED BY <1>1, ApplyOneMore, ZenonT(40)

LEMMA ApplyNone ==
  ASSUME NEW k
  PROVE  ApplyChanges(k, << >>) = k
<1>1. << >> \in Seq(Change) /\ Len(<< >>) = 0
  OBVIOUS
<1>2. PICK g : Stages(g, k, << >>) /\ ApplyChanges(k, << >>) = g[Len(<< >>)]
  BY <1>1, StagesApply
<1>. QED BY <1>1, <1>2 DEF Stages

(***************************************************************************)
(* One change touches the timer it names; a list of them keeps the type,   *)
(* and does not look at what is due.                                       *)
(***************************************************************************)
LEMMA OneChange ==
  ASSUME NEW k \in [SlotIds -> KNote], NEW c \in Change
  PROVE  /\ ApplyChange(k, c) \in [SlotIds -> KNote]
         /\ \A id \in SlotIds : id # c.id => ApplyChange(k, c)[id] = k[id]
         /\ c.action \in {"ADD_VOLATILE", "ADD_PERSIST"} =>
               /\ ApplyChange(k, c)[c.id].present /\ ApplyChange(k, c)[c.id].enabled
               /\ ApplyChange(k, c)[c.id].oneshot = (c.action = "ADD_VOLATILE")
               /\ ApplyChange(k, c)[c.id].add = c.add
         /\ c.action \in {"ENABLE", "DISABLE"} =>
               /\ ApplyChange(k, c)[c.id].present = k[c.id].present
               /\ k[c.id].present =>
                     /\ ApplyChange(k, c)[c.id].enabled = (c.action = "ENABLE")
                     /\ ApplyChange(k, c)[c.id].oneshot = k[c.id].oneshot
                     /\ ApplyChange(k, c)[c.id].add = k[c.id].add
<1>0. /\ c.id \in SlotIds /\ c.add \in Adds \cup {0} /\ k[c.id] \in KNote /\ NoKNote \in KNote
      /\ ~ NoKNote.present
  BY DEF Change, KNote, NoKNote
<1>. PICK a : a = c.action
  OBVIOUS
<1>1. CASE a \in {"ADD_VOLATILE", "ADD_PERSIST"}
  <2>. PICK new : new = [present |-> TRUE, enabled |-> TRUE, oneshot |-> a = "ADD_VOLATILE",
                         due |-> FALSE, add |-> c.add]
    OBVIOUS
  <2>1. /\ new \in KNote /\ new.present /\ new.enabled
        /\ new.oneshot = (a = "ADD_VOLATILE") /\ new.add = c.add
    BY <1>0 DEF KNote
  <2>2. ApplyChange(k, c) = [k EXCEPT ![c.id] = new]
    BY <1>1 DEF ApplyChange
  <2>3. a \notin {"ENABLE", "DISABLE"}
    BY <1>1
  <2>. QED BY <1>0, <2>1, <2>2, <2>3
<1>2. CASE a \notin {"ADD_VOLATILE", "ADD_PERSIST"} /\ (~ k[c.id].present \/ a = "DELETE")
  <2>1. ApplyChange(k, c) = [k EXCEPT ![c.id] = NoKNote]
    BY <1>2 DEF ApplyChange
  <2>2. /\ ApplyChange(k, c) \in [SlotIds -> KNote]
        /\ \A id \in SlotIds : id # c.id => ApplyChange(k, c)[id] = k[id]
        /\ ApplyChange(k, c)[c.id].present = FALSE
    BY <1>0, <2>1
  <2>3. k[c.id].present \in BOOLEAN
    BY <1>0 DEF KNote
  <2>4. c.action \in {"ENABLE", "DISABLE"} => k[c.id].present = FALSE
    BY <1>2, <2>3
  <2>5. c.action \notin {"ADD_VOLATILE", "ADD_PERSIST"}
    BY <1>2
  <2>. QED BY <2>2, <2>4, <2>5
<1>3. CASE a \notin {"ADD_VOLATILE", "ADD_PERSIST"} /\ k[c.id].present /\ a # "DELETE"
  <2>. PICK on : on = (a = "ENABLE")
    OBVIOUS
  <2>. PICK new : new = [k[c.id] EXCEPT !.enabled = on]
    OBVIOUS
  <2>1. /\ new \in KNote /\ new.present = k[c.id].present /\ new.enabled = on
        /\ new.oneshot = k[c.id].oneshot /\ new.add = k[c.id].add
    BY <1>0 DEF KNote
  <2>2. ApplyChange(k, c) = [k EXCEPT ![c.id] = new]
    BY <1>3 DEF ApplyChange
  <2>3. /\ ApplyChange(k, c) \in [SlotIds -> KNote]
        /\ \A id \in SlotIds : id # c.id => ApplyChange(k, c)[id] = k[id]
        /\ ApplyChange(k, c)[c.id] = new
    BY <1>0, <2>1, <2>2
  <2>4. new.enabled = (c.action = "ENABLE") /\ c.action \notin {"ADD_VOLATILE", "ADD_PERSIST"}
    BY <1>3, <2>1
  <2>. QED BY <2>1, <2>3, <2>4
<1>. QED BY <1>1, <1>2, <1>3

AsWatched(k, h) == \A id \in SlotIds : /\ k[id].present = h[id].present
                                       /\ k[id].enabled = h[id].enabled
                                       /\ k[id].oneshot = h[id].oneshot
                                       /\ k[id].add = h[id].add

LEMMA ApplyTyped ==
  ASSUME NEW k \in [SlotIds -> KNote], NEW q \in Seq(Change)
  PROVE  ApplyChanges(k, q) \in [SlotIds -> KNote]
<1>1. PICK g : Stages(g, k, q) /\ ApplyChanges(k, q) = g[Len(q)]
  BY StagesApply
<1>. DEFINE T == {i \in Nat : i \in 0 .. Len(q) => g[i] \in [SlotIds -> KNote]}
<1>2. 0 \in T
  BY <1>1 DEF Stages
<1>3. ASSUME NEW i \in Nat, i \in T PROVE i + 1 \in T
  <2>. SUFFICES ASSUME i + 1 \in 0 .. Len(q) PROVE g[i + 1] \in [SlotIds -> KNote]
    OBVIOUS
  <2>1. i \in 0 .. Len(q) /\ i + 1 \in 1 .. Len(q) /\ (i + 1) - 1 = i
    OBVIOUS
  <2>2. g[i] \in [SlotIds -> KNote] /\ q[i + 1] \in Change
    BY <1>3, <2>1
  <2>3. g[i + 1] = ApplyChange(g[i], q[i + 1])
    BY <1>1, <2>1 DEF Stages
  <2>. QED BY <2>2, <2>3, OneChange, ZenonT(40)
<1>. HIDE DEF T
<1>4. Nat \subseteq T
  BY <1>2, <1>3, InductNat
<1>5. Len(q) \in Nat /\ Len(q) \in 0 .. Len(q)
  OBVIOUS
<1>. QED BY <1>1, <1>4, <1>5 DEF T

LEMMA ApplyAsWatched ==
  ASSUME NEW k \in [SlotIds -> KNote], NEW h \in [SlotIds -> KNote], AsWatched(k, h),
         NEW q \in Seq(Change)
  PROVE  AsWatched(ApplyChanges(k, q), ApplyChanges(h, q))
<1>1. PICK f : Stages(f, k, q) /\ ApplyChanges(k, q) = f[Len(q)]
  BY StagesApply
<1>2. PICK g : Stages(g, h, q) /\ ApplyChanges(h, q) = g[Len(q)]
  BY StagesApply
<1>. DEFINE T == {i \in Nat : i \in 0 .. Len(q) => /\ f[i] \in [SlotIds -> KNote]
                                                   /\ g[i] \in [SlotIds -> KNote]
                                                   /\ AsWatched(f[i], g[i])}
<1>3. 0 \in T
  BY <1>1, <1>2 DEF Stages
<1>4. ASSUME NEW i \in Nat, i \in T PROVE i + 1 \in T
  <2>. SUFFICES ASSUME i + 1 \in 0 .. Len(q)
                PROVE  /\ f[i + 1] \in [SlotIds -> KNote] /\ g[i + 1] \in [SlotIds -> KNote]
                       /\ AsWatched(f[i + 1], g[i + 1])
    OBVIOUS
  <2>1. i \in 0 .. Len(q) /\ i + 1 \in 1 .. Len(q) /\ (i + 1) - 1 = i
    OBVIOUS
  <2>. PICK x, y, c : x = f[i] /\ y = g[i] /\ c = q[i + 1]
    OBVIOUS
  <2>2. /\ x \in [SlotIds -> KNote] /\ y \in [SlotIds -> KNote] /\ AsWatched(x, y)
        /\ c \in Change
    BY <1>4, <2>1
  <2>3. f[i + 1] = ApplyChange(x, c) /\ g[i + 1] = ApplyChange(y, c)
    BY <1>1, <1>2, <2>1 DEF Stages
  <2>4. /\ ApplyChange(x, c) \in [SlotIds -> KNote] /\ ApplyChange(y, c) \in [SlotIds -> KNote]
        /\ \A id \in SlotIds : id # c.id => ApplyChange(x, c)[id] = x[id]
        /\ \A id \in SlotIds : id # c.id => ApplyChange(y, c)[id] = y[id]
    <3>1. /\ ApplyChange(x, c) \in [SlotIds -> KNote]
          /\ \A id \in SlotIds : id # c.id => ApplyChange(x, c)[id] = x[id]
      BY <2>2, OneChange, ZenonT(40)
    <3>2. /\ ApplyChange(y, c) \in [SlotIds -> KNote]
          /\ \A id \in SlotIds : id # c.id => ApplyChange(y, c)[id] = y[id]
      BY <2>2, OneChange, ZenonT(40)
    <3>. QED BY <3>1, <3>2
  <2>5. c.id \in SlotIds /\ AsWatched(x, y)
    BY <2>2 DEF Change
  <2>6. ASSUME c.action \in {"ADD_VOLATILE", "ADD_PERSIST"} \/ ~ x[c.id].present \/ c.action = "DELETE"
        PROVE  ApplyChange(x, c)[c.id] = ApplyChange(y, c)[c.id]
    BY <2>2, <2>5, <2>6 DEF ApplyChange, AsWatched
  <2>7. ASSUME c.action \notin {"ADD_VOLATILE", "ADD_PERSIST"}, x[c.id].present, c.action # "DELETE"
        PROVE  /\ ApplyChange(x, c)[c.id].present = ApplyChange(y, c)[c.id].present
               /\ ApplyChange(x, c)[c.id].enabled = ApplyChange(y, c)[c.id].enabled
               /\ ApplyChange(x, c)[c.id].oneshot = ApplyChange(y, c)[c.id].oneshot
               /\ ApplyChange(x, c)[c.id].add = ApplyChange(y, c)[c.id].add
    <3>1. c.action \in {"ENABLE", "DISABLE"} /\ y[c.id].present
      BY <2>2, <2>5, <2>7 DEF Change, Actions, AsWatched
    <3>2. /\ ApplyChange(x, c)[c.id].present = x[c.id].present
          /\ ApplyChange(x, c)[c.id].enabled = (c.action = "ENABLE")
          /\ ApplyChange(x, c)[c.id].oneshot = x[c.id].oneshot
          /\ ApplyChange(x, c)[c.id].add = x[c.id].add
      BY <2>2, <2>7, <3>1, OneChange, ZenonT(40)
    <3>3. /\ ApplyChange(y, c)[c.id].present = y[c.id].present
          /\ ApplyChange(y, c)[c.id].enabled = (c.action = "ENABLE")
          /\ ApplyChange(y, c)[c.id].oneshot = y[c.id].oneshot
          /\ ApplyChange(y, c)[c.id].add = y[c.id].add
      BY <2>2, <3>1, OneChange, ZenonT(40)
    <3>4. /\ x[c.id].present = y[c.id].present /\ x[c.id].oneshot = y[c.id].oneshot
          /\ x[c.id].add = y[c.id].add
      BY <2>5 DEF AsWatched
    <3>. QED BY <3>2, <3>3, <3>4, ZenonT(40)
  <2>8. AsWatched(ApplyChange(x, c), ApplyChange(y, c))
    BY <2>4, <2>5, <2>6, <2>7 DEF AsWatched
  <2>. QED BY <2>3, <2>4, <2>8
<1>. HIDE DEF T
<1>5. Nat \subseteq T
  BY <1>3, <1>4, InductNat
<1>6. Len(q) \in Nat /\ Len(q) \in 0 .. Len(q)
  OBVIOUS
<1>. QED BY <1>1, <1>2, <1>5, <1>6 DEF T

-----------------------------------------------------------------------------
(***************************************************************************)
(* The inductive invariant of KernelAgrees, on the record that             *)
(* ClearTimeout works on.  A timer without a knote was disabled at some    *)
(* time, or is a one-shot timer whose event is in the batch: an event does *)
(* not take the knote of a persistent timer.  A disabled timer was once    *)
(* paused, so the event the dispatch drops is excused.                     *)
(***************************************************************************)
Awaits(b, id) == \E i \in 1 .. Len(b) : b[i].id = id
Told(t, note, waits) ==
    t.in_use => /\ ~ t.enabled => t.paused
                /\ note.present => /\ note.enabled = t.enabled
                                   /\ note.oneshot = ~ t.persist
                                   /\ note.add = t.add
                /\ ~ note.present => t.paused \/ (~ t.persist /\ waits)
AllTold(tm, k, b) == \A id \in SlotIds : Told(tm[id], k[id], Awaits(b, id))

KernelOf(s) == ApplyChanges(knote, s.chg)
InStep(s) == s.chg \in Seq(Change) /\ AllTold(s.timer, KernelOf(s), batch)

EmptyOutside == pc = "loop" => batch = << >>
KInv == TInv /\ TypeOK /\ EmptyOutside /\ InStep(Now)

\* The library changes one timer, and queues a change for it.
LEMMA ChangeTold ==
  ASSUME NEW k \in [SlotIds -> KNote], NEW b, NEW c \in Change, NEW tm, NEW tn,
         AllTold(tm, k, b), \A id \in SlotIds : id # c.id => tn[id] = tm[id],
         Told(tn[c.id], ApplyChange(k, c)[c.id], Awaits(b, c.id))
  PROVE  AllTold(tn, ApplyChange(k, c), b)
<1>1. \A id \in SlotIds : id # c.id => ApplyChange(k, c)[id] = k[id]
  BY OneChange
<1>2. ASSUME NEW id \in SlotIds PROVE Told(tn[id], ApplyChange(k, c)[id], Awaits(b, id))
  <2>1. CASE id = c.id
    BY <2>1
  <2>2. CASE id # c.id
    <3>1. ApplyChange(k, c)[id] = k[id] /\ tn[id] = tm[id]
      BY <1>1, <2>2
    <3>2. Told(tm[id], k[id], Awaits(b, id))
      BY DEF AllTold
    <3>. QED BY <3>1, <3>2
  <2>. QED BY <2>1, <2>2
<1>. QED BY <1>2 DEF AllTold

\* A timer not in use asks nothing of the kernel.
LEMMA UnusedTold ==
  ASSUME NEW t, ~ t.in_use, NEW note, NEW waits
  PROVE  Told(t, note, waits)
BY DEF Told

(* EvKQBaseTimerCtl DELETE, by a call or by EvKQBaseTimeoutClearByKQFD. *)
LEMMA DeleteTold ==
  ASSUME NEW s, InStep(s), knote \in [SlotIds -> KNote], s.timer \in [SlotIds -> Timer],
         NEW id \in SlotIds, NEW c, c = [id |-> id, action |-> "DELETE", add |-> 0]
  PROVE  /\ Append(s.chg, c) \in Seq(Change)
         /\ AllTold(ClearRecord(s.timer, id), ApplyChanges(knote, Append(s.chg, c)), batch)
<1>1. c \in Change /\ s.chg \in Seq(Change)
  BY DEF InStep, Change, Actions
<1>2. KernelOf(s) \in [SlotIds -> KNote]
  BY <1>1, ApplyTyped DEF KernelOf
<1>3. ApplyChanges(knote, Append(s.chg, c)) = ApplyChange(KernelOf(s), c)
  BY <1>1, ApplyAppend DEF KernelOf
<1>. PICK tn : tn = ClearRecord(s.timer, id)
  OBVIOUS
<1>4. ~ tn[id].in_use /\ \A x \in SlotIds : x # id => tn[x] = s.timer[x]
  BY BlankFacts DEF ClearRecord
<1>5. AllTold(tn, ApplyChange(KernelOf(s), c), batch)
  <2>1. c.id = id /\ AllTold(s.timer, KernelOf(s), batch)
    BY DEF InStep
  <2>2. Told(tn[c.id], ApplyChange(KernelOf(s), c)[c.id], Awaits(batch, c.id))
    BY <1>4, <2>1, UnusedTold
  <2>. QED BY <1>1, <1>2, <1>4, <2>1, <2>2, ChangeTold
<1>. QED BY <1>1, <1>3, <1>5

LEMMA ClearTimeoutInStep ==
  ASSUME NEW s, Consistent(s), InStep(s), knote \in [SlotIds -> KNote],
         NEW fd \in Fds, NEW type \in Types
  PROVE  InStep(ClearTimeout(s, fd, type))
<1>. PICK id : id = s.timeout[fd][type]
  OBVIOUS
<1>. PICK q : q = ClearTimeout(s, fd, type)
  OBVIOUS
<1>. PICK c : c = [id |-> id, action |-> "DELETE", add |-> 0]
  OBVIOUS
<1>1. CASE id = NoTimer
  BY <1>1 DEF ClearTimeout
<1>2. CASE id # NoTimer
  <2>1. id \in SlotIds /\ s.timer \in [SlotIds -> Timer]
    BY <1>2 DEF Consistent, HoldsItsTimer
  <2>2. q.timer = ClearRecord(s.timer, id) /\ q.chg = Append(s.chg, c)
    BY <1>2 DEF ClearTimeout
  <2>3. /\ Append(s.chg, c) \in Seq(Change)
        /\ AllTold(ClearRecord(s.timer, id), ApplyChanges(knote, Append(s.chg, c)), batch)
    BY <2>1, DeleteTold
  <2>. QED BY <2>2, <2>3 DEF InStep, KernelOf
<1>. QED BY <1>1, <1>2

\* The steps that clear timeouts; pc may go from the batch to a callback.
LEMMA BecomeKInv ==
  ASSUME KInv, NEW s, Consistent(s), InStep(s), Become(s), adds' = adds,
         knote' = knote, batch' = batch, pc' \in {pc, "callback"}
  PROVE  KInv'
<1>1. TInv'
  BY BecomeConsistent DEF KInv, TInv
<1>2. /\ pool' = s.pool /\ timer' = s.timer /\ timeout' = s.timeout /\ chg' = s.chg
  BY DEF Become
<1>3. TypeOK'
  BY <1>2 DEF KInv, TypeOK, Consistent, SlotsMatch, WellFormed, InStep
<1>4. EmptyOutside'
  BY DEF KInv, EmptyOutside
<1>5. InStep(Now)'
  BY <1>2 DEF InStep, KernelOf, Now
<1>. QED BY <1>1, <1>3, <1>4, <1>5 DEF KInv

(* EvKQBaseTimerAdd and EvKQBaseTimeoutSet. *)
LEMMA AddInStep ==
  ASSUME KInv, NEW action \in {"ADD_VOLATILE", "ADD_PERSIST"}, NEW owner,
         HasFree(pool), adds < MaxAdds, AddTimer(action, owner), knote' = knote, batch' = batch
  PROVE  InStep(Now)' /\ adds' \in 0 .. MaxAdds
<1>. PICK g : g = GrabId(pool)
  OBVIOUS
<1>. PICK new : new = [in_use |-> TRUE, enabled |-> TRUE, persist |-> action = "ADD_PERSIST",
                       owner |-> owner, add |-> adds + 1, paused |-> FALSE]
  OBVIOUS
<1>. PICK c : c = [id |-> g, action |-> action, add |-> adds + 1]
  OBVIOUS
<1>1. /\ timer' = [timer EXCEPT ![g] = new] /\ chg' = Append(chg, c) /\ adds' = adds + 1
  BY DEF AddTimer, Enqueue
<1>2. /\ timer \in [SlotIds -> Timer] /\ knote \in [SlotIds -> KNote] /\ chg \in Seq(Change)
      /\ adds \in 0 .. MaxAdds /\ WellFormed(pool)
  BY DEF KInv, TypeOK, TInv, Consistent, Now, SlotsMatch
<1>3. g \in SlotIds
  BY <1>2, GrabWF
<1>4. c \in Change /\ adds' \in 0 .. MaxAdds
  BY <1>1, <1>2, <1>3, TimersAssumption DEF Change, Actions, Adds
<1>5. timer'[g] = new /\ \A x \in SlotIds : x # g => timer'[x] = timer[x]
  BY <1>1, <1>2, <1>3
<1>. PICK k : k = KernelOf(Now)
  OBVIOUS
<1>6. k \in [SlotIds -> KNote] /\ AllTold(timer, k, batch)
  BY <1>2, ApplyTyped DEF KInv, InStep, KernelOf, Now
<1>7. ApplyChanges(knote, Append(chg, c)) = ApplyChange(k, c)
  BY <1>2, <1>4, ApplyAppend DEF KernelOf, Now
<1>8. Told(new, ApplyChange(k, c)[g], Awaits(batch, g))
  <2>1. c.id = g /\ c.action = action /\ c.add = adds + 1
    OBVIOUS
  <2>2. /\ ApplyChange(k, c)[g].present /\ ApplyChange(k, c)[g].enabled
        /\ ApplyChange(k, c)[g].oneshot = (action = "ADD_VOLATILE")
        /\ ApplyChange(k, c)[g].add = adds + 1
    BY <1>4, <1>6, <2>1, OneChange
  <2>3. /\ new.enabled = TRUE /\ new.persist = (action = "ADD_PERSIST") /\ new.add = adds + 1
    OBVIOUS
  <2>4. (action = "ADD_VOLATILE") = ~ (action = "ADD_PERSIST")
    OBVIOUS
  <2>5. ApplyChange(k, c)[g].enabled = TRUE
    <3>1. ApplyChange(k, c)[g] \in KNote
      BY <1>3, <1>4, <1>6, OneChange
    <3>. QED BY <2>2, <3>1 DEF KNote
  <2>. QED BY <2>2, <2>3, <2>4, <2>5 DEF Told
<1>9. AllTold(timer', ApplyChange(k, c), batch)
  BY <1>4, <1>5, <1>6, <1>8, ChangeTold
<1>10. Append(chg, c) \in Seq(Change)
  BY <1>2, <1>4
<1>. QED BY <1>1, <1>4, <1>7, <1>9, <1>10 DEF InStep, KernelOf, Now

LEMMA TimerAddKInv ==
  ASSUME KInv, NEW action \in {"ADD_VOLATILE", "ADD_PERSIST"}, TimerAdd(action)
  PROVE  KInv'
<1>1. TInv'
  BY TimerAddConsistent DEF KInv
<1>2. /\ HasFree(pool) /\ adds < MaxAdds /\ AddTimer(action, User)
      /\ knote' = knote /\ batch' = batch /\ pc' = pc /\ timeout' = timeout
  BY DEF TimerAdd
<1>3. InStep(Now)' /\ adds' \in 0 .. MaxAdds
  BY <1>2, AddInStep
<1>4. TypeOK' /\ EmptyOutside'
  BY <1>1, <1>2, <1>3 DEF KInv, TypeOK, EmptyOutside, TInv, Consistent, Now, SlotsMatch,
                          WellFormed, InStep
<1>. QED BY <1>1, <1>3, <1>4 DEF KInv

LEMMA TimeoutSetKInv ==
  ASSUME KInv, NEW fd \in Fds, NEW type \in Types, TimeoutSet(fd, type)
  PROVE  KInv'
<1>1. TInv'
  BY TimeoutSetConsistent DEF KInv
<1>2. /\ HasFree(pool) /\ adds < MaxAdds /\ AddTimer("ADD_VOLATILE", fd)
      /\ knote' = knote /\ batch' = batch /\ pc' = pc
  BY DEF TimeoutSet
<1>3. InStep(Now)' /\ adds' \in 0 .. MaxAdds
  BY <1>2, AddInStep
<1>4. TypeOK' /\ EmptyOutside'
  BY <1>1, <1>2, <1>3 DEF KInv, TypeOK, EmptyOutside, TInv, Consistent, Now, SlotsMatch,
                          WellFormed, InStep
<1>. QED BY <1>1, <1>3, <1>4 DEF KInv

(* EvKQBaseTimerCtl. *)
LEMMA TimerCtlKInv ==
  ASSUME KInv, NEW id \in SlotIds, TimerCtl(id)
  PROVE  KInv'
<1>1. TInv'
  BY TimerCtlConsistent DEF KInv
<1>2. /\ timer[id].in_use /\ timeout' = timeout /\ knote' = knote /\ batch' = batch
      /\ pc' = pc /\ adds' = adds
  BY DEF TimerCtl
<1>3. /\ timer \in [SlotIds -> Timer] /\ knote \in [SlotIds -> KNote] /\ chg \in Seq(Change)
  BY DEF KInv, TypeOK
<1>. PICK k : k = KernelOf(Now)
  OBVIOUS
<1>4. k \in [SlotIds -> KNote] /\ AllTold(timer, k, batch) /\ k = ApplyChanges(knote, chg)
  BY <1>3, ApplyTyped DEF KInv, InStep, KernelOf, Now
<1>5. ASSUME NEW act \in {"ENABLE", "DISABLE"}, NEW t,
             t = [timer[id] EXCEPT !.enabled = (act = "ENABLE"),
                                   !.paused = IF act = "ENABLE" THEN @ ELSE TRUE],
             timer' = [timer EXCEPT ![id] = t], chg' = Enqueue(id, act, 0),
             timer[id].enabled = (act = "DISABLE")
      PROVE  InStep(Now)'
  <2>. PICK c : c = [id |-> id, action |-> act, add |-> 0]
    OBVIOUS
  <2>1. c \in Change /\ chg' = Append(chg, c) /\ c.id = id /\ c.action = act
    BY <1>5 DEF Enqueue, Change, Actions
  <2>2. ApplyChanges(knote, Append(chg, c)) = ApplyChange(k, c)
    BY <1>3, <1>4, <2>1, ApplyAppend
  <2>3. timer'[id] = t /\ \A x \in SlotIds : x # id => timer'[x] = timer[x]
    BY <1>3, <1>5
  <2>4. Told(timer[id], k[id], Awaits(batch, id))
    BY <1>4 DEF AllTold
  <2>5. /\ ApplyChange(k, c)[id].present = k[id].present
        /\ k[id].present => /\ ApplyChange(k, c)[id].enabled = (act = "ENABLE")
                            /\ ApplyChange(k, c)[id].oneshot = k[id].oneshot
                            /\ ApplyChange(k, c)[id].add = k[id].add
    BY <1>4, <2>1, OneChange
  <2>6. /\ t.in_use = timer[id].in_use /\ t.persist = timer[id].persist
        /\ t.add = timer[id].add /\ t.enabled = (act = "ENABLE")
        /\ act = "DISABLE" => t.paused
        /\ act = "ENABLE" => t.paused = timer[id].paused
    BY <1>3, <1>5 DEF Timer
  <2>7. Told(t, ApplyChange(k, c)[id], Awaits(batch, id))
    BY <1>2, <1>5, <2>4, <2>5, <2>6 DEF Told
  <2>8. AllTold(timer', ApplyChange(k, c), batch)
    BY <1>4, <2>1, <2>3, <2>7, ChangeTold
  <2>9. Append(chg, c) \in Seq(Change)
    BY <1>3, <2>1
  <2>. QED BY <1>2, <2>1, <2>2, <2>8, <2>9 DEF InStep, KernelOf, Now
<1>6. InStep(Now)'
  <2>1. CASE Disable(id)
    <3>. PICK t : t = [timer[id] EXCEPT !.enabled = FALSE, !.paused = TRUE]
      OBVIOUS
    <3>1. timer[id].enabled = TRUE /\ chg' = Enqueue(id, "DISABLE", 0)
          /\ timer' = [timer EXCEPT ![id] = t]
      BY <1>3, <2>1 DEF Disable, Timer
    <3>2. t = [timer[id] EXCEPT !.enabled = ("DISABLE" = "ENABLE"),
                                !.paused = IF "DISABLE" = "ENABLE" THEN @ ELSE TRUE]
      OBVIOUS
    <3>. QED BY <1>5, <3>1, <3>2
  <2>2. CASE Enable(id)
    <3>. PICK t : t = [timer[id] EXCEPT !.enabled = TRUE]
      OBVIOUS
    <3>1. timer[id].enabled = FALSE /\ chg' = Enqueue(id, "ENABLE", 0)
          /\ timer' = [timer EXCEPT ![id] = t]
      BY <1>3, <2>2 DEF Enable, Timer
    <3>2. t = [timer[id] EXCEPT !.enabled = ("ENABLE" = "ENABLE"),
                                !.paused = IF "ENABLE" = "ENABLE" THEN @ ELSE TRUE]
      BY <1>3 DEF Timer
    <3>. QED BY <1>5, <3>1, <3>2
  <2>3. CASE Delete(id)
    <3>. PICK c : c = [id |-> id, action |-> "DELETE", add |-> 0]
      OBVIOUS
    <3>1. chg' = Append(chg, c) /\ timer' = ClearRecord(timer, id)
      BY <2>3 DEF Delete, Release, Enqueue
    <3>2. InStep(Now) /\ Now.timer = timer /\ Now.chg = chg
      BY DEF KInv, Now
    <3>3. /\ Append(chg, c) \in Seq(Change)
          /\ AllTold(ClearRecord(timer, id), ApplyChanges(knote, Append(chg, c)), batch)
      BY <1>3, <3>2, DeleteTold
    <3>. QED BY <1>2, <3>1, <3>3 DEF InStep, KernelOf, Now
  <2>. QED BY <2>1, <2>2, <2>3 DEF TimerCtl
<1>7. TypeOK' /\ EmptyOutside'
  BY <1>1, <1>2, <1>6 DEF KInv, TypeOK, EmptyOutside, TInv, Consistent, Now, SlotsMatch,
                          WellFormed, InStep
<1>. QED BY <1>1, <1>6, <1>7 DEF KInv

-----------------------------------------------------------------------------
(* EvKQBaseKEventInvoke: each timer that is ready has its event in the batch. *)
LEMMA SeqsOfSet ==
  ASSUME NEW S \in SUBSET SlotIds, NEW order \in SetToSeqs(S)
  PROVE  order \in Seq(S) /\ \A x \in S : \E i \in 1 .. Len(order) : order[i] = x
<1>. PICK n : n = Cardinality(S)
  OBVIOUS
<1>1. IsFiniteSet(SlotIds)
  BY PoolAssumption, FS_Interval DEF SlotIds
<1>2. IsFiniteSet(S) /\ n \in Nat
  BY <1>1, FS_Subset, FS_CardinalityType
<1>3. order \in [1 .. n -> S] /\ \A i, j \in 1 .. n : i # j => order[i] # order[j]
  BY DEF SetToSeqs
<1>4. IsFiniteSet(1 .. n) /\ Cardinality(1 .. n) = n
  BY <1>2, FS_Interval
<1>5. order \in Injection(1 .. n, S)
  BY <1>3 DEF Injection, IsInjective
<1>6. order \in Surjection(1 .. n, S)
  BY <1>2, <1>4, <1>5, FS_Injection
<1>7. order \in Seq(S) /\ Len(order) = n
  BY <1>2, <1>3
<1>. QED BY <1>6, <1>7 DEF Surjection

LEMMA KEventKInv ==
  ASSUME KInv, KEvent
  PROVE  KInv'
<1>. PICK k : k = ApplyChanges(knote, chg)
  OBVIOUS
<1>1. /\ timer \in [SlotIds -> Timer] /\ knote \in [SlotIds -> KNote] /\ chg \in Seq(Change)
      /\ batch = << >> /\ AllTold(timer, k, batch)
  BY DEF KInv, TypeOK, EmptyOutside, KEvent, InStep, KernelOf, Now
<1>2. k \in [SlotIds -> KNote]
  BY <1>1, ApplyTyped
<1>3. PICK order \in SetToSeqs(Ready(k)) :
          batch' = [i \in 1 .. Len(order) |-> [id |-> order[i], add |-> k[order[i]].add]]
  BY DEF KEvent
<1>4. /\ knote' = [id \in SlotIds |-> IF id \notin Ready(k) THEN k[id]
                                      ELSE IF k[id].oneshot THEN NoKNote
                                      ELSE [k[id] EXCEPT !.due = FALSE]]
      /\ chg' = << >> /\ pc' = "batch" /\ UNCHANGED <<pool, timer, timeout, adds>>
  BY DEF KEvent
<1>5. /\ order \in Seq(Ready(k)) /\ Ready(k) \subseteq SlotIds
      /\ \A x \in Ready(k) : \E i \in 1 .. Len(order) : order[i] = x
  <2>1. Ready(k) \in SUBSET SlotIds
    BY DEF Ready
  <2>. QED BY <1>3, <2>1, SeqsOfSet
<1>6. batch' \in Seq(Event) /\ \A x \in Ready(k) : Awaits(batch', x)
  <2>1. ASSUME NEW i \in 1 .. Len(order)
        PROVE  [id |-> order[i], add |-> k[order[i]].add] \in Event
    BY <1>2, <1>5 DEF Event, KNote
  <2>2. Len(batch') = Len(order) /\ \A i \in 1 .. Len(order) : batch'[i].id = order[i]
    BY <1>3, <1>5
  <2>. QED BY <1>3, <1>5, <2>1, <2>2 DEF Awaits
<1>7. ASSUME NEW id \in SlotIds
      PROVE  knote'[id] \in KNote /\ Told(timer[id], knote'[id], Awaits(batch', id))
  <2>1. /\ Told(timer[id], k[id], FALSE) /\ k[id] \in KNote /\ timer[id] \in Timer
    <3>1. ~ Awaits(batch, id)
      BY <1>1 DEF Awaits
    <3>. QED BY <1>1, <1>2, <3>1 DEF AllTold, Told
  <2>2. CASE id \notin Ready(k)
    BY <1>4, <2>1, <2>2 DEF Told
  <2>3. CASE id \in Ready(k) /\ k[id].oneshot
    <3>1. knote'[id] = NoKNote /\ NoKNote \in KNote /\ ~ NoKNote.present
      BY <1>4, <2>3 DEF NoKNote, KNote
    <3>2. k[id].present /\ Awaits(batch', id)
      BY <1>6, <2>3 DEF Ready
    <3>. QED BY <2>1, <2>3, <3>1, <3>2 DEF Told
  <2>4. CASE id \in Ready(k) /\ ~ k[id].oneshot
    <3>1. knote'[id] = [k[id] EXCEPT !.due = FALSE]
      BY <1>4, <2>4
    <3>2. /\ knote'[id] \in KNote /\ knote'[id].present = k[id].present
          /\ knote'[id].enabled = k[id].enabled /\ knote'[id].oneshot = k[id].oneshot
          /\ knote'[id].add = k[id].add
      BY <2>1, <3>1 DEF KNote
    <3>3. k[id].present = TRUE
      BY <2>1, <2>4 DEF Ready, KNote
    <3>. QED BY <2>1, <3>2, <3>3 DEF Told
  <2>. QED BY <2>2, <2>3, <2>4
<1>8. TInv'
  BY <1>4 DEF KInv, TInv, Consistent, Now
<1>9. TypeOK' /\ EmptyOutside'
  BY <1>4, <1>6, <1>7 DEF KInv, TypeOK, EmptyOutside
<1>10. InStep(Now)'
  <2>1. KernelOf(Now)' = knote'
    BY <1>4, ApplyNone DEF KernelOf, Now
  <2>2. AllTold(timer, knote', batch')
    BY <1>7 DEF AllTold
  <2>3. AllTold(Now.timer, KernelOf(Now), batch)' = AllTold(timer, knote', batch')
    BY <1>4, <2>1 DEF Now, AllTold
  <2>. QED BY <1>4, <2>2, <2>3 DEF InStep, Now
<1>. QED BY <1>8, <1>9, <1>10 DEF KInv

(* A kernel timer comes due: no change and no timer looks at that. *)
LEMMA ExpireKInv ==
  ASSUME KInv, NEW id \in SlotIds, Expire(id)
  PROVE  KInv'
<1>1. /\ knote \in [SlotIds -> KNote] /\ chg \in Seq(Change)
      /\ AllTold(timer, ApplyChanges(knote, chg), batch)
  BY DEF KInv, TypeOK, InStep, KernelOf, Now
<1>2. /\ knote' = [knote EXCEPT ![id].due = TRUE]
      /\ UNCHANGED <<pool, timer, timeout, chg, batch, pc, adds>>
  BY DEF Expire
<1>3. knote' \in [SlotIds -> KNote] /\ AsWatched(knote, knote')
  BY <1>1, <1>2 DEF KNote, AsWatched
<1>4. AsWatched(ApplyChanges(knote, chg), ApplyChanges(knote', chg))
  BY <1>1, <1>3, ApplyAsWatched
<1>5. AllTold(timer, ApplyChanges(knote', chg), batch)
  BY <1>1, <1>4 DEF AllTold, Told, AsWatched
<1>6. InStep(Now)'
  <2>1. KernelOf(Now)' = ApplyChanges(knote', chg)
    BY <1>2 DEF KernelOf, Now
  <2>2. AllTold(timer, KernelOf(Now)', batch)
    BY <1>5, <2>1
  <2>3. AllTold(Now.timer, KernelOf(Now), batch)' = AllTold(timer, KernelOf(Now)', batch)
    BY <1>2 DEF Now, AllTold, Awaits
  <2>. QED BY <1>1, <1>2, <2>2, <2>3 DEF InStep, Now
<1>7. TInv' /\ TypeOK' /\ EmptyOutside'
  BY <1>2, <1>3 DEF KInv, TInv, TypeOK, EmptyOutside, Consistent, Now
<1>. QED BY <1>6, <1>7 DEF KInv

(***************************************************************************)
(* EvKQBaseTimerDispatch.  Taking the head of the batch costs only its own *)
(* timer its excuse.                                                       *)
(***************************************************************************)
LEMMA TailAwaits ==
  ASSUME NEW b \in Seq(Event), b # << >>
  PROVE  /\ Tail(b) \in Seq(Event)
         /\ \A id : id # Head(b).id => Awaits(Tail(b), id) = Awaits(b, id)
<1>1. /\ Tail(b) \in Seq(Event) /\ Len(Tail(b)) = Len(b) - 1 /\ Len(b) \in Nat \ {0}
      /\ \A i \in 1 .. Len(Tail(b)) : Tail(b)[i] = b[i + 1]
  OBVIOUS
<1>2. ASSUME NEW id, id # Head(b).id, Awaits(b, id) PROVE Awaits(Tail(b), id)
  <2>1. PICK i \in 1 .. Len(b) : b[i].id = id
    BY <1>2 DEF Awaits
  <2>2. i # 1
    BY <1>2, <2>1
  <2>3. i - 1 \in 1 .. Len(Tail(b)) /\ Tail(b)[i - 1] = b[i]
    BY <1>1, <2>2
  <2>. QED BY <2>1, <2>3 DEF Awaits
<1>3. ASSUME NEW id, Awaits(Tail(b), id) PROVE Awaits(b, id)
  <2>1. PICK i \in 1 .. Len(Tail(b)) : Tail(b)[i].id = id
    BY <1>3 DEF Awaits
  <2>2. i + 1 \in 1 .. Len(b) /\ Tail(b)[i] = b[i + 1]
    BY <1>1
  <2>. QED BY <2>1, <2>2 DEF Awaits
<1>4. \A id : Awaits(b, id) \in BOOLEAN /\ Awaits(Tail(b), id) \in BOOLEAN
  BY DEF Awaits
<1>. QED BY <1>1, <1>2, <1>3, <1>4

\* The kernel's timers and the change list are left alone, and the event of id is taken
\* off the batch: what is told of the others stays.
LEMMA TakeEventInStep ==
  ASSUME KInv, NEW id \in SlotIds, NextEvent(id), batch' = Tail(batch),
         UNCHANGED <<chg, knote>>,
         \A x \in SlotIds : x # id => timer'[x] = timer[x],
         \A note, waits : Told(timer[id], note, waits) => Told(timer'[id], note, FALSE)
  PROVE  InStep(Now)'
<1>. PICK k : k = KernelOf(Now)
  OBVIOUS
<1>1. AllTold(timer, k, batch) /\ batch \in Seq(Event) /\ chg \in Seq(Change)
  BY DEF KInv, TypeOK, InStep, Now
<1>2. /\ batch # << >> /\ Head(batch).id = id
  BY DEF NextEvent
<1>3. \A x : x # id => Awaits(Tail(batch), x) = Awaits(batch, x)
  BY <1>1, <1>2, TailAwaits
<1>4. ASSUME NEW x \in SlotIds PROVE Told(timer'[x], k[x], Awaits(Tail(batch), x))
  <2>1. Told(timer[x], k[x], Awaits(batch, x))
    BY <1>1 DEF AllTold
  <2>2. CASE x = id
    <3>1. Told(timer'[x], k[x], FALSE)
      BY <2>1, <2>2
    <3>. QED BY <3>1 DEF Told
  <2>3. CASE x # id
    BY <1>3, <2>1, <2>3
  <2>. QED BY <2>2, <2>3
<1>5. KernelOf(Now)' = k
  BY DEF KernelOf, Now
<1>6. AllTold(Now.timer, KernelOf(Now), batch)' = AllTold(timer', k, Tail(batch))
  BY <1>5 DEF Now, AllTold
<1>7. AllTold(timer', k, Tail(batch))
  BY <1>4 DEF AllTold
<1>. QED BY <1>1, <1>6, <1>7 DEF InStep, Now

LEMMA DispatchDeadKInv ==
  ASSUME KInv, NEW id \in SlotIds, DispatchDead(id)
  PROVE  KInv'
<1>1. /\ NextEvent(id) /\ ~ Alive(id) /\ batch' = Tail(batch)
      /\ UNCHANGED <<pool, timer, timeout, chg, knote, pc, adds>>
  BY DEF DispatchDead
\* A timer in use that is not alive is disabled, so it was paused.
<1>2. \A note, waits : Told(timer[id], note, waits) => Told(timer'[id], note, FALSE)
  BY <1>1 DEF Told, Alive
<1>3. InStep(Now)'
  BY <1>1, <1>2, TakeEventInStep
<1>4. batch \in Seq(Event) /\ batch # << >> /\ pc = "batch"
  BY <1>1 DEF KInv, TypeOK, NextEvent
<1>5. TInv' /\ EmptyOutside'
  BY <1>1, <1>4 DEF KInv, TInv, Consistent, Now, EmptyOutside
<1>6. Tail(batch) \in Seq(Event)
  BY <1>4
<1>7. TypeOK'
  BY <1>1, <1>6 DEF KInv, TypeOK
<1>. QED BY <1>3, <1>5, <1>7 DEF KInv

LEMMA DispatchKInv ==
  ASSUME KInv, NEW id \in SlotIds, Dispatch(id)
  PROVE  KInv'
<1>1. TInv'
  BY DispatchConsistent DEF KInv
<1>2. /\ NextEvent(id) /\ batch' = Tail(batch) /\ pc' = "callback"
      /\ UNCHANGED <<chg, knote, adds>>
  BY DEF Dispatch
<1>3. timer \in [SlotIds -> Timer] /\ batch \in Seq(Event) /\ batch # << >>
  BY <1>2 DEF KInv, TypeOK, NextEvent
<1>4. /\ \A x \in SlotIds : x # id => timer'[x] = timer[x]
      /\ \A note, waits : Told(timer[id], note, waits) => Told(timer'[id], note, FALSE)
  \* A persistent timer is still in the kernel: its event never excused it.
  <2>1. CASE timer[id].persist
    <3>1. timer' = timer
      BY <2>1 DEF Dispatch
    <3>. QED BY <2>1, <3>1 DEF Told
  <2>2. CASE ~ timer[id].persist
    <3>1. timer' = ClearRecord(timer, id)
      BY <2>2 DEF Dispatch, Release
    <3>2. timer'[id] = BlankTimer /\ \A x \in SlotIds : x # id => timer'[x] = timer[x]
      BY <1>3, <3>1 DEF ClearRecord
    <3>. QED BY <3>2, BlankFacts, UnusedTold
  <2>. QED BY <2>1, <2>2
<1>5. InStep(Now)'
  BY <1>2, <1>4, TakeEventInStep
<1>6. Tail(batch) \in Seq(Event)
  BY <1>3
<1>7. TypeOK' /\ EmptyOutside'
  BY <1>1, <1>2, <1>6 DEF KInv, TypeOK, EmptyOutside, TInv, Consistent, Now, SlotsMatch,
                          WellFormed
<1>. QED BY <1>1, <1>5, <1>7 DEF KInv

LEMMA InitKInv == Init => KInv
<1>. SUFFICES ASSUME Init PROVE KInv
  OBVIOUS
<1>1. /\ TInv /\ timer = [id \in SlotIds |-> BlankTimer] /\ chg = << >> /\ batch = << >>
      /\ knote = [id \in SlotIds |-> NoKNote] /\ pc = "loop" /\ adds = 0
  BY InitTInv DEF Init
<1>2. << >> \in Seq(Change) /\ << >> \in Seq(Event) /\ NoKNote \in KNote
  BY DEF NoKNote, KNote
<1>3. TypeOK
  BY <1>1, <1>2, TimersAssumption DEF TypeOK, TInv, Consistent, Now, SlotsMatch, WellFormed
<1>4. \A id \in SlotIds : \A note, waits : Told(timer[id], note, waits)
  BY <1>1, BlankFacts, UnusedTold
<1>5. InStep(Now)
  BY <1>1, <1>2, <1>4 DEF InStep, AllTold, Now
<1>. QED BY <1>1, <1>3, <1>5 DEF KInv, EmptyOutside

LEMMA NextKInv == KInv /\ [Next]_vars => KInv'
<1>. SUFFICES ASSUME KInv, [Next]_vars PROVE KInv'
  OBVIOUS
<1>0. /\ Consistent(Now) /\ InStep(Now) /\ knote \in [SlotIds -> KNote]
      /\ {"READ", "WRITE", "BOTH"} \subseteq Types
  BY DEF KInv, TInv, TypeOK, Types
<1>1. ASSUME NEW action \in {"ADD_VOLATILE", "ADD_PERSIST"}, TimerAdd(action) PROVE KInv'
  BY <1>1, TimerAddKInv
<1>2. ASSUME NEW id \in SlotIds, TimerCtl(id) PROVE KInv'
  BY <1>2, TimerCtlKInv
<1>3. ASSUME NEW fd \in Fds, NEW type \in Types, TimeoutSet(fd, type) PROVE KInv'
  BY <1>3, TimeoutSetKInv
<1>4. ASSUME NEW fd \in Fds, NEW type \in Types, TimeoutClear(fd, type) PROVE KInv'
  <2>1. Consistent(ClearTimeout(Now, fd, type)) /\ InStep(ClearTimeout(Now, fd, type))
    BY <1>0, ClearTimeoutConsistent, ClearTimeoutInStep
  <2>. QED BY <1>4, <2>1, BecomeKInv DEF TimeoutClear
<1>5. ASSUME NEW fd \in Fds, TimeoutClearAll(fd) PROVE KInv'
  <2>. PICK s : s = ClearTimeout(Now, fd, "READ")
    OBVIOUS
  <2>. PICK t : t = ClearTimeout(s, fd, "WRITE")
    OBVIOUS
  <2>. PICK u : u = ClearTimeout(t, fd, "BOTH")
    OBVIOUS
  <2>1. Consistent(s) /\ InStep(s)
    BY <1>0, ClearTimeoutConsistent, ClearTimeoutInStep
  <2>2. Consistent(t) /\ InStep(t)
    BY <1>0, <2>1, ClearTimeoutConsistent, ClearTimeoutInStep
  <2>3. Consistent(u) /\ InStep(u)
    BY <1>0, <2>2, ClearTimeoutConsistent, ClearTimeoutInStep
  <2>4. Become(u) /\ UNCHANGED <<knote, batch, pc, adds>>
    BY <1>5 DEF TimeoutClearAll
  <2>. QED BY <2>3, <2>4, BecomeKInv
<1>6. ASSUME NEW fd \in Fds, NEW type \in {"READ", "WRITE"}, FDEvent(fd, type) PROVE KInv'
  <2>. PICK s : s = ClearTimeout(Now, fd, type)
    OBVIOUS
  <2>. PICK t : t = ClearTimeout(s, fd, "BOTH")
    OBVIOUS
  <2>1. Consistent(s) /\ InStep(s)
    BY <1>0, ClearTimeoutConsistent, ClearTimeoutInStep
  <2>2. Consistent(t) /\ InStep(t)
    BY <1>0, <2>1, ClearTimeoutConsistent, ClearTimeoutInStep
  <2>3. Become(t) /\ pc' = "callback" /\ UNCHANGED <<knote, batch, adds>>
    BY <1>6 DEF FDEvent
  <2>. QED BY <2>2, <2>3, BecomeKInv
<1>7. ASSUME NEW id \in SlotIds, DispatchDead(id) \/ Dispatch(id) \/ Expire(id) PROVE KInv'
  BY <1>7, DispatchDeadKInv, DispatchKInv, ExpireKInv
<1>8. CASE EndOfBatch \/ CallbackReturn \/ UNCHANGED vars
  <2>1. UNCHANGED <<pool, timer, timeout, chg, knote, batch, adds>>
    BY <1>8 DEF EndOfBatch, CallbackReturn, vars
  <2>2. TInv'
    BY <2>1 DEF KInv, TInv, Consistent, Now
  <2>3. TypeOK' /\ EmptyOutside'
    BY <1>8, <2>1 DEF KInv, TypeOK, EmptyOutside, EndOfBatch, CallbackReturn, vars
  <2>4. InStep(Now)'
    BY <2>1 DEF KInv, InStep, KernelOf, AllTold, Now
  <2>. QED BY <2>2, <2>3, <2>4 DEF KInv
<1>9. CASE KEvent
  BY <1>9, KEventKInv
<1>. QED BY <1>1, <1>2, <1>3, <1>4, <1>5, <1>6, <1>7, <1>8, <1>9
         DEF Next, ClientCall, BatchStep

(***************************************************************************)
(* The kernel keeps up with the library, whatever order timers are added,  *)
(* disabled, deleted and dispatched in and however often a slot is reused: *)
(* once the change list is applied, the timer the kernel has for a slot is *)
(* the one in use there, enabled and one-shot as the record of             *)
(* EvKQBaseTimerAdd and EvKQBaseTimerCtl says, and one that is in use and  *)
(* was never disabled is in the kernel or has its event in the batch       *)
(* (ev_kq_timer.c:117-333, ev_kq_timeout.c:150-181).                       *)
(***************************************************************************)
THEOREM KernelKeepsUp == Spec => []KernelAgrees
<1>1. KInv => KernelAgrees
  <2>. SUFFICES ASSUME KInv PROVE KernelAgrees
    OBVIOUS
  <2>1. ASSUME NEW id \in SlotIds
        PROVE  Told(timer[id], Flushed(id), InBatch(id)) /\ Flushed(id).present \in BOOLEAN
    <3>1. KernelOf(Now) = ApplyChanges(knote, chg) /\ AllTold(timer, KernelOf(Now), batch)
      BY DEF KInv, InStep, KernelOf, Now
    <3>2. Flushed(id) = KernelOf(Now)[id] /\ InBatch(id) = Awaits(batch, id)
      BY <3>1 DEF Flushed, InBatch, Awaits
    <3>3. Flushed(id) \in KNote
      BY <3>1, <3>2, ApplyTyped DEF KInv, TypeOK
    <3>. QED BY <3>1, <3>2, <3>3 DEF AllTold, KNote
  <2>2. TypeOK
    BY DEF KInv
  <2>. QED BY <2>1, <2>2 DEF KernelAgrees, Told
<1>. QED BY <1>1, InitKInv, NextKInv, PTL DEF Spec
=============================================================================
