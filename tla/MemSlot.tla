------------------------------ MODULE MemSlot -------------------------------
(***************************************************************************)
(* A MemSlotBase under every operation of its interface, in any order a    *)
(* caller may issue them.  Each action is one critical section under       *)
(* memslot_base->mutex (no caller in this module holds the mutex across    *)
(* two operations; ThreadPool does).  A caller frees and switches          *)
(* slots it was given and has not given back; MemSlotBaseSlotGrabByID is   *)
(* called with any id, as ThreadPoolJobCancel and ThreadPoolAllBusy do.    *)
(***************************************************************************)
EXTENDS MemSlotOps

VARIABLES pool,     \* the MemSlotBase
          pinned    \* ids not allocated whose arena bit a GrabByID or a Pop left set

vars == <<pool, pinned>>

Init == pool = NewPool /\ pinned = {}

SlotGrab == /\ HasFree(pool)
            /\ pool' = Grab(pool)
            /\ pinned' = pinned \ {GrabId(pool)}

SlotGrabByID(s) == /\ pool' = GrabByID(pool, s)
                   /\ pinned' = IF s \in Allocated(pool) THEN pinned
                                                         ELSE pinned \cup {s}

SlotListIDSwitchToTail(s, l) == /\ s \in Allocated(pool)
                                /\ pool' = SwitchToTail(pool, s, l)
                                /\ UNCHANGED pinned

SlotListIDSwitch(s, l) == /\ s \in Allocated(pool)
                          /\ pool' = Switch(pool, s, l)
                          /\ UNCHANGED pinned

SlotPointToHeadAndSwitchListID(from, to) == /\ ~ IsEmptyList(pool, from)
                                            /\ pool' = HeadSwitch(pool, from, to)
                                            /\ UNCHANGED pinned

SlotRelease(s) == /\ s \in Allocated(pool)
                  /\ FreeAsserts(pool, s)
                  /\ pool' = SlotFree(pool, s)
                  /\ UNCHANGED pinned

SlotPopHead(l) == /\ ~ IsEmptyList(pool, l)
                  /\ pool' = PopHead(pool, l)
                  /\ pinned' = pinned \cup {PointToHead(pool, l)}

SlotPopTail(l) == /\ ~ IsEmptyList(pool, l)
                  /\ pool' = PopTail(pool, l)
                  /\ pinned' = pinned \cup {PointToTail(pool, l)}

\* MemSlotBaseClean followed by MemSlotBaseInit on the same base.
CleanAndInit == pool' = NewPool /\ pinned' = {}

Next == \/ SlotGrab
        \/ \E s \in SlotIds : SlotGrabByID(s) \/ SlotRelease(s)
        \/ \E s \in SlotIds, l \in ListIds : \/ SlotListIDSwitchToTail(s, l)
                                             \/ SlotListIDSwitch(s, l)
        \/ \E l, m \in ListIds : SlotPointToHeadAndSwitchListID(l, m)
        \/ \E l \in ListIds : SlotPopHead(l) \/ SlotPopTail(l)
        \/ CleanAndInit

Spec == Init /\ [][Next]_vars

-----------------------------------------------------------------------------
TypeOK == pool \in Pool /\ pinned \subseteq SlotIds

(***************************************************************************)
(* After any sequence of calls every slot is free or on exactly one list,  *)
(* exactly once, its metadata names that list, and an allocated slot never *)
(* lies in a block the arena has given back (mem_slot.c:616-648).          *)
(***************************************************************************)
PoolWellFormed == WellFormed(pool)

(***************************************************************************)
(* The arena keeps a bit exactly for the allocated slots and for those a   *)
(* GrabByID or a Pop left behind: nothing else keeps a block of memory     *)
(* from being freed (mem_arena.c:297-308), and nothing frees it early.     *)
(***************************************************************************)
ArenaExact == pool.bits = Allocated(pool) \cup pinned

(***************************************************************************)
(* The refinement mapping: where the promise says a slot is.               *)
(***************************************************************************)
NotListed == -1
Where(p) == [s \in SlotIds |-> IF s \in Allocated(p)
                               THEN CHOOSE l \in ListIds : s \in OnList(p, l)
                               ELSE NotListed]

Promise == INSTANCE SlotPool WITH Slots <- SlotIds, Lists <- ListIds,
                                  Free <- NotListed, where <- Where(pool)

(***************************************************************************)
(* MEM_SLOT implements the slot pool: a slot handed out was free, and no   *)
(* call disturbs any slot but the one it is about.                         *)
(***************************************************************************)
ImplementsSlotPool == Promise!Spec
=============================================================================
