----------------------------- MODULE MemSlotOps -----------------------------
(***************************************************************************)
(* MEM_SLOT (data/utils/mem_slot.c), the slot allocator under the thread   *)
(* pool, the event-loop jobs and most request queues of the framework, as  *)
(* pure operators on a value that stands for one MemSlotBase.              *)
(*                                                                         *)
(* A slot is an index.  A MemSlotBase composes                             *)
(*   free  the SLOT_QUEUE (data/core/slotqueue.c), a stack of free ids,    *)
(*         written here with its top first;                                *)
(*   list  the DLINKED_LISTs (data/core/dlinked_list.c), each the sequence *)
(*         of its nodes from head to tail; a node is embedded in its slot, *)
(*         so it is named by the slot id;                                  *)
(*   cur   slot_meta->cur_list_id, the list the slot is linked on;         *)
(*   bits  the in-use bitmaps of the MEM_ARENA (data/core/mem_arena.c).    *)
(* The arena allocates memory in blocks and frees a block when no bit of   *)
(* it is set, so whether the memory of a slot exists follows from bits.    *)
(* Every operator is one critical section of the code under                *)
(* memslot_base->mutex; the callers' modules add the locking.              *)
(***************************************************************************)
EXTENDS Integers, SequencesExt

CONSTANTS SlotCount,    \* slot_count given to MemSlotBaseInit
          ListCount,    \* MEMSLOT_DEFAULT_LIST_COUNT, or the lists a caller uses
          BlockSlots    \* slots of an arena block (16, fixed by MemSlotBaseInit)

ASSUME PoolAssumption == /\ SlotCount \in Nat \ {0}
                         /\ ListCount \in Nat \ {0}
                         /\ BlockSlots \in Nat \ {0}

SlotIds == 0 .. (SlotCount - 1)
ListIds == 0 .. (ListCount - 1)

Pool == [free : Seq(SlotIds),
         list : [ListIds -> Seq(SlotIds)],
         cur  : [SlotIds -> ListIds],
         bits : SUBSET SlotIds]

(***************************************************************************)
(* MemSlotBaseInit: SlotQueueInit stores the ids so that 0 is grabbed      *)
(* first; the lists are empty and no arena block exists.                   *)
(***************************************************************************)
NewPool == [free |-> [i \in 1 .. SlotCount |-> i - 1],
            list |-> [l \in ListIds |-> << >>],
            cur  |-> [s \in SlotIds |-> 0],
            bits |-> {}]

OnList(p, l) == Range(p.list[l])
FreeIds(p) == Range(p.free)
Allocated(p) == {s \in SlotIds : \E l \in ListIds : s \in OnList(p, l)}

\* Memory of a slot: its block exists while some bit of the block is set.
BlockOf(s) == s \div BlockSlots
Live(p, s) == \E t \in p.bits : BlockOf(t) = BlockOf(s)

-----------------------------------------------------------------------------
(***************************************************************************)
(* MemArenaGrabByID on any id: the block is created if need be and the bit *)
(* is set, whether or not the slot is allocated.                           *)
(***************************************************************************)
GrabByID(p, s) == [p EXCEPT !.bits = @ \cup {s}]

\* Slip: the successor of the deleted node is not linked to its predecessor.
UnlinkLosesRest(p, s) ==
    [p.list EXCEPT ![p.cur[s]] = SubSeq(@, 1, SelectInSeq(@, LAMBDA t : t = s) - 1)]

(***************************************************************************)
(* DLinkedListDelete from the list of the slot.  An orphan node (no next,  *)
(* no prev, not the head) is left alone, as RemoveFirst does.              *)
(***************************************************************************)
Unlink(p, s) == [p.list EXCEPT ![p.cur[s]] = RemoveFirst(@, s)]

(***************************************************************************)
(* MemSlotBaseSlotGrab and MemSlotBaseSlotGrabAndLeaveLocked: pop an id    *)
(* from the slot queue, mark it in the arena, link it to the TAIL OF LIST  *)
(* ZERO.  The caller has checked that an id is free (SlotQueueGrab < 0).   *)
(***************************************************************************)
HasFree(p) == p.free # << >>
GrabId(p) == Head(p.free)
\* Slip: DLinkedListAdd for DLinkedListAddTail.
GrabAtHead(p) == [free |-> Tail(p.free),
                  list |-> [p.list EXCEPT ![0] = <<GrabId(p)>> \o @],
                  cur  |-> [p.cur EXCEPT ![GrabId(p)] = 0],
                  bits |-> p.bits \cup {GrabId(p)}]
Grab(p) == [free |-> Tail(p.free),
            list |-> [p.list EXCEPT ![0] = Append(@, GrabId(p))],
            cur  |-> [p.cur EXCEPT ![GrabId(p)] = 0],
            bits |-> p.bits \cup {GrabId(p)}]

(***************************************************************************)
(* MemSlotBaseSlotListIDSwitchToTail / MemSlotBaseSlotListIDSwitch: move a *)
(* slot to the tail / to the head of a list.                               *)
(***************************************************************************)
Relink(p, s, l, relinked, inUse) == [free |-> p.free,
                                     list |-> [Unlink(p, s) EXCEPT ![l] = relinked],
                                     cur  |-> [p.cur EXCEPT ![s] = l],
                                     bits |-> inUse]
SwitchToTail(p, s, l) == Relink(p, s, l, Append(Unlink(p, s)[l], s), p.bits \cup {s})
Switch(p, s, l) == Relink(p, s, l, <<s>> \o Unlink(p, s)[l], p.bits \cup {s})

(***************************************************************************)
(* MemSlotBaseSlotPointToHead peeks; MemSlotBaseSlotPointToHeadAndSwitch-  *)
(* ListID moves the head of one list to the tail of another.               *)
(***************************************************************************)
IsEmptyList(p, l) == p.list[l] = << >>
PointToHead(p, l) == Head(p.list[l])
PointToTail(p, l) == Last(p.list[l])
HeadSwitch(p, from, to) ==
    LET s == PointToHead(p, from)
    IN  Relink(p, s, to, Append(Unlink(p, s)[to], s), p.bits)

(***************************************************************************)
(* MemSlotBaseSlotFree: push the id, unlink the node, clear the arena bit. *)
(* MemArenaReleaseByID asserts that the bit is set; nothing else detects a *)
(* double free.                                                            *)
(***************************************************************************)
FreeAsserts(p, s) == s \in p.bits
\* Slips: the node stays linked; the arena bit stays set.
FreeKeepsNode(p, s) == [p EXCEPT !.free = <<s>> \o @, !.bits = @ \ {s}]
FreeKeepsBit(p, s) == [p EXCEPT !.free = <<s>> \o @, !.list = Unlink(p, s)]
SlotFree(p, s) == [p EXCEPT !.free = <<s>> \o @,
                            !.list = Unlink(p, s),
                            !.bits = @ \ {s}]

(***************************************************************************)
(* MemSlotBaseSlotPopHead / MemSlotBaseSlotPopTail: unlink the end of a    *)
(* list and push its id.  The arena is not told: the bit stays set.        *)
(***************************************************************************)
CutEnd(p, s, l, rest) == [free |-> <<s>> \o p.free,
                          list |-> [p.list EXCEPT ![l] = rest],
                          cur  |-> p.cur,
                          bits |-> p.bits]
PopHead(p, l) == CutEnd(p, PointToHead(p, l), l, Tail(p.list[l]))
PopTail(p, l) == CutEnd(p, PointToTail(p, l), l, Front(p.list[l]))

-----------------------------------------------------------------------------
(***************************************************************************)
(* Well-formedness of a MemSlotBase: every slot is free or on exactly one  *)
(* list, once, the list its metadata names, and an allocated slot has its  *)
(* arena bit, hence its memory.                                            *)
(***************************************************************************)
NoDuplicates(p) == /\ IsInjective(p.free)
                   /\ \A l \in ListIds : IsInjective(p.list[l])
FreeXorListed(p) == \A s \in SlotIds :
                        s \in FreeIds(p) <=> ~ \E l \in ListIds : s \in OnList(p, l)
MetaNamesList(p) == \A l \in ListIds : \A s \in OnList(p, l) : p.cur[s] = l
ListedHasMemory(p) == \A l \in ListIds : OnList(p, l) \subseteq p.bits

WellFormed(p) == /\ p \in Pool
                 /\ NoDuplicates(p)
                 /\ FreeXorListed(p)
                 /\ MetaNamesList(p)
                 /\ ListedHasMemory(p)
=============================================================================
