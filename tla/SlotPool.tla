------------------------------ MODULE SlotPool ------------------------------
(***************************************************************************)
(* What a MEM_SLOT promises, without stacks, lists, metadata or arenas: a  *)
(* set of slots, each free or on one numbered list.  A free slot may be    *)
(* taken onto list 0, a taken slot may be moved or released, one slot at a *)
(* time; the whole base may be torn down and built again.                  *)
(***************************************************************************)
EXTENDS Integers

CONSTANTS Slots, Lists, Free

VARIABLE where      \* the list a slot is on, or Free

Init == where = [s \in Slots |-> Free]

Take(s) == where[s] = Free /\ where' = [where EXCEPT ![s] = 0]
Move(s, l) == where[s] # Free /\ where' = [where EXCEPT ![s] = l]
Release(s) == where[s] # Free /\ where' = [where EXCEPT ![s] = Free]
Rebuild == where' = [s \in Slots |-> Free]

Next == \/ \E s \in Slots : \/ Take(s)
                            \/ Release(s)
                            \/ \E l \in Lists : Move(s, l)
        \/ Rebuild

Spec == Init /\ [][Next]_where
=============================================================================
