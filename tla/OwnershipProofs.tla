-------------------------- MODULE OwnershipProofs ---------------------------
(***************************************************************************)
(* What is handed out has one owner until it is given back, for every      *)
(* number of slots, lists, listeners, connections and certificates.        *)
(*   MEM_SLOT keeps its base well formed and implements the slot pool.     *)
(*   TCP server: slots, sockets, connections and certificates; the         *)
(*   listeners are a part of MCComm, here the instance C.                  *)
(***************************************************************************)
EXTENDS MemSlot, MemSlotLemmas, CommParts, FiniteSetTheorems, WellFoundedInduction

(***************************************************************************)
(* The inductive invariant.  PoolWellFormed alone is inductive; ArenaExact *)
(* needs that a pinned id is not allocated, or freeing it would clear the  *)
(* bit that pins it.                                                       *)
(***************************************************************************)
PinnedAreFree == pinned \cap Allocated(pool) = {}
IInv == TypeOK /\ PoolWellFormed /\ ArenaExact /\ PinnedAreFree

LEMMA InitIInv == Init => IInv
<1>. SUFFICES ASSUME Init PROVE IInv
  OBVIOUS
<1>1. pool = NewPool /\ pinned = {}
  BY DEF Init
<1>2. Allocated(pool) = {}
  BY <1>1, NewPoolWF DEF Allocated
<1>3. NewPool.bits = {}
  BY DEF NewPool
<1>. QED BY <1>1, <1>2, <1>3, NewPoolWF
         DEF IInv, TypeOK, PoolWellFormed, ArenaExact, PinnedAreFree, WellFormed

LEMMA NextIInv == IInv /\ [Next]_vars => IInv'
<1>. SUFFICES ASSUME IInv, [Next]_vars PROVE IInv'
  OBVIOUS
<1>0. /\ WellFormed(pool) /\ pinned \subseteq SlotIds
      /\ pool.bits = Allocated(pool) \cup pinned /\ pinned \cap Allocated(pool) = {}
  BY DEF IInv, TypeOK, PoolWellFormed, ArenaExact, PinnedAreFree
\* It is enough that the base stays well formed and its arena exact.
<1>g. ASSUME WellFormed(pool'), pinned' \subseteq SlotIds,
             pool'.bits = Allocated(pool') \cup pinned', pinned' \cap Allocated(pool') = {}
      PROVE  IInv'
  BY <1>g DEF IInv, TypeOK, PoolWellFormed, ArenaExact, PinnedAreFree, WellFormed
<1>1. CASE SlotGrab
  <2>1. Allocated(pool') = Allocated(pool) \cup {GrabId(pool)}
    BY <1>0, <1>1, GrabAllocates DEF SlotGrab
  <2>2. /\ WellFormed(pool') /\ GrabId(pool) \in SlotIds
        /\ pool'.bits = pool.bits \cup {GrabId(pool)} /\ pinned' = pinned \ {GrabId(pool)}
    BY <1>0, <1>1, GrabWF DEF SlotGrab
  <2>. QED BY <1>0, <2>1, <2>2, <1>g
<1>2. ASSUME NEW s \in SlotIds, SlotGrabByID(s) PROVE IInv'
  <2>1. /\ WellFormed(pool') /\ pool'.list = pool.list
        /\ pool'.bits = pool.bits \cup {s}
    BY <1>0, <1>2, GrabByIDWF DEF SlotGrabByID
  <2>2. Allocated(pool') = Allocated(pool)
    BY <2>1 DEF Allocated, OnList
  <2>3. pinned' = IF s \in Allocated(pool) THEN pinned ELSE pinned \cup {s}
    BY <1>2 DEF SlotGrabByID
  <2>. QED BY <1>0, <2>1, <2>2, <2>3, <1>g
<1>3. ASSUME NEW s \in SlotIds, SlotRelease(s) PROVE IInv'
  <2>1. /\ WellFormed(pool') /\ s \in Allocated(pool) /\ pinned' = pinned
        /\ \A m \in ListIds : OnList(pool', m) = OnList(pool, m) \ {s}
        /\ pool'.bits = pool.bits \ {s}
    BY <1>0, <1>3, SlotFreeWF DEF SlotRelease
  <2>2. Allocated(pool') = Allocated(pool) \ {s}
    BY <2>1, AllocatedLeaves
  <2>. QED BY <1>0, <2>1, <2>2, <1>g
<1>4. ASSUME NEW s \in SlotIds, NEW l \in ListIds, SlotListIDSwitchToTail(s, l) PROVE IInv'
  <2>1. /\ WellFormed(pool') /\ s \in Allocated(pool) /\ pinned' = pinned
        /\ OnList(pool', l) = OnList(pool, l) \cup {s}
        /\ \A m \in ListIds \ {l} : OnList(pool', m) = OnList(pool, m) \ {s}
        /\ pool'.bits = pool.bits \cup {s}
    BY <1>0, <1>4, SwitchToTailWF DEF SlotListIDSwitchToTail
  <2>2. Allocated(pool') = Allocated(pool) \cup {s}
    BY <2>1, AllocatedJoins
  <2>. QED BY <1>0, <2>1, <2>2, <1>g
<1>5. ASSUME NEW s \in SlotIds, NEW l \in ListIds, SlotListIDSwitch(s, l) PROVE IInv'
  <2>1. /\ WellFormed(pool') /\ s \in Allocated(pool) /\ pinned' = pinned
        /\ OnList(pool', l) = OnList(pool, l) \cup {s}
        /\ \A m \in ListIds \ {l} : OnList(pool', m) = OnList(pool, m) \ {s}
        /\ pool'.bits = pool.bits \cup {s}
    BY <1>0, <1>5, SwitchWF DEF SlotListIDSwitch
  <2>2. Allocated(pool') = Allocated(pool) \cup {s}
    BY <2>1, AllocatedJoins
  <2>. QED BY <1>0, <2>1, <2>2, <1>g
<1>6. ASSUME NEW l \in ListIds, NEW m \in ListIds, SlotPointToHeadAndSwitchListID(l, m)
      PROVE  IInv'
  <2>. DEFINE s == PointToHead(pool, l)
  <2>1. /\ WellFormed(pool') /\ s \in OnList(pool, l) /\ s \in SlotIds /\ pinned' = pinned
        /\ OnList(pool', m) = OnList(pool, m) \cup {s}
        /\ \A k \in ListIds \ {m} : OnList(pool', k) = OnList(pool, k) \ {s}
        /\ pool'.bits = pool.bits
    BY <1>0, <1>6, HeadSwitchWF DEF SlotPointToHeadAndSwitchListID
  <2>2. Allocated(pool') = Allocated(pool) \cup {s} /\ s \in Allocated(pool)
    <3>. HIDE DEF s
    <3>. QED BY <2>1, AllocatedJoins DEF Allocated
  <2>. QED BY <1>0, <2>1, <2>2, <1>g
<1>7. ASSUME NEW l \in ListIds, SlotPopHead(l) PROVE IInv'
  <2>. DEFINE s == PointToHead(pool, l)
  <2>1. /\ WellFormed(pool') /\ s \in OnList(pool, l) /\ s \in SlotIds
        /\ \A k \in ListIds : OnList(pool', k) = OnList(pool, k) \ {s}
        /\ pool'.bits = pool.bits /\ pinned' = pinned \cup {s}
    BY <1>0, <1>7, PopHeadWF DEF SlotPopHead
  <2>2. Allocated(pool') = Allocated(pool) \ {s} /\ s \in Allocated(pool)
    <3>. HIDE DEF s
    <3>. QED BY <2>1, AllocatedLeaves DEF Allocated
  <2>. QED BY <1>0, <2>1, <2>2, <1>g
<1>8. ASSUME NEW l \in ListIds, SlotPopTail(l) PROVE IInv'
  <2>. DEFINE s == PointToTail(pool, l)
  <2>1. /\ WellFormed(pool') /\ s \in OnList(pool, l) /\ s \in SlotIds
        /\ \A k \in ListIds : OnList(pool', k) = OnList(pool, k) \ {s}
        /\ pool'.bits = pool.bits /\ pinned' = pinned \cup {s}
    BY <1>0, <1>8, PopTailWF DEF SlotPopTail
  <2>2. Allocated(pool') = Allocated(pool) \ {s} /\ s \in Allocated(pool)
    <3>. HIDE DEF s
    <3>. QED BY <2>1, AllocatedLeaves DEF Allocated
  <2>. QED BY <1>0, <2>1, <2>2, <1>g
<1>9. CASE CleanAndInit
  <2>1. WellFormed(pool') /\ Allocated(pool') = {} /\ pool'.bits = {} /\ pinned' = {}
    BY <1>9, NewPoolWF DEF CleanAndInit, Allocated, NewPool
  <2>. QED BY <2>1, <1>g
<1>10. CASE UNCHANGED vars
  BY <1>0, <1>10, <1>g DEF vars
<1>. QED BY <1>1, <1>2, <1>3, <1>4, <1>5, <1>6, <1>7, <1>8, <1>9, <1>10 DEF Next

(***************************************************************************)
(* Whatever sequence of calls its users make, a MemSlotBase stays well     *)
(* formed: no slot is lost, doubly listed or without memory.               *)
(***************************************************************************)
THEOREM MemSlotSafe == Spec => [](TypeOK /\ PoolWellFormed /\ ArenaExact)
<1>1. IInv => TypeOK /\ PoolWellFormed /\ ArenaExact
  BY DEF IInv
<1>. QED BY <1>1, InitIInv, NextIInv, PTL DEF Spec

(***************************************************************************)
(* The arena never forgets a slot in use, so it frees no block under one,  *)
(* and it keeps a free one only after a GrabByID of an unallocated id or a *)
(* Pop, which are the calls that do not pair MemArenaGrabByID with         *)
(* MemArenaReleaseByID (mem_slot.c, mem_arena.c:297-308).                  *)
(***************************************************************************)
THEOREM ArenaKeepsNothingElse == Spec => []ArenaExact
<1>1. IInv => ArenaExact
  BY DEF IInv
<1>. QED BY <1>1, InitIInv, NextIInv, PTL DEF Spec

-----------------------------------------------------------------------------
(***************************************************************************)
(* The refinement.  For a well-formed base the mapping is determined.      *)
(***************************************************************************)
LEMMA WhereIs ==
  ASSUME NEW p, WellFormed(p)
  PROVE  /\ \A l \in ListIds : \A s \in OnList(p, l) : Where(p)[s] = l
         /\ \A s \in SlotIds \ Allocated(p) : Where(p)[s] = NotListed
         /\ \A s \in SlotIds : Where(p)[s] # NotListed <=> s \in Allocated(p)
         /\ DOMAIN Where(p) = SlotIds
<1>1. ASSUME NEW l \in ListIds, NEW s \in OnList(p, l) PROVE Where(p)[s] = l
  <2>1. s \in SlotIds /\ s \in Allocated(p)
    BY OnListIsSlot
  <2>2. \A m \in ListIds : s \in OnList(p, m) => m = l
    BY ListsDisjoint
  <2>. QED BY <2>1, <2>2 DEF Where
<1>2. \A s \in SlotIds \ Allocated(p) : Where(p)[s] = NotListed
  BY DEF Where
<1>3. NotListed \notin ListIds
  BY PoolAssumption DEF ListIds, NotListed
<1>4. DOMAIN Where(p) = SlotIds
  BY DEF Where
<1>. QED BY <1>1, <1>2, <1>3, <1>4 DEF Allocated

(* Where two bases agree on all slots but one. *)
LEMMA WhereChanges ==
  ASSUME NEW p, NEW q, WellFormed(p), WellFormed(q), NEW s \in SlotIds,
         \A l \in ListIds : OnList(q, l) \ {s} = OnList(p, l) \ {s}
  PROVE  Where(q) = [Where(p) EXCEPT ![s] = Where(q)[s]]
<1>1. \A t \in SlotIds \ {s} : t \in Allocated(q) <=> t \in Allocated(p)
  BY DEF Allocated
<1>2. ASSUME NEW t \in SlotIds \ {s} PROVE Where(q)[t] = Where(p)[t]
  <2>1. CASE t \in Allocated(p)
    <3>1. PICK l \in ListIds : t \in OnList(p, l)
      BY <2>1 DEF Allocated
    <3>2. t \in OnList(q, l)
      BY <3>1
    <3>. QED BY <3>1, <3>2, WhereIs
  <2>2. CASE t \notin Allocated(p)
    BY <2>2, <1>1, WhereIs
  <2>. QED BY <2>1, <2>2
<1>3. Where(p) = [t \in SlotIds |-> Where(p)[t]] /\ Where(q) = [t \in SlotIds |-> Where(q)[t]]
  BY DEF Where
<1>. QED BY <1>2, <1>3

(* A slot joins a list, leaves one, or nothing the mapping sees happens. *)
LEMMA JoinMaps ==
  ASSUME IInv, IInv', NEW s \in SlotIds, NEW l \in ListIds,
         OnList(pool', l) = OnList(pool, l) \cup {s},
         \A m \in ListIds \ {l} : OnList(pool', m) = OnList(pool, m) \ {s}
  PROVE  Where(pool)' = [Where(pool) EXCEPT ![s] = l]
<1>1. WellFormed(pool) /\ WellFormed(pool')
  BY DEF IInv, PoolWellFormed
<1>2. Where(pool') = [Where(pool) EXCEPT ![s] = Where(pool')[s]]
  BY <1>1, WhereChanges
<1>3. Where(pool')[s] = l
  BY <1>1, WhereIs
<1>. QED BY <1>2, <1>3

LEMMA LeaveMaps ==
  ASSUME IInv, IInv', NEW s \in SlotIds,
         \A m \in ListIds : OnList(pool', m) = OnList(pool, m) \ {s}
  PROVE  Where(pool)' = [Where(pool) EXCEPT ![s] = NotListed]
<1>1. WellFormed(pool) /\ WellFormed(pool')
  BY DEF IInv, PoolWellFormed
<1>2. Where(pool') = [Where(pool) EXCEPT ![s] = Where(pool')[s]]
  BY <1>1, WhereChanges
<1>3. s \notin Allocated(pool')
  BY AllocatedLeaves
<1>4. Where(pool')[s] = NotListed
  BY <1>1, <1>3, WhereIs
<1>. QED BY <1>2, <1>4

LEMMA NewPoolMaps == Where(NewPool) = [s \in SlotIds |-> NotListed]
BY NewPoolWF DEF Where, Allocated

LEMMA StepMaps == IInv /\ IInv' /\ [Next]_vars => [Promise!Next]_(Where(pool))
<1>. SUFFICES ASSUME IInv, IInv', [Next]_vars PROVE Promise!Next \/ Where(pool)' = Where(pool)
  OBVIOUS
<1>0. WellFormed(pool) /\ \A s \in SlotIds : Where(pool)[s] # NotListed <=> s \in Allocated(pool)
  BY WhereIs DEF IInv, PoolWellFormed
<1>. USE DEF Promise!Next, Promise!Take, Promise!Move, Promise!Release, Promise!Rebuild
<1>1. CASE SlotGrab
  <2>. DEFINE s == GrabId(pool)
  <2>1. /\ s \in SlotIds \ Allocated(pool) /\ 0 \in ListIds
        /\ OnList(pool', 0) = OnList(pool, 0) \cup {s}
        /\ \A m \in ListIds \ {0} : OnList(pool', m) = OnList(pool, m) \ {s}
    BY <1>0, <1>1, GrabAllocates, GrabWF DEF SlotGrab
  <2>. HIDE DEF s
  <2>2. Where(pool)' = [Where(pool) EXCEPT ![s] = 0]
    BY <2>1, JoinMaps
  <2>3. Promise!Take(s)
    BY <1>0, <2>1, <2>2
  <2>. QED BY <2>1, <2>3
<1>2. ASSUME NEW s \in SlotIds, SlotGrabByID(s) PROVE Where(pool)' = Where(pool)
  BY <1>0, <1>2, GrabByIDWF, ZenonT(40) DEF SlotGrabByID, Where, Allocated, OnList
<1>3. ASSUME NEW s \in SlotIds, SlotRelease(s) PROVE Promise!Release(s)
  <2>1. /\ s \in Allocated(pool)
        /\ \A m \in ListIds : OnList(pool', m) = OnList(pool, m) \ {s}
    BY <1>0, <1>3, SlotFreeWF DEF SlotRelease
  <2>2. Where(pool)' = [Where(pool) EXCEPT ![s] = NotListed]
    BY <2>1, LeaveMaps
  <2>. QED BY <1>0, <2>1, <2>2
<1>4. ASSUME NEW s \in SlotIds, NEW l \in ListIds,
             SlotListIDSwitchToTail(s, l) \/ SlotListIDSwitch(s, l)
      PROVE  Promise!Move(s, l)
  <2>1. /\ s \in Allocated(pool)
        /\ OnList(pool', l) = OnList(pool, l) \cup {s}
        /\ \A m \in ListIds \ {l} : OnList(pool', m) = OnList(pool, m) \ {s}
    BY <1>0, <1>4, SwitchToTailWF, SwitchWF DEF SlotListIDSwitchToTail, SlotListIDSwitch
  <2>2. Where(pool)' = [Where(pool) EXCEPT ![s] = l]
    BY <2>1, JoinMaps
  <2>. QED BY <1>0, <2>1, <2>2
<1>5. ASSUME NEW l \in ListIds, NEW m \in ListIds, SlotPointToHeadAndSwitchListID(l, m)
      PROVE  \E s \in SlotIds : Promise!Move(s, m)
  <2>. DEFINE s == PointToHead(pool, l)
  <2>1. /\ s \in OnList(pool, l) /\ s \in SlotIds
        /\ OnList(pool', m) = OnList(pool, m) \cup {s}
        /\ \A k \in ListIds \ {m} : OnList(pool', k) = OnList(pool, k) \ {s}
    BY <1>0, <1>5, HeadSwitchWF DEF SlotPointToHeadAndSwitchListID
  <2>. HIDE DEF s
  <2>2. Where(pool)' = [Where(pool) EXCEPT ![s] = m]
    BY <2>1, JoinMaps
  <2>. QED BY <1>0, <2>1, <2>2 DEF Allocated
<1>6. ASSUME NEW l \in ListIds, SlotPopHead(l) \/ SlotPopTail(l)
      PROVE  \E s \in SlotIds : Promise!Release(s)
  <2>1. PICK s \in SlotIds : /\ s \in OnList(pool, l)
                             /\ \A k \in ListIds : OnList(pool', k) = OnList(pool, k) \ {s}
    BY <1>0, <1>6, PopHeadWF, PopTailWF DEF SlotPopHead, SlotPopTail
  <2>2. Where(pool)' = [Where(pool) EXCEPT ![s] = NotListed]
    BY <2>1, LeaveMaps
  <2>. QED BY <1>0, <2>1, <2>2 DEF Allocated
<1>7. CASE CleanAndInit
  BY <1>7, NewPoolMaps DEF CleanAndInit
<1>8. CASE UNCHANGED vars
  BY <1>8 DEF vars
<1>. QED BY <1>1, <1>2, <1>3, <1>4, <1>5, <1>6, <1>7, <1>8 DEF Next

(***************************************************************************)
(* MEM_SLOT implements the slot pool: every operation hands out a free     *)
(* slot, moves one or takes one back, and disturbs no other.               *)
(***************************************************************************)
THEOREM MemSlotImplementsSlotPool == Spec => ImplementsSlotPool
<1>1. Init => Promise!Init
  BY NewPoolMaps DEF Init, Promise!Init
<1>. QED BY <1>1, InitIInv, NextIInv, StepMaps, PTL DEF Spec, ImplementsSlotPool, Promise!Spec

-----------------------------------------------------------------------------
CONSTANTS Fds, Confs, Acts, Calls, MaxWrites, MaxTries, MaxConnects, MaxCalls      \* of MCComm

C == INSTANCE MCComm

(***************************************************************************)
(* The listeners of the TCP server. An invariant is a predicate on a value *)
(* of the server, since a handler may go through several others.           *)
(***************************************************************************)

LSlots == 0 .. MaxListeners - 1
LsnStages == {"none", "new", "open", "transfer", "forging", "forged"}
LsnEndings == {"no", "slot_in_use", "overrun", "not_listening", "freed", "freed_cert"}
LsnNotes == {"failed", "freed_twice", "cut", "closed_0", "orphans", "replaced"}
LsnConn == [lid : LSlots, owner : Nat, name : Hosts \cup {<<>>}, cert : Nat, st : LsnStages]
LsnSlot == [active : BOOLEAN, id : Nat, sock : Nat \cup {-1}, listens : BOOLEAN, unix : BOOLEAN,
            ctx : BOOLEAN, file : Nat, failed : BOOLEAN]
LsnTyped(x) ==
    x \in [free : Seq(LSlots), list : SUBSET LSlots, lst : [LSlots -> LsnSlot], cb : [LSlots -> Nat],
           path : [LSlots -> Nat], conns : [ConnFds -> LsnConn], cache : {x.cache}, key : BOOLEAN, refs : Nat,
           gone : BOOLEAN, adds : Nat, certs : Nat, open : SUBSET Nat, live : SUBSET Nat, hist : SUBSET LsnNotes,
           aborted : LsnEndings]

LsnRuns(x) == x.aborted = "no" /\ ~x.gone
ActiveSlots(x) == {l \in LSlots : x.lst[l].active}

\* Whether a slot is free is known as long as none was given back twice, and
\* how many are as long as no listener failed.
Unrepeated(q) == \A i, j \in DOMAIN q : q[i] = q[j] => i = j
SlotsFree(x) ==
    /\ Unrepeated(x.free)
    /\ \A l \in LSlots : l \in ToSet(x.free) <=> (~x.lst[l].active \/ x.lst[l].failed)
Slotted(x) ==
    /\ LsnRuns(x) => /\ x.list = ActiveSlots(x)
                     /\ "freed_twice" \notin x.hist => SlotsFree(x)
                     /\ "failed" \notin x.hist => Len(x.free) + Cardinality(x.list) = MaxListeners
    /\ \A l \in LSlots : x.lst[l].failed => "failed" \in x.hist
    /\ x.aborted \in {"slot_in_use", "overrun"} \/ "freed_twice" \in x.hist => "failed" \in x.hist

\* A socket has the number of the listener it was made for.
Socketed(x) ==
    /\ \A l \in LSlots : x.lst[l].id <= x.adds /\ x.lst[l].sock \in {-1, 0, x.lst[l].id}
    /\ \A l, m \in LSlots : x.lst[l].id = x.lst[m].id => l = m \/ x.lst[l].id = 0
    /\ x.open = {x.lst[l].sock : l \in ActiveSlots(x)} \ {-1, 0}
    /\ x.gone => ActiveSlots(x) = {}

\* A connection names the listener that is in its slot.
Linked(x) ==
    \A i \in ConnFds :
        LET c == x.conns[i]
        IN \/ c.st \in {"none", "transfer"} \/ "cut" \in x.hist
           \/ x.lst[c.lid].active /\ x.lst[c.lid].id = c.owner

\* Certificates are numbered, and the cache holds each under one name.
Certified(x) ==
    /\ x.live \subseteq 1 .. x.certs
    /\ \A k \in DOMAIN x.cache : x.cache[k] \in x.live
    /\ \A k, m \in DOMAIN x.cache : x.cache[k] = x.cache[m] => k = m
    /\ ~x.gone /\ "replaced" \notin x.hist =>
            \A i \in ConnFds : x.conns[i].st # "none" => x.conns[i].cert \in x.live \cup {0}
    /\ \A i \in ConnFds : x.conns[i].st = "forged" => x.conns[i].cert # 0
    /\ x.aborted = "freed_cert" => "replaced" \in x.hist

Owned(x) == LsnTyped(x) /\ Slotted(x) /\ Socketed(x) /\ Linked(x) /\ Certified(x)

\* What a program may ask a listener to be.
ListenersFit ==
    /\ MaxListeners \in Nat \ {0}
    /\ Listeners \subseteq [kind : {"plain", "ssl", "unix"}, fails : {"no", "socket", "bind", "cert"},
                            cb : BOOLEAN, path : BOOLEAN]

LEMMA SlotNames == C!Lsn!Slots = LSlots
BY DEF C!Lsn!Slots, LSlots

\* The library's operators as the instance knows them.
LEMMA LsnLibrary ==
  /\ \A q : C!Lsn!ToSet(q) = ToSet(q) /\ C!Lsn!Reverse(q) = Reverse(q) /\ C!Lsn!Front(q) = Front(q) /\ C!Lsn!Last(q) = Last(q)
  /\ \A S : C!Lsn!Cardinality(S) = Cardinality(S)
<1>1. \A q : C!Lsn!ToSet(q) = ToSet(q) /\ C!Lsn!Reverse(q) = Reverse(q) /\ C!Lsn!Front(q) = Front(q) /\ C!Lsn!Last(q) = Last(q)
  BY DEF C!Lsn!ToSet, ToSet, C!Lsn!Reverse, Reverse, C!Lsn!Front, Front, C!Lsn!Last, Last
<1>2. \A S : C!Lsn!Cardinality(S) = Cardinality(S)
  BY DEF C!Lsn!Cardinality, Cardinality
<1>. QED BY <1>1, <1>2

LEMMA LsnInitOwned == ASSUME ListenersFit, C!Lsn!Init PROVE Owned(state)
<1>. DEFINE f == [i \in 1 .. MaxListeners |-> i - 1]
<1>1. state = [free |-> Reverse(f), list |-> {}, lst |-> [l \in LSlots |-> C!Lsn!Unused],
               cb |-> [l \in LSlots |-> 0], path |-> [l \in LSlots |-> 0],
               conns |-> [i \in ConnFds |-> C!Lsn!NoConn], cache |-> <<>>, key |-> FALSE,
               refs |-> 0, gone |-> FALSE, adds |-> 0, certs |-> 0, open |-> {}, live |-> {}, hist |-> {}, aborted |-> "no"]
  BY SlotNames, LsnLibrary DEF C!Lsn!Init
<1>2. f \in Seq(LSlots) /\ Len(f) = MaxListeners /\ DOMAIN f = 1 .. MaxListeners
  BY DEF ListenersFit, LSlots
<1>. DEFINE r == [i \in 1 .. MaxListeners |-> MaxListeners - i]
<1>3. Reverse(f) = r
  BY <1>2 DEF Reverse, ListenersFit
<1>4. r \in Seq(LSlots) /\ Len(r) = MaxListeners /\ DOMAIN r = 1 .. MaxListeners
  BY DEF ListenersFit, LSlots
<1>5. \A l \in LSlots : l \in ToSet(r)
  <2>. TAKE l \in LSlots
  <2>1. MaxListeners - l \in 1 .. MaxListeners /\ r[MaxListeners - l] = l
    BY DEF ListenersFit, LSlots
  <2>. QED BY <2>1, <1>4 DEF ToSet
<1>6. \A i, j \in DOMAIN r : r[i] = r[j] => i = j
  BY DEF ListenersFit
<1>. HIDE DEF r, f
<1>7. C!Lsn!Unused \in LsnSlot /\ ~C!Lsn!Unused.active /\ ~C!Lsn!Unused.failed /\ C!Lsn!Unused.id = 0 /\ C!Lsn!Unused.sock = -1
  BY DEF C!Lsn!Unused, LsnSlot
<1>8. C!Lsn!NoConn \in LsnConn /\ C!Lsn!NoConn.st = "none"
  BY DEF C!Lsn!NoConn, LsnConn, LsnStages, LSlots, ListenersFit
<1>9. LsnTyped(state)
  BY <1>1, <1>3, <1>4, <1>7, <1>8 DEF LsnTyped, LsnEndings
<1>10. ActiveSlots(state) = {}
  BY <1>1, <1>7 DEF ActiveSlots
<1>a. /\ state.free = r /\ state.list = {} /\ state.hist = {} /\ state.aborted = "no" /\ ~state.gone
      /\ state.open = {} /\ state.adds = 0
  BY <1>1, <1>3
<1>b. \A l \in LSlots : ~state.lst[l].active /\ ~state.lst[l].failed /\ state.lst[l].id = 0 /\ state.lst[l].sock = -1
  BY <1>1, <1>7
<1>c. SlotsFree(state)
  BY <1>a, <1>b, <1>4, <1>5, <1>6 DEF SlotsFree, Unrepeated
<1>d. Len(state.free) + Cardinality(state.list) = MaxListeners
  BY <1>a, <1>4, FS_EmptySet DEF ListenersFit
<1>11. Slotted(state)
  BY <1>a, <1>b, <1>c, <1>d, <1>10 DEF Slotted
<1>12. Socketed(state)
  BY <1>a, <1>b, <1>10 DEF Socketed
<1>13. Linked(state) /\ Certified(state)
  BY <1>1, <1>8 DEF Linked, Certified
<1>. QED BY <1>9, <1>11, <1>12, <1>13 DEF Owned

\* The fields that the operations on slots leave.
LsnRest(g, h) ==
    /\ h.conns = g.conns /\ h.cache = g.cache /\ h.certs = g.certs /\ h.live = g.live /\ h.gone = g.gone
    /\ h.adds = g.adds /\ h.open = g.open

\* What SlotQueueFree may do.
LEMMA QueueFreeIs ==
  ASSUME NEW x, LsnTyped(x), NEW l \in LSlots, NEW t, t = C!Lsn!SlotQueueFree(x, l)
  PROVE  /\ LsnTyped(t) /\ LsnRest(x, t) /\ t.lst = x.lst /\ t.list = x.list
         /\ \/ /\ Len(x.free) = MaxListeners /\ t.free = x.free /\ t.hist = x.hist /\ t.aborted = "overrun"
            \/ /\ Len(x.free) # MaxListeners /\ l \in ToSet(x.free)
               /\ t.free = Append(x.free, l) /\ t.hist = x.hist \cup {"freed_twice"} /\ t.aborted = x.aborted
            \/ /\ Len(x.free) # MaxListeners /\ l \notin ToSet(x.free)
               /\ t.free = Append(x.free, l) /\ t.hist = x.hist /\ t.aborted = x.aborted
<1>1. Append(x.free, l) \in Seq(LSlots) /\ x.hist \in SUBSET LsnNotes
  BY DEF LsnTyped
<1>2. CASE Len(x.free) = MaxListeners
  <2>1. t = [x EXCEPT !.aborted = "overrun"]
    BY <1>2 DEF C!Lsn!SlotQueueFree, C!Lsn!Abort
  <2>2. LsnTyped(t)
    BY <2>1 DEF LsnTyped, LsnEndings
  <2>. QED BY <1>2, <2>1, <2>2 DEF LsnTyped, LsnRest
<1>3. CASE Len(x.free) # MaxListeners /\ l \in ToSet(x.free)
  <2>1. t = [x EXCEPT !.free = Append(x.free, l), !.hist = x.hist \cup {"freed_twice"}]
    BY <1>3, LsnLibrary DEF C!Lsn!SlotQueueFree, C!Lsn!Note, LsnTyped
  <2>2. x.hist \cup {"freed_twice"} \in SUBSET LsnNotes
    BY <1>1 DEF LsnNotes
  <2>3. LsnTyped(t)
    BY <1>1, <2>1, <2>2 DEF LsnTyped
  <2>. QED BY <1>3, <2>1, <2>3 DEF LsnTyped, LsnRest
<1>4. CASE Len(x.free) # MaxListeners /\ l \notin ToSet(x.free)
  <2>1. t = [x EXCEPT !.free = Append(x.free, l)]
    BY <1>4, LsnLibrary DEF C!Lsn!SlotQueueFree
  <2>3. LsnTyped(t)
    BY <1>1, <2>1 DEF LsnTyped
  <2>. QED BY <1>4, <2>1, <2>3 DEF LsnTyped, LsnRest
<1>. QED BY <1>2, <1>3, <1>4

LEMMA FrontIs ==
  ASSUME NEW S, NEW q \in Seq(S), q # <<>>
  PROVE  /\ Front(q) \in Seq(S) /\ Last(q) \in S /\ Len(Front(q)) = Len(q) - 1 /\ DOMAIN Front(q) = 1 .. Len(q) - 1
         /\ \A i \in 1 .. Len(q) - 1 : Front(q)[i] = q[i]
         /\ Last(q) = q[Len(q)] /\ DOMAIN q = 1 .. Len(q) /\ Len(q) \in Nat \ {0}
<1>1. Len(q) \in Nat \ {0} /\ DOMAIN q = 1 .. Len(q) /\ q \in [1 .. Len(q) -> S]
  BY EmptySeq, LenProperties
<1>2. SubSeq(q, 1, Len(q) - 1) = [i \in 1 .. Len(q) - 1 |-> q[i]]
  BY <1>1, SubSeqProperties
<1>. DEFINE r == [i \in 1 .. Len(q) - 1 |-> q[i]]
<1>3. r \in Seq(S) /\ Len(r) = Len(q) - 1 /\ DOMAIN r = 1 .. Len(q) - 1
  BY <1>1
<1>. QED BY <1>1, <1>2, <1>3 DEF Front, Last

LEMMA AppendIs ==
  ASSUME NEW S, NEW q \in Seq(S), NEW e \in S
  PROVE  /\ Append(q, e) \in Seq(S) /\ Len(Append(q, e)) = Len(q) + 1 /\ DOMAIN Append(q, e) = 1 .. Len(q) + 1
         /\ \A i \in 1 .. Len(q) : Append(q, e)[i] = q[i]
         /\ Append(q, e)[Len(q) + 1] = e
         /\ ToSet(Append(q, e)) = ToSet(q) \cup {e}
<1>1. Len(q) \in Nat /\ DOMAIN q = 1 .. Len(q)
  BY LenProperties
<1>2. /\ Append(q, e) \in Seq(S) /\ Len(Append(q, e)) = Len(q) + 1 /\ DOMAIN Append(q, e) = 1 .. Len(q) + 1
      /\ \A i \in 1 .. Len(q) : Append(q, e)[i] = q[i]
      /\ Append(q, e)[Len(q) + 1] = e
  BY <1>1, AppendProperties, LenProperties
<1>3. ASSUME NEW k \in ToSet(Append(q, e)) PROVE k \in ToSet(q) \cup {e}
  <2>1. PICK i \in 1 .. Len(q) + 1 : k = Append(q, e)[i]
    BY <1>2, <1>3 DEF ToSet
  <2>. QED BY <2>1, <1>1, <1>2 DEF ToSet
<1>4. ASSUME NEW k \in ToSet(q) PROVE k \in ToSet(Append(q, e))
  <2>1. PICK i \in 1 .. Len(q) : k = q[i]
    BY <1>1, <1>4 DEF ToSet
  <2>2. i \in DOMAIN Append(q, e) /\ Append(q, e)[i] = k
    BY <2>1, <1>1, <1>2
  <2>. QED BY <2>2 DEF ToSet
<1>5. e \in ToSet(Append(q, e))
  BY <1>1, <1>2 DEF ToSet
<1>. QED BY <1>2, <1>3, <1>4, <1>5

\* A listener was added to slot l, and started or failed.
Started(x, t, l) ==
    /\ LsnTyped(t) /\ t.conns = x.conns /\ t.cache = x.cache /\ t.certs = x.certs /\ t.live = x.live /\ t.gone = x.gone
    /\ t.list = x.list \cup {l} /\ t.adds = x.adds + 1
    /\ \A m \in LSlots \ {l} : t.lst[m] = x.lst[m]
    /\ t.lst[l].active /\ t.lst[l].id = x.adds + 1 /\ t.lst[l].sock \in {-1, 0, x.adds + 1}
    /\ t.open = x.open \cup ({t.lst[l].sock} \ {-1, 0})
    /\ \/ /\ t.free = Front(x.free) /\ t.hist = x.hist /\ t.aborted = "no" /\ ~t.lst[l].failed
       \/ /\ t.lst[l].failed /\ "failed" \in t.hist /\ t.hist \subseteq x.hist \cup {"failed", "freed_twice"}
          /\ x.hist \subseteq t.hist /\ t.aborted \in {"no", "overrun"}
          /\ t.aborted = "no" /\ "freed_twice" \notin t.hist =>
                l \notin ToSet(Front(x.free)) /\ t.free = Append(Front(x.free), l)

\* On its way: the listener has its number and perhaps its socket.
Starting(x, g, l) ==
    /\ g.free = Front(x.free) /\ g.hist = x.hist /\ g.aborted = "no" /\ g.list = x.list
    /\ g.conns = x.conns /\ g.cache = x.cache /\ g.certs = x.certs /\ g.live = x.live /\ g.gone = x.gone
    /\ g.adds = x.adds + 1 /\ \A m \in LSlots \ {l} : g.lst[m] = x.lst[m]
    /\ g.lst[l].id = x.adds + 1 /\ g.lst[l].sock \in {-1, 0, x.adds + 1} /\ ~g.lst[l].failed
    /\ g.open = x.open \cup ({g.lst[l].sock} \ {-1, 0})

LsnMark(g, l) == C!Lsn!Note([g EXCEPT !.lst[l].failed = TRUE], "failed")
LsnFail(g, l) == C!Lsn!SlotQueueFree(LsnMark(g, l), l)
LsnEnlist(g, l) == [g EXCEPT !.list = @ \cup {l}, !.lst[l].active = TRUE]

LEMMA EnlistIs ==
  ASSUME NEW g, LsnTyped(g), NEW l \in LSlots, NEW t, t = LsnEnlist(g, l)
  PROVE  /\ LsnTyped(t)
         /\ LsnRest(g, t) /\ t.aborted = g.aborted /\ t.free = g.free /\ t.hist = g.hist /\ t.list = g.list \cup {l}
         /\ \A m \in LSlots \ {l} : t.lst[m] = g.lst[m]
         /\ t.lst[l] = [g.lst[l] EXCEPT !.active = TRUE]
<1>. DEFINE M == [g.lst EXCEPT ![l] = [g.lst[l] EXCEPT !.active = TRUE]]
            S == g.list \cup {l}
<1>1. t = [g EXCEPT !.list = S, !.lst = M]
  BY DEF LsnEnlist, C!Lsn!Note, LsnTyped
<1>2. M \in [LSlots -> LsnSlot] /\ S \in SUBSET LSlots
  <2>1. M \in [LSlots -> LsnSlot]
    BY DEF LsnTyped, LsnSlot
  <2>2. S \in SUBSET LSlots
    BY DEF LsnTyped, LsnNotes
  <2>. QED BY <2>1, <2>2
<1>3. (\A m \in LSlots \ {l} : M[m] = g.lst[m]) /\ M[l] = [g.lst[l] EXCEPT !.active = TRUE]
  BY DEF LsnTyped
<1>. HIDE DEF M, S
<1>4. t.lst = M
  BY <1>1 DEF LsnTyped
<1>5. LsnTyped(t)
  BY <1>1, <1>2 DEF LsnTyped
<1>6. LsnRest(g, t) /\ t.aborted = g.aborted /\ t.free = g.free /\ t.hist = g.hist /\ t.list = S
  BY <1>1 DEF LsnTyped, LsnRest
<1>. QED BY <1>3, <1>4, <1>5, <1>6 DEF S

LEMMA MarkIs ==
  ASSUME NEW g, LsnTyped(g), NEW l \in LSlots, NEW t, t = LsnMark(g, l)
  PROVE  /\ LsnTyped(t)
         /\ LsnRest(g, t) /\ t.aborted = g.aborted /\ t.free = g.free /\ t.hist = g.hist \cup {"failed"} /\ t.list = g.list
         /\ \A m \in LSlots \ {l} : t.lst[m] = g.lst[m]
         /\ t.lst[l] = [g.lst[l] EXCEPT !.failed = TRUE]
<1>. DEFINE M == [g.lst EXCEPT ![l] = [g.lst[l] EXCEPT !.failed = TRUE]]
            S == g.hist \cup {"failed"}
<1>1. t = [g EXCEPT !.hist = S, !.lst = M]
  BY DEF LsnMark, C!Lsn!Note, LsnTyped
<1>2. M \in [LSlots -> LsnSlot] /\ S \in SUBSET LsnNotes
  <2>1. M \in [LSlots -> LsnSlot]
    BY DEF LsnTyped, LsnSlot
  <2>2. S \in SUBSET LsnNotes
    BY DEF LsnTyped, LsnNotes
  <2>. QED BY <2>1, <2>2
<1>3. (\A m \in LSlots \ {l} : M[m] = g.lst[m]) /\ M[l] = [g.lst[l] EXCEPT !.failed = TRUE]
  BY DEF LsnTyped
<1>. HIDE DEF M, S
<1>4. t.lst = M
  BY <1>1 DEF LsnTyped
<1>5. LsnTyped(t)
  BY <1>1, <1>2 DEF LsnTyped
<1>6. LsnRest(g, t) /\ t.aborted = g.aborted /\ t.free = g.free /\ t.hist = S /\ t.list = g.list
  BY <1>1 DEF LsnTyped, LsnRest
<1>. QED BY <1>3, <1>4, <1>5, <1>6 DEF S

\* A failed listener gives its slot back.
LEMMA FailIs ==
  ASSUME NEW g, LsnTyped(g), g.aborted = "no", NEW l \in LSlots, NEW u, u = LsnFail(g, l)
  PROVE  /\ LsnTyped(u) /\ LsnRest(g, u) /\ u.list = g.list
         /\ \A m \in LSlots \ {l} : u.lst[m] = g.lst[m]
         /\ u.lst[l] = [g.lst[l] EXCEPT !.failed = TRUE]
         /\ "failed" \in u.hist /\ u.hist \subseteq g.hist \cup {"failed", "freed_twice"} /\ g.hist \subseteq u.hist
         /\ u.aborted \in {"no", "overrun"}
         /\ u.aborted = "no" /\ "freed_twice" \notin u.hist => l \notin ToSet(g.free) /\ u.free = Append(g.free, l)
<1>. DEFINE h == LsnMark(g, l)
<1>3. u = C!Lsn!SlotQueueFree(h, l)
  BY DEF LsnFail
<1>0. h = LsnMark(g, l)
  OBVIOUS
<1>. HIDE DEF h
<1>1. /\ LsnTyped(h) /\ LsnRest(g, h) /\ h.aborted = g.aborted /\ h.free = g.free /\ h.list = g.list
      /\ h.hist = g.hist \cup {"failed"}
      /\ \A m \in LSlots \ {l} : h.lst[m] = g.lst[m]
      /\ h.lst[l] = [g.lst[l] EXCEPT !.failed = TRUE]
  BY <1>0, MarkIs
<1>2. /\ LsnTyped(u) /\ LsnRest(h, u) /\ u.lst = h.lst /\ u.list = h.list
      /\ \/ u.hist = h.hist /\ u.aborted = "overrun"
         \/ u.hist = h.hist \cup {"freed_twice"} /\ u.aborted = h.aborted
         \/ u.hist = h.hist /\ u.aborted = h.aborted /\ l \notin ToSet(h.free) /\ u.free = Append(h.free, l)
  BY <1>1, <1>3, QueueFreeIs
<1>. QED BY <1>1, <1>2 DEF LsnRest

LEMMA FailedStarts ==
  ASSUME NEW x, NEW g, LsnTyped(g), NEW l \in LSlots, Starting(x, g, l)
  PROVE  Started(x, LsnEnlist(LsnFail(g, l), l), l)
<1>. DEFINE u == LsnFail(g, l)
            t == LsnEnlist(u, l)
<1>1. /\ LsnTyped(u) /\ LsnRest(g, u) /\ u.list = g.list
      /\ \A m \in LSlots \ {l} : u.lst[m] = g.lst[m]
      /\ u.lst[l] = [g.lst[l] EXCEPT !.failed = TRUE]
      /\ "failed" \in u.hist /\ u.hist \subseteq g.hist \cup {"failed", "freed_twice"} /\ g.hist \subseteq u.hist
      /\ u.aborted \in {"no", "overrun"}
      /\ u.aborted = "no" /\ "freed_twice" \notin u.hist => l \notin ToSet(g.free) /\ u.free = Append(g.free, l)
  BY FailIs DEF Starting
<1>. HIDE DEF u
<1>a. t = LsnEnlist(u, l)
  OBVIOUS
<1>. HIDE DEF t
<1>2. /\ LsnTyped(t) /\ LsnRest(u, t) /\ t.aborted = u.aborted /\ t.free = u.free /\ t.hist = u.hist /\ t.list = u.list \cup {l}
      /\ \A m \in LSlots \ {l} : t.lst[m] = u.lst[m]
      /\ t.lst[l] = [u.lst[l] EXCEPT !.active = TRUE]
  <2>1. LsnTyped(u)
    BY <1>1
  <2>. QED BY <2>1, <1>a, EnlistIs
<1>4. g.lst[l] \in LsnSlot
  BY DEF LsnTyped
<1>5. t.lst[l].active /\ t.lst[l].failed /\ t.lst[l].id = g.lst[l].id /\ t.lst[l].sock = g.lst[l].sock
  BY <1>1, <1>2, <1>4 DEF LsnSlot
<1>6. \A m \in LSlots \ {l} : t.lst[m] = g.lst[m]
  BY <1>1, <1>2
<1>. QED BY <1>1, <1>2, <1>5, <1>6 DEF Started, Starting, LsnRest, t, u

\* A step on the way that touches slot l, the sockets, the key or a path.
LsnPut(g, l, R, O, K, P) == [g EXCEPT !.lst = [g.lst EXCEPT ![l] = R], !.open = O, !.key = K, !.path = P]
WasPut(g, t, l, R, O, P) ==
    /\ LsnTyped(t) /\ t.lst[l] = R /\ (\A m \in LSlots \ {l} : t.lst[m] = g.lst[m]) /\ t.open = O /\ t.path = P
    /\ t.free = g.free /\ t.hist = g.hist /\ t.aborted = g.aborted /\ t.list = g.list
    /\ t.conns = g.conns /\ t.cache = g.cache /\ t.certs = g.certs /\ t.live = g.live /\ t.gone = g.gone
    /\ t.adds = g.adds

LEMMA SlotSet ==
  ASSUME NEW g, LsnTyped(g), NEW l \in LSlots, NEW R \in LsnSlot, NEW O, O \in SUBSET Nat, NEW K \in BOOLEAN,
         NEW P \in [LSlots -> Nat], NEW t, t = LsnPut(g, l, R, O, K, P)
  PROVE  WasPut(g, t, l, R, O, P)
<1>. DEFINE M == [g.lst EXCEPT ![l] = R]
<1>1. M \in [LSlots -> LsnSlot] /\ M[l] = R /\ \A m \in LSlots \ {l} : M[m] = g.lst[m]
  BY DEF LsnTyped
<1>2. t = [g EXCEPT !.lst = M, !.open = O, !.key = K, !.path = P]
  BY DEF LsnPut
<1>. HIDE DEF M
<1>3. LsnTyped(t)
  BY <1>1, <1>2 DEF LsnTyped
<1>4. /\ t.lst = M /\ t.open = O /\ t.path = P
      /\ t.free = g.free /\ t.hist = g.hist /\ t.aborted = g.aborted /\ t.list = g.list
      /\ t.conns = g.conns /\ t.cache = g.cache /\ t.certs = g.certs /\ t.live = g.live /\ t.gone = g.gone
      /\ t.adds = g.adds
  BY <1>2 DEF LsnTyped
<1>. QED BY <1>1, <1>3, <1>4 DEF WasPut

\* Such a step keeps a listener on its way.
OnWay(x, g, l) == LsnTyped(g) /\ Starting(x, g, l)
FitSlot(x, R) == R \in LsnSlot /\ R.id = x.adds + 1 /\ R.sock \in {-1, 0, x.adds + 1} /\ ~R.failed
OpenWith(x, R) == x.open \cup ({R.sock} \ {-1, 0})

LEMMA StaysOnWay ==
  ASSUME NEW x, LsnTyped(x), NEW l \in LSlots, NEW g, OnWay(x, g, l), NEW R, FitSlot(x, R),
         NEW K \in BOOLEAN, NEW P \in [LSlots -> Nat], NEW t, t = LsnPut(g, l, R, OpenWith(x, R), K, P)
  PROVE  OnWay(x, t, l) /\ t.lst[l] = R /\ t.path = P
<1>1. OpenWith(x, R) \in SUBSET Nat /\ R \in LsnSlot /\ LsnTyped(g)
  BY DEF OpenWith, FitSlot, LsnSlot, LsnTyped, OnWay
<1>2. WasPut(g, t, l, R, OpenWith(x, R), P)
  BY <1>1, SlotSet
<1>. QED BY <1>2 DEF OnWay, Starting, FitSlot, OpenWith, WasPut

LEMMA OnWayIs ==
  ASSUME NEW x, LsnTyped(x), NEW l \in LSlots, NEW g, OnWay(x, g, l)
  PROVE  /\ FitSlot(x, g.lst[l]) /\ g.open = OpenWith(x, g.lst[l]) /\ g.adds = x.adds + 1 /\ x.adds + 1 \in Nat \ {0}
         /\ g.key \in BOOLEAN /\ g.path \in [LSlots -> Nat]
<1>1. g.lst[l] \in LsnSlot /\ g.key \in BOOLEAN /\ g.path \in [LSlots -> Nat] /\ x.adds \in Nat
  BY DEF LsnTyped, OnWay
<1>. QED BY <1>1 DEF OnWay, Starting, FitSlot, OpenWith

\* EXCEPT on a field of slot l.
LEMMA PutIs ==
  ASSUME NEW g, LsnTyped(g), NEW l \in LSlots, NEW t
  PROVE  /\ t = [g EXCEPT !.lst[l].sock = -1] => t = LsnPut(g, l, [g.lst[l] EXCEPT !.sock = -1], g.open, g.key, g.path)
         /\ \A u : t = [g EXCEPT !.lst[l].unix = u] => t = LsnPut(g, l, [g.lst[l] EXCEPT !.unix = u], g.open, g.key, g.path)
         /\ t = [g EXCEPT !.lst[l].listens = TRUE] => t = LsnPut(g, l, [g.lst[l] EXCEPT !.listens = TRUE], g.open, g.key, g.path)
         /\ \A u : t = [g EXCEPT !.lst[l].file = u] => t = LsnPut(g, l, [g.lst[l] EXCEPT !.file = u], g.open, g.key, g.path)
         /\ \A u : t = [g EXCEPT !.lst[l].sock = u, !.open = @ \cup {u}]
                => t = LsnPut(g, l, [g.lst[l] EXCEPT !.sock = u], g.open \cup {u}, g.key, g.path)
         /\ \A u : t = [g EXCEPT !.key = TRUE, !.path[l] = u, !.lst[l].ctx = TRUE]
                => t = LsnPut(g, l, [g.lst[l] EXCEPT !.ctx = TRUE], g.open, TRUE, [g.path EXCEPT ![l] = u])
BY DEF LsnTyped, LsnPut

LEMMA WellStarts ==
  ASSUME NEW x, NEW g, LsnTyped(g), NEW l \in LSlots, Starting(x, g, l), NEW t, t = LsnEnlist(g, l)
  PROVE  Started(x, t, l)
<1>1. /\ LsnTyped(t)
      /\ LsnRest(g, t) /\ t.aborted = g.aborted /\ t.free = g.free /\ t.hist = g.hist /\ t.list = g.list \cup {l}
      /\ \A m \in LSlots \ {l} : t.lst[m] = g.lst[m]
      /\ t.lst[l] = [g.lst[l] EXCEPT !.active = TRUE]
  BY EnlistIs
<1>2. g.lst[l] \in LsnSlot
  BY DEF LsnTyped
<1>3. t.lst[l].active /\ t.lst[l].id = g.lst[l].id /\ t.lst[l].sock = g.lst[l].sock /\ t.lst[l].failed = g.lst[l].failed
  BY <1>1, <1>2 DEF LsnSlot
<1>. QED BY <1>1, <1>3 DEF Started, Starting, LsnRest

LsnSet(x, c, l) ==
    [x EXCEPT !.free = Front(@), !.adds = x.adds + 1, !.lst[l] = [C!Lsn!Unused EXCEPT !.sock = 0, !.id = x.adds + 1],
              !.cb[l] = IF c.cb THEN x.adds + 1 ELSE @]

LEMMA SetStarting ==
  ASSUME NEW x, LsnTyped(x), LsnRuns(x), x.free # <<>>, NEW l \in LSlots, NEW c, NEW g, g = LsnSet(x, c, l)
  PROVE  LsnTyped(g) /\ Starting(x, g, l) /\ g.lst[l].sock = 0 /\ g.adds = x.adds + 1
<1>. DEFINE R == [C!Lsn!Unused EXCEPT !.sock = 0, !.id = x.adds + 1]
            L == [x.lst EXCEPT ![l] = R]
            B == [x.cb EXCEPT ![l] = IF c.cb THEN x.adds + 1 ELSE @]
            F == Front(x.free)
<1>1. x.adds \in Nat /\ x.free \in Seq(LSlots)
  BY DEF LsnTyped
<1>2. R \in LsnSlot /\ R.sock = 0 /\ R.id = x.adds + 1 /\ ~R.failed
  <2>1. R = [active |-> FALSE, id |-> x.adds + 1, sock |-> 0, listens |-> FALSE, unix |-> FALSE, ctx |-> FALSE,
             file |-> 0, failed |-> FALSE]
    <3>. DEFINE U == [active |-> FALSE, id |-> 0, sock |-> -1, listens |-> FALSE, unix |-> FALSE, ctx |-> FALSE,
                      file |-> 0, failed |-> FALSE]
    <3>1. C!Lsn!Unused = U
      BY DEF C!Lsn!Unused
    <3>2. ASSUME NEW u, u = U, NEW r, r = [u EXCEPT !.sock = 0, !.id = x.adds + 1]
          PROVE  r = [active |-> FALSE, id |-> x.adds + 1, sock |-> 0, listens |-> FALSE, unix |-> FALSE, ctx |-> FALSE,
                      file |-> 0, failed |-> FALSE]
      BY <3>2
    <3>. QED BY <3>1, <3>2
  <2>2. x.adds + 1 \in Nat
    BY <1>1
  <2>. HIDE DEF R
  <2>. QED BY <2>1, <2>2 DEF LsnSlot
<1>a. x.adds + 1 \in Nat
  BY <1>1
<1>. HIDE DEF R
<1>3. L \in [LSlots -> LsnSlot] /\ L[l] = R /\ \A m \in LSlots \ {l} : L[m] = x.lst[m]
  BY <1>2 DEF LsnTyped
<1>4. B \in [LSlots -> Nat]
  BY <1>1 DEF LsnTyped
<1>5. F \in Seq(LSlots)
  BY <1>1, FrontIs
<1>6. g = [x EXCEPT !.free = F, !.adds = x.adds + 1, !.lst = L, !.cb = B]
  BY DEF LsnSet, LsnTyped, R
<1>. HIDE DEF L, B, F
<1>7. LsnTyped(g)
  BY <1>a, <1>3, <1>4, <1>5, <1>6 DEF LsnTyped
<1>8. /\ g.lst = L /\ g.free = F /\ g.adds = x.adds + 1 /\ g.hist = x.hist /\ g.aborted = x.aborted /\ g.list = x.list
      /\ g.conns = x.conns /\ g.cache = x.cache /\ g.certs = x.certs /\ g.live = x.live /\ g.gone = x.gone /\ g.open = x.open
  BY <1>6 DEF LsnTyped
<1>. QED BY <1>2, <1>3, <1>7, <1>8 DEF Starting, LsnRuns, F

\* EXCEPT on a field keeps the other fields.
LEMMA FieldSet ==
  ASSUME NEW R \in LsnSlot, NEW u \in BOOLEAN, NEW v \in Nat \cup {-1}, NEW w \in Nat
  PROVE  /\ LET r == [R EXCEPT !.sock = v] IN r \in LsnSlot /\ r.sock = v /\ r.id = R.id /\ r.failed = R.failed
         /\ LET r == [R EXCEPT !.unix = u] IN r \in LsnSlot /\ r.sock = R.sock /\ r.id = R.id /\ r.failed = R.failed
         /\ LET r == [R EXCEPT !.listens = u] IN r \in LsnSlot /\ r.sock = R.sock /\ r.id = R.id /\ r.failed = R.failed
         /\ LET r == [R EXCEPT !.ctx = u] IN r \in LsnSlot /\ r.sock = R.sock /\ r.id = R.id /\ r.failed = R.failed
         /\ LET r == [R EXCEPT !.file = w] IN r \in LsnSlot /\ r.sock = R.sock /\ r.id = R.id /\ r.failed = R.failed
BY DEF LsnSlot

\* The steps by which a listener starts keep it on its way.
LEMMA SteppedUnheard ==
  ASSUME NEW x, LsnTyped(x), NEW l \in LSlots, NEW g, OnWay(x, g, l), NEW t,
         \/ g.lst[l].sock = 0 /\ t = [g EXCEPT !.lst[l].sock = -1]
         \/ \E u \in BOOLEAN : t = [g EXCEPT !.lst[l].unix = u]
         \/ t = [g EXCEPT !.lst[l].listens = TRUE]
         \/ \E u \in Nat : t = [g EXCEPT !.lst[l].file = u]
  PROVE  OnWay(x, t, l) /\ (t.lst[l].sock = g.lst[l].sock \/ t.lst[l].sock = -1)
<1>1. /\ FitSlot(x, g.lst[l]) /\ g.open = OpenWith(x, g.lst[l]) /\ g.key \in BOOLEAN /\ g.path \in [LSlots -> Nat]
      /\ LsnTyped(g) /\ g.lst[l] \in LsnSlot
  BY OnWayIs DEF OnWay, FitSlot
<1>2. ASSUME NEW R, FitSlot(x, R), OpenWith(x, R) = g.open, R.sock = g.lst[l].sock \/ R.sock = -1,
             t = LsnPut(g, l, R, g.open, g.key, g.path)
      PROVE  OnWay(x, t, l) /\ (t.lst[l].sock = g.lst[l].sock \/ t.lst[l].sock = -1)
  <2>1. t = LsnPut(g, l, R, OpenWith(x, R), g.key, g.path)
    BY <1>2
  <2>2. OnWay(x, t, l) /\ t.lst[l] = R
    BY <1>1, <1>2, <2>1, StaysOnWay
  <2>. QED BY <1>2, <2>2
<1>3. CASE g.lst[l].sock = 0 /\ t = [g EXCEPT !.lst[l].sock = -1]
  <2>. DEFINE R == [g.lst[l] EXCEPT !.sock = -1]
  <2>1. t = LsnPut(g, l, R, g.open, g.key, g.path)
    BY <1>1, <1>3, PutIs
  <2>2. R \in LsnSlot /\ R.sock = -1 /\ R.id = g.lst[l].id /\ R.failed = g.lst[l].failed
    BY <1>1, FieldSet
  <2>. HIDE DEF R
  <2>3. FitSlot(x, R) /\ OpenWith(x, R) = g.open
    BY <1>1, <1>3, <2>2 DEF FitSlot, OpenWith
  <2>. QED BY <1>2, <2>1, <2>2, <2>3
<1>4. ASSUME NEW R, R \in LsnSlot, R.sock = g.lst[l].sock, R.id = g.lst[l].id, R.failed = g.lst[l].failed,
             t = LsnPut(g, l, R, g.open, g.key, g.path)
      PROVE  OnWay(x, t, l) /\ t.lst[l].sock = g.lst[l].sock
  <2>1. FitSlot(x, R) /\ OpenWith(x, R) = g.open
    BY <1>1, <1>4 DEF FitSlot, OpenWith
  <2>2. t = LsnPut(g, l, R, OpenWith(x, R), g.key, g.path)
    BY <1>4, <2>1
  <2>3. OnWay(x, t, l) /\ t.lst[l] = R
    BY <1>1, <2>1, <2>2, StaysOnWay
  <2>. QED BY <1>4, <2>3
<1>5. ASSUME NEW u \in BOOLEAN, t = [g EXCEPT !.lst[l].unix = u] PROVE OnWay(x, t, l) /\ t.lst[l].sock = g.lst[l].sock
  <2>. DEFINE R == [g.lst[l] EXCEPT !.unix = u]
  <2>1. t = LsnPut(g, l, R, g.open, g.key, g.path)
    BY <1>1, <1>5 DEF LsnPut, LsnTyped
  <2>2. R \in LsnSlot /\ R.sock = g.lst[l].sock /\ R.id = g.lst[l].id /\ R.failed = g.lst[l].failed
    BY <1>1, FieldSet
  <2>. HIDE DEF R
  <2>. QED BY <1>4, <2>1, <2>2
<1>6. ASSUME t = [g EXCEPT !.lst[l].listens = TRUE] PROVE OnWay(x, t, l) /\ t.lst[l].sock = g.lst[l].sock
  <2>. DEFINE R == [g.lst[l] EXCEPT !.listens = TRUE]
  <2>1. t = LsnPut(g, l, R, g.open, g.key, g.path)
    BY <1>1, <1>6, PutIs
  <2>2. R \in LsnSlot /\ R.sock = g.lst[l].sock /\ R.id = g.lst[l].id /\ R.failed = g.lst[l].failed
    BY <1>1, FieldSet
  <2>. HIDE DEF R
  <2>. QED BY <1>4, <2>1, <2>2
<1>7. ASSUME NEW u \in Nat, t = [g EXCEPT !.lst[l].file = u] PROVE OnWay(x, t, l) /\ t.lst[l].sock = g.lst[l].sock
  <2>. DEFINE R == [g.lst[l] EXCEPT !.file = u]
  <2>1. t = LsnPut(g, l, R, g.open, g.key, g.path)
    BY <1>1, <1>7 DEF LsnPut, LsnTyped
  <2>2. R \in LsnSlot /\ R.sock = g.lst[l].sock /\ R.id = g.lst[l].id /\ R.failed = g.lst[l].failed
    BY <1>1, FieldSet
  <2>. HIDE DEF R
  <2>. QED BY <1>4, <2>1, <2>2
<1>. QED BY <1>3, <1>2, <1>5, <1>6, <1>7

GotSocket(g, l, t) == t = [g EXCEPT !.lst[l].sock = g.adds, !.open = @ \cup {g.adds}]
GotKey(g, l, u, t) == t = [g EXCEPT !.key = TRUE, !.path[l] = u, !.lst[l].ctx = TRUE]

LEMMA SteppedSocket ==
  ASSUME NEW x, LsnTyped(x), NEW l \in LSlots, NEW g, OnWay(x, g, l), g.lst[l].sock = -1, NEW t, GotSocket(g, l, t)
  PROVE  OnWay(x, t, l)
<1>1. /\ FitSlot(x, g.lst[l]) /\ g.open = OpenWith(x, g.lst[l]) /\ g.key \in BOOLEAN /\ g.path \in [LSlots -> Nat]
      /\ LsnTyped(g) /\ g.lst[l] \in LsnSlot /\ g.adds = x.adds + 1 /\ x.adds + 1 \in Nat \ {0}
  BY OnWayIs DEF OnWay, FitSlot
<1>. DEFINE R == [g.lst[l] EXCEPT !.sock = g.adds]
<1>2. t = LsnPut(g, l, R, g.open \cup {g.adds}, g.key, g.path)
  BY <1>1 DEF LsnPut, LsnTyped, GotSocket
<1>3. R \in LsnSlot /\ R.sock = g.adds /\ R.id = g.lst[l].id /\ R.failed = g.lst[l].failed
  <2>1. g.adds \in Nat
    BY <1>1
  <2>. QED BY <1>1, <2>1, FieldSet
<1>. HIDE DEF R
<1>4. FitSlot(x, R) /\ OpenWith(x, R) = g.open \cup {g.adds}
  BY <1>1, <1>3 DEF FitSlot, OpenWith
<1>5. t = LsnPut(g, l, R, OpenWith(x, R), g.key, g.path)
  BY <1>2, <1>4
<1>6. PICK S : FitSlot(x, S) /\ t = LsnPut(g, l, S, OpenWith(x, S), g.key, g.path)
  BY <1>4, <1>5
<1>7. OnWay(x, t, l) /\ t.lst[l] = S
  BY <1>1, <1>6, StaysOnWay
<1>. QED BY <1>7

LEMMA SteppedKey ==
  ASSUME NEW x, LsnTyped(x), NEW l \in LSlots, NEW g, OnWay(x, g, l), NEW u \in Nat, NEW t, GotKey(g, l, u, t)
  PROVE  OnWay(x, t, l)
<1>1. /\ FitSlot(x, g.lst[l]) /\ g.open = OpenWith(x, g.lst[l]) /\ g.key \in BOOLEAN /\ g.path \in [LSlots -> Nat]
      /\ LsnTyped(g) /\ g.lst[l] \in LsnSlot
  BY OnWayIs DEF OnWay, FitSlot
<1>. DEFINE R == [g.lst[l] EXCEPT !.ctx = TRUE]
            P == [g.path EXCEPT ![l] = u]
<1>2. t = LsnPut(g, l, R, g.open, TRUE, P)
  BY <1>1 DEF LsnPut, LsnTyped, GotKey
<1>3. R \in LsnSlot /\ R.sock = g.lst[l].sock /\ R.id = g.lst[l].id /\ R.failed = g.lst[l].failed
  BY <1>1, FieldSet
<1>4. P \in [LSlots -> Nat]
  BY <1>1
<1>. HIDE DEF R, P
<1>5. FitSlot(x, R) /\ OpenWith(x, R) = g.open
  BY <1>1, <1>3 DEF FitSlot, OpenWith
<1>6. t = LsnPut(g, l, R, OpenWith(x, R), TRUE, P)
  BY <1>2, <1>5
<1>7. PICK S, K, Q : /\ FitSlot(x, S) /\ K \in BOOLEAN /\ Q \in [LSlots -> Nat]
                     /\ t = LsnPut(g, l, S, OpenWith(x, S), K, Q)
  BY <1>4, <1>5, <1>6
<1>8. OnWay(x, t, l) /\ t.lst[l] = S
  BY <1>7, StaysOnWay
<1>. QED BY <1>8

\* TCPInit leaves a listener on its way, or fails it there.
LEMMA TCPInitIs ==
  ASSUME NEW x, LsnTyped(x), NEW l \in LSlots, NEW g, OnWay(x, g, l), g.lst[l].sock = -1,
         NEW c, c.kind \in {"plain", "ssl"}, c.fails \in {"no", "socket", "bind", "cert"},
         NEW up, up = C!Lsn!TCPInit(g, l, c)
  PROVE  OnWay(x, up, l) \/ \E h : OnWay(x, h, l) /\ up = LsnFail(h, l)
<1>. DEFINE made == [g EXCEPT !.lst[l].sock = g.adds, !.open = @ \cup {g.adds}]
            heard == C!Lsn!ListenInet(made, l, c)
            keyed == [heard EXCEPT !.key = TRUE, !.path[l] = IF c.path THEN g.adds ELSE @, !.lst[l].ctx = TRUE]
            filed == [keyed EXCEPT !.lst[l].file = keyed.path[l]]
<1>1. up = CASE c.fails = "socket" -> LsnFail(g, l)
             [] c.fails = "bind" -> LsnFail(heard, l)
             [] c.kind = "plain" /\ c.fails = "no" -> heard
             [] c.kind = "ssl" /\ c.fails = "no" -> filed
             [] c.fails = "cert" -> IF keyed.path[l] = 0 THEN keyed ELSE LsnFail(keyed, l)
  BY DEF C!Lsn!TCPInit, LsnFail, LsnMark
<1>2. OnWay(x, made, l)
  BY SteppedSocket DEF GotSocket
<1>. HIDE DEF made
<1>3. OnWay(x, heard, l)
  <2>1. heard = made \/ heard = [made EXCEPT !.lst[l].listens = TRUE]
    BY DEF C!Lsn!ListenInet
  <2>. HIDE DEF heard
  <2>. QED BY <1>2, <2>1, SteppedUnheard
<1>. HIDE DEF heard
<1>4. OnWay(x, keyed, l)
  <2>. DEFINE u == IF c.path THEN g.adds ELSE heard.path[l]
  <2>1. g.adds \in Nat /\ LsnTyped(heard) /\ heard.path \in [LSlots -> Nat]
    BY <1>3, OnWayIs DEF OnWay, LsnTyped
  <2>2. u \in Nat
    BY <2>1
  <2>3. keyed = [heard EXCEPT !.key = TRUE, !.path[l] = u, !.lst[l].ctx = TRUE]
    BY <2>1
  <2>. HIDE DEF u, keyed
  <2>. QED BY <1>3, <2>2, <2>3, SteppedKey DEF GotKey
<1>. HIDE DEF keyed
<1>5. OnWay(x, filed, l)
  <2>1. keyed.path[l] \in Nat
    BY <1>4, OnWayIs
  <2>2. filed = [keyed EXCEPT !.lst[l].file = keyed.path[l]]
    OBVIOUS
  <2>. HIDE DEF filed
  <2>. QED BY <1>4, <2>1, <2>2, SteppedUnheard
<1>. HIDE DEF filed
<1>. QED BY <1>1, <1>2, <1>3, <1>4, <1>5

LEMMA AddStarts ==
  ASSUME ListenersFit, NEW x, LsnTyped(x), LsnRuns(x), x.free # <<>>, NEW l, l = Last(x.free), ~x.lst[l].active,
         NEW c \in Listeners, NEW t, t = C!Lsn!ListenerAdd(x, c)
  PROVE  l \in LSlots /\ Started(x, t, l)
<1>. DEFINE g == LsnSet(x, c, l)
            b == [g EXCEPT !.lst[l].sock = -1]
            up == IF c.kind = "unix" THEN [g EXCEPT !.lst[l].unix = c.fails = "no"] ELSE C!Lsn!TCPInit(b, l, c)
<1>1. x.free \in Seq(LSlots)
  BY DEF LsnTyped
<1>2. l \in LSlots
  BY <1>1, FrontIs
<1>3. OnWay(x, g, l) /\ g.lst[l].sock = 0
  BY <1>2, SetStarting DEF OnWay
<1>4. c.kind \in {"plain", "ssl", "unix"} /\ c.fails \in {"no", "socket", "bind", "cert"}
  BY DEF ListenersFit
<1>5. t = LsnEnlist(up, l)
  <2>1. Last(x.free) = l /\ C!Lsn!Last(x.free) = l /\ C!Lsn!Front(x.free) = Front(x.free)
    BY LsnLibrary
  <2>2. g = [[x EXCEPT !.free = Front(@), !.adds = x.adds + 1]
                EXCEPT !.lst[l] = [C!Lsn!Unused EXCEPT !.sock = 0, !.id = x.adds + 1], !.cb[l] = IF c.cb THEN x.adds + 1 ELSE @]
    BY DEF LsnSet, LsnTyped
  <2>. QED BY <2>1, <2>2 DEF C!Lsn!ListenerAdd, LsnEnlist
<1>. HIDE DEF g
<1>6. OnWay(x, up, l) \/ \E h : OnWay(x, h, l) /\ up = LsnFail(h, l)
  <2>1. CASE c.kind = "unix"
    <3>1. up = [g EXCEPT !.lst[l].unix = c.fails = "no"] /\ (c.fails = "no") \in BOOLEAN
      BY <2>1
    <3>2. \E u \in BOOLEAN : up = [g EXCEPT !.lst[l].unix = u]
      BY <3>1
    <3>. HIDE DEF up
    <3>. QED BY <1>2, <1>3, <3>2, SteppedUnheard
  <2>2. CASE c.kind # "unix"
    <3>1. OnWay(x, b, l) /\ b.lst[l].sock = -1
      <4>1. b = [g EXCEPT !.lst[l].sock = -1]
        OBVIOUS
      <4>2. b.lst[l].sock = -1
        BY <1>2, <1>3 DEF OnWay, LsnTyped, LsnSlot
      <4>. HIDE DEF b
      <4>. QED BY <1>2, <1>3, <4>1, <4>2, SteppedUnheard
    <3>2. up = C!Lsn!TCPInit(b, l, c) /\ c.kind \in {"plain", "ssl"}
      BY <1>4, <2>2
    <3>. HIDE DEF b, up
    <3>. QED BY <1>2, <1>4, <3>1, <3>2, TCPInitIs
  <2>. QED BY <2>1, <2>2
<1>. HIDE DEF up
<1>. QED BY <1>2, <1>5, <1>6, FailedStarts, WellStarts DEF OnWay

LEMMA FrontOf ==
  ASSUME NEW S, NEW q \in Seq(S), q # <<>>
  PROVE  /\ ToSet(q) = ToSet(Front(q)) \cup {Last(q)}
         /\ Unrepeated(q) => Unrepeated(Front(q)) /\ Last(q) \notin ToSet(Front(q))
<1>. DEFINE n == Len(q)
            f == Front(q)
<1>1. /\ DOMAIN f = 1 .. n - 1 /\ \A i \in 1 .. n - 1 : f[i] = q[i]
      /\ Last(q) = q[n] /\ DOMAIN q = 1 .. n /\ n \in Nat \ {0}
  BY FrontIs
<1>. HIDE DEF n, f
<1>2. ASSUME NEW e \in ToSet(q) PROVE e \in ToSet(f) \cup {Last(q)}
  <2>1. PICK i \in 1 .. n : q[i] = e
    BY <1>1, <1>2 DEF ToSet
  <2>. QED BY <2>1, <1>1 DEF ToSet
<1>3. ASSUME NEW e \in ToSet(f) PROVE e \in ToSet(q) /\ \E i \in 1 .. n - 1 : e = q[i]
  <2>1. PICK i \in 1 .. n - 1 : f[i] = e
    BY <1>1, <1>3 DEF ToSet
  <2>. QED BY <2>1, <1>1 DEF ToSet
<1>4. Last(q) \in ToSet(q)
  BY <1>1 DEF ToSet
<1>5. ASSUME Unrepeated(q) PROVE Unrepeated(f) /\ Last(q) \notin ToSet(f)
  <2>1. Unrepeated(f)
    BY <1>1, <1>5 DEF Unrepeated
  <2>2. \A i \in 1 .. n - 1 : q[i] # q[n]
    BY <1>1, <1>5 DEF Unrepeated
  <2>. QED BY <2>1, <2>2, <1>1, <1>3
<1>. QED BY <1>2, <1>3, <1>4, <1>5 DEF f

LEMMA AppendUnrepeated ==
  ASSUME NEW S, NEW q \in Seq(S), NEW e \in S, Unrepeated(q), e \notin ToSet(q)
  PROVE  Unrepeated(Append(q, e))
<1>1. /\ DOMAIN Append(q, e) = 1 .. Len(q) + 1 /\ \A i \in 1 .. Len(q) : Append(q, e)[i] = q[i]
      /\ Append(q, e)[Len(q) + 1] = e /\ DOMAIN q = 1 .. Len(q) /\ Len(q) \in Nat
  BY AppendIs, LenProperties
<1>2. \A i \in 1 .. Len(q) : q[i] # e
  BY <1>1 DEF ToSet
<1>. QED BY <1>1, <1>2 DEF Unrepeated

LEMMA SlotsFinite ==
  ASSUME ListenersFit
  PROVE  IsFiniteSet(LSlots) /\ \A S \in SUBSET LSlots : IsFiniteSet(S)
<1>1. IsFiniteSet(LSlots)
  BY FS_Interval DEF ListenersFit, LSlots
<1>. QED BY <1>1, FS_Subset

LEMMA StartedKeeps ==
  ASSUME ListenersFit, NEW x, Owned(x), LsnRuns(x), x.free # <<>>, NEW l \in LSlots, l = Last(x.free), ~x.lst[l].active,
         NEW t, Started(x, t, l)
  PROVE  Owned(t)
<1>1. /\ LsnTyped(x) /\ Slotted(x) /\ Socketed(x) /\ Linked(x) /\ Certified(x)
      /\ LsnTyped(t) /\ t.conns = x.conns /\ t.cache = x.cache /\ t.certs = x.certs /\ t.live = x.live /\ t.gone = x.gone
      /\ x.free \in Seq(LSlots) /\ x.adds \in Nat
  BY DEF Owned, Started, LsnTyped
<1>2. /\ t.list = x.list \cup {l} /\ t.adds = x.adds + 1
      /\ \A m \in LSlots \ {l} : t.lst[m] = x.lst[m]
      /\ t.lst[l].active /\ t.lst[l].id = x.adds + 1 /\ t.lst[l].sock \in {-1, 0, x.adds + 1}
      /\ t.open = x.open \cup ({t.lst[l].sock} \ {-1, 0})
  BY DEF Started
<1>3. ActiveSlots(t) = ActiveSlots(x) \cup {l} /\ l \notin ActiveSlots(x)
  BY <1>2 DEF ActiveSlots
<1>4. \/ /\ t.free = Front(x.free) /\ t.hist = x.hist /\ t.aborted = "no" /\ ~t.lst[l].failed
      \/ /\ t.lst[l].failed /\ "failed" \in t.hist /\ t.hist \subseteq x.hist \cup {"failed", "freed_twice"}
         /\ x.hist \subseteq t.hist /\ t.aborted \in {"no", "overrun"}
         /\ t.aborted = "no" /\ "freed_twice" \notin t.hist =>
                l \notin ToSet(Front(x.free)) /\ t.free = Append(Front(x.free), l)
  BY DEF Started
<1>5. x.hist \subseteq t.hist /\ t.hist \subseteq x.hist \cup {"failed", "freed_twice"} /\ t.aborted \in {"no", "overrun"}
  BY <1>4
<1>6. Slotted(t)
  <2>. DEFINE f == Front(x.free)
  <2>1. /\ ToSet(x.free) = ToSet(f) \cup {l} /\ (Unrepeated(x.free) => Unrepeated(f) /\ l \notin ToSet(f))
        /\ f \in Seq(LSlots) /\ Len(f) = Len(x.free) - 1 /\ Len(x.free) \in Nat
    BY <1>1, FrontOf, FrontIs
  <2>2. x.list = ActiveSlots(x) /\ x.list \in SUBSET LSlots
    BY <1>1 DEF Slotted, LsnTyped
  <2>3. ASSUME LsnRuns(t), "freed_twice" \notin t.hist PROVE SlotsFree(t)
    <3>1. SlotsFree(x) /\ Unrepeated(x.free) /\ t.aborted = "no"
      BY <1>1, <1>5, <2>3 DEF Slotted, SlotsFree, Unrepeated, LsnRuns
    <3>2. \A m \in LSlots : m \in ToSet(x.free) <=> (~x.lst[m].active \/ x.lst[m].failed)
      BY <3>1 DEF SlotsFree
    <3>3. CASE ~t.lst[l].failed
      <4>1. t.free = f /\ Unrepeated(f) /\ l \notin ToSet(f)
        BY <1>4, <2>1, <3>1, <3>3
      <4>. HIDE DEF f
      <4>2. ASSUME NEW m \in LSlots PROVE m \in ToSet(t.free) <=> (~t.lst[m].active \/ t.lst[m].failed)
        <5>1. CASE m = l
          BY <5>1, <4>1, <1>2, <3>3
        <5>2. CASE m # l
          BY <5>2, <4>1, <1>2, <2>1, <3>2
        <5>. QED BY <5>1, <5>2
      <4>. QED BY <4>1, <4>2 DEF SlotsFree, Unrepeated
    <3>4. CASE t.lst[l].failed
      <4>1. t.free = Append(f, l) /\ Unrepeated(f) /\ l \notin ToSet(f)
        BY <1>4, <2>1, <2>3, <3>1, <3>4
      <4>. HIDE DEF f
      <4>2. ToSet(t.free) = ToSet(f) \cup {l} /\ Unrepeated(t.free)
        BY <2>1, <4>1, AppendIs, AppendUnrepeated
      <4>3. ASSUME NEW m \in LSlots PROVE m \in ToSet(t.free) <=> (~t.lst[m].active \/ t.lst[m].failed)
        <5>1. CASE m = l
          BY <5>1, <4>2, <3>4
        <5>2. CASE m # l
          BY <5>2, <4>2, <1>2, <2>1, <3>2
        <5>. QED BY <5>1, <5>2
      <4>. QED BY <4>2, <4>3 DEF SlotsFree, Unrepeated
    <3>. QED BY <3>3, <3>4
  <2>4. ASSUME "failed" \notin t.hist PROVE Len(t.free) + Cardinality(t.list) = MaxListeners
    <3>1. t.free = f /\ "failed" \notin x.hist
      BY <1>4, <1>5, <2>4
    <3>2. Len(x.free) + Cardinality(x.list) = MaxListeners
      BY <1>1, <3>1 DEF Slotted
    <3>3. l \notin x.list /\ IsFiniteSet(x.list)
      BY <1>3, <2>2, SlotsFinite
    <3>4. Cardinality(t.list) = Cardinality(x.list) + 1 /\ Cardinality(x.list) \in Nat
      BY <1>2, <3>3, FS_AddElement, FS_CardinalityType
    <3>. QED BY <2>1, <3>1, <3>2, <3>4
  <2>5. \A m \in LSlots : t.lst[m].failed => "failed" \in t.hist
    BY <1>1, <1>2, <1>4, <1>5 DEF Slotted
  <2>6. t.aborted \in {"slot_in_use", "overrun"} \/ "freed_twice" \in t.hist => "failed" \in t.hist
    BY <1>1, <1>4, <1>5 DEF Slotted
  <2>7. t.list = ActiveSlots(t)
    BY <1>2, <1>3, <2>2
  <2>. QED BY <2>3, <2>4, <2>5, <2>6, <2>7 DEF Slotted
<1>7. Socketed(t)
  <2>1. /\ \A m \in LSlots : x.lst[m].id \in Nat /\ x.lst[m].id <= x.adds /\ x.lst[m].sock \in {-1, 0, x.lst[m].id}
        /\ \A m, k \in LSlots : x.lst[m].id = x.lst[k].id => m = k \/ x.lst[m].id = 0
        /\ x.open = {x.lst[m].sock : m \in ActiveSlots(x)} \ {-1, 0}
    BY <1>1 DEF Socketed, LsnTyped, LsnSlot
  <2>2. \A m \in LSlots : t.lst[m].id <= t.adds /\ t.lst[m].sock \in {-1, 0, t.lst[m].id}
    BY <1>1, <1>2, <2>1
  <2>3. \A m, k \in LSlots : t.lst[m].id = t.lst[k].id => m = k \/ t.lst[m].id = 0
    <3>1. \A m \in LSlots \ {l} : t.lst[m].id # t.lst[l].id
      BY <1>1, <1>2, <2>1
    <3>. QED BY <1>2, <2>1, <3>1
  <2>4. {t.lst[m].sock : m \in ActiveSlots(t)} = {x.lst[m].sock : m \in ActiveSlots(x)} \cup {t.lst[l].sock}
    <3>1. \A m \in ActiveSlots(x) : m \in LSlots \ {l}
      BY <1>3 DEF ActiveSlots
    <3>. QED BY <1>2, <1>3, <3>1
  <2>5. t.open = {t.lst[m].sock : m \in ActiveSlots(t)} \ {-1, 0}
    BY <1>2, <2>1, <2>4
  <2>6. ~t.gone
    BY <1>1 DEF LsnRuns
  <2>. QED BY <2>2, <2>3, <2>5, <2>6 DEF Socketed
<1>8. Linked(t)
  <2>. SUFFICES ASSUME NEW i \in ConnFds
                PROVE  \/ t.conns[i].st \in {"none", "transfer"} \/ "cut" \in t.hist
                       \/ t.lst[t.conns[i].lid].active /\ t.lst[t.conns[i].lid].id = t.conns[i].owner
    BY DEF Linked
  <2>1. x.conns[i].lid \in LSlots
    BY <1>1 DEF LsnTyped, LsnConn
  <2>2. \/ x.conns[i].st \in {"none", "transfer"} \/ "cut" \in x.hist
        \/ x.lst[x.conns[i].lid].active /\ x.lst[x.conns[i].lid].id = x.conns[i].owner
    BY <1>1 DEF Linked
  <2>. QED BY <2>1, <2>2, <1>1, <1>2, <1>5
<1>9. Certified(t)
  BY <1>1, <1>5 DEF Certified
<1>. QED BY <1>1, <1>6, <1>7, <1>8, <1>9 DEF Owned

LEMMA AddKeeps ==
  ASSUME ListenersFit, NEW x, Owned(x), LsnRuns(x), NEW c \in Listeners, NEW t, t = C!Lsn!ListenerAdd(x, c)
  PROVE  Owned(t)
<1>. DEFINE l == Last(x.free)
            f == Front(x.free)
<1>1. LsnTyped(x) /\ Slotted(x) /\ Socketed(x) /\ Linked(x) /\ Certified(x) /\ x.free \in Seq(LSlots) /\ x.adds \in Nat
  BY DEF Owned, LsnTyped
<1>2. CASE x.free = <<>>
  <2>1. t = x
    BY <1>2 DEF C!Lsn!ListenerAdd
  <2>. QED BY <2>1
<1>3. CASE x.free # <<>> /\ ~x.lst[l].active
  <2>1. l \in LSlots
    BY <1>1, <1>3, FrontIs
  <2>2. Started(x, t, l)
    BY <1>1, <1>3, AddStarts
  <2>. HIDE DEF l
  <2>3. l = Last(x.free)
    BY DEF l
  <2>. QED BY <1>3, <2>1, <2>2, <2>3, StartedKeeps
<1>4. CASE x.free # <<>> /\ x.lst[l].active
  <2>1. f \in Seq(LSlots) /\ l \in LSlots /\ l \in ToSet(x.free)
    BY <1>1, <1>4, FrontIs, FrontOf
  <2>2. t = [x EXCEPT !.free = f, !.adds = x.adds + 1, !.aborted = "slot_in_use"]
    BY <1>1, <1>4, LsnLibrary DEF C!Lsn!ListenerAdd, C!Lsn!Abort, LsnTyped
  <2>. HIDE DEF f, l
  <2>0. x.adds + 1 \in Nat
    BY <1>1
  <2>3. LsnTyped(t)
    BY <1>1, <2>0, <2>1, <2>2 DEF LsnTyped, LsnEndings
  <2>4. /\ t.lst = x.lst /\ t.hist = x.hist /\ t.conns = x.conns /\ t.cache = x.cache /\ t.live = x.live /\ t.certs = x.certs
        /\ t.gone = x.gone /\ t.open = x.open /\ t.adds = x.adds + 1 /\ t.aborted = "slot_in_use"
    BY <1>1, <2>2 DEF LsnTyped
  <2>5. "failed" \in x.hist
    BY <1>1, <1>4, <2>1 DEF Slotted, SlotsFree, l
  <2>6. Slotted(t)
    BY <1>1, <2>4, <2>5 DEF Slotted, LsnRuns
  <2>7. Socketed(t)
    <3>1. \A m \in LSlots : x.lst[m].id \in Nat
      BY <1>1 DEF LsnTyped, LsnSlot
    <3>2. ActiveSlots(t) = ActiveSlots(x)
      BY <2>4 DEF ActiveSlots
    <3>. QED BY <1>1, <2>4, <3>1, <3>2 DEF Socketed
  <2>8. Linked(t) /\ Certified(t)
    BY <1>1, <2>4 DEF Linked, Certified
  <2>. QED BY <2>3, <2>6, <2>7, <2>8 DEF Owned
<1>. QED BY <1>2, <1>3, <1>4

\* Closing connections touches nothing else.
LsnShut(g, h) ==
    /\ h.lst = g.lst /\ h.list = g.list /\ h.free = g.free /\ h.aborted = g.aborted /\ h.cache = g.cache
    /\ h.certs = g.certs /\ h.live = g.live /\ h.gone = g.gone /\ h.adds = g.adds /\ h.open = g.open

LEMMA WithoutIs ==
  ASSUME ListenersFit, NEW x, LsnTyped(x), NEW S, NEW t, t = C!Lsn!Without(x, S)
  PROVE  /\ LsnTyped(t) /\ LsnShut(x, t) /\ t.hist = x.hist
         /\ \A i \in ConnFds : IF i \in S THEN t.conns[i].st = "none" ELSE t.conns[i] = x.conns[i]
<1>. DEFINE f == [i \in ConnFds |-> IF i \in S THEN C!Lsn!NoConn ELSE x.conns[i]]
<1>1. t = [x EXCEPT !.conns = f]
  BY DEF C!Lsn!Without
<1>2. C!Lsn!NoConn \in LsnConn /\ C!Lsn!NoConn.st = "none"
  BY DEF C!Lsn!NoConn, LsnConn, LsnStages, LSlots, ListenersFit
<1>3. f \in [ConnFds -> LsnConn]
  BY <1>2 DEF LsnTyped
<1>4. \A i \in ConnFds : IF i \in S THEN f[i].st = "none" ELSE f[i] = x.conns[i]
  BY <1>2
<1>. HIDE DEF f
<1>5. LsnTyped(t)
  BY <1>1, <1>3 DEF LsnTyped
<1>6. t.conns = f /\ LsnShut(x, t) /\ t.hist = x.hist
  BY <1>1 DEF LsnTyped, LsnShut
<1>. QED BY <1>4, <1>5, <1>6

LEMMA NoteIs ==
  ASSUME NEW x, LsnTyped(x), NEW w \in LsnNotes, NEW t, t = C!Lsn!Note(x, w)
  PROVE  LsnTyped(t) /\ LsnShut(x, t) /\ t.hist = x.hist \cup {w} /\ t.conns = x.conns
<1>1. t = [x EXCEPT !.hist = x.hist \cup {w}]
  BY DEF C!Lsn!Note, LsnTyped
<1>2. x.hist \cup {w} \in SUBSET LsnNotes
  BY DEF LsnTyped
<1>3. LsnTyped(t)
  BY <1>1, <1>2 DEF LsnTyped
<1>. QED BY <1>1, <1>3 DEF LsnTyped, LsnShut

LEMMA ShutdownIs ==
  ASSUME ListenersFit, NEW x, LsnTyped(x), NEW l \in Int, NEW cut, NEW t, t = C!Lsn!ConnShutdownAll(x, l, cut)
  PROVE  /\ LsnTyped(t) /\ LsnShut(x, t) /\ x.hist \subseteq t.hist /\ t.hist \subseteq x.hist \cup {"cut"}
         /\ \A i \in ConnFds : t.conns[i].st = "none" \/ t.conns[i] = x.conns[i]
         /\ \/ "cut" \in t.hist
            \/ \A i \in ConnFds : t.conns[i].st \in {"none", "transfer"} \/ (l >= 0 /\ t.conns[i].lid # l)
<1>1. CASE cut = {}
  <2>. DEFINE S == C!Lsn!Mine(x, l)
  <2>1. t = C!Lsn!Without(x, S)
    BY <1>1 DEF C!Lsn!ConnShutdownAll
  <2>2. \A i \in ConnFds : i \notin S => x.conns[i].st \in {"none", "transfer"} \/ (l >= 0 /\ x.conns[i].lid # l)
    BY DEF C!Lsn!Mine, C!Lsn!Alive
  <2>. HIDE DEF S
  <2>3. /\ LsnTyped(t) /\ LsnShut(x, t) /\ t.hist = x.hist
        /\ \A i \in ConnFds : IF i \in S THEN t.conns[i].st = "none" ELSE t.conns[i] = x.conns[i]
    BY <2>1, WithoutIs
  <2>. QED BY <2>2, <2>3
<1>2. CASE cut # {}
  <2>. DEFINE u == C!Lsn!Without(x, cut)
  <2>1. t = C!Lsn!Note(u, "cut")
    BY <1>2 DEF C!Lsn!ConnShutdownAll
  <2>0. u = C!Lsn!Without(x, cut)
    OBVIOUS
  <2>. HIDE DEF u
  <2>2. /\ LsnTyped(u) /\ LsnShut(x, u) /\ u.hist = x.hist
        /\ \A i \in ConnFds : IF i \in cut THEN u.conns[i].st = "none" ELSE u.conns[i] = x.conns[i]
    BY <2>0, WithoutIs
  <2>3. LsnTyped(t) /\ LsnShut(u, t) /\ t.hist = u.hist \cup {"cut"} /\ t.conns = u.conns
    BY <2>1, <2>2, NoteIs DEF LsnNotes
  <2>. QED BY <2>2, <2>3 DEF LsnShut
<1>. QED BY <1>1, <1>2

\* Slot l loses its sockets and what comes with it: h after g.
LsnOffOnly(g, h, l) ==
    /\ LsnTyped(h) /\ \A m \in LSlots \ {l} : h.lst[m] = g.lst[m]
    /\ h.lst[l].id = g.lst[l].id /\ h.lst[l].failed = g.lst[l].failed
    /\ h.free = g.free /\ h.aborted = g.aborted /\ h.list = g.list /\ h.conns = g.conns /\ h.cache = g.cache
    /\ h.certs = g.certs /\ h.live = g.live /\ h.gone = g.gone /\ h.adds = g.adds

LEMMA CleanupIs ==
  ASSUME NEW g, LsnTyped(g), NEW l \in LSlots, NEW t, t = C!Lsn!SSLCleanup(g, l)
  PROVE  /\ LsnOffOnly(g, t, l) /\ t.hist = g.hist /\ t.open = g.open
         /\ t.lst[l].active = g.lst[l].active /\ t.lst[l].sock = g.lst[l].sock
<1>. DEFINE R == [g.lst[l] EXCEPT !.ctx = FALSE, !.file = 0]
            M == [g.lst EXCEPT ![l] = R]
<1>1. t = [g EXCEPT !.lst = M]
  BY DEF C!Lsn!SSLCleanup, LsnTyped
<1>2. /\ R \in LsnSlot /\ R.id = g.lst[l].id /\ R.failed = g.lst[l].failed /\ R.active = g.lst[l].active
      /\ R.sock = g.lst[l].sock
  BY DEF LsnTyped, LsnSlot
<1>. HIDE DEF R
<1>3. M \in [LSlots -> LsnSlot] /\ M[l] = R /\ \A m \in LSlots \ {l} : M[m] = g.lst[m]
  BY <1>2 DEF LsnTyped
<1>. HIDE DEF M
<1>4. LsnTyped(t)
  BY <1>1, <1>3 DEF LsnTyped
<1>5. /\ t.lst = M /\ t.open = g.open /\ t.hist = g.hist
      /\ t.free = g.free /\ t.aborted = g.aborted /\ t.list = g.list /\ t.conns = g.conns /\ t.cache = g.cache
      /\ t.certs = g.certs /\ t.live = g.live /\ t.gone = g.gone /\ t.adds = g.adds
  BY <1>1 DEF LsnTyped
<1>. QED BY <1>2, <1>3, <1>4, <1>5 DEF LsnOffOnly

LEMMA SocketCloseIs ==
  ASSUME NEW g, LsnTyped(g), NEW l \in LSlots, NEW t, t = C!Lsn!SocketClose(g, l)
  PROVE  /\ LsnOffOnly(g, t, l) /\ g.hist \subseteq t.hist /\ t.hist \subseteq g.hist \cup {"closed_0"}
         /\ t.open = g.open \ {g.lst[l].sock} /\ ~t.lst[l].active /\ t.lst[l].sock = -1
<1>. DEFINE R == [g.lst[l] EXCEPT !.sock = -1, !.active = FALSE]
            M == [g.lst EXCEPT ![l] = R]
            O == g.open \ {g.lst[l].sock}
            u == [g EXCEPT !.lst = M, !.open = O]
<1>1. t = IF g.lst[l].sock = 0 THEN C!Lsn!Note(u, "closed_0") ELSE u
  <2>1. u = [g EXCEPT !.lst[l].sock = -1, !.lst[l].active = FALSE, !.open = @ \ {g.lst[l].sock}]
    BY DEF LsnTyped
  <2>. QED BY <2>1 DEF C!Lsn!SocketClose
<1>2. R \in LsnSlot /\ R.id = g.lst[l].id /\ R.failed = g.lst[l].failed /\ ~R.active /\ R.sock = -1
  BY DEF LsnTyped, LsnSlot
<1>. HIDE DEF R
<1>3. M \in [LSlots -> LsnSlot] /\ M[l] = R /\ (\A m \in LSlots \ {l} : M[m] = g.lst[m]) /\ O \in SUBSET Nat
  BY <1>2 DEF LsnTyped
<1>0. u = [g EXCEPT !.lst = M, !.open = O]
  OBVIOUS
<1>. HIDE DEF M, O, u
<1>4. LsnTyped(u)
  BY <1>0, <1>3 DEF LsnTyped
<1>5. /\ u.lst = M /\ u.open = O /\ u.hist = g.hist
      /\ u.free = g.free /\ u.aborted = g.aborted /\ u.list = g.list /\ u.conns = g.conns /\ u.cache = g.cache
      /\ u.certs = g.certs /\ u.live = g.live /\ u.gone = g.gone /\ u.adds = g.adds
  BY <1>0 DEF LsnTyped
<1>6. CASE g.lst[l].sock # 0
  BY <1>1, <1>2, <1>3, <1>4, <1>5, <1>6 DEF LsnOffOnly, O
<1>7. CASE g.lst[l].sock = 0
  <2>1. LsnTyped(t) /\ LsnShut(u, t) /\ t.hist = u.hist \cup {"closed_0"} /\ t.conns = u.conns
    BY <1>1, <1>4, <1>7, NoteIs DEF LsnNotes
  <2>. QED BY <1>2, <1>3, <1>5, <2>1 DEF LsnOffOnly, LsnShut, O
<1>. QED BY <1>6, <1>7

\* A listener was taken off the list, and gave its slot back.
Deleted(x, t, l) ==
    /\ LsnTyped(t) /\ t.list = x.list \ {l} /\ \A m \in LSlots \ {l} : t.lst[m] = x.lst[m]
    /\ ~t.lst[l].active /\ t.lst[l].sock = -1 /\ t.lst[l].id = x.lst[l].id /\ t.lst[l].failed = x.lst[l].failed
    /\ t.open = x.open \ {x.lst[l].sock}
    /\ t.cache = x.cache /\ t.certs = x.certs /\ t.live = x.live /\ t.gone = x.gone /\ t.adds = x.adds
    /\ x.hist \subseteq t.hist /\ t.hist \subseteq x.hist \cup {"freed_twice", "cut", "closed_0"}
    /\ \/ Len(x.free) = MaxListeners /\ t.aborted = "overrun" /\ "freed_twice" \notin t.hist \ x.hist
       \/ Len(x.free) # MaxListeners /\ l \in ToSet(x.free) /\ "freed_twice" \in t.hist /\ t.aborted = x.aborted
       \/ /\ Len(x.free) # MaxListeners /\ l \notin ToSet(x.free) /\ t.free = Append(x.free, l) /\ t.aborted = x.aborted
          /\ "freed_twice" \notin t.hist \ x.hist
    /\ \A i \in ConnFds : t.conns[i].st = "none" \/ t.conns[i] = x.conns[i]
    /\ "cut" \in t.hist \/ \A i \in ConnFds : t.conns[i].st \in {"none", "transfer"} \/ t.conns[i].lid # l

LEMMA DelIs ==
  ASSUME ListenersFit, NEW x, LsnTyped(x), NEW l \in LSlots, x.lst[l].active, NEW cut, NEW t, t = C!Lsn!ListenerDel(x, l, cut)
  PROVE  t = C!Lsn!Abort(x, "not_listening") \/ Deleted(x, t, l)
<1>. DEFINE R == [x.lst[l] EXCEPT !.unix = FALSE]
            M == [x.lst EXCEPT ![l] = R]
            b == [x EXCEPT !.list = x.list \ {l}, !.lst = M]
            o == C!Lsn!SlotQueueFree(b, l)
            h == C!Lsn!ConnShutdownAll(o, l, cut)
            e == C!Lsn!SSLCleanup(h, l)
<1>1. t = C!Lsn!Abort(x, "not_listening") \/ t = C!Lsn!SocketClose(e, l)
  <2>1. b = [x EXCEPT !.list = @ \ {l}, !.lst[l].unix = FALSE]
    BY DEF LsnTyped
  <2>. QED BY <2>1 DEF C!Lsn!ListenerDel
<1>2. R \in LsnSlot /\ R.id = x.lst[l].id /\ R.failed = x.lst[l].failed /\ R.sock = x.lst[l].sock
  BY DEF LsnTyped, LsnSlot
<1>. HIDE DEF R
<1>3. M \in [LSlots -> LsnSlot] /\ M[l] = R /\ (\A m \in LSlots \ {l} : M[m] = x.lst[m]) /\ x.list \ {l} \in SUBSET LSlots
  BY <1>2 DEF LsnTyped
<1>0. b = [x EXCEPT !.list = x.list \ {l}, !.lst = M]
  OBVIOUS
<1>. HIDE DEF M
<1>4. h = C!Lsn!ConnShutdownAll(o, l, cut) /\ e = C!Lsn!SSLCleanup(h, l) /\ o = C!Lsn!SlotQueueFree(b, l)
  OBVIOUS
<1>. HIDE DEF b, o, h, e
<1>5. LsnTyped(b)
  BY <1>0, <1>3 DEF LsnTyped
<1>6. /\ b.lst = M /\ b.open = x.open /\ b.hist = x.hist /\ b.list = x.list \ {l}
      /\ b.free = x.free /\ b.aborted = x.aborted /\ b.conns = x.conns /\ b.cache = x.cache
      /\ b.certs = x.certs /\ b.live = x.live /\ b.gone = x.gone /\ b.adds = x.adds
  BY <1>0 DEF LsnTyped
<1>7. /\ LsnTyped(o) /\ LsnRest(b, o) /\ o.lst = b.lst /\ o.list = b.list
      /\ \/ /\ Len(b.free) = MaxListeners /\ o.free = b.free /\ o.hist = b.hist /\ o.aborted = "overrun"
         \/ /\ Len(b.free) # MaxListeners /\ l \in ToSet(b.free)
            /\ o.free = Append(b.free, l) /\ o.hist = b.hist \cup {"freed_twice"} /\ o.aborted = b.aborted
         \/ /\ Len(b.free) # MaxListeners /\ l \notin ToSet(b.free)
            /\ o.free = Append(b.free, l) /\ o.hist = b.hist /\ o.aborted = b.aborted
  BY <1>4, <1>5, QueueFreeIs
<1>8. /\ LsnTyped(h) /\ LsnShut(o, h) /\ o.hist \subseteq h.hist /\ h.hist \subseteq o.hist \cup {"cut"}
      /\ \A i \in ConnFds : h.conns[i].st = "none" \/ h.conns[i] = o.conns[i]
      /\ "cut" \in h.hist \/ \A i \in ConnFds : h.conns[i].st \in {"none", "transfer"} \/ h.conns[i].lid # l
  <2>1. l \in Int
    BY DEF LSlots
  <2>. QED BY <1>4, <1>7, <2>1, ShutdownIs
<1>9. LsnOffOnly(h, e, l) /\ e.hist = h.hist /\ e.open = h.open /\ e.lst[l].active = h.lst[l].active /\ e.lst[l].sock = h.lst[l].sock
  BY <1>4, <1>8, CleanupIs
<1>10. ASSUME t = C!Lsn!SocketClose(e, l)
       PROVE  /\ LsnOffOnly(e, t, l) /\ e.hist \subseteq t.hist /\ t.hist \subseteq e.hist \cup {"closed_0"}
              /\ t.open = e.open \ {e.lst[l].sock} /\ ~t.lst[l].active /\ t.lst[l].sock = -1
  <2>1. LsnTyped(e)
    BY <1>9 DEF LsnOffOnly
  <2>. QED BY <1>10, <2>1, SocketCloseIs
<1>11. ASSUME t = C!Lsn!SocketClose(e, l) PROVE Deleted(x, t, l)
  <2>1. /\ LsnTyped(t) /\ t.list = x.list \ {l} /\ \A m \in LSlots \ {l} : t.lst[m] = x.lst[m]
        /\ ~t.lst[l].active /\ t.lst[l].sock = -1 /\ t.lst[l].id = x.lst[l].id /\ t.lst[l].failed = x.lst[l].failed
    BY <1>2, <1>3, <1>6, <1>7, <1>8, <1>9, <1>10, <1>11 DEF LsnOffOnly, LsnShut
  <2>2. /\ t.open = x.open \ {x.lst[l].sock}
        /\ t.cache = x.cache /\ t.certs = x.certs /\ t.live = x.live /\ t.gone = x.gone /\ t.adds = x.adds
    BY <1>2, <1>3, <1>6, <1>7, <1>8, <1>9, <1>10, <1>11 DEF LsnOffOnly, LsnShut, LsnRest
  <2>3. /\ o.hist \subseteq t.hist /\ t.hist \subseteq o.hist \cup {"cut", "closed_0"} /\ t.free = o.free /\ t.aborted = o.aborted
        /\ h.hist \subseteq t.hist /\ t.conns = h.conns /\ o.conns = x.conns
    BY <1>6, <1>7, <1>8, <1>9, <1>10, <1>11 DEF LsnOffOnly, LsnShut, LsnRest
  <2>4. /\ x.hist \subseteq t.hist /\ t.hist \subseteq x.hist \cup {"freed_twice", "cut", "closed_0"}
        /\ \/ Len(x.free) = MaxListeners /\ t.aborted = "overrun" /\ "freed_twice" \notin t.hist \ x.hist
           \/ Len(x.free) # MaxListeners /\ l \in ToSet(x.free) /\ "freed_twice" \in t.hist /\ t.aborted = x.aborted
           \/ /\ Len(x.free) # MaxListeners /\ l \notin ToSet(x.free) /\ t.free = Append(x.free, l) /\ t.aborted = x.aborted
              /\ "freed_twice" \notin t.hist \ x.hist
    BY <1>6, <1>7, <2>3
  <2>. QED BY <1>8, <2>1, <2>2, <2>3, <2>4 DEF Deleted
<1>. QED BY <1>1, <1>11

LEMMA AbortKeeps ==
  ASSUME NEW x, Owned(x), NEW w \in LsnEndings \ {"no", "slot_in_use", "overrun"},
         w = "freed_cert" => "replaced" \in x.hist, NEW t, t = C!Lsn!Abort(x, w)
  PROVE  Owned(t)
<1>1. LsnTyped(x) /\ Slotted(x) /\ Socketed(x) /\ Linked(x) /\ Certified(x)
  BY DEF Owned
<1>2. t = [x EXCEPT !.aborted = w]
  BY DEF C!Lsn!Abort
<1>3. LsnTyped(t)
  BY <1>1, <1>2 DEF LsnTyped
<1>4. /\ t.lst = x.lst /\ t.hist = x.hist /\ t.conns = x.conns /\ t.cache = x.cache /\ t.live = x.live /\ t.certs = x.certs
      /\ t.gone = x.gone /\ t.open = x.open /\ t.adds = x.adds /\ t.list = x.list /\ t.free = x.free /\ t.aborted = w
  BY <1>1, <1>2 DEF LsnTyped
<1>5. Slotted(t)
  BY <1>1, <1>4 DEF Slotted, LsnRuns, SlotsFree, ActiveSlots
<1>6. Socketed(t) /\ Linked(t) /\ Certified(t)
  BY <1>1, <1>4 DEF Socketed, ActiveSlots, Linked, Certified
<1>. QED BY <1>3, <1>5, <1>6 DEF Owned

LEMMA DeletedKeeps ==
  ASSUME ListenersFit, NEW x, Owned(x), LsnRuns(x), NEW l \in LSlots, x.lst[l].active, NEW t, Deleted(x, t, l)
  PROVE  Owned(t)
<1>1. /\ LsnTyped(x) /\ Slotted(x) /\ Socketed(x) /\ Linked(x) /\ Certified(x)
      /\ x.free \in Seq(LSlots) /\ x.list = ActiveSlots(x) /\ x.list \in SUBSET LSlots /\ x.aborted = "no" /\ ~x.gone
  BY DEF Owned, LsnTyped, Slotted, LsnRuns
<1>2. /\ LsnTyped(t) /\ t.list = x.list \ {l} /\ \A m \in LSlots \ {l} : t.lst[m] = x.lst[m]
      /\ ~t.lst[l].active /\ t.lst[l].sock = -1 /\ t.lst[l].id = x.lst[l].id /\ t.lst[l].failed = x.lst[l].failed
      /\ t.open = x.open \ {x.lst[l].sock}
      /\ t.cache = x.cache /\ t.certs = x.certs /\ t.live = x.live /\ t.gone = x.gone /\ t.adds = x.adds
      /\ x.hist \subseteq t.hist /\ t.hist \subseteq x.hist \cup {"freed_twice", "cut", "closed_0"}
  BY DEF Deleted
<1>3. \/ Len(x.free) = MaxListeners /\ t.aborted = "overrun" /\ "freed_twice" \notin t.hist \ x.hist
      \/ Len(x.free) # MaxListeners /\ l \in ToSet(x.free) /\ "freed_twice" \in t.hist /\ t.aborted = x.aborted
      \/ /\ Len(x.free) # MaxListeners /\ l \notin ToSet(x.free) /\ t.free = Append(x.free, l) /\ t.aborted = x.aborted
         /\ "freed_twice" \notin t.hist \ x.hist
  BY DEF Deleted
<1>4. ActiveSlots(t) = ActiveSlots(x) \ {l} /\ l \in ActiveSlots(x)
  BY <1>2 DEF ActiveSlots
<1>5. ASSUME "freed_twice" \notin x.hist
      PROVE  /\ Unrepeated(x.free) /\ \A m \in LSlots : m \in ToSet(x.free) <=> (~x.lst[m].active \/ x.lst[m].failed)
  BY <1>1, <1>5 DEF Slotted, SlotsFree, Unrepeated, LsnRuns
<1>6. ASSUME "failed" \notin x.hist
      PROVE  /\ "freed_twice" \notin x.hist /\ ~x.lst[l].failed /\ l \notin ToSet(x.free)
             /\ Len(x.free) + Cardinality(x.list) = MaxListeners /\ Len(x.free) \in Nat
             /\ Cardinality(x.list \ {l}) = Cardinality(x.list) - 1 /\ Cardinality(x.list) \in Nat \ {0}
  <2>1. "freed_twice" \notin x.hist /\ ~x.lst[l].failed /\ Len(x.free) + Cardinality(x.list) = MaxListeners
    BY <1>1, <1>6 DEF Slotted, LsnRuns
  <2>2. l \notin ToSet(x.free)
    BY <2>1, <1>5
  <2>3. IsFiniteSet(x.list) /\ l \in x.list
    BY <1>1, <1>4, SlotsFinite
  <2>4. Cardinality(x.list \ {l}) = Cardinality(x.list) - 1 /\ Cardinality(x.list) \in Nat
    BY <2>3, FS_RemoveElement, FS_CardinalityType
  <2>5. Cardinality(x.list) # 0
    BY <2>3, FS_EmptySet
  <2>6. Len(x.free) \in Nat
    BY <1>1, LenProperties
  <2>. QED BY <2>1, <2>2, <2>4, <2>5, <2>6
<1>7. Slotted(t)
  <2>1. t.list = ActiveSlots(t)
    BY <1>1, <1>2, <1>4
  <2>2. ASSUME LsnRuns(t), "freed_twice" \notin t.hist PROVE SlotsFree(t)
    <3>1. l \notin ToSet(x.free) /\ t.free = Append(x.free, l)
      BY <1>3, <2>2 DEF LsnRuns
    <3>2. /\ Unrepeated(x.free) /\ \A m \in LSlots : m \in ToSet(x.free) <=> (~x.lst[m].active \/ x.lst[m].failed)
      BY <1>2, <1>5, <2>2
    <3>3. Unrepeated(t.free) /\ ToSet(t.free) = ToSet(x.free) \cup {l}
      BY <1>1, <3>1, <3>2, AppendUnrepeated, AppendIs
    <3>4. ASSUME NEW m \in LSlots PROVE m \in ToSet(t.free) <=> (~t.lst[m].active \/ t.lst[m].failed)
      <4>1. CASE m = l
        BY <4>1, <3>3, <1>2
      <4>2. CASE m # l
        BY <4>2, <3>2, <3>3, <1>2
      <4>. QED BY <4>1, <4>2
    <3>. QED BY <3>3, <3>4 DEF SlotsFree, Unrepeated
  <2>3. ASSUME LsnRuns(t), "failed" \notin t.hist PROVE Len(t.free) + Cardinality(t.list) = MaxListeners
    <3>1. "failed" \notin x.hist
      BY <1>2, <2>3
    <3>2. t.free = Append(x.free, l)
      BY <1>3, <1>6, <2>3, <3>1 DEF LsnRuns
    <3>3. Len(t.free) = Len(x.free) + 1
      BY <1>1, <3>2, AppendIs
    <3>. QED BY <1>2, <1>6, <3>1, <3>3 DEF ListenersFit
  <2>4. \A m \in LSlots : t.lst[m].failed => "failed" \in t.hist
    <3>1. \A m \in LSlots : x.lst[m].failed => "failed" \in x.hist
      BY <1>1 DEF Slotted
    <3>. QED BY <1>2, <3>1
  <2>5. t.aborted \in {"slot_in_use", "overrun"} \/ "freed_twice" \in t.hist => "failed" \in t.hist
    <3>. SUFFICES ASSUME "failed" \notin x.hist PROVE t.aborted \notin {"slot_in_use", "overrun"} /\ "freed_twice" \notin t.hist
      BY <1>2
    <3>1. /\ "freed_twice" \notin x.hist /\ l \notin ToSet(x.free) /\ Len(x.free) # MaxListeners
      BY <1>6 DEF ListenersFit
    <3>. QED BY <3>1, <1>1, <1>3
  <2>. QED BY <2>1, <2>2, <2>3, <2>4, <2>5 DEF Slotted
<1>8. Socketed(t)
  <2>1. /\ \A m \in LSlots : x.lst[m].id \in Nat /\ x.lst[m].id <= x.adds /\ x.lst[m].sock \in {-1, 0, x.lst[m].id}
        /\ \A m, k \in LSlots : x.lst[m].id = x.lst[k].id => m = k \/ x.lst[m].id = 0
        /\ x.open = {x.lst[m].sock : m \in ActiveSlots(x)} \ {-1, 0}
    BY <1>1 DEF Socketed, LsnTyped, LsnSlot
  <2>2. \A m \in LSlots : t.lst[m].id = x.lst[m].id /\ t.lst[m].sock \in {-1, x.lst[m].sock}
    BY <1>2
  <2>3. \A m \in LSlots : t.lst[m].id <= t.adds /\ t.lst[m].sock \in {-1, 0, t.lst[m].id}
    BY <1>2, <2>1, <2>2
  <2>4. \A m, k \in LSlots : t.lst[m].id = t.lst[k].id => m = k \/ t.lst[m].id = 0
    BY <2>1, <2>2
  <2>5. t.open = {t.lst[m].sock : m \in ActiveSlots(t)} \ {-1, 0}
    <3>1. \A m \in ActiveSlots(t) : m \in LSlots /\ m # l /\ m \in ActiveSlots(x) /\ t.lst[m].sock = x.lst[m].sock
      BY <1>2, <1>4 DEF ActiveSlots
    <3>2. \A m \in ActiveSlots(x) : m # l => m \in ActiveSlots(t)
      BY <1>4
    <3>3. ASSUME NEW e \in t.open PROVE e \in {t.lst[m].sock : m \in ActiveSlots(t)} \ {-1, 0}
      <4>1. PICK m \in ActiveSlots(x) : e = x.lst[m].sock /\ e \notin {-1, 0} /\ e # x.lst[l].sock
        BY <1>2, <2>1, <3>3
      <4>. QED BY <4>1, <3>1, <3>2
    <3>4. ASSUME NEW m \in ActiveSlots(t), t.lst[m].sock \notin {-1, 0} PROVE t.lst[m].sock \in t.open
      <4>1. x.lst[m].sock # x.lst[l].sock
        BY <2>1, <3>1, <3>4
      <4>. QED BY <4>1, <1>2, <2>1, <3>1, <3>4
    <3>. QED BY <3>3, <3>4
  <2>. QED BY <1>1, <1>2, <2>3, <2>4, <2>5 DEF Socketed
<1>9. /\ \A i \in ConnFds : t.conns[i].st = "none" \/ t.conns[i] = x.conns[i]
      /\ "cut" \in t.hist \/ \A i \in ConnFds : t.conns[i].st \in {"none", "transfer"} \/ t.conns[i].lid # l
  BY DEF Deleted
<1>10. Linked(t)
  <2>. SUFFICES ASSUME NEW i \in ConnFds, t.conns[i].st \notin {"none", "transfer"}, "cut" \notin t.hist
                PROVE  t.lst[t.conns[i].lid].active /\ t.lst[t.conns[i].lid].id = t.conns[i].owner
    BY DEF Linked
  <2>1. t.conns[i] = x.conns[i] /\ x.conns[i].lid # l /\ "cut" \notin x.hist
    BY <1>2, <1>9
  <2>2. x.conns[i].lid \in LSlots
    BY <1>1 DEF LsnTyped, LsnConn
  <2>3. x.lst[x.conns[i].lid].active /\ x.lst[x.conns[i].lid].id = x.conns[i].owner
    BY <1>1, <2>1 DEF Linked
  <2>. QED BY <1>2, <2>1, <2>2, <2>3
<1>11. Certified(t)
  BY <1>1, <1>2, <1>3, <1>9 DEF Certified
<1>. QED BY <1>2, <1>7, <1>8, <1>10, <1>11 DEF Owned

LEMMA DelKeeps ==
  ASSUME ListenersFit, NEW x, Owned(x), LsnRuns(x), NEW l \in LSlots, x.lst[l].active, NEW cut,
         NEW t, t = C!Lsn!ListenerDel(x, l, cut)
  PROVE  Owned(t)
<1>1. LsnTyped(x)
  BY DEF Owned
<1>2. CASE t = C!Lsn!Abort(x, "not_listening")
  BY <1>2, AbortKeeps DEF LsnEndings
<1>3. CASE Deleted(x, t, l)
  BY <1>3, DeletedKeeps
<1>. QED BY <1>1, <1>2, <1>3, DelIs

\* What descriptor i may hold next.
FitConn(x, R) ==
    /\ R \in LsnConn /\ (R.st = "forged" => R.cert # 0)
    /\ \/ R.st \in {"none", "transfer"} \/ "cut" \in x.hist
       \/ x.lst[R.lid].active /\ x.lst[R.lid].id = R.owner
    /\ ~x.gone /\ "replaced" \notin x.hist /\ R.st # "none" => R.cert \in x.live \cup {0}

LEMMA ConnSetKeeps ==
  ASSUME NEW x, Owned(x), NEW i, NEW R, FitConn(x, R), NEW t, t = [x EXCEPT !.conns = [x.conns EXCEPT ![i] = R]]
  PROVE  Owned(t) /\ LsnShut(x, t) /\ t.hist = x.hist /\ t.refs = x.refs
<1>1. LsnTyped(x) /\ Slotted(x) /\ Socketed(x) /\ Linked(x) /\ Certified(x)
  BY DEF Owned
<1>. DEFINE f == [x.conns EXCEPT ![i] = R]
<1>2. R \in LsnConn
  BY DEF FitConn
<1>3. f \in [ConnFds -> LsnConn] /\ \A j \in ConnFds : f[j] = IF j = i THEN R ELSE x.conns[j]
  BY <1>1, <1>2 DEF LsnTyped
<1>4. t = [x EXCEPT !.conns = f]
  OBVIOUS
<1>. HIDE DEF f
<1>5. LsnTyped(t)
  BY <1>1, <1>3, <1>4 DEF LsnTyped
<1>6. /\ t.lst = x.lst /\ t.hist = x.hist /\ t.conns = f /\ t.cache = x.cache /\ t.live = x.live /\ t.certs = x.certs
      /\ t.gone = x.gone /\ t.open = x.open /\ t.adds = x.adds /\ t.list = x.list /\ t.free = x.free /\ t.aborted = x.aborted
      /\ t.refs = x.refs
  BY <1>1, <1>4 DEF LsnTyped
<1>7. Slotted(t) /\ Socketed(t)
  BY <1>1, <1>6 DEF Slotted, LsnRuns, SlotsFree, ActiveSlots, Socketed
<1>8. Linked(t)
  BY <1>1, <1>3, <1>6 DEF Linked, FitConn
<1>9. Certified(t)
  BY <1>1, <1>3, <1>6 DEF Certified, FitConn
<1>. QED BY <1>5, <1>6, <1>7, <1>8, <1>9 DEF Owned, LsnShut

LEMMA AcceptedKeeps ==
  ASSUME NEW x, Owned(x), NEW l \in LSlots, x.lst[l].active, NEW t, t = C!Lsn!Accepted(x, l)
  PROVE  Owned(t) /\ LsnShut(x, t) /\ t.hist = x.hist /\ t.refs = x.refs
<1>1. LsnTyped(x)
  BY DEF Owned
<1>. DEFINE R == [lid |-> l, owner |-> x.lst[l].id, name |-> <<>>, cert |-> 0,
                  st |-> IF x.lst[l].ctx THEN "new" ELSE "open"]
            i == CHOOSE j \in C!Lsn!Free(x) : TRUE
<1>2. x.lst[l].id \in Nat
  BY <1>1 DEF LsnTyped, LsnSlot
<1>3. R \in LsnConn
  BY <1>2 DEF LsnConn, LsnStages
<1>4. FitConn(x, R)
  BY <1>3 DEF FitConn
<1>5. t = [x EXCEPT !.conns = [x.conns EXCEPT ![i] = R]]
  BY <1>1 DEF C!Lsn!Accepted, LsnTyped
<1>. HIDE DEF R, i
<1>. QED BY <1>4, <1>5, ConnSetKeeps

LEMMA WithoutKeeps ==
  ASSUME ListenersFit, NEW x, Owned(x), NEW S, NEW t, t = C!Lsn!Without(x, S)
  PROVE  Owned(t)
<1>1. LsnTyped(x) /\ Slotted(x) /\ Socketed(x) /\ Linked(x) /\ Certified(x)
  BY DEF Owned
<1>2. /\ LsnTyped(t) /\ LsnShut(x, t) /\ t.hist = x.hist
      /\ \A i \in ConnFds : t.conns[i].st = "none" \/ t.conns[i] = x.conns[i]
  <2>1. /\ LsnTyped(t) /\ LsnShut(x, t) /\ t.hist = x.hist
        /\ \A i \in ConnFds : IF i \in S THEN t.conns[i].st = "none" ELSE t.conns[i] = x.conns[i]
    BY <1>1, WithoutIs
  <2>. QED BY <2>1
<1>3. Slotted(t) /\ Socketed(t)
  BY <1>1, <1>2 DEF LsnShut, Slotted, LsnRuns, SlotsFree, ActiveSlots, Socketed
<1>4. Linked(t)
  BY <1>1, <1>2 DEF LsnShut, Linked
<1>5. Certified(t)
  BY <1>1, <1>2 DEF LsnShut, Certified
<1>. QED BY <1>2, <1>3, <1>4, <1>5 DEF Owned

LEMMA RefsKeep ==
  ASSUME NEW x, Owned(x), NEW v \in Nat, NEW t, t = [x EXCEPT !.refs = v]
  PROVE  Owned(t)
<1>1. LsnTyped(x) /\ Slotted(x) /\ Socketed(x) /\ Linked(x) /\ Certified(x)
  BY DEF Owned
<1>2. LsnTyped(t)
  BY <1>1 DEF LsnTyped
<1>3. LsnShut(x, t) /\ t.hist = x.hist /\ t.conns = x.conns
  BY <1>1 DEF LsnTyped, LsnShut
<1>4. Slotted(t) /\ Socketed(t)
  BY <1>1, <1>3 DEF LsnShut, Slotted, LsnRuns, SlotsFree, ActiveSlots, Socketed
<1>5. Linked(t) /\ Certified(t)
  BY <1>1, <1>3 DEF LsnShut, Linked, Certified
<1>. QED BY <1>2, <1>4, <1>5 DEF Owned

\* What is left of a server that is freed.
LsnFreed(x, t) ==
    /\ LsnTyped(t) /\ t.gone /\ t.cache = <<>> /\ t.live \subseteq x.live /\ t.certs = x.certs /\ t.aborted = x.aborted
    /\ t.open = x.open \ {x.lst[l].sock : l \in x.list} /\ t.adds = x.adds
    /\ \A l \in LSlots : /\ t.lst[l].id = x.lst[l].id /\ t.lst[l].failed = x.lst[l].failed
                         /\ t.lst[l].sock \in {-1, x.lst[l].sock} /\ (l \in x.list => ~t.lst[l].active)
                         /\ (l \notin x.list => t.lst[l] = x.lst[l])
    /\ x.hist \subseteq t.hist /\ t.hist \subseteq x.hist \cup {"cut", "closed_0", "orphans"}
    /\ \A i \in ConnFds : t.conns[i].st = "none" \/ t.conns[i] = x.conns[i]
    /\ "cut" \in t.hist \/ \A i \in ConnFds : t.conns[i].st \in {"none", "transfer"}

LEMMA DestroyIs ==
  ASSUME ListenersFit, NEW x, LsnTyped(x), NEW cut, NEW t, t = C!Lsn!DoDestroy(x, cut)
  PROVE  LsnFreed(x, t)
<1>. DEFINE h == C!Lsn!ConnShutdownAll(x, -1, cut)
            M == [l \in LSlots |-> IF l \in x.list THEN [x.lst[l] EXCEPT !.ctx = FALSE, !.file = 0, !.sock = -1, !.active = FALSE]
                                   ELSE x.lst[l]]
            O == h.open \ {x.lst[l].sock : l \in x.list}
            o == [h EXCEPT !.lst = M, !.open = O]
            e == IF \E l \in x.list : x.lst[l].sock = 0 THEN C!Lsn!Note(o, "closed_0") ELSE o
            g == IF \A i \in ConnFds : e.conns[i].st = "none" THEN e ELSE C!Lsn!Note(e, "orphans")
            V == g.live \ C!Lsn!Range(x.cache)
<1>1. t = [g EXCEPT !.key = FALSE, !.live = V, !.cache = <<>>, !.gone = TRUE]
  BY SlotNames DEF C!Lsn!DoDestroy
<1>2. /\ LsnTyped(h) /\ LsnShut(x, h) /\ x.hist \subseteq h.hist /\ h.hist \subseteq x.hist \cup {"cut"}
      /\ \A i \in ConnFds : h.conns[i].st = "none" \/ h.conns[i] = x.conns[i]
      /\ "cut" \in h.hist \/ \A i \in ConnFds : h.conns[i].st \in {"none", "transfer"}
  BY ShutdownIs
<1>3. \A l \in LSlots : /\ M[l] \in LsnSlot /\ M[l].id = x.lst[l].id /\ M[l].failed = x.lst[l].failed
                        /\ M[l].sock \in {-1, x.lst[l].sock} /\ (l \in x.list => ~M[l].active)
                        /\ (l \notin x.list => M[l] = x.lst[l])
  <2>. TAKE l \in LSlots
  <2>1. x.lst[l] \in LsnSlot
    BY DEF LsnTyped
  <2>. DEFINE R == [x.lst[l] EXCEPT !.ctx = FALSE, !.file = 0, !.sock = -1, !.active = FALSE]
  <2>2. R \in LsnSlot /\ R.id = x.lst[l].id /\ R.failed = x.lst[l].failed /\ R.sock = -1 /\ ~R.active
    BY <2>1 DEF LsnSlot
  <2>3. M[l] = IF l \in x.list THEN R ELSE x.lst[l]
    OBVIOUS
  <2>. HIDE DEF R, M
  <2>. QED BY <2>1, <2>2, <2>3
<1>a. M \in [LSlots -> LsnSlot]
  BY <1>3
<1>. HIDE DEF h, M
<1>4. O \in SUBSET Nat
  BY <1>2 DEF LsnTyped
<1>5. o = [h EXCEPT !.lst = M, !.open = O]
  OBVIOUS
<1>b. O = x.open \ {x.lst[l].sock : l \in x.list}
  BY <1>2 DEF LsnShut
<1>. HIDE DEF O, o
<1>6. LsnTyped(o)
  BY <1>2, <1>a, <1>4, <1>5 DEF LsnTyped
<1>7. /\ o.lst = M /\ o.open = O /\ o.hist = h.hist /\ o.conns = h.conns /\ o.certs = x.certs /\ o.live = x.live
      /\ o.aborted = x.aborted /\ o.adds = x.adds
  BY <1>2, <1>5 DEF LsnTyped, LsnShut
<1>8. e = o \/ e = C!Lsn!Note(o, "closed_0")
  OBVIOUS
<1>. HIDE DEF e
<1>9. LsnTyped(e) /\ (e.hist = o.hist \/ e.hist = o.hist \cup {"closed_0"})
      /\ e.lst = o.lst /\ e.open = o.open /\ e.conns = o.conns /\ e.certs = o.certs /\ e.live = o.live
      /\ e.aborted = o.aborted /\ e.adds = o.adds
  BY <1>6, <1>8, NoteIs DEF LsnShut, LsnNotes
<1>10. g = e \/ g = C!Lsn!Note(e, "orphans")
  OBVIOUS
<1>. HIDE DEF g
<1>11. LsnTyped(g) /\ (g.hist = e.hist \/ g.hist = e.hist \cup {"orphans"})
      /\ g.lst = e.lst /\ g.open = e.open /\ g.conns = e.conns /\ g.certs = e.certs /\ g.live = e.live
      /\ g.aborted = e.aborted /\ g.adds = e.adds
  BY <1>9, <1>10, NoteIs DEF LsnShut, LsnNotes
<1>12. V \subseteq g.live /\ V \in SUBSET Nat
  BY <1>11 DEF LsnTyped
<1>. HIDE DEF V
<1>13. LsnTyped(t)
  BY <1>1, <1>11, <1>12 DEF LsnTyped
<1>14. /\ t.lst = g.lst /\ t.open = g.open /\ t.hist = g.hist /\ t.conns = g.conns /\ t.certs = g.certs /\ t.live = V
       /\ t.aborted = g.aborted /\ t.adds = g.adds /\ t.gone /\ t.cache = <<>>
  BY <1>1, <1>11 DEF LsnTyped
<1>15. x.hist \subseteq t.hist /\ t.hist \subseteq x.hist \cup {"cut", "closed_0", "orphans"} /\ h.hist \subseteq t.hist
  BY <1>2, <1>7, <1>9, <1>11, <1>14
<1>16. /\ t.lst = M /\ t.open = O /\ t.conns = h.conns /\ t.certs = x.certs /\ t.live \subseteq x.live
       /\ t.aborted = x.aborted /\ t.adds = x.adds /\ t.gone /\ t.cache = <<>>
  BY <1>7, <1>9, <1>11, <1>12, <1>14
<1>17. \A i \in ConnFds : t.conns[i].st = "none" \/ t.conns[i] = x.conns[i]
  BY <1>2, <1>16
<1>18. "cut" \in t.hist \/ \A i \in ConnFds : t.conns[i].st \in {"none", "transfer"}
  BY <1>2, <1>15, <1>16
<1>. QED BY <1>3, <1>b, <1>13, <1>15, <1>16, <1>17, <1>18 DEF LsnFreed

LEMMA DestroyKeeps ==
  ASSUME ListenersFit, NEW x, Owned(x), LsnRuns(x), NEW cut, NEW t, t = C!Lsn!DoDestroy(x, cut)
  PROVE  Owned(t)
<1>1. LsnTyped(x) /\ Slotted(x) /\ Socketed(x) /\ Linked(x) /\ Certified(x)
  BY DEF Owned
<1>2. LsnFreed(x, t)
  BY <1>1, DestroyIs
<1>3. x.list = ActiveSlots(x) /\ x.aborted = "no"
  BY <1>1 DEF Slotted, LsnRuns
<1>4. Slotted(t)
  BY <1>1, <1>2, <1>3 DEF Slotted, LsnFreed, LsnRuns
<1>5. Socketed(t)
  <2>1. ActiveSlots(t) = {}
    BY <1>2, <1>3 DEF LsnFreed, ActiveSlots
  <2>2. t.open = {}
    BY <1>1, <1>2, <1>3 DEF Socketed, LsnFreed
  <2>. QED BY <1>1, <1>2, <2>1, <2>2 DEF Socketed, LsnFreed
<1>6. Linked(t)
  BY <1>2 DEF LsnFreed, Linked
<1>7. Certified(t)
  <2>1. DOMAIN t.cache = {}
    BY <1>2 DEF LsnFreed
  <2>2. \A i \in ConnFds : t.conns[i].st = "forged" => t.conns[i].cert # 0
    BY <1>1, <1>2 DEF LsnFreed, Certified
  <2>. QED BY <1>1, <1>2, <1>3, <2>1, <2>2 DEF LsnFreed, Certified
<1>. QED BY <1>2, <1>4, <1>5, <1>6, <1>7 DEF Owned, LsnFreed

LEMMA UnlinkKeeps ==
  ASSUME ListenersFit, NEW x, Owned(x), LsnRuns(x), NEW cut, NEW t, t = C!Lsn!Unlink(x, cut)
  PROVE  Owned(t)
<1>1. x.refs \in Nat
  BY DEF Owned, LsnTyped
<1>2. CASE x.refs > 0
  <2>1. t = [x EXCEPT !.refs = x.refs - 1] /\ x.refs - 1 \in Nat
    BY <1>1, <1>2 DEF C!Lsn!Unlink, Owned, LsnTyped
  <2>. QED BY <2>1, RefsKeep
<1>3. CASE ~(x.refs > 0)
  <2>1. t = C!Lsn!DoDestroy(x, cut)
    BY <1>3 DEF C!Lsn!Unlink
  <2>. QED BY <2>1, DestroyKeeps
<1>. QED BY <1>2, <1>3

LEMMA AcceptKeeps ==
  ASSUME ListenersFit, NEW x, Owned(x), LsnRuns(x), NEW l \in LSlots, x.lst[l].active, NEW k,
         NEW act \in {"none", "del", "destroy"}, NEW t, t = C!Lsn!EventAccept(x, l, k, act)
  PROVE  Owned(t)
<1>. DEFINE one == C!Lsn!Accepted(x, l)
            said == CASE act = "none" -> one [] act = "del" -> C!Lsn!ListenerDel(one, l, {})
                      [] act = "destroy" -> C!Lsn!Unlink(one, {})
<1>1. Owned(one) /\ LsnShut(x, one)
  BY AcceptedKeeps
<1>2. LsnRuns(one) /\ one.lst[l].active
  BY <1>1 DEF LsnShut, LsnRuns
<1>3. t = IF said.gone THEN C!Lsn!Abort(said, "freed")
          ELSE IF k = 1 \/ ~said.lst[l].active THEN said ELSE C!Lsn!Accepted(said, l)
  BY DEF C!Lsn!EventAccept
<1>. HIDE DEF one
<1>4. Owned(said)
  <2>1. CASE act = "none"
    BY <1>1, <2>1
  <2>2. CASE act = "del"
    <3>1. said = C!Lsn!ListenerDel(one, l, {})
      BY <2>2
    <3>. HIDE DEF said
    <3>. QED BY <1>1, <1>2, <3>1, DelKeeps
  <2>3. CASE act = "destroy"
    <3>1. said = C!Lsn!Unlink(one, {})
      BY <2>3
    <3>. HIDE DEF said
    <3>. QED BY <1>1, <1>2, <3>1, UnlinkKeeps
  <2>. QED BY <2>1, <2>2, <2>3
<1>. HIDE DEF said
<1>5. CASE said.gone
  <2>1. t = C!Lsn!Abort(said, "freed")
    BY <1>3, <1>5
  <2>. QED BY <1>4, <2>1, AbortKeeps DEF LsnEndings
<1>6. CASE ~said.gone /\ (k = 1 \/ ~said.lst[l].active)
  BY <1>3, <1>4, <1>6
<1>7. CASE ~said.gone /\ ~(k = 1 \/ ~said.lst[l].active)
  <2>1. t = C!Lsn!Accepted(said, l) /\ said.lst[l].active
    BY <1>3, <1>7
  <2>. QED BY <1>4, <2>1, AcceptedKeeps
<1>. QED BY <1>5, <1>6, <1>7

\* What is found in the cache is alive.
LEMMA FoundLives ==
  ASSUME NEW x, Owned(x), NEW name
  PROVE  C!Lsn!Cached(x, name) \in x.live \cup {0} /\ C!Lsn!CertLookup(x, name) \in x.live \cup {0}
<1>1. \A k : C!Lsn!Cached(x, k) \in x.live \cup {0}
  BY DEF C!Lsn!Cached, Owned, Certified
<1>. QED BY <1>1 DEF C!Lsn!CertLookup

LEMMA ParsedKeeps ==
  ASSUME NEW x, Owned(x), NEW i \in ConnFds, x.conns[i].st = "new", NEW name \in Hosts, NEW t, t = C!Lsn!Parsed(x, i, name)
  PROVE  Owned(t)
<1>. DEFINE cert == C!Lsn!CertLookup(x, name)
            c == x.conns[i]
            nm == IF cert = 0 THEN name ELSE <<>>
            st == IF cert = 0 THEN "forging" ELSE "forged"
            R == [c EXCEPT !.name = nm, !.cert = cert, !.st = st]
<1>1. t = [x EXCEPT !.conns = [x.conns EXCEPT ![i] = R]]
  BY DEF C!Lsn!Parsed, Owned, LsnTyped
<1>2. cert \in x.live \cup {0} /\ x.live \subseteq Nat /\ c \in LsnConn
  BY FoundLives DEF Owned, LsnTyped
<1>. HIDE DEF cert
<1>a. /\ nm \in Hosts \cup {<<>>} /\ st \in LsnStages /\ st \notin {"none", "transfer"} /\ cert \in Nat
      /\ (st = "forged" => cert # 0)
  BY <1>2 DEF LsnStages
<1>. HIDE DEF nm, st
<1>3. /\ R \in LsnConn /\ R.lid = c.lid /\ R.owner = c.owner /\ R.cert = cert
      /\ (R.st = "forged" => cert # 0)
  BY <1>2, <1>a DEF LsnConn
<1>4. c.st \notin {"none", "transfer"}
  OBVIOUS
<1>5. "cut" \in x.hist \/ (x.lst[c.lid].active /\ x.lst[c.lid].id = c.owner)
  BY <1>4 DEF Owned, Linked
<1>. HIDE DEF R
<1>6. FitConn(x, R)
  BY <1>2, <1>3, <1>5 DEF FitConn
<1>. QED BY <1>1, <1>6, ConnSetKeeps

LEMMA TransferKeeps ==
  ASSUME NEW x, Owned(x), NEW i \in ConnFds, x.conns[i].st # "none",
         NEW t, t = [x EXCEPT !.conns[i].st = "transfer"]
  PROVE  Owned(t)
<1>. DEFINE c == x.conns[i]
            R == [c EXCEPT !.st = "transfer"]
<1>1. t = [x EXCEPT !.conns = [x.conns EXCEPT ![i] = R]]
  BY DEF Owned, LsnTyped
<1>2. c \in LsnConn
  BY DEF Owned, LsnTyped
<1>3. R \in LsnConn /\ R.st = "transfer" /\ R.cert = c.cert
  BY <1>2 DEF LsnConn, LsnStages
<1>4. ~x.gone /\ "replaced" \notin x.hist => c.cert \in x.live \cup {0}
  BY DEF Owned, Certified
<1>. HIDE DEF R
<1>5. FitConn(x, R)
  BY <1>3, <1>4 DEF FitConn
<1>. QED BY <1>1, <1>5, ConnSetKeeps

LEMMA KickKeeps ==
  ASSUME NEW x, Owned(x), LsnRuns(x), NEW i \in ConnFds, x.conns[i].st = "forged", NEW t, t = C!Lsn!Kick(x, i)
  PROVE  Owned(t)
<1>. DEFINE c == x.conns[i]
            R == [c EXCEPT !.st = "open", !.cert = 0]
<1>1. c \in LsnConn
  BY DEF Owned, LsnTyped
<1>2. CASE c.cert \in x.live
  <2>1. t = [x EXCEPT !.conns = [x.conns EXCEPT ![i] = R]]
    BY <1>2 DEF C!Lsn!Kick, Owned, LsnTyped
  <2>2. R \in LsnConn /\ R.st = "open" /\ R.cert = 0 /\ R.lid = c.lid /\ R.owner = c.owner
    BY <1>1 DEF LsnConn, LsnStages
  <2>3. "cut" \in x.hist \/ (x.lst[c.lid].active /\ x.lst[c.lid].id = c.owner)
    BY DEF Owned, Linked
  <2>. HIDE DEF R
  <2>4. FitConn(x, R)
    BY <2>2, <2>3 DEF FitConn
  <2>. QED BY <2>1, <2>4, ConnSetKeeps
<1>3. CASE c.cert \notin x.live
  <2>1. t = C!Lsn!Abort(x, "freed_cert")
    BY <1>3 DEF C!Lsn!Kick
  <2>2. "replaced" \in x.hist
    <3>1. c.cert # 0 /\ c.st # "none"
      BY DEF Owned, Certified
    <3>2. ~x.gone /\ "replaced" \notin x.hist => c.cert \in x.live \cup {0}
      BY <3>1 DEF Owned, Certified
    <3>. QED BY <1>3, <3>1, <3>2 DEF LsnRuns
  <2>. QED BY <2>1, <2>2, AbortKeeps DEF LsnEndings
<1>. QED BY <1>2, <1>3

\* A new certificate goes into the cache in the place of what was there.
LEMMA CachedKeeps ==
  ASSUME NEW x, Owned(x), LsnRuns(x), NEW key, NEW v, v \in x.live, \A k \in DOMAIN x.cache : x.cache[k] # v,
         NEW t, t = C!Lsn!WithCert(x, key, v)
  PROVE  /\ LsnTyped(t) /\ Slotted(t) /\ Socketed(t) /\ Linked(t) /\ t.aborted = "no" /\ t.hist = x.hist /\ t.certs = x.certs
         /\ t.conns = x.conns /\ t.live = x.live \ {C!Lsn!Cached(x, key)}
         /\ \A k \in DOMAIN t.cache : t.cache[k] \in t.live
         /\ \A k, m \in DOMAIN t.cache : t.cache[k] = t.cache[m] => k = m
<1>1. LsnTyped(x) /\ Slotted(x) /\ Socketed(x) /\ Linked(x) /\ Certified(x)
  BY DEF Owned
<1>. DEFINE f == [k \in DOMAIN x.cache \cup {key} |-> IF k = key THEN v ELSE x.cache[k]]
            V == x.live \ {C!Lsn!Cached(x, key)}
<1>2. t = [x EXCEPT !.cache = f, !.live = V]
  BY <1>1 DEF C!Lsn!WithCert, LsnTyped
<1>3. DOMAIN f = DOMAIN x.cache \cup {key} /\ f[key] = v /\ \A k \in DOMAIN x.cache : k # key => f[k] = x.cache[k]
  OBVIOUS
<1>4. C!Lsn!Cached(x, key) = IF key \in DOMAIN x.cache THEN x.cache[key] ELSE 0
  BY DEF C!Lsn!Cached
<1>5. /\ \A k \in DOMAIN x.cache : x.cache[k] \in x.live
      /\ \A k, m \in DOMAIN x.cache : x.cache[k] = x.cache[m] => k = m
      /\ 0 \notin x.live
  BY <1>1 DEF Certified, LsnTyped
<1>. HIDE DEF f
<1>6. \A k \in DOMAIN f : f[k] \in V
  BY <1>3, <1>4, <1>5
<1>7. \A k, m \in DOMAIN f : f[k] = f[m] => k = m
  BY <1>3, <1>5
<1>8. V \in SUBSET Nat
  BY <1>1 DEF LsnTyped
<1>. HIDE DEF V
<1>9. LsnTyped(t)
  BY <1>1, <1>2, <1>8 DEF LsnTyped
<1>10. /\ t.lst = x.lst /\ t.hist = x.hist /\ t.conns = x.conns /\ t.cache = f /\ t.live = V /\ t.certs = x.certs
       /\ t.gone = x.gone /\ t.open = x.open /\ t.adds = x.adds /\ t.list = x.list /\ t.free = x.free /\ t.aborted = x.aborted
  BY <1>1, <1>2 DEF LsnTyped
<1>11. Slotted(t) /\ Socketed(t) /\ Linked(t)
  BY <1>1, <1>10 DEF Slotted, LsnRuns, SlotsFree, ActiveSlots, Socketed, Linked
<1>12. t.aborted = "no"
  BY <1>10 DEF LsnRuns
<1>. QED BY <1>6, <1>7, <1>9, <1>10, <1>11, <1>12 DEF V

\* A certificate is made for connection i, and then put into the cache.
LsnMint(x, i) ==
    [x EXCEPT !.certs = @ + 1, !.live = @ \cup {x.certs + 1},
              !.conns[i].cert = x.certs + 1, !.conns[i].name = <<>>, !.conns[i].st = "forged"]

LEMMA MintKeeps ==
  ASSUME NEW x, Owned(x), LsnRuns(x), NEW i \in ConnFds, x.conns[i].st = "forging", NEW t, t = LsnMint(x, i)
  PROVE  /\ Owned(t) /\ LsnRuns(t) /\ x.certs + 1 \in t.live /\ t.cache = x.cache
         /\ \A k \in DOMAIN t.cache : t.cache[k] # x.certs + 1
<1>1. LsnTyped(x) /\ Slotted(x) /\ Socketed(x) /\ Linked(x) /\ Certified(x) /\ x.certs \in Nat
  BY DEF Owned, LsnTyped
<1>. DEFINE v == x.certs + 1
            c == x.conns[i]
            R == [c EXCEPT !.cert = v, !.name = <<>>, !.st = "forged"]
            f == [x.conns EXCEPT ![i] = R]
            V == x.live \cup {v}
<1>2. t = [x EXCEPT !.certs = v, !.live = V, !.conns = f]
  <2>. DEFINE q == [x.conns EXCEPT ![i].cert = v, ![i].name = <<>>, ![i].st = "forged"]
  <2>1. x.conns \in [ConnFds -> LsnConn] /\ c \in LsnConn
    BY <1>1 DEF LsnTyped
  <2>2. q = f
    BY <2>1
  <2>3. t = [x EXCEPT !.certs = v, !.live = V, !.conns = q]
    BY <1>1 DEF LsnMint, LsnTyped
  <2>. QED BY <2>2, <2>3
<1>3. c \in LsnConn /\ v \in Nat \ {0} /\ x.live \subseteq 1 .. x.certs /\ v \notin x.live
  BY <1>1 DEF LsnTyped, Certified
<1>4. R \in LsnConn /\ R.st = "forged" /\ R.cert = v /\ R.lid = c.lid /\ R.owner = c.owner
  BY <1>3 DEF LsnConn, LsnStages
<1>. HIDE DEF R
<1>5. f \in [ConnFds -> LsnConn] /\ \A j \in ConnFds : f[j] = IF j = i THEN R ELSE x.conns[j]
  BY <1>1, <1>4 DEF LsnTyped
<1>6. V \in SUBSET Nat /\ V \subseteq 1 .. v /\ v \in V /\ x.live \subseteq V
  BY <1>1, <1>3
<1>. HIDE DEF f, V
<1>7. LsnTyped(t)
  BY <1>1, <1>2, <1>3, <1>5, <1>6 DEF LsnTyped
<1>8. /\ t.lst = x.lst /\ t.hist = x.hist /\ t.conns = f /\ t.cache = x.cache /\ t.live = V /\ t.certs = v
      /\ t.gone = x.gone /\ t.open = x.open /\ t.adds = x.adds /\ t.list = x.list /\ t.free = x.free /\ t.aborted = x.aborted
  BY <1>1, <1>2 DEF LsnTyped
<1>9. Slotted(t) /\ Socketed(t)
  BY <1>1, <1>8 DEF Slotted, LsnRuns, SlotsFree, ActiveSlots, Socketed
<1>10. "cut" \in x.hist \/ (x.lst[c.lid].active /\ x.lst[c.lid].id = c.owner)
  BY <1>1 DEF Linked
<1>11. Linked(t)
  BY <1>1, <1>4, <1>5, <1>8, <1>10 DEF Linked
<1>12. Certified(t)
  <2>1. \A k \in DOMAIN x.cache : x.cache[k] \in x.live
    BY <1>1 DEF Certified
  <2>2. ~x.gone /\ "replaced" \notin x.hist => \A j \in ConnFds : f[j].st # "none" => f[j].cert \in V \cup {0}
    BY <1>1, <1>4, <1>5, <1>6 DEF Certified
  <2>3. \A j \in ConnFds : f[j].st = "forged" => f[j].cert # 0
    BY <1>1, <1>3, <1>4, <1>5 DEF Certified
  <2>. QED BY <1>1, <1>6, <1>8, <2>1, <2>2, <2>3 DEF Certified, LsnRuns
<1>13. \A k \in DOMAIN t.cache : t.cache[k] # v
  BY <1>1, <1>3, <1>8 DEF Certified
<1>. QED BY <1>6, <1>7, <1>8, <1>9, <1>11, <1>12, <1>13 DEF Owned, LsnRuns

LEMMA InsertKeeps ==
  ASSUME NEW x, Owned(x), LsnRuns(x), NEW name, NEW v, v \in x.live, \A k \in DOMAIN x.cache : x.cache[k] # v,
         NEW t, t = C!Lsn!CertInsert(x, name, v)
  PROVE  Owned(t)
<1>. DEFINE key == IF C!Lsn!Wildcard(name) = <<>> THEN name ELSE C!Lsn!Wildcard(name)
            old == C!Lsn!Cached(x, key)
            g == C!Lsn!WithCert(x, key, v)
<1>1. t = IF C!Lsn!Cached(x, name) # 0 THEN x ELSE IF old = 0 THEN g ELSE C!Lsn!Note(g, "replaced")
  BY DEF C!Lsn!CertInsert
<1>. HIDE DEF key
<1>2. /\ LsnTyped(g) /\ Slotted(g) /\ Socketed(g) /\ Linked(g) /\ g.aborted = "no" /\ g.hist = x.hist /\ g.certs = x.certs
      /\ g.conns = x.conns /\ g.live = x.live \ {old}
      /\ \A k \in DOMAIN g.cache : g.cache[k] \in g.live
      /\ \A k, m \in DOMAIN g.cache : g.cache[k] = g.cache[m] => k = m
  BY CachedKeeps
<1>3. Certified(x)
  BY DEF Owned
<1>. HIDE DEF g, old
<1>4. CASE old = 0
  <2>1. g.live = x.live
    BY <1>2, <1>3, <1>4 DEF Certified
  <2>2. Certified(g)
    BY <1>2, <1>3, <2>1 DEF Certified, LsnRuns
  <2>3. Owned(g)
    BY <1>2, <2>2 DEF Owned
  <2>. QED BY <1>1, <1>4, <2>3
<1>5. CASE old # 0
  <2>. DEFINE h == C!Lsn!Note(g, "replaced")
  <2>0. h = C!Lsn!Note(g, "replaced")
    OBVIOUS
  <2>. HIDE DEF h
  <2>1. LsnTyped(h) /\ LsnShut(g, h) /\ h.hist = g.hist \cup {"replaced"} /\ h.conns = g.conns
    BY <1>2, <2>0, NoteIs DEF LsnNotes
  <2>2. Slotted(h) /\ Socketed(h) /\ Linked(h)
    BY <1>2, <2>1 DEF LsnShut, Slotted, LsnRuns, SlotsFree, ActiveSlots, Socketed, Linked
  <2>3. Certified(h)
    BY <1>2, <1>3, <2>1 DEF LsnShut, Certified
  <2>4. Owned(h)
    BY <2>1, <2>2, <2>3 DEF Owned
  <2>. QED BY <1>1, <1>5, <2>0, <2>4
<1>. QED BY <1>4, <1>5

LEMMA ForgedKeeps ==
  ASSUME NEW x, Owned(x), LsnRuns(x), NEW i \in ConnFds, x.conns[i].st = "forging", NEW t, t = C!Lsn!Forged(x, i)
  PROVE  Owned(t)
<1>. DEFINE g == LsnMint(x, i)
<1>1. t = C!Lsn!CertInsert(g, x.conns[i].name, x.certs + 1)
  BY DEF C!Lsn!Forged, LsnMint
<1>2. Owned(g) /\ LsnRuns(g) /\ x.certs + 1 \in g.live /\ \A k \in DOMAIN g.cache : g.cache[k] # x.certs + 1
  BY MintKeeps
<1>. HIDE DEF g
<1>. QED BY <1>1, <1>2, InsertKeeps

LEMMA LsnNextOwned == ASSUME ListenersFit, Owned(state), C!Lsn!Next PROVE Owned(state')
<1>1. LsnRuns(state)
  BY DEF C!Lsn!Next, C!Lsn!Running, LsnRuns
<1>2. \A l \in C!Lsn!Given : l \in LSlots /\ state.lst[l].active
  BY SlotNames DEF C!Lsn!Given
<1>3. \A i \in C!Lsn!At : i \in ConnFds /\ state.conns[i].st # "none"
  BY DEF C!Lsn!At
<1>4. CASE C!Lsn!Add
  <2>1. PICK c \in Listeners : state' = C!Lsn!ListenerAdd(state, c)
    BY <1>4 DEF C!Lsn!Add
  <2>. QED BY <1>1, <2>1, AddKeeps
<1>5. CASE C!Lsn!Del
  <2>1. PICK l \in C!Lsn!Given : \E cut : state' = C!Lsn!ListenerDel(state, l, cut)
    BY <1>5 DEF C!Lsn!Del
  <2>2. PICK cut : state' = C!Lsn!ListenerDel(state, l, cut)
    BY <2>1
  <2>. QED BY <1>1, <1>2, <2>2, DelKeeps
<1>6. CASE C!Lsn!Accept
  <2>1. PICK l \in C!Lsn!Given, k \in 1 .. 2, act \in {"none", "del", "destroy"} : state' = C!Lsn!EventAccept(state, l, k, act)
    BY <1>6 DEF C!Lsn!Accept
  <2>. QED BY <1>1, <1>2, <2>1, AcceptKeeps
<1>7. CASE C!Lsn!Close
  <2>1. PICK i \in C!Lsn!At : state' = C!Lsn!Without(state, {i})
    BY <1>7 DEF C!Lsn!Close
  <2>. QED BY <2>1, WithoutKeeps
<1>8. CASE C!Lsn!Transfer
  <2>1. PICK i \in C!Lsn!At : state' = [state EXCEPT !.conns[i].st = "transfer"]
    BY <1>8 DEF C!Lsn!Transfer
  <2>. QED BY <1>3, <2>1, TransferKeeps
<1>9. CASE C!Lsn!Hello
  <2>1. PICK i \in C!Lsn!At, name \in Hosts : state.conns[i].st = "new" /\ state' = C!Lsn!Parsed(state, i, name)
    BY <1>9 DEF C!Lsn!Hello
  <2>. QED BY <1>3, <2>1, ParsedKeeps
<1>10. CASE C!Lsn!Forge
  <2>1. PICK i \in C!Lsn!At : state.conns[i].st = "forging" /\ state' = C!Lsn!Forged(state, i)
    BY <1>10 DEF C!Lsn!Forge
  <2>. QED BY <1>1, <1>3, <2>1, ForgedKeeps
<1>11. CASE C!Lsn!Handshake
  <2>1. PICK i \in C!Lsn!At : state.conns[i].st = "forged" /\ state' = C!Lsn!Kick(state, i)
    BY <1>11 DEF C!Lsn!Handshake
  <2>. QED BY <1>1, <1>3, <2>1, KickKeeps
<1>12. CASE C!Lsn!Refer
  <2>1. state' = [state EXCEPT !.refs = state.refs + 1] /\ state.refs + 1 \in Nat
    BY <1>12 DEF C!Lsn!Refer, C!Lsn!Link, Owned, LsnTyped
  <2>. QED BY <2>1, RefsKeep
<1>13. CASE C!Lsn!Release
  <2>1. PICK cut : state' = C!Lsn!Unlink(state, cut)
    BY <1>13 DEF C!Lsn!Release
  <2>. QED BY <1>1, <2>1, UnlinkKeeps
<1>. QED BY <1>4, <1>5, <1>6, <1>7, <1>8, <1>9, <1>10, <1>11, <1>12, <1>13 DEF C!Lsn!Next

LEMMA OwnedMeans == ASSUME Owned(state) PROVE Lsn!ListenersExact /\ Lsn!CertsLive
<1>s. Lsn!Slots = LSlots
  BY DEF Lsn!Slots, LSlots
<1>t. \A q : Lsn!ToSet(q) = ToSet(q)
  BY DEF Lsn!ToSet, ToSet
<1>c. \A S : Lsn!Cardinality(S) = Cardinality(S)
  BY DEF Lsn!Cardinality, Cardinality
<1>1. LsnTyped(state) /\ Slotted(state) /\ Socketed(state) /\ Linked(state) /\ Certified(state)
  BY DEF Owned
<1>2. {l \in Lsn!Slots : state.lst[l].active} = ActiveSlots(state)
  BY <1>s DEF ActiveSlots
<1>3. \A i \in Lsn!At : i \in ConnFds /\ state.conns[i].st # "none"
  BY DEF Lsn!At
<1>4. state.aborted \in LsnEndings
  BY <1>1 DEF LsnTyped
<1>5. LsnRuns(state) /\ "freed_twice" \notin state.hist =>
        \A l \in LSlots : l \in ToSet(state.free) <=> (l \notin ActiveSlots(state) \/ state.lst[l].failed)
  BY <1>1 DEF Slotted, SlotsFree, ActiveSlots
<1>6. state.gone => state.open = {}
  BY <1>1 DEF Socketed
<1>7. \A i \in Lsn!At : LET c == state.conns[i]
                         IN \/ state.lst[c.lid].active /\ state.lst[c.lid].id = c.owner
                            \/ c.st = "transfer" \/ "cut" \in state.hist
  BY <1>1, <1>3 DEF Linked
<1>8. Lsn!ListenersExact
  BY <1>1, <1>2, <1>4, <1>5, <1>6, <1>7, <1>s, <1>t, <1>c DEF Lsn!ListenersExact, Slotted, Socketed, LsnRuns, LsnEndings
<1>9. Lsn!CertsLive
  BY <1>1, <1>3 DEF Lsn!CertsLive, Certified
<1>. QED BY <1>8, <1>9

LsnInv == part = "listeners" => Owned(state)

(***************************************************************************)
(* Listeners, connections and certificates of COMM_TCP_SERVER have one     *)
(* owner each, whatever the order in which listeners are added, fail and   *)
(* are destroyed, connections are accepted, forged, handed over and        *)
(* closed, and the server is destroyed: a slot of listener.arr is free or  *)
(* used by one listener, and only one that failed to start has its slot    *)
(* given back while it is on the list; the open sockets are those of the   *)
(* listeners; a connection lives with its listener; and a certificate in   *)
(* the cache, or in use, is not freed. The exceptions are the ones         *)
(* ListenersExact and CertsLive name.                                      *)
(***************************************************************************)
THEOREM OwnersKept == ASSUME ListenersFit PROVE C!MCSpec => []ServerKeepsOwners
<1>1. C!MCInit => LsnInv
  BY LsnInitOwned DEF C!MCInit, LsnInv
<1>2. LsnInv /\ [C!MCNext]_<<part, state>> => LsnInv'
  <2>. SUFFICES ASSUME LsnInv, [C!MCNext]_<<part, state>>, part' = "listeners" PROVE Owned(state')
    BY DEF LsnInv
  <2>1. CASE C!MCNext
    <3>1. part = "listeners" /\ C!Lsn!Next
      BY <2>1 DEF C!MCNext
    <3>. QED BY <3>1, LsnNextOwned DEF LsnInv
  <2>2. CASE UNCHANGED <<part, state>>
    BY <2>2 DEF LsnInv
  <2>. QED BY <2>1, <2>2
<1>3. LsnInv => ServerKeepsOwners
  BY OwnedMeans DEF LsnInv, ServerKeepsOwners
<1>. QED BY <1>1, <1>2, <1>3, PTL DEF C!MCSpec
=============================================================================
