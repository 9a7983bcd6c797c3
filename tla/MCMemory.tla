------------------------------ MODULE MCMemory ------------------------------
(***************************************************************************)
(* The containers in memory, each on its own instance: a behaviour is one  *)
(* of one part, chosen at the start.                                       *)
(*   slots    every call on a MEM_SLOT of 4 slots, 2 lists, blocks of 2    *)
(*   buffer   a MemBuffer of up to 3 bytes, and a file as long             *)
(*   mapped   a mapped buffer for a file of 3 pages, the last one short    *)
(*   stream   a MemStream of up to 6 bytes in nodes of at least 2          *)
(*   table    an associative array of 3 keys, on tables of 2 and 3 slots   *)
(*   table2   a version 2 table with 2 of its 3 keys in one bucket         *)
(***************************************************************************)
EXTENDS MemSlot

VARIABLES part,     \* which one
          h         \* the state of all but slots

Buf == INSTANCE MemBuffer WITH b <- h,
         Chunks <- {<<>>, <<"a">>, <<"b", "a">>}, Grow <- 3, MaxSize <- 3, MaxLocks <- 2, MaxCalls <- 5
Map == INSTANCE MappedBuffer WITH x <- h,
         ByteBits <- 2, BitGrow <- 1, PageSize <- 3, FileSize <- 8, MaxOps <- 4
Stream == INSTANCE MemStream WITH m <- h,
            MinNode <- 2, Datas <- {<<"a">>, <<"b", "a">>, <<"a", "b", "b">>}, MaxBytes <- 6, MaxCalls <- 6

\* The characters a and b; one key begins with another.
Words == {<<97>>, <<98>>, <<97, 98>>}
Table == INSTANCE HashTable WITH Keys <- Words, Primes <- <<2, 3>>, Capacities <- {1, 4}, MaxItems <- 4
Table2 == INSTANCE HashTableV2 WITH v <- h, Keys <- Words,
            Items <- {1, 2, 3}, Bucket <- [w \in Words |-> IF w[1] = 98 THEN 1 ELSE 0]

MCInit ==
    /\ Init
    /\ \/ part = "slots"  /\ h = 0
       \/ part = "buffer" /\ Buf!Init
       \/ part = "mapped" /\ Map!Init
       \/ part = "stream" /\ Stream!Init
       \/ part = "table"  /\ Table!Init
       \/ part = "table2" /\ Table2!Init
MCNext ==
    /\ UNCHANGED part
    /\ \/ part = "slots" /\ Next /\ UNCHANGED h
       \/ /\ UNCHANGED vars
          /\ \/ part = "buffer" /\ Buf!Next
             \/ part = "mapped" /\ Map!Next
             \/ part = "stream" /\ Stream!Next
             \/ part = "table"  /\ Table!Next
             \/ part = "table2" /\ Table2!Next
MCSpec == MCInit /\ [][MCNext]_<<part, h, vars>>

-----------------------------------------------------------------------------
(***************************************************************************)
(* Every order of calls leaves each container with what was put into it,   *)
(* where the program looks for it, and its bookkeeping exact: the bytes of *)
(* a buffer or a stream, the pages of a mapped buffer, the values under a  *)
(* key, what a walk gives while the program adds and removes.              *)
(***************************************************************************)
ContainersHold ==
    /\ part = "buffer" => Buf!HoldsContent /\ Buf!LivesAsReferred
    /\ part = "mapped" => Map!NothingInvented /\ Map!NothingForgotten
    /\ part = "stream" => Stream!StreamHolds
    /\ part = "table"  => Table!KeepsStacks /\ Table!WalksAll
    /\ part = "table2" => Table2!FindsItem
=============================================================================
