----------------------------- MODULE MemStream ------------------------------
(***************************************************************************)
(* MemStream (data/core/mem_stream.c): a list of nodes that what is read   *)
(* from a socket is appended to.  A stream for several threads locks a     *)
(* mutex that is not recursive in every function, also in those the        *)
(* others call.                                                            *)
(***************************************************************************)
LOCAL INSTANCE Integers
LOCAL INSTANCE Sequences
LOCAL INSTANCE SequencesExt

CONSTANTS MinNode,      \* min_node_sz
          Datas,        \* the byte sequences written; "0" is what calloc leaves
          MaxBytes,     \* bound: bytes written
          MaxCalls      \* bound: calls

(***************************************************************************)
(* The stream m: safe (stream_type), locked, the nodes from head to tail   *)
(* with cap and data, size (data_size); dangling: next_node of the last    *)
(* node points to a freed one; stuck: a call waits for the mutex it holds. *)
(* History: ideal, the bytes written; calls; freed: a freed node was used; *)
(* odd: a read that came short.                                            *)
(***************************************************************************)
VARIABLE m

MemStreamNew(safe) ==
    [safe |-> safe, locked |-> FALSE, nodes |-> <<>>, size |-> 0, dangling |-> FALSE,
     stuck |-> FALSE, ideal |-> <<>>, calls |-> 0, freed |-> FALSE, odd |-> FALSE]
Init == \E safe \in BOOLEAN : m = MemStreamNew(safe)

Lock(x, Then(_)) ==
    IF x.safe /\ x.locked THEN [x EXCEPT !.stuck = TRUE] ELSE Then([x EXCEPT !.locked = TRUE])
Unlock(x) == IF x.stuck THEN x ELSE [x EXCEPT !.locked = FALSE]

NodeNew(n) == [cap |-> IF n < MinNode THEN MinNode ELSE n, data |-> <<>>]
CreateNewNodeTail(x, n) ==
    Lock(x, LAMBDA y : Unlock([y EXCEPT !.nodes = Append(@, NodeNew(n)), !.dangling = FALSE]))

AvailCap(x) == Last(x.nodes).cap - Len(Last(x.nodes).data)
\* MEM_NODE_COPYINTO and COUNTER_UPDATE_NODE_AND_STREAM on the tail
CopyInto(x, d) ==
    IF x.stuck THEN x
    ELSE [x EXCEPT !.nodes[Len(x.nodes)].data = @ \o d, !.size = @ + Len(d)]

WriteForgetsRest(x, d) ==
    IF x.nodes = <<>> THEN CopyInto(CreateNewNodeTail(x, Len(d)), d)
    ELSE CopyInto(x, SubSeq(d, 1, IF Len(d) < AvailCap(x) THEN Len(d) ELSE AvailCap(x)))
\* What does not fit in the tail goes to a new one.
Write(x, d) ==
    LET n == AvailCap(x)
    IN IF x.nodes = <<>> THEN CopyInto(CreateNewNodeTail(x, Len(d)), d)
       ELSE IF Len(d) < n THEN CopyInto(x, d)
       ELSE CopyInto(CreateNewNodeTail(CopyInto(x, SubSeq(d, 1, n)), Len(d) - n), SubSeq(d, n + 1, Len(d)))
MemStreamWrite(x, d) ==
    Lock(x, LAMBDA y : [Unlock(Write(y, d)) EXCEPT !.ideal = @ \o d])

\* read() may give less than asked: got and then more bytes come.  The second
\* read is counted for what was asked.
Pad(d, n) == [i \in 1 .. n |-> IF i <= Len(d) THEN d[i] ELSE "0"]
Grab(x, d, n, got, more) ==
    LET space == AvailCap(x)
        first == IF got < space THEN got ELSE space
        a == CopyInto(x, SubSeq(d, 1, first))
        rest == SubSeq(d, first + 1, first + more)
        b == CopyInto(CreateNewNodeTail(a, n - first), Pad(rest, n - first))
    IN IF x.nodes = <<>> THEN CopyInto(CreateNewNodeTail(x, n), SubSeq(d, 1, got))
       ELSE IF n < space THEN CopyInto(x, SubSeq(d, 1, got))
       ELSE [b EXCEPT !.odd = @ \/ more < n - first]
Arrived(x, d, n, got, more) ==
    LET space == AvailCap(x)
        first == IF got < space THEN got ELSE space
    IN IF x.nodes = <<>> \/ n < space THEN SubSeq(d, 1, got) ELSE SubSeq(d, 1, first + more)
MemStreamGrabDataFromFD(x, d, got, more) ==
    Lock(x, LAMBDA y : [Unlock(Grab(y, d, Len(d), got, more))
                           EXCEPT !.ideal = @ \o Arrived(y, d, Len(d), got, more)])

\* All nodes but the first are freed; its pointer to the next is kept.
MemStreamClean(x) ==
    Lock(x, LAMBDA y :
        IF y.nodes = <<>> THEN [y EXCEPT !.freed = TRUE]      \* a NULL pointer is followed
        ELSE Unlock([y EXCEPT !.nodes = <<[Head(@) EXCEPT !.data = <<>>]>>, !.size = 0, !.ideal = <<>>,
                              !.dangling = @ \/ Len(y.nodes) > 1]))
\* WriteToFD, WriteToFILE, OffsetDeref and Destroy walk the list.
Walk(x) == Lock(x, LAMBDA y : Unlock([y EXCEPT !.freed = @ \/ y.dangling]))
\* GetDataSize and GetNodeCount return with the mutex.
MemStreamGetDataSize(x) == Lock(x, LAMBDA y : y)

Content(x) == FoldLeft(LAMBDA d, n : d \o n.data, <<>>, x.nodes)

-----------------------------------------------------------------------------

Do(x) == m' = [x EXCEPT !.calls = m.calls + 1]
Next ==
    /\ m.calls < MaxCalls /\ ~m.stuck /\ ~m.freed /\ ~m.odd
    /\ \/ \E d \in Datas : Len(m.ideal) + Len(d) <= MaxBytes /\ Do(MemStreamWrite(m, d))
       \/ \E d \in Datas : \E got, more \in 0 .. Len(d) :
             /\ Len(m.ideal) + Len(d) <= MaxBytes /\ got + more <= Len(d)
             /\ Do(MemStreamGrabDataFromFD(m, d, got, more))
       \/ Do(MemStreamClean(m))
       \/ Do(Walk(m))
       \/ Do(MemStreamGetDataSize(m))

-----------------------------------------------------------------------------
(* A stream of one thread holds the bytes written, in order, whatever the  *)
(* nodes they fall in; no node holds more than its capacity.               *)
StreamHolds ==
    ~m.safe /\ ~m.odd =>
        /\ Content(m) = m.ideal /\ m.size = Len(m.ideal)
        /\ \A i \in DOMAIN m.nodes : Len(m.nodes[i].data) <= m.nodes[i].cap
=============================================================================
