------------------------------- MODULE SelfSync -----------------------------
(***************************************************************************)
(* What a connection of the TCP server reads, and how it is cut into       *)
(* requests when the listener gives a token that ends them (self_sync;     *)
(* CommEvTCPServerEventProcessBuffer and ...SelfSyncReadBuffer in          *)
(* comm/core/tcp/comm_tcp_server.c).                                       *)
(***************************************************************************)
LOCAL INSTANCE Integers
LOCAL INSTANCE Sequences
LOCAL INSTANCE SequencesExt

CONSTANTS Tokens,       \* the tokens a listener may give
          Limits,       \* max_buffer_sz, 0 for none
          Chunks,       \* what one read may bring
          MaxBytes      \* bound: bytes of a connection

(***************************************************************************)
(* The connection y: what it is set to; read and part, read_buffer and     *)
(* partial_read_buffer, each a sequence, with has and hasPart for whether  *)
(* they exist; stream, the bytes in read_stream.  History: sent, all that  *)
(* came; taken, what the program took; shown, how much of read_buffer it   *)
(* was shown and left there.                                               *)
(***************************************************************************)
VARIABLE y

Init ==
    \E sync \in BOOLEAN, stream \in BOOLEAN, token \in Tokens, limit \in Limits :
        y = [sync |-> sync, streamed |-> stream, token |-> token, limit |-> limit, has |-> FALSE, read |-> <<>>,
             hasPart |-> FALSE, part |-> <<>>, stream |-> <<>>, sent |-> <<>>, taken |-> <<>>, shown |-> 0]

\* The positions of the token in s.
Found(s, token) == {i \in 1 .. Len(s) - Len(token) + 1 : SubSeq(s, i, i + Len(token) - 1) = token}
Greatest(S) == CHOOSE i \in S : \A j \in S : j <= i

\* CONN_EVENT_READ: the program takes the buffer away, or leaves it.
Dispatch(x, takes) ==
    IF takes THEN [x EXCEPT !.taken = @ \o x.read \o x.stream, !.read = <<>>, !.has = FALSE, !.stream = <<>>, !.shown = 0]
    ELSE [x EXCEPT !.shown = Len(x.read)]

\* The search goes from the end, so what is shown ends with the last token and
\* may hold several requests; the rest waits in the partial buffer.
SelfSyncAtFirst(x, takes) ==
    LET places == Found(x.read, x.token)
        cut == (CHOOSE i \in places : \A j \in places : i <= j) + Len(x.token) - 1
        split == [x EXCEPT !.read = SubSeq(@, 1, cut), !.hasPart = TRUE, !.part = @ \o SubSeq(x.read, cut + 1, Len(x.read))]
    IN IF places = {} THEN x ELSE Dispatch(split, takes)
SelfSyncReadBuffer(x, takes) ==
    LET places == Found(x.read, x.token)
        cut == Greatest(places) + Len(x.token) - 1
        split == IF cut = Len(x.read) THEN x
                 ELSE [x EXCEPT !.read = SubSeq(@, 1, cut), !.hasPart = TRUE,
                                !.part = @ \o SubSeq(x.read, cut + 1, Len(x.read))]
    IN IF ~x.has \/ Len(x.read) < Len(x.token) THEN x
       ELSE IF places # {} THEN Dispatch(split, takes)
       ELSE IF x.limit > 0 /\ Len(x.read) >= x.limit THEN Dispatch(x, takes)
       ELSE x

\* The partial buffer becomes the read buffer, or is added to it.
Gather(x) ==
    IF ~x.has THEN [x EXCEPT !.has = TRUE, !.read = x.part, !.hasPart = FALSE, !.part = <<>>]
    ELSE [x EXCEPT !.read = @ \o x.part, !.part = <<>>]

\* bytes is empty when the read fails, which leaves what was gathered.
EventProcessBuffer(x, bytes, takes) ==
    LET filled == IF x.streamed THEN [x EXCEPT !.stream = @ \o bytes, !.sent = @ \o bytes]
                  ELSE [Gather(x) EXCEPT !.read = @ \o bytes, !.sent = @ \o bytes]
    IN IF bytes = <<>> /\ ~x.streamed THEN Gather(x)
       ELSE IF x.sync THEN SelfSyncReadBuffer(filled, takes)
       ELSE Dispatch(filled, takes)

Next ==
    \E bytes \in Chunks \cup {<<>>}, takes \in BOOLEAN :
        Len(y.sent) + Len(bytes) <= MaxBytes /\ y' = EventProcessBuffer(y, bytes, takes)

-----------------------------------------------------------------------------
(***************************************************************************)
(* Every byte reaches the program once and in order; what it has not been  *)
(* shown holds no complete request; a buffer it is shown ends with a token *)
(* unless the limit was reached.  With read_stream there is no read_buffer *)
(* to search, and the program is never shown anything.                     *)
(***************************************************************************)
Synced ==
    /\ y.taken \o y.stream \o y.read \o y.part = y.sent
    /\ y.sync /\ ~y.streamed => \A i \in Found(y.read \o y.part, y.token) : i <= y.shown
    /\ y.sync /\ y.limit = 0 /\ y.shown > 0 => Len(y.token) + Greatest(Found(y.read, y.token)) - 1 >= y.shown
    /\ y.sync /\ y.streamed => y.taken = <<>>
=============================================================================
