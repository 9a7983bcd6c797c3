------------------------------- MODULE MCComm -------------------------------
(***************************************************************************)
(* The modules of the communication layer, each on its own instance: a     *)
(* behaviour is one of one part, chosen at the start.                      *)
(*   client     two descriptors, two writes and a program that leaves,     *)
(*              reconnects or writes inside its callbacks                  *)
(*   server     two connections, one after the other on one descriptor, or *)
(*              one and two calls of the program                           *)
(*   listeners  two slots, two connections, two of three names of one      *)
(*              domain                                                     *)
(*   requests   what a connection reads, with a token of one or two bytes  *)
(*   pool       up to three clients                                        *)
(*   link       a UNIX socket: two slots at each end and a buffer of two   *)
(*              units, for two requests of one or two over two connections *)
(*   unix       a UNIX client with two descriptors                         *)
(*   unixpool   up to three of them                                        *)
(***************************************************************************)
EXTENDS CommParts, Integers

CONSTANTS Fds, Confs, Acts, Calls, MaxWrites, MaxTries, MaxConnects, MaxCalls      \* of TcpClient

Client == [ssl |-> FALSE, lookup |-> FALSE, dual |-> FALSE, timeout |-> FALSE, rates |-> FALSE,
           on_timeout |-> FALSE, on_close |-> FALSE, on_fail |-> FALSE,
           destroy_fail |-> FALSE, destroy_close |-> FALSE]
Keep == [Client EXCEPT !.on_timeout = TRUE, !.on_close = TRUE, !.on_fail = TRUE]
MCConfs == {[Keep EXCEPT !.timeout = TRUE, !.rates = TRUE],
            [Keep EXCEPT !.lookup = TRUE, !.dual = TRUE],
            [Keep EXCEPT !.ssl = TRUE, !.rates = TRUE],
            [Client EXCEPT !.ssl = TRUE, !.destroy_fail = TRUE, !.destroy_close = TRUE],
            [Client EXCEPT !.lookup = TRUE, !.destroy_fail = TRUE, !.timeout = TRUE]}

Base == [proto |-> "plain", max |-> 0, gc |-> FALSE, rates |-> FALSE, onfail |-> FALSE,
         unlimited |-> FALSE, shared |-> TRUE]
ServerConfs == {[Base EXCEPT !.gc = TRUE, !.onfail = TRUE, !.max = 1],
                [Base EXCEPT !.proto = "ssl", !.rates = TRUE, !.onfail = TRUE, !.unlimited = TRUE],
                [Base EXCEPT !.proto = "auto", !.shared = FALSE, !.rates = TRUE]}

\* kind, what fails, handlers given, certificate file given
Listener(k, f, cb, path) == [kind |-> k, fails |-> f, cb |-> cb, path |-> path]
MCListeners == {Listener("plain", "no", TRUE, FALSE), Listener("plain", "socket", TRUE, FALSE),
                Listener("plain", "bind", FALSE, FALSE), Listener("ssl", "no", TRUE, TRUE),
                Listener("ssl", "cert", TRUE, TRUE), Listener("unix", "no", TRUE, FALSE)}
MCHosts == {<<"a", "long", "com">>, <<"b", "long", "com">>, <<"a", "b", "c">>}
MCLetters == [a |-> 1, b |-> 1, c |-> 1, com |-> 3, long |-> 4]

Cli == INSTANCE TcpClient WITH s <- state
Srv == INSTANCE TcpServer WITH x <- state,
         Confs <- ServerConfs, Acts <- {"none", "close", "request", "transfer", "defer", "abort"},
         MaxAccepts <- 2, MaxWrites <- 2, MaxTries <- 1, MaxCalls <- 2
\* bound: connections and calls of the program together
MaxOfServer == 3
Syn == INSTANCE SelfSync WITH y <- state,
         Tokens <- {<<"t">>, <<"t", "u">>}, Limits <- {0, 3}, MaxBytes <- 6,
         Chunks <- {<<"a">>, <<"t">>, <<"u">>, <<"a", "t">>, <<"t", "u">>, <<"t", "t">>, <<"t", "u", "a">>}

Lost == [timeout |-> TRUE, rates |-> TRUE, on_timeout |-> TRUE, on_close |-> FALSE, on_fail |-> FALSE,
         destroy_fail |-> FALSE, destroy_close |-> FALSE]
UnixConfs == {Lost, [Lost EXCEPT !.on_close = TRUE, !.on_fail = TRUE],
              [Lost EXCEPT !.destroy_fail = TRUE, !.destroy_close = TRUE]}
Link == INSTANCE UnixLink WITH u <- state,
          Ids <- {0, 1}, Room <- 2, Sizes <- {1, 2},
          MaxTries <- 0, MaxSends <- 2, MaxFails <- 1, MaxConnects <- 2
Unix == INSTANCE UnixClient WITH c <- state, Fds <- {1, 2}, Confs <- UnixConfs,
          Acts <- {"none", "disconnect", "destroy", "reconnect"}, MaxConnects <- 4, MaxCalls <- 4

MCInit ==
    \/ part = "client"    /\ Cli!Init
    \/ part = "server"    /\ Srv!Init
    \/ part = "listeners" /\ Lsn!Init
    \/ part = "requests"  /\ Syn!Init
    \/ part = "pool"      /\ TcpPool!Init
    \/ part = "link"      /\ Link!Init
    \/ part = "unix"      /\ Unix!Init
    \/ part = "unixpool"  /\ UnixPool!Init
MCNext ==
    /\ UNCHANGED part
    /\ \/ part = "client"    /\ Cli!Next
       \/ part = "server"    /\ Srv!Next /\ state'.accepts + state'.calls <= MaxOfServer
       \/ part = "listeners" /\ Lsn!Next
       \/ part = "requests"  /\ Syn!Next
       \/ part = "pool"      /\ TcpPool!Next
       \/ part = "link"      /\ Link!Next
       \/ part = "unix"      /\ Unix!Next
       \/ part = "unixpool"  /\ UnixPool!Next
MCSpec == MCInit /\ [][MCNext]_<<part, state>>

-----------------------------------------------------------------------------
(***************************************************************************)
(* Destroying a client, of TCP or UNIX, leaves nothing in the loop that    *)
(* refers to it, and only the uses described in TcpClient and UnixClient   *)
(* touch it afterwards or abort.                                           *)
(***************************************************************************)
ClientLeavesNothing ==
    /\ part = "client" => Cli!TypeOK /\ Cli!DestroyedIsUnreferenced /\ Cli!FaultsHaveCause
    /\ part = "unix" => Unix!LeavesNothing

(***************************************************************************)
(* A client, of TCP or UNIX, that is meant to be connected always has      *)
(* something coming that moves it on, and so has a queue of writes of TCP; *)
(* one that is connected hears.                                            *)
(***************************************************************************)
ClientMovesOn ==
    /\ part = "client" => Cli!NotStranded /\ Cli!QueueIsServed
    /\ part = "unix" => Unix!MovesOn

(***************************************************************************)
(* Each write of the TCP client is answered once, and a client, of TCP or  *)
(* UNIX, told to disconnect stays disconnected.                            *)
(***************************************************************************)
ClientAnswersOnce ==
    /\ part = "client" => Cli!AnsweredOnce /\ Cli!DisconnectIsFinal
    /\ part = "unix" => Unix!StaysDisconnected

(***************************************************************************)
(* A connection of the server waits for an event that will come, in every  *)
(* phase and with every queue of writes; so does each end of a UNIX        *)
(* socket, and what it waits to hear of is on its way.                     *)
(***************************************************************************)
ServerServes ==
    /\ part = "server" => Srv!Served
    /\ part = "link" => Link!LinkServed

(***************************************************************************)
(* The end of a connection is told once, and so is each write; at both     *)
(* ends of a UNIX socket what is told of a request is so.                  *)
(***************************************************************************)
ServerTellsOnce ==
    /\ part = "server" => Srv!ToldOnce /\ Srv!WriteToldOnce
    /\ part = "link" => Link!ToldRight

(***************************************************************************)
(* A closed connection leaves no event, timer or job behind, and aborts    *)
(* and uses of released memory have the causes described in TcpServer.     *)
(***************************************************************************)
ServerClosesCleanly == part = "server" => Srv!ClosedIsQuiet /\ Srv!FaultsHaveCause

(***************************************************************************)
(* The bytes of a connection reach the program in order, cut at tokens,    *)
(* and those of a UNIX socket whole requests as they were sent.            *)
(***************************************************************************)
RequestsWhole ==
    /\ part = "requests" => Syn!Synced
    /\ part = "link" => Link!Framed

=============================================================================
