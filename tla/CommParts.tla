----------------------------- MODULE CommParts ------------------------------
(***************************************************************************)
(* The parts of MCComm whose safety is proved for every value of their     *)
(* constants: the listeners of a TCP server and the two pools of clients.  *)
(***************************************************************************)
CONSTANTS MaxListeners, Listeners, Hosts, Letters, ConnFds, MaxAdds, MaxCerts, MaxRefs,   \* of TcpListeners
          PoolMax, PoolSizes, PoolWrites, UnixWrites                                      \* of the pools

VARIABLES part,      \* which part a behaviour is one of
          state      \* and its state

Lsn == INSTANCE TcpListeners WITH n <- state,
         Confs <- Listeners, Names <- Hosts, LabelSize <- Letters, Fds <- ConnFds
TcpPool == INSTANCE TcpClientPool WITH p <- state, Sizes <- PoolSizes, MaxWrites <- PoolWrites
UnixPool == INSTANCE UnixClientPool WITH p <- state, MaxWrites <- UnixWrites

(***************************************************************************)
(* Slots, sockets, connections and certificates have one owner each.       *)
(***************************************************************************)
ServerKeepsOwners == part = "listeners" => Lsn!ListenersExact /\ Lsn!CertsLive

(***************************************************************************)
(* What is written to a pool, of TCP or UNIX, goes to a client that is     *)
(* connected.                                                              *)
(***************************************************************************)
PoolSelectsConnected ==
    /\ part = "pool" => TcpPool!SelectsConnected
    /\ part = "unixpool" => UnixPool!SelectsConnected
=============================================================================
