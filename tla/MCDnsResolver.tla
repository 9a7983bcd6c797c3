--------------------------- MODULE MCDnsResolver ---------------------------
(***************************************************************************)
(* Two slots for two queries.                                              *)
(***************************************************************************)
EXTENDS DnsResolver

MCNodes == {0, 1}
MCLists == {"req", "reply"}
=============================================================================
