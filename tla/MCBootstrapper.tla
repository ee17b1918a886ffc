--------------------------- MODULE MCBootstrapper ---------------------------
(***************************************************************************)
(* Instances of Bootstrapper for TLC.  Addresses a1, a2 and a3 are of      *)
(* three peers, b3 is a second address of a3's peer; a2 does not answer.   *)
(***************************************************************************)
EXTENDS Bootstrapper

CONSTANTS p1, p2, p3, q, a1, a2, a3, b3, w1

MCPeerOf == [a \in Addrs |-> CASE a = a1 -> p1 [] a = a2 -> p2 [] OTHER -> p3]
MCLists == {{a1}, {a1, a2, a3}, {a3, b3}}
MCPeerCountOf == [w \in Waits |-> 2]
=============================================================================
