----------------------------- MODULE MCDiscovery -----------------------------
(* Instances of Discovery for TLC: w1 waits for one peer, w2 for two. *)
EXTENDS Discovery

CONSTANTS s1, s2, w1, w2, d1, d2, p1

MCNumOf == [w \in Waits |-> IF w = w1 THEN 1 ELSE 2]
=============================================================================
