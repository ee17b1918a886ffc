-------------------------- MODULE MCChainTreeClient --------------------------
(***************************************************************************)
(* Instances of ChainTreeClient for TLC.  Sessions u1 and u2 hold the same *)
(* object, u3 another one; u1 and u3 are on one client.  All trees begin   *)
(* with key k1; give hands a tree over to k2, which only u2 has, so that   *)
(* u1 and u2 compete for a tree that changes hands.                        *)
(***************************************************************************)
EXTENDS ChainTreeClient

CONSTANTS c1, c2, u1, u2, u3, o1, o2, k1, k2, data, give

MCClientOf == [s \in Sessions |-> IF s = u2 THEN c2 ELSE c1]
MCObjectOf == [s \in Sessions |-> IF s = u3 THEN o2 ELSE o1]
MCKeysOf == [s \in Sessions |-> IF s = u2 THEN {k1, k2} ELSE {k1}]
MCGenesisKey == [o \in Objects |-> k1]
MCNewOwners == [b \in Blocks |-> IF b = give THEN {k2} ELSE {}]
=============================================================================
