---------------------------- MODULE MCTokenLedger ----------------------------
(* Instances of TokenLedger for TLC. *)
EXTENDS TokenLedger, TLC

CONSTANTS t1, t2, gold, silver, id1, id2

Symmetry == Permutations(Trees) \cup Permutations(Locals) \cup Permutations(Ids)
=============================================================================
