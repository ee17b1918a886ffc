---------------------------- MODULE MCClientSend ----------------------------
(***************************************************************************)
(* Instances of ClientSend for TLC: s1 and s2 send the same request (a     *)
(* retry while the first call is still there), s3 another one.             *)
(***************************************************************************)
EXTENDS ClientSend, TLC

CONSTANTS s1, s2, s3, w1, w2, a1, a2

MCAbrOf == [s \in Senders |-> IF s = s3 THEN a2 ELSE a1]

Symmetry == Permutations(Waiters)
=============================================================================
