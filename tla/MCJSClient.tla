----------------------------- MODULE MCJSClient -----------------------------
(***************************************************************************)
(* Instances of JSClient for TLC: startClient, playTransactions and        *)
(* waitForRound, called once each.                                         *)
(***************************************************************************)
EXTENDS JSClient

CONSTANTS start, play, wait, a1, a2, a3, a4, f1, f2

MCThenOf ==
    [a \in Awaits |-> CASE a = a1 -> start [] a = a2 -> play [] OTHER -> wait]
MCBridgeCalls == [t \in Thens |-> CASE t = play -> 3 [] t = wait -> 0 [] OTHER -> 1]
=============================================================================
