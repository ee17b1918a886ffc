-------------------------- MODULE MCRoundSubscriber --------------------------
(***************************************************************************)
(* Instances of RoundSubscriber for TLC.  Rounds are <<height, fork>>.     *)
(***************************************************************************)
EXTENDS RoundSubscriber, TLC

CONSTANTS s1, s2, s3, s4, c1, c2, l1, l2

\* Two rounds of one height; two heights; both.
ForkRounds == {<<1, "a">>, <<1, "b">>}
ChainRounds == {<<1, "a">>, <<2, "a">>}
ForkedChainRounds == ForkRounds \cup ChainRounds
MCHeightOf == [r \in Rounds |-> r[1]]

\* Confirmations of one signer each (BLSSign).
OneSigner == {[s \in Signers |-> IF s = t THEN 1 ELSE 0] : t \in Signers}

Symmetry ==
    Permutations(Signers \ Faulty) \cup Permutations(Clients) \cup Permutations(Loops)
=============================================================================
