---------------------------- MODULE NotaryRounds ----------------------------
(***************************************************************************)
(* What a notary group promises its clients: at most one round is decided  *)
(* at each height, and a client only ever adopts decided rounds, one after *)
(* the other at growing heights.  The height a client goes by is the one   *)
(* it was told of the round.  Heights may be skipped.  RoundSubscriber     *)
(* implements this specification.                                          *)
(***************************************************************************)
EXTENDS Naturals

CONSTANTS
    Clients,    \* the SDK clients that listen to the group
    Rounds,     \* round identifiers (the CIDs of completed rounds)
    HeightOf,   \* the height of each round
    Heights,    \* the heights that clients are told
    NoRound     \* the value of `current` before the first round

VARIABLES
    decided,    \* the rounds the group has decided
    adopted     \* the round each client holds as its current one, and its height

rvars == <<decided, adopted>>

RoundsInit ==
    /\ decided = {}
    /\ adopted = [c \in Clients |-> NoRound]

Decide(r) ==
    /\ \A d \in decided : HeightOf[d] # HeightOf[r]
    /\ decided' = decided \cup {r}
    /\ UNCHANGED adopted

Adopt(c, h, r) ==
    /\ r \in decided
    /\ adopted[c] # NoRound => adopted[c].height < h
    /\ adopted' = [adopted EXCEPT ![c] = [height |-> h, round |-> r]]
    /\ UNCHANGED decided

RoundsNext ==
    \/ \E r \in Rounds : Decide(r)
    \/ \E c \in Clients, h \in Heights, r \in Rounds : Adopt(c, h, r)

RoundsSpec == RoundsInit /\ [][RoundsNext]_rvars
=============================================================================
