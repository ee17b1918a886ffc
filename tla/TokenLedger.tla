----------------------------- MODULE TokenLedger -----------------------------
(***************************************************************************)
(* The token ledger that every chain tree carries (consensus/              *)
(* tree_ledger.go) and the four token transactions that change it          *)
(* (consensus/transactions.go), over several chain trees that send tokens  *)
(* to one another.                                                         *)
(*                                                                         *)
(* A tree is changed by its owner alone, one block after the other.  A     *)
(* receiver is handed a payload the sender made from its tree              *)
(* (TokenPayloadForTransaction), late, more than once, or never.  The id   *)
(* it receives a send under is a field of its own transaction.             *)
(*                                                                         *)
(* Nodes are addressed by their content: two tokens with the same record   *)
(* are the same node.  Token names are canonical, <did, local name>, or    *)
(* short, a local name.                                                    *)
(***************************************************************************)
EXTENDS Naturals, Sequences, FiniteSets, Functions

CONSTANTS
    Trees,      \* the chain trees (their DIDs)
    Locals,     \* local token names
    Ids,        \* ids of send transactions: the sender chooses the id of a send, the
                \* receiver the id of a receive
    Amounts,    \* the amounts the transactions may carry
    Maxima,     \* the maxima a monetary policy may set, 0 for none
    MaxUint,    \* the largest uint64
    MaxTxs,     \* bound: the number of transactions
    NoToken,    \* a token the tree does not hold
    NoPolicy,   \* a token without a monetary policy node
    Burn        \* the empty destination

ASSUME UintAssumption ==
    /\ MaxUint \in Nat \ {0}
    /\ Amounts \subseteq 0 .. MaxUint /\ Maxima \subseteq 0 .. MaxUint
    /\ NoPolicy \notin Nat
    /\ MaxTxs \in Nat

ASSUME TreesAssumption == IsFiniteSet(Trees) /\ Burn \notin Trees

Tokens == [did : Trees, local : Locals]
Names == Tokens \cup Locals
Destinations == Trees \cup {Burn}

ASSUME LocalsAssumption == Locals \cap Tokens = {}

VARIABLES
    ledger,     \* per tree and token: the Token node, or NoToken
    payloads,   \* the token payloads senders have made
    txs         \* the number of transactions so far

vars == <<ledger, payloads, txs>>

\* uint64 arithmetic.
Wrap(n) == n % (MaxUint + 1)

Sum(s) == SumFunction([i \in DOMAIN s |-> s[i].amount])

Held(t) == {k \in Tokens : ledger[t][k] # NoToken}

Init ==
    /\ ledger = [t \in Trees |-> [k \in Tokens |-> NoToken]]
    /\ payloads = {}
    /\ txs = 0
-----------------------------------------------------------------------------
(* CanonicalTokenName: a canonical name stands for itself, and the          *)
(* transactions that require it accept their own tree's tokens only; a      *)
(* short name is looked up among the tokens the tree holds, must not be     *)
(* ambiguous, and falls back on the tree's own token of that name.          *)
Matching(t, name) == {k \in Held(t) : k.local = name}

NameResolves(t, name, requireDefault) ==
    IF name \in Tokens THEN requireDefault => name.did = t
                       ELSE Cardinality(Matching(t, name)) <= 1

CanonicalTokenName(t, name) ==
    IF name \in Tokens THEN name
    ELSE IF Matching(t, name) # {} THEN CHOOSE k \in Matching(t, name) : TRUE
    ELSE [did |-> t, local |-> name]

\* createToken: an empty token with balance 0.
EmptyToken(policy) ==
    [policy |-> policy, mints |-> <<>>, sends |-> <<>>, receives |-> <<>>, balance |-> 0]

\* A transaction replaces one token node of one tree.
Update(t, k, token) ==
    /\ txs < MaxTxs /\ txs' = txs + 1
    /\ ledger' = [ledger EXCEPT ![t][k] = token]
    /\ UNCHANGED payloads

EstablishToken(t, name, maximum) ==
    LET k == CanonicalTokenName(t, name)
    IN  /\ NameResolves(t, name, TRUE)
        /\ ledger[t][k] = NoToken
        /\ Update(t, k, EmptyToken(maximum))

\* "if (currentMintedTotal + amount) > monetaryPolicy.Maximum", in uint64.
MintAllowed(token, amount) ==
    token.policy > 0 => Wrap(Sum(token.mints) + amount) <= token.policy

\* TreeLedger.MintToken: the mint is appended and the balance raised.
Minting(token, amount) ==
    [token EXCEPT !.mints = Append(@, [amount |-> amount]),
                  !.balance = Wrap(@ + amount)]

\* Mutant of MintToken: a token without a monetary policy is minted without limit.
MintWithoutPolicy(t, name, amount) ==
    LET k == CanonicalTokenName(t, name)
        token == ledger[t][k]
    IN  /\ NameResolves(t, name, TRUE)
        /\ amount # 0
        /\ token # NoToken
        /\ token.policy = NoPolicy \/ MintAllowed(token, amount)
        /\ Update(t, k, Minting(token, amount))

\* A token without a monetary policy node, one that was only received, cannot be
\* minted: resolving its policy fails.
MintToken(t, name, amount) ==
    LET k == CanonicalTokenName(t, name)
        token == ledger[t][k]
    IN  /\ NameResolves(t, name, TRUE)
        /\ amount # 0
        /\ token # NoToken /\ token.policy # NoPolicy
        /\ MintAllowed(token, amount)
        /\ Update(t, k, Minting(token, amount))

\* Mutant of CanSend: one more than the balance may be sent.
CanSendOneMore(token, amount) == amount # 0 /\ amount <= token.balance + 1

CanSend(token, amount) == amount # 0 /\ amount <= token.balance

\* Mutant of Debited: the balance is not written back.
NotDebited(balance, amount) == balance

\* The new balance of the sender: uint64 subtraction.
Debited(balance, amount) == Wrap(balance + (MaxUint + 1) - amount)

\* TreeLedger.SendToken.  Nothing compares the id with the ids of earlier sends.
Sending(token, id, to, amount) ==
    [token EXCEPT !.sends = Append(@, [id |-> id, amount |-> amount, to |-> to]),
                  !.balance = Debited(@, amount)]

SendToken(t, name, id, to, amount) ==
    LET k == CanonicalTokenName(t, name)
        token == ledger[t][k]
    IN  /\ NameResolves(t, name, FALSE)
        /\ token # NoToken
        /\ CanSend(token, amount)
        /\ Update(t, k, Sending(token, id, to, amount))

\* The nodes on the path to a send include the token node and the node of all
\* tokens, so every name that leads to an equal token node can be read from them.
allSendTokenNodes(t, k) == {n \in Tokens : ledger[t][n] = ledger[t][k]}

\* TokenPayloadForTransaction: the first send with that id, with these nodes.
MakePayload(t, k, id) ==
    /\ ledger[t][k] # NoToken
    /\ \E i \in DOMAIN ledger[t][k].sends :
         /\ ledger[t][k].sends[i].id = id
         /\ \A j \in 1 .. i - 1 : ledger[t][k].sends[j].id # id
         /\ payloads' = payloads \cup
              {[from |-> t, token |-> k, send |-> ledger[t][k].sends[i],
                names |-> allSendTokenNodes(t, k)]}
    /\ UNCHANGED <<ledger, txs>>

\* Mutant of AlreadyReceived: only the last receive is looked at.
AlreadyReceivedLast(token, id) ==
    token.receives # <<>> /\ token.receives[Len(token.receives)].id = id

AlreadyReceived(token, id) == \E i \in DOMAIN token.receives : token.receives[i].id = id

\* TreeLedger.ReceiveToken: the receive is appended and the balance raised.
Receiving(token, id, amount) ==
    [token EXCEPT !.receives = Append(@, [id |-> id, amount |-> amount]),
                  !.balance = Wrap(@ + amount)]

\* Mutant of NamesInPayload: any token of the sender is taken.
AnyName(p) == Tokens

\* GetTokenNameFromReceive takes the first key, in Go's map order, whose node is
\* in the payload.
NamesInPayload(p) == p.names

\* Mutant of IsTokenRecipient: the destination is not looked at.
AnyRecipient(t, p) == TRUE

\* IsTokenRecipient: the send in the payload is addressed to this tree.
IsTokenRecipient(t, p) == p.send.to = t

\* ReceiveTokenTransaction behind IsTokenRecipient.  A payload's proof is that of
\* the tip it was made from.  The amount is that of the send in the payload, the id
\* is SendTokenTransactionId of the receiver's transaction, which nothing compares
\* with the id of the send.
ReceiveToken(t, p, k, id) ==
    LET token == IF ledger[t][k] = NoToken THEN EmptyToken(NoPolicy) ELSE ledger[t][k]
    IN  /\ IsTokenRecipient(t, p)
        /\ k \in NamesInPayload(p)
        /\ ~AlreadyReceived(token, id)
        /\ Update(t, k, Receiving(token, id, p.send.amount))
-----------------------------------------------------------------------------
Next ==
    \/ \E t \in Trees, n \in Names, m \in Maxima : EstablishToken(t, n, m)
    \/ \E t \in Trees, n \in Names, a \in Amounts : MintToken(t, n, a)
    \/ \E t \in Trees, n \in Names, id \in Ids, to \in Destinations, a \in Amounts :
         SendToken(t, n, id, to, a)
    \/ \E t \in Trees, k \in Tokens, id \in Ids : MakePayload(t, k, id)
    \/ \E t \in Trees, p \in payloads, k \in Tokens, id \in Ids : ReceiveToken(t, p, k, id)

Spec == Init /\ [][Next]_vars
-----------------------------------------------------------------------------
Sends == [id : Ids, amount : Amounts, to : Destinations]
TokenNodes ==
    [policy : Maxima \cup {NoPolicy}, mints : Seq([amount : Amounts]), sends : Seq(Sends),
     receives : Seq([id : Ids, amount : Amounts]), balance : 0 .. MaxUint]

ASSUME NoTokenAssumption == NoToken \notin TokenNodes

\* The Token nodes and payloads are well formed and a balance is a uint64.
TypeOK ==
    /\ ledger \in [Trees -> [Tokens -> TokenNodes \cup {NoToken}]]
    /\ payloads \subseteq [from : Trees, token : Tokens, send : Sends, names : SUBSET Tokens]
    /\ txs \in 0 .. MaxTxs

\* The balance a tree stores is what its own history adds up to, in uint64: what
\* it minted and received, less what it sent.
BalanceMatchesHistory ==
    \A t \in Trees : \A k \in Held(t) :
        LET token == ledger[t][k]
        IN  Wrap(token.balance + Sum(token.sends)) =
            Wrap(Sum(token.mints) + Sum(token.receives))

\* A tree never sent more than it minted and received: a wrapped balance only
\* ever loses tokens.
NeverOverspent ==
    \A t \in Trees : \A k \in Held(t) :
        Sum(ledger[t][k].sends) + ledger[t][k].balance
          <= Sum(ledger[t][k].mints) + Sum(ledger[t][k].receives)

SendsOf(t, k) == IF ledger[t][k] = NoToken THEN <<>> ELSE ledger[t][k].sends

\* Whatever a tree has received of a token was sent to it in that amount by a tree that
\* held that token, however payloads are repeated and whatever name is read from them;
\* and an id was received once.
ReceivedWasSent ==
    \A t \in Trees : \A k \in Held(t) :
        LET receives == ledger[t][k].receives
        IN  /\ \A i \in DOMAIN receives : \E u \in Trees : \E s \in Range(SendsOf(u, k)) :
                 s.to = t /\ s.amount = receives[i].amount
            /\ \A i, j \in DOMAIN receives : receives[i].id = receives[j].id => i = j

\* The receivers of a token gave the ids of the sends: every receive has a send of that
\* id and amount to its tree.
ReceivedUnderSentIds(k) ==
    \A t \in Trees : ledger[t][k] # NoToken =>
        LET receives == ledger[t][k].receives
        IN  \A i \in DOMAIN receives : \E u \in Trees :
              [id |-> receives[i].id, amount |-> receives[i].amount, to |-> t]
                \in Range(SendsOf(u, k))

Minted(k) ==
    IF ledger[k.did][k] = NoToken THEN 0 ELSE Sum(ledger[k.did][k].mints)
Balance(t, k) == IF ledger[t][k] = NoToken THEN 0 ELSE ledger[t][k].balance

\* As long as the receivers of a token give the ids of its sends, all its balances
\* together never exceed what its own tree minted.
NoInflation ==
    \A k \in Tokens : ReceivedUnderSentIds(k) =>
        SumFunction([t \in Trees |-> Balance(t, k)]) <= Minted(k)

\* "TestReceiveTokenInvalidDoubleReceive" (transactions_test.go:725): a send is not
\* received twice, so a tree receives no more of a token than was sent to it.
SentTo(t, k) ==
    SumFunction([u \in Trees |-> Sum(SelectSeq(SendsOf(u, k), LAMBDA s : s.to = t))])
NoDoubleReceive ==
    \A t \in Trees : \A k \in Held(t) : Sum(ledger[t][k].receives) <= SentTo(t, k)

\* "cannot mint more than monetary policy allows" (tree_ledger_test.go:69).
MaximumRespected ==
    \A t \in Trees : \A k \in Held(t) :
        ledger[t][k].policy \notin {0, NoPolicy} =>
            Sum(ledger[t][k].mints) <= ledger[t][k].policy
=============================================================================
