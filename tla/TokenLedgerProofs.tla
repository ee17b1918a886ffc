-------------------------- MODULE TokenLedgerProofs --------------------------
(***************************************************************************)
(* Theorems about TokenLedger, for every finite set of trees and every     *)
(* number of tokens, ids, amounts and transactions, and for every width of *)
(* the unsigned integers.                                                  *)
(***************************************************************************)
EXTENDS TokenLedger, FiniteSetTheorems, TLAPS

\* A name stands for a token.
LEMMA CanonicalType ==
    ASSUME NEW t \in Trees, NEW name \in Names
    PROVE  CanonicalTokenName(t, name) \in Tokens
  <1>1. CASE name \in Tokens
    BY <1>1 DEF CanonicalTokenName
  <1>2. CASE name \notin Tokens /\ Matching(t, name) # {}
    <2>1. (CHOOSE k \in Matching(t, name) : TRUE) \in Matching(t, name)
      BY <1>2
    <2> QED
      BY <1>2, <2>1 DEF CanonicalTokenName, Matching, Held
  <1>3. CASE name \notin Tokens /\ Matching(t, name) = {}
    BY <1>3 DEF CanonicalTokenName, Names, Tokens
  <1> QED
    BY <1>1, <1>2, <1>3

\* What a transaction makes of the token node it replaces.
Replaces(t, k, token) ==
    \/ /\ ledger[t][k] = NoToken /\ k.did = t
       /\ \E m \in Maxima : token = EmptyToken(m)
    \/ /\ ledger[t][k] \in TokenNodes /\ ledger[t][k].policy # NoPolicy
       /\ \E a \in Amounts : token = Minting(ledger[t][k], a)
    \/ /\ ledger[t][k] \in TokenNodes
       /\ \E id \in Ids, to \in Destinations, a \in Amounts :
            CanSend(ledger[t][k], a) /\ token = Sending(ledger[t][k], id, to, a)
    \/ \E p \in payloads, id \in Ids, old \in TokenNodes :
         /\ old = IF ledger[t][k] = NoToken THEN EmptyToken(NoPolicy) ELSE ledger[t][k]
         /\ IsTokenRecipient(t, p) /\ k \in p.names /\ ~AlreadyReceived(old, id)
         /\ token = Receiving(old, id, p.send.amount)

\* Wrapped numbers are uint64.
LEMMA WrapType == \A n \in Nat : Wrap(n) \in 0 .. MaxUint
  <1> TAKE n \in Nat
  <1>1. MaxUint \in Nat /\ MaxUint + 1 \in Nat \ {0}
    BY UintAssumption
  <1>2. n % (MaxUint + 1) \in 0 .. (MaxUint + 1) - 1
    BY <1>1
  <1> QED
    BY <1>1, <1>2 DEF Wrap

\* The nodes that transactions write.
LEMMA EmptyTokenType == \A m \in Maxima \cup {NoPolicy} : EmptyToken(m) \in TokenNodes
  <1>1. 0 \in 0 .. MaxUint
    BY UintAssumption
  <1> QED
    BY <1>1 DEF EmptyToken, TokenNodes

\* What a mint, a send and a receive write is a Token node again.
LEMMA NodeTypes ==
    ASSUME NEW token \in TokenNodes
    PROVE  /\ \A a \in Amounts : Minting(token, a) \in TokenNodes
           /\ \A id \in Ids, to \in Destinations, a \in Amounts :
                CanSend(token, a) => Sending(token, id, to, a) \in TokenNodes
           /\ \A id \in Ids, a \in Amounts : Receiving(token, id, a) \in TokenNodes
  <1>1. \A a \in Amounts : a \in Nat /\ a <= MaxUint
    BY UintAssumption
  <1>2. token.balance \in Nat /\ token.balance <= MaxUint /\ MaxUint \in Nat
    BY UintAssumption DEF TokenNodes
  <1>3. ASSUME NEW a \in Amounts PROVE Minting(token, a) \in TokenNodes
    <2>1. Wrap(token.balance + a) \in 0 .. MaxUint
      BY <1>1, <1>2, WrapType
    <2>2. Append(token.mints, [amount |-> a]) \in Seq([amount : Amounts])
      BY DEF TokenNodes
    <2> QED
      BY <2>1, <2>2 DEF Minting, TokenNodes
  <1>4. ASSUME NEW id \in Ids, NEW to \in Destinations, NEW a \in Amounts, CanSend(token, a)
        PROVE  Sending(token, id, to, a) \in TokenNodes
    <2>1. token.balance + (MaxUint + 1) - a \in Nat
      BY <1>1, <1>2
    <2>2. Debited(token.balance, a) \in 0 .. MaxUint
      BY <2>1, WrapType DEF Debited
    <2>3. Append(token.sends, [id |-> id, amount |-> a, to |-> to]) \in Seq(Sends)
      BY DEF TokenNodes, Sends
    <2> QED
      BY <2>2, <2>3 DEF Sending, TokenNodes
  <1>5. ASSUME NEW id \in Ids, NEW a \in Amounts PROVE Receiving(token, id, a) \in TokenNodes
    <2>1. Wrap(token.balance + a) \in 0 .. MaxUint
      BY <1>1, <1>2, WrapType
    <2>2. Append(token.receives, [id |-> id, amount |-> a]) \in Seq([id : Ids, amount : Amounts])
      BY DEF TokenNodes
    <2> QED
      BY <2>1, <2>2 DEF Receiving, TokenNodes
  <1> QED
    BY <1>3, <1>4, <1>5

\* Every step replaces one token node, in one of four ways, or makes a payload.
LEMMA NextCases ==
    ASSUME TypeOK, Next
    PROVE  \/ \E t \in Trees, k \in Tokens : \E token \in TokenNodes :
                Update(t, k, token) /\ Replaces(t, k, token)
           \/ \E t \in Trees, k \in Tokens, id \in Ids : MakePayload(t, k, id)
  <1> DEFINE Goal == \E t \in Trees, k \in Tokens : \E token \in TokenNodes :
                       Update(t, k, token) /\ Replaces(t, k, token)
  <1>0. \A t \in Trees, k \in Tokens : ledger[t][k] # NoToken => ledger[t][k] \in TokenNodes
    BY DEF TypeOK
  <1>1. ASSUME NEW t \in Trees, NEW n \in Names, NEW m \in Maxima, EstablishToken(t, n, m)
        PROVE  Goal
    <2> DEFINE k == CanonicalTokenName(t, n)
    <2>1. k \in Tokens /\ ledger[t][k] = NoToken /\ Update(t, k, EmptyToken(m))
      BY <1>1, CanonicalType DEF EstablishToken
    <2>2. k.did = t
      <3>1. CASE n \in Tokens
        BY <1>1, <3>1 DEF EstablishToken, NameResolves, CanonicalTokenName
      <3>2. CASE n \notin Tokens /\ Matching(t, n) # {}
        <4>1. k \in Matching(t, n)
          BY <3>2 DEF CanonicalTokenName
        <4> QED
          BY <2>1, <4>1 DEF Matching, Held
      <3>3. CASE n \notin Tokens /\ Matching(t, n) = {}
        BY <3>3 DEF CanonicalTokenName
      <3> QED
        BY <3>1, <3>2, <3>3
    <2> HIDE DEF k
    <2>3. Replaces(t, k, EmptyToken(m)) /\ EmptyToken(m) \in TokenNodes
      BY <2>1, <2>2, EmptyTokenType DEF Replaces
    <2> QED
      BY <2>1, <2>3
  <1>2. ASSUME NEW t \in Trees, NEW n \in Names, NEW a \in Amounts, MintToken(t, n, a)
        PROVE  Goal
    <2> DEFINE k == CanonicalTokenName(t, n)
    <2>1. /\ k \in Tokens /\ ledger[t][k] # NoToken /\ ledger[t][k].policy # NoPolicy
          /\ Update(t, k, Minting(ledger[t][k], a))
      BY <1>2, CanonicalType DEF MintToken
    <2> HIDE DEF k
    <2>2. Replaces(t, k, Minting(ledger[t][k], a)) /\ Minting(ledger[t][k], a) \in TokenNodes
      BY <1>0, <2>1, NodeTypes DEF Replaces
    <2> QED
      BY <2>1, <2>2
  <1>3. ASSUME NEW t \in Trees, NEW n \in Names, NEW id \in Ids, NEW to \in Destinations,
               NEW a \in Amounts, SendToken(t, n, id, to, a)
        PROVE  Goal
    <2> DEFINE k == CanonicalTokenName(t, n)
    <2>1. /\ k \in Tokens /\ ledger[t][k] # NoToken /\ CanSend(ledger[t][k], a)
          /\ Update(t, k, Sending(ledger[t][k], id, to, a))
      BY <1>3, CanonicalType DEF SendToken
    <2> HIDE DEF k
    <2>2. /\ Replaces(t, k, Sending(ledger[t][k], id, to, a))
          /\ Sending(ledger[t][k], id, to, a) \in TokenNodes
      BY <1>0, <2>1, NodeTypes DEF Replaces
    <2> QED
      BY <2>1, <2>2
  <1>4. ASSUME NEW t \in Trees, NEW p \in payloads, NEW k \in Tokens, NEW id \in Ids,
               ReceiveToken(t, p, k, id)
        PROVE  Goal
    <2> DEFINE old == IF ledger[t][k] = NoToken THEN EmptyToken(NoPolicy) ELSE ledger[t][k]
    <2>1. old \in TokenNodes /\ p.send.amount \in Amounts
      BY <1>0, EmptyTokenType DEF TypeOK, Sends
    <2>2. /\ IsTokenRecipient(t, p) /\ k \in p.names /\ ~AlreadyReceived(old, id)
          /\ Update(t, k, Receiving(old, id, p.send.amount))
      BY <1>4 DEF ReceiveToken, NamesInPayload
    <2>3. Receiving(old, id, p.send.amount) \in TokenNodes
      BY <2>1, NodeTypes
    <2>4. Replaces(t, k, Receiving(old, id, p.send.amount))
      BY <2>1, <2>2 DEF Replaces
    <2> HIDE DEF old
    <2> QED
      BY <2>2, <2>3, <2>4
  <1> QED
    BY <1>1, <1>2, <1>3, <1>4 DEF Next

\* One node of one tree is replaced and everything else stays.
LEMMA UpdateEffect ==
    ASSUME TypeOK, NEW t \in Trees, NEW k \in Tokens, NEW token \in TokenNodes,
           Update(t, k, token)
    PROVE  /\ TypeOK'
           /\ ledger'[t][k] = token /\ token # NoToken /\ payloads' = payloads
           /\ \A u \in Trees, n \in Tokens : u # t \/ n # k => ledger'[u][n] = ledger[u][n]
  <1>1. /\ ledger \in [Trees -> [Tokens -> TokenNodes \cup {NoToken}]]
        /\ ledger' = [ledger EXCEPT ![t] = [ledger[t] EXCEPT ![k] = token]]
        /\ payloads' = payloads
    BY DEF TypeOK, Update
  <1>2. ledger' \in [Trees -> [Tokens -> TokenNodes \cup {NoToken}]]
    BY <1>1
  <1>3. txs' \in 0 .. MaxTxs
    BY UintAssumption DEF TypeOK, Update
  <1>4. TypeOK'
    BY <1>1, <1>2, <1>3 DEF TypeOK
  <1>5. /\ ledger'[t][k] = token
        /\ \A u \in Trees, n \in Tokens : u # t \/ n # k => ledger'[u][n] = ledger[u][n]
    BY <1>1
  <1> QED
    BY <1>1, <1>4, <1>5, NoTokenAssumption

\* A payload holds one of the sends of the tree it is made from, whose node the names in
\* it lead to.
LEMMA PayloadEffect ==
    ASSUME TypeOK, NEW t \in Trees, NEW k \in Tokens, NEW id \in Ids, MakePayload(t, k, id)
    PROVE  /\ TypeOK' /\ UNCHANGED ledger
           /\ \E send \in Sends, names \in SUBSET Tokens :
                /\ payloads' = payloads \cup
                     {[from |-> t, token |-> k, send |-> send, names |-> names]}
                /\ \A n \in names : send \in Range(SendsOf(t, n))
  <1>1. PICK i \in DOMAIN ledger[t][k].sends :
          payloads' = payloads \cup {[from |-> t, token |-> k, send |-> ledger[t][k].sends[i],
                                      names |-> allSendTokenNodes(t, k)]}
    BY DEF MakePayload
  <1>2. /\ ledger[t][k] # NoToken /\ ledger[t][k] \in TokenNodes
        /\ UNCHANGED <<ledger, txs>>
    BY DEF MakePayload, TypeOK
  <1> DEFINE send == ledger[t][k].sends[i]
             names == allSendTokenNodes(t, k)
  <1>3. send \in Sends
    <2>1. ledger[t][k].sends \in Seq(Sends)
      BY <1>2 DEF TokenNodes
    <2> QED
      BY <1>1, <2>1
  <1>4. names \in SUBSET Tokens /\ \A n \in names : send \in Range(SendsOf(t, n))
    BY <1>1, <1>2 DEF allSendTokenNodes, SendsOf, Range
  <1>5. TypeOK'
    BY <1>1, <1>2, <1>3, <1>4 DEF TypeOK
  <1> HIDE DEF send, names
  <1> QED
    BY <1>1, <1>2, <1>3, <1>4, <1>5 DEF send, names

\* The Token nodes and payloads are well formed and balances are uint64.
THEOREM TypeCorrect == Spec => []TypeOK
  <1>1. Init => TypeOK
    BY UintAssumption DEF Init, TypeOK
  <1>2. TypeOK /\ [Next]_vars => TypeOK'
    <2> SUFFICES ASSUME TypeOK, [Next]_vars PROVE TypeOK'
      OBVIOUS
    <2>1. CASE Next
      BY <2>1, NextCases, UpdateEffect, PayloadEffect
    <2>2. CASE UNCHANGED vars
      BY <2>2 DEF vars, TypeOK
    <2> QED
      BY <2>1, <2>2
  <1> QED
    BY <1>1, <1>2, PTL DEF Spec
-----------------------------------------------------------------------------
(* Sends and receives.                                                      *)

\* Every name in a payload leads to the send it carries, in the tree it was made from.
PayloadsSent == \A p \in payloads : \A n \in p.names : p.send \in Range(SendsOf(p.from, n))

\* A sequence keeps its elements when one is appended.
LEMMA AppendRange ==
    ASSUME NEW S, NEW s \in Seq(S), NEW e \in S
    PROVE  Range(s) \subseteq Range(Append(s, e))
  <1>1. DOMAIN s = 1 .. Len(s) /\ DOMAIN Append(s, e) = 1 .. Len(s) + 1
    OBVIOUS
  <1>2. \A i \in DOMAIN s : i \in DOMAIN Append(s, e) /\ Append(s, e)[i] = s[i]
    BY <1>1
  <1> QED
    BY <1>2 DEF Range

\* A tree never forgets a send.
LEMMA SendsGrow ==
    ASSUME TypeOK, NEW t \in Trees, NEW k \in Tokens, NEW token \in TokenNodes,
           Update(t, k, token), Replaces(t, k, token)
    PROVE  \A u \in Trees, n \in Tokens : Range(SendsOf(u, n)) \subseteq Range(SendsOf(u, n)')
  <1> TAKE u \in Trees, n \in Tokens
  <1>1. CASE u # t \/ n # k
    BY <1>1, UpdateEffect DEF SendsOf
  <1>2. CASE u = t /\ n = k
    <2>1. SendsOf(u, n)' = token.sends
      BY <1>2, UpdateEffect DEF SendsOf
    <2>2. CASE ledger[t][k] = NoToken
      BY <1>2, <2>2 DEF SendsOf, Range
    <2>3. CASE ledger[t][k] # NoToken
      <3>1. PICK old : old = ledger[t][k]
        OBVIOUS
      <3>2. /\ old \in TokenNodes /\ old.sends \in Seq(Sends)
            /\ SendsOf(u, n) = old.sends
        BY <1>2, <2>3, <3>1 DEF TypeOK, TokenNodes, SendsOf
      <3>3. \/ token.sends = old.sends
            \/ \E e \in Sends : token.sends = Append(old.sends, e)
        BY <2>3, <3>1, <3>2 DEF Replaces, Minting, Sending, Receiving, TokenNodes, Sends
      <3> QED
        BY <2>1, <3>2, <3>3, AppendRange
    <2> QED
      BY <2>2, <2>3
  <1> QED
    BY <1>1, <1>2

\* From the receives of a token to the ones it has in the node that replaces it.
ReceivesBecome(t, k, receives, token) ==
    /\ receives = IF ledger[t][k] = NoToken THEN <<>> ELSE ledger[t][k].receives
    /\ \/ token.receives = receives
       \/ \E p \in payloads, id \in Ids :
            /\ p.send.to = t /\ k \in p.names
            /\ \A i \in DOMAIN receives : receives[i].id # id
            /\ token.receives = Append(receives, [id |-> id, amount |-> p.send.amount])

\* The receives of a node: the ones there were, and under an id that is new the amount of
\* a payload's send to this tree.
LEMMA ReceivesStep ==
    ASSUME TypeOK, NEW t \in Trees, NEW k \in Tokens, NEW token \in TokenNodes,
           Replaces(t, k, token)
    PROVE  \E receives \in Seq([id : Ids, amount : Amounts]) :
             ReceivesBecome(t, k, receives, token)
  <1>1. PICK receives :
          receives = IF ledger[t][k] = NoToken THEN <<>> ELSE ledger[t][k].receives
    OBVIOUS
  <1>2. receives \in Seq([id : Ids, amount : Amounts])
    <2>1. CASE ledger[t][k] = NoToken
      BY <1>1, <2>1
    <2>2. CASE ledger[t][k] # NoToken
      <3>1. ledger[t][k] \in TokenNodes
        BY <2>2 DEF TypeOK
      <3>2. ledger[t][k].receives \in Seq([id : Ids, amount : Amounts])
        BY ONLY <3>1 DEF TokenNodes
      <3> QED
        BY ONLY <1>1, <2>2, <3>2
    <2> QED
      BY <2>1, <2>2
  <1> SUFFICES ReceivesBecome(t, k, receives, token)
    BY <1>2
  <1>3. CASE ledger[t][k] = NoToken /\ \E m \in Maxima : token = EmptyToken(m)
    <2>1. receives = <<>> /\ token.receives = <<>>
      BY <1>1, <1>3 DEF EmptyToken
    <2> QED
      BY <1>1, <1>2, <2>1 DEF ReceivesBecome
  <1>4. CASE /\ ledger[t][k] \in TokenNodes
             /\ \E a \in Amounts : token = Minting(ledger[t][k], a)
    BY <1>1, <1>2, <1>4, NoTokenAssumption DEF Minting, TokenNodes, ReceivesBecome
  <1>5. CASE /\ ledger[t][k] \in TokenNodes
             /\ \E id \in Ids, to \in Destinations, a \in Amounts :
                  token = Sending(ledger[t][k], id, to, a)
    BY <1>1, <1>2, <1>5, NoTokenAssumption DEF Sending, TokenNodes, ReceivesBecome
  <1>6. ASSUME NEW p \in payloads, NEW id \in Ids, NEW old \in TokenNodes,
               old = IF ledger[t][k] = NoToken THEN EmptyToken(NoPolicy) ELSE ledger[t][k],
               IsTokenRecipient(t, p), k \in p.names, ~AlreadyReceived(old, id),
               token = Receiving(old, id, p.send.amount)
        PROVE  ReceivesBecome(t, k, receives, token)
    <2>1. old.receives = receives
      BY <1>1, <1>6 DEF EmptyToken
    <2>2. /\ p.send.to = t /\ k \in p.names
          /\ \A i \in DOMAIN receives : receives[i].id # id
          /\ token.receives = Append(receives, [id |-> id, amount |-> p.send.amount])
      BY <1>6, <2>1 DEF IsTokenRecipient, AlreadyReceived, Receiving, TokenNodes
    <2> QED
      BY <1>1, <2>2 DEF ReceivesBecome
  <1> QED
    BY <1>3, <1>4, <1>5, <1>6 DEF Replaces

\* What is received was sent, and its id is new, whatever the steps before it: the payload
\* it came with holds a send that the sender's tree still has.
LEMMA ReceivedStep ==
    ASSUME TypeOK, PayloadsSent, ReceivedWasSent, NEW t \in Trees, NEW k \in Tokens,
           NEW token \in TokenNodes, Update(t, k, token), Replaces(t, k, token)
    PROVE  PayloadsSent' /\ ReceivedWasSent'
  <1>0. \A p \in payloads : p.from \in Trees /\ p.send \in Sends /\ p.names \in SUBSET Tokens
    BY DEF TypeOK
  <1>1. PayloadsSent'
    <2> SUFFICES ASSUME NEW p \in payloads, NEW n \in p.names
                 PROVE  p.send \in Range(SendsOf(p.from, n)')
      BY UpdateEffect DEF PayloadsSent
    <2>1. p.send \in Range(SendsOf(p.from, n)) /\ p.from \in Trees /\ n \in Tokens
      BY <1>0 DEF PayloadsSent
    <2> QED
      BY <2>1, SendsGrow
  <1>2. PICK receives \in Seq([id : Ids, amount : Amounts]) :
          ReceivesBecome(t, k, receives, token)
    BY ReceivesStep
  <1> DEFINE Sent(u, n, rs) ==
               /\ \A i \in DOMAIN rs : \E v \in Trees : \E s \in Range(SendsOf(v, n)) :
                    s.to = u /\ s.amount = rs[i].amount
               /\ \A i, j \in DOMAIN rs : rs[i].id = rs[j].id => i = j
             SentNow(u, n, rs) ==
               /\ \A i \in DOMAIN rs : \E v \in Trees : \E s \in Range(SendsOf(v, n)') :
                    s.to = u /\ s.amount = rs[i].amount
               /\ \A i, j \in DOMAIN rs : rs[i].id = rs[j].id => i = j
  <1>3. \A u \in Trees, n \in Tokens : \A rs : Sent(u, n, rs) => SentNow(u, n, rs)
    BY SendsGrow
  <1>4. Sent(t, k, receives)
    <2>1. CASE ledger[t][k] = NoToken
      BY <1>2, <2>1 DEF ReceivesBecome
    <2>2. CASE ledger[t][k] # NoToken
      <3>1. receives = ledger[t][k].receives
        BY <1>2, <2>2 DEF ReceivesBecome
      <3>2. k \in Held(t)
        BY <2>2 DEF Held
      <3>3. Sent(t, k, ledger[t][k].receives)
        BY <3>2, Zenon DEF ReceivedWasSent
      <3> HIDE DEF Sent
      <3> QED
        BY <3>1, <3>3
    <2> QED
      BY <2>1, <2>2
  <1>5. SentNow(t, k, token.receives)
    <2>1. CASE token.receives = receives
      BY <1>3, <1>4, <2>1
    <2>2. ASSUME NEW p \in payloads, NEW id \in Ids, p.send.to = t, k \in p.names,
                 \A i \in DOMAIN receives : receives[i].id # id,
                 token.receives = Append(receives, [id |-> id, amount |-> p.send.amount])
          PROVE  SentNow(t, k, token.receives)
      <3> DEFINE new == [id |-> id, amount |-> p.send.amount]
                 last == Len(receives) + 1
      <3>1. new \in [id : Ids, amount : Amounts] /\ p.send \in Sends
        BY <1>0 DEF Sends
      <3>2. /\ DOMAIN token.receives = DOMAIN receives \cup {last} /\ last \notin DOMAIN receives
            /\ token.receives[last] = new
            /\ \A i \in DOMAIN receives : token.receives[i] = receives[i]
        BY <2>2, <3>1
      <3>3. new.id = id /\ p.send.to = t /\ p.send.amount = new.amount
        BY <2>2
      <3>4. p.from \in Trees /\ p.send \in Range(SendsOf(p.from, k)')
        BY <1>0, <2>2, SendsGrow DEF PayloadsSent
      <3>5. SentNow(t, k, receives)
        BY <1>3, <1>4
      <3> HIDE DEF new, last
      <3>6. ASSUME NEW i \in DOMAIN token.receives
            PROVE  \E v \in Trees : \E s \in Range(SendsOf(v, k)') :
                     s.to = t /\ s.amount = token.receives[i].amount
        BY <3>2, <3>3, <3>4, <3>5
      <3>7. ASSUME NEW i \in DOMAIN token.receives, NEW j \in DOMAIN token.receives,
                   token.receives[i].id = token.receives[j].id
            PROVE  i = j
        BY <2>2, <3>2, <3>3, <3>5, <3>7
      <3> QED
        BY <3>6, <3>7
    <2> QED
      BY <1>2, <2>1, <2>2 DEF ReceivesBecome
  <1>6. ASSUME NEW u \in Trees, NEW n \in Tokens, ledger'[u][n] # NoToken
        PROVE  SentNow(u, n, ledger'[u][n].receives)
    <2>1. CASE u = t /\ n = k
      BY <1>5, <2>1, UpdateEffect
    <2>2. CASE u # t \/ n # k
      <3>1. ledger'[u][n] = ledger[u][n]
        BY <2>2, UpdateEffect
      <3>2. Sent(u, n, ledger[u][n].receives)
        BY <1>6, <3>1 DEF ReceivedWasSent, Held
      <3> HIDE DEF Sent, SentNow
      <3> QED
        BY <1>3, <3>1, <3>2
    <2> QED
      BY <2>1, <2>2
  <1>7. ReceivedWasSent'
    BY <1>6 DEF ReceivedWasSent, Held
  <1> QED
    BY <1>1, <1>7

\* Whatever a tree has received of a token was sent to it in that amount by a tree that
\* held that token, in whatever order and however often the payloads come; and no id was
\* received twice.
THEOREM ReceivesSound == Spec => []ReceivedWasSent
  <1> DEFINE IInv == TypeOK /\ PayloadsSent /\ ReceivedWasSent
  <1>1. Init => IInv
    <2> SUFFICES ASSUME Init PROVE IInv
      OBVIOUS
    <2>1. \A t \in Trees, k \in Tokens : ledger[t][k] = NoToken
      BY DEF Init
    <2>2. TypeOK
      BY UintAssumption DEF Init, TypeOK
    <2> QED
      BY <2>1, <2>2 DEF Init, PayloadsSent, ReceivedWasSent, Held
  <1>2. IInv /\ [Next]_vars => IInv'
    <2> SUFFICES ASSUME IInv, [Next]_vars PROVE IInv'
      OBVIOUS
    <2>1. ASSUME NEW t \in Trees, NEW k \in Tokens, NEW token \in TokenNodes,
                 Update(t, k, token), Replaces(t, k, token)
          PROVE  IInv'
      BY <2>1, UpdateEffect, ReceivedStep
    <2>2. ASSUME NEW t \in Trees, NEW k \in Tokens, NEW id \in Ids, MakePayload(t, k, id)
          PROVE  IInv'
      <3>1. TypeOK' /\ UNCHANGED ledger
        BY <2>2, PayloadEffect
      <3>2. PICK send \in Sends, names \in SUBSET Tokens :
              /\ payloads' = payloads \cup
                   {[from |-> t, token |-> k, send |-> send, names |-> names]}
              /\ \A n \in names : send \in Range(SendsOf(t, n))
        BY <2>2, PayloadEffect
      <3>3. PayloadsSent'
        BY <3>1, <3>2 DEF PayloadsSent, SendsOf
      <3>4. ReceivedWasSent'
        BY <3>1 DEF ReceivedWasSent, Held, SendsOf
      <3> QED
        BY <3>1, <3>3, <3>4
    <2>3. CASE UNCHANGED vars
      BY <2>3 DEF vars, TypeOK, PayloadsSent, ReceivedWasSent, Held, SendsOf
    <2> QED
      BY <2>1, <2>2, <2>3, NextCases
  <1> QED
    BY <1>1, <1>2, PTL DEF Spec
-----------------------------------------------------------------------------
(* Sums.                                                                    *)

Plus(x, y) == x + y
At(f, x) == f[x]
AnyOf(S) == CHOOSE x \in S : TRUE

Sums == INSTANCE FoldLemmas WITH Op <- Plus, F <- At, Pick <- AnyOf

\* The library's sum is a fold.
LEMMA SumIsFold == \A f, S : SumFunctionOnSet(f, S) = Sums!Fold(0, f, S)
  BY DEF SumFunctionOnSet, FoldFunctionOnSet, MapThenFoldSet, Sums!Fold, Sums!Iter, Plus, At,
         AnyOf

\* The finite sets of the instance are the finite sets.
LEMMA FiniteSums ==
    ASSUME NEW S, IsFiniteSet(S)
    PROVE  Sums!IsFiniteSet(S) /\ Sums!Picks(S)
  <1>1. Sums!IsFiniteSet(S)
    BY DEF IsFiniteSet, Sums!IsFiniteSet
  <1>2. Sums!Picks(S)
    BY DEF Sums!Picks, AnyOf
  <1> QED
    BY <1>1, <1>2

\* Some part of a finite set is the smallest of its kind.
LEMMA SmallestPart ==
    ASSUME NEW S, IsFiniteSet(S), NEW Parts \in SUBSET (SUBSET S), Parts # {}
    PROVE  \E s \in Parts : \A x \in s : s \ {x} \notin Parts
  BY FiniteSums, Sums!MinimalPart

\* An empty sum is 0.
LEMMA SumEmpty == \A f : SumFunctionOnSet(f, {}) = 0
  BY SumIsFold, Sums!FoldEmpty

\* Any element can be taken out of a sum of numbers.
LEMMA SumStep ==
    ASSUME NEW f, NEW S, IsFiniteSet(S), \A x \in S : f[x] \in Nat
    PROVE  /\ SumFunctionOnSet(f, S) \in Nat
           /\ \A x \in S :
                /\ SumFunctionOnSet(f, S \ {x}) \in Nat
                /\ SumFunctionOnSet(f, S) = f[x] + SumFunctionOnSet(f, S \ {x})
  <1>1. Sums!IsFiniteSet(S) /\ Sums!Picks(S)
    BY FiniteSums
  <1>2. \A x, y \in Nat : Plus(x, y) = x + y
    BY DEF Plus
  <1>3. \A x \in S : At(f, x) \in Nat /\ At(f, x) = f[x]
    BY DEF At
  <1>4. ASSUME NEW b \in Nat
        PROVE  /\ Sums!Fold(b, f, S) \in Nat
               /\ \A x \in S : /\ Sums!Fold(b, f, S \ {x}) \in Nat
                               /\ Sums!Fold(b, f, S) = At(f, x) + Sums!Fold(b, f, S \ {x})
    BY <1>1, <1>2, <1>3, Sums!FoldSum
  <1> QED
    BY <1>3, <1>4, SumIsFold

\* Equal summands have equal sums.
LEMMA SumAgrees ==
    ASSUME NEW f, NEW g, NEW S, IsFiniteSet(S), \A x \in S : f[x] = g[x]
    PROVE  SumFunctionOnSet(f, S) = SumFunctionOnSet(g, S)
  <1>1. Sums!IsFiniteSet(S) /\ Sums!Picks(S)
    BY FiniteSums
  <1>2. \A x \in S : At(f, x) = At(g, x)
    BY DEF At
  <1>3. Sums!Fold(0, f, S) = Sums!Fold(0, g, S)
    BY <1>1, <1>2, Sums!FoldAgrees
  <1> QED
    BY <1>3, SumIsFold

\* Every element of A goes to an element of B of its own that has no smaller value.
CoveredBy(f, A, g, B, h) ==
    /\ IsFiniteSet(A) /\ \A x \in A : f[x] \in Nat
    /\ IsFiniteSet(B) /\ \A y \in B : g[y] \in Nat
    /\ \A x \in A : h[x] \in B /\ f[x] <= g[h[x]]
    /\ \A x, y \in A : h[x] = h[y] => x = y

\* A sum that can be put into another, each summand in a place of its own that holds as
\* much, is no more than the other.
LEMMA SumInto ==
    ASSUME NEW f, NEW A, NEW g, NEW B, NEW h, CoveredBy(f, A, g, B, h)
    PROVE  SumFunctionOnSet(f, A) <= SumFunctionOnSet(g, B)
  <1> USE DEF CoveredBy
  <1> DEFINE Fits(s, r) == SumFunctionOnSet(f, s) <= SumFunctionOnSet(g, r)
             Into(s, r) == \A x \in s : h[x] \in r
             Bad == {s \in SUBSET A : \E r \in SUBSET B : Into(s, r) /\ ~Fits(s, r)}
  <1> SUFFICES Bad = {}
    OBVIOUS
  <1> SUFFICES ASSUME Bad # {} PROVE FALSE
    OBVIOUS
  <1>1. PICK s \in Bad : \A x \in s : s \ {x} \notin Bad
    <2>1. Bad \in SUBSET (SUBSET A)
      OBVIOUS
    <2> HIDE DEF Bad
    <2> QED
      BY <2>1, SmallestPart
  <1>2. PICK r \in SUBSET B : Into(s, r) /\ ~Fits(s, r)
    BY <1>1
  <1>3. /\ IsFiniteSet(s) /\ IsFiniteSet(r) /\ s \in SUBSET A
        /\ \A x \in s : f[x] \in Nat
        /\ \A y \in r : g[y] \in Nat
    BY <1>1, FS_Subset
  <1>4. SumFunctionOnSet(g, r) \in Nat
    BY <1>3, SumStep
  <1>5. CASE s = {}
    BY <1>2, <1>4, <1>5, SumEmpty
  <1>6. CASE s # {}
    <2>1. PICK x \in s : TRUE
      BY <1>6
    <2>2. h[x] \in r /\ f[x] <= g[h[x]] /\ f[x] \in Nat /\ g[h[x]] \in Nat
      BY <1>2, <1>3, <2>1
    <2>3. Into(s \ {x}, r \ {h[x]})
      BY <1>2, <1>3, <2>1
    <2>4. Fits(s \ {x}, r \ {h[x]})
      <3>1. s \ {x} \in SUBSET A /\ r \ {h[x]} \in SUBSET B
        BY <1>3
      <3> HIDE DEF Fits, Into
      <3> QED
        BY <1>1, <2>1, <2>3, <3>1
    <2>5. /\ SumFunctionOnSet(f, s \ {x}) \in Nat
          /\ SumFunctionOnSet(f, s) = f[x] + SumFunctionOnSet(f, s \ {x})
      BY <1>3, <2>1, SumStep
    <2>6. /\ SumFunctionOnSet(g, r \ {h[x]}) \in Nat
          /\ SumFunctionOnSet(g, r) = g[h[x]] + SumFunctionOnSet(g, r \ {h[x]})
      <3> HIDE DEF Bad, Fits, Into
      <3>1. IsFiniteSet(r) /\ \A y \in r : g[y] \in Nat
        BY <1>3
      <3>2. PICK y \in r : y = h[x]
        BY <2>2
      <3>3. /\ SumFunctionOnSet(g, r \ {y}) \in Nat
            /\ SumFunctionOnSet(g, r) = g[y] + SumFunctionOnSet(g, r \ {y})
        BY ONLY <3>1, <3>2, SumStep
      <3> QED
        BY <3>2, <3>3
    <2>7. \A a, b, c, d \in Nat : a <= b /\ c <= d => a + c <= b + d
      OBVIOUS
    <2> HIDE DEF Into, Bad
    <2> QED
      BY <1>2, <2>2, <2>4, <2>5, <2>6, <2>7
  <1> QED
    BY <1>5, <1>6

\* Two sums can be added up element by element.
LEMMA SumPlus ==
    ASSUME NEW S, IsFiniteSet(S), NEW f, NEW g, NEW h,
           \A x \in S : f[x] \in Nat /\ g[x] \in Nat /\ h[x] = f[x] + g[x]
    PROVE  /\ SumFunctionOnSet(f, S) \in Nat /\ SumFunctionOnSet(g, S) \in Nat
           /\ SumFunctionOnSet(h, S) = SumFunctionOnSet(f, S) + SumFunctionOnSet(g, S)
  <1> DEFINE Adds(s) == SumFunctionOnSet(h, s) = SumFunctionOnSet(f, s) + SumFunctionOnSet(g, s)
             Bad == {s \in SUBSET S : ~Adds(s)}
  <1>0. SumFunctionOnSet(f, S) \in Nat /\ SumFunctionOnSet(g, S) \in Nat
    BY SumStep
  <1> SUFFICES ASSUME Bad # {} PROVE FALSE
    BY <1>0
  <1>1. PICK s \in Bad : \A x \in s : s \ {x} \notin Bad
    <2>1. Bad \in SUBSET (SUBSET S)
      OBVIOUS
    <2> HIDE DEF Bad
    <2> QED
      BY <2>1, SmallestPart
  <1>2. /\ IsFiniteSet(s) /\ s \in SUBSET S
        /\ \A x \in s : f[x] \in Nat /\ g[x] \in Nat /\ h[x] = f[x] + g[x] /\ h[x] \in Nat
    BY <1>1, FS_Subset
  <1>3. s # {}
    <2>1. Adds({})
      BY SumEmpty
    <2> QED
      BY <1>1, <2>1
  <1>4. PICK x \in s : TRUE
    BY <1>3
  <1>5. Adds(s \ {x})
    BY <1>1, <1>2, <1>4
  <1>6. /\ SumFunctionOnSet(f, s \ {x}) \in Nat
        /\ SumFunctionOnSet(f, s) = f[x] + SumFunctionOnSet(f, s \ {x})
    <2>1. IsFiniteSet(s) /\ \A y \in s : f[y] \in Nat
      BY <1>2
    <2>2. x \in s
      BY <1>4
    <2> QED
      BY ONLY <2>1, <2>2, SumStep
  <1>7. /\ SumFunctionOnSet(g, s \ {x}) \in Nat
        /\ SumFunctionOnSet(g, s) = g[x] + SumFunctionOnSet(g, s \ {x})
    BY <1>2, <1>4, SumStep
  <1>8. SumFunctionOnSet(h, s) = h[x] + SumFunctionOnSet(h, s \ {x})
    BY <1>2, <1>4, SumStep
  <1>9. f[x] \in Nat /\ g[x] \in Nat /\ h[x] = f[x] + g[x]
    BY <1>2, <1>4
  <1>10. \A a, b, c, d \in Nat : (a + b) + (c + d) = (a + c) + (b + d)
    OBVIOUS
  <1>11. Adds(s)
    <2> HIDE DEF Bad
    <2>1. SumFunctionOnSet(h, s) =
            (f[x] + g[x]) + (SumFunctionOnSet(f, s \ {x}) + SumFunctionOnSet(g, s \ {x}))
      BY <1>5, <1>8, <1>9
    <2> QED
      BY <1>6, <1>7, <1>9, <1>10, <2>1
  <1> QED
    BY <1>1, <1>11
-----------------------------------------------------------------------------
(* uint64 arithmetic.                                                       *)

\* A multiple of the width is a whole width away from the next.
LEMMA Multiples ==
    ASSUME NEW w \in Nat, NEW q \in Nat, NEW r \in Nat, q < r
    PROVE  q * w + w <= r * w /\ q * w \in Nat /\ r * w \in Nat
  <1>1. PICK d \in Nat : r = q + 1 + d
    <2>1. r - (q + 1) \in Nat /\ r = q + 1 + (r - (q + 1))
      OBVIOUS
    <2> QED
      BY <2>1
  <1>2. d * w \in Nat /\ q * w \in Nat
    OBVIOUS
  <1>3. r * w = q * w + w + d * w
    BY <1>1
  <1> QED
    BY <1>2, <1>3

\* Division with remainder.
LEMMA Division ==
    ASSUME NEW n \in Nat, NEW w \in Nat, w > 0
    PROVE  \E q \in Nat : n = w * q + (n % w)
  BY Z3

\* What wrapping takes away is a multiple of the width.
LEMMA WrapDivides ==
    ASSUME NEW n \in Nat
    PROVE  \E q \in Nat : n = q * (MaxUint + 1) + Wrap(n)
  <1>1. PICK w \in Nat : w = MaxUint + 1 /\ w > 0
    BY UintAssumption
  <1>2. PICK q \in Nat : n = w * q + (n % w)
    BY <1>1, Division
  <1>3. w * q = q * (MaxUint + 1) /\ n % w = Wrap(n)
    BY <1>1, UintAssumption DEF Wrap
  <1> QED
    BY <1>2, <1>3

\* Only one uint64 is a multiple of the width away from a number.
LEMMA WrapUnique ==
    ASSUME NEW n \in Nat, NEW q \in Nat, NEW r \in 0 .. MaxUint, n = q * (MaxUint + 1) + r
    PROVE  Wrap(n) = r
  <1>1. PICK w \in Nat : w = MaxUint + 1
    BY UintAssumption
  <1>2. PICK p \in Nat : n = p * w + Wrap(n)
    BY <1>1, WrapDivides
  <1>3. Wrap(n) \in Nat /\ Wrap(n) < w /\ r \in Nat /\ r < w /\ n = q * w + r
    BY <1>1, WrapType, UintAssumption
  <1>4. CASE p < q
    <2>1. p * w + w <= q * w /\ p * w \in Nat /\ q * w \in Nat
      BY <1>4, Multiples
    <2> QED
      BY <1>2, <1>3, <2>1
  <1>5. CASE q < p
    <2>1. q * w + w <= p * w /\ p * w \in Nat /\ q * w \in Nat
      BY <1>5, Multiples
    <2> QED
      BY <1>2, <1>3, <2>1
  <1>6. CASE p = q
    <2>1. p * w \in Nat
      OBVIOUS
    <2> QED
      BY <1>2, <1>3, <1>6, <2>1
  <1> QED
    BY <1>4, <1>5, <1>6

\* Wrapping never adds, and does nothing to a uint64.
LEMMA WrapBound ==
    /\ \A n \in Nat : Wrap(n) \in Nat /\ Wrap(n) <= n
    /\ \A n \in 0 .. MaxUint : Wrap(n) = n /\ Wrap(n + (MaxUint + 1)) = n
  <1>1. PICK w \in Nat : w = MaxUint + 1
    BY UintAssumption
  <1>2. ASSUME NEW n \in Nat PROVE Wrap(n) \in Nat /\ Wrap(n) <= n
    <2>1. PICK q \in Nat : n = q * w + Wrap(n)
      BY <1>1, WrapDivides
    <2>2. q * w \in Nat /\ Wrap(n) \in Nat
      BY WrapType, UintAssumption
    <2> QED
      BY <2>1, <2>2
  <1>3. ASSUME NEW n \in 0 .. MaxUint PROVE Wrap(n) = n /\ Wrap(n + (MaxUint + 1)) = n
    <2>1. n \in Nat /\ n + w \in Nat
      BY UintAssumption
    <2>2. n = 0 * w + n /\ n + w = 1 * w + n
      BY <2>1
    <2>3. Wrap(n) = n
      BY <1>1, <2>1, <2>2, WrapUnique
    <2>4. Wrap(n + w) = n
      BY <1>1, <2>1, <2>2, WrapUnique
    <2> QED
      BY <1>1, <2>3, <2>4
  <1> QED
    BY <1>2, <1>3

\* Wrapping early changes nothing: only the last wrap counts.
LEMMA WrapPlus ==
    ASSUME NEW m \in Nat, NEW n \in Nat
    PROVE  Wrap(Wrap(m) + n) = Wrap(m + n)
  <1>1. PICK w \in Nat : w = MaxUint + 1
    BY UintAssumption
  <1>2. Wrap(m) \in Nat /\ Wrap(m) + n \in Nat
    BY WrapBound
  <1>3. PICK q \in Nat : m = q * w + Wrap(m)
    BY <1>1, WrapDivides
  <1>4. PICK p \in Nat : Wrap(m) + n = p * w + Wrap(Wrap(m) + n)
    BY <1>1, <1>2, WrapDivides
  <1>5. PICK r \in 0 .. MaxUint : r = Wrap(Wrap(m) + n)
    BY <1>2, WrapType
  <1>6. q * w \in Nat /\ p * w \in Nat /\ (q + p) * w = q * w + p * w /\ r \in Nat
    BY UintAssumption
  <1>7. m + n = (q + p) * w + r
    BY <1>2, <1>3, <1>4, <1>5, <1>6
  <1>8. Wrap(m + n) = r
    BY <1>1, <1>7, WrapUnique
  <1> QED
    BY <1>5, <1>8

\* A number that was wrapped on the way to a sum can be taken out of it again.
LEMMA WrapCancel ==
    ASSUME NEW m \in Nat, NEW n \in Nat, NEW a \in Nat, Wrap(m) = Wrap(n)
    PROVE  Wrap(m + a) = Wrap(n + a)
  <1>1. Wrap(Wrap(m) + a) = Wrap(m + a) /\ Wrap(Wrap(n) + a) = Wrap(n + a)
    BY WrapPlus
  <1> QED
    BY <1>1
-----------------------------------------------------------------------------
(* Balances.                                                                *)

\* The amounts of nothing add up to 0.
LEMMA SumNothing == Sum(<<>>) = 0
  <1>1. DOMAIN [i \in DOMAIN <<>> |-> <<>>[i].amount] = {}
    OBVIOUS
  <1> QED
    BY <1>1, SumEmpty DEF Sum, SumFunction

\* A sum of amounts is a number.
LEMMA SumType ==
    ASSUME NEW S, \A x \in S : x.amount \in Nat, NEW s \in Seq(S)
    PROVE  Sum(s) \in Nat
  <1> DEFINE f == [i \in DOMAIN s |-> s[i].amount]
  <1>1. DOMAIN f = 1 .. Len(s) /\ Len(s) \in Nat /\ \A i \in DOMAIN f : f[i] \in Nat
    OBVIOUS
  <1>2. IsFiniteSet(DOMAIN f)
    BY <1>1, FS_Interval
  <1>3. Sum(s) = SumFunctionOnSet(f, DOMAIN f)
    BY DEF Sum, SumFunction
  <1> HIDE DEF f
  <1> QED
    BY <1>1, <1>2, <1>3, SumStep

\* A sum of amounts grows by the amount that is appended.
LEMMA SumAppend ==
    ASSUME NEW S, \A x \in S : x.amount \in Nat, NEW s \in Seq(S), NEW e \in S
    PROVE  Sum(s) \in Nat /\ Sum(Append(s, e)) = Sum(s) + e.amount
  <1> DEFINE n == Len(s)
             f == [i \in DOMAIN s |-> s[i].amount]
             g == [i \in DOMAIN Append(s, e) |-> Append(s, e)[i].amount]
  <1>1. /\ n \in Nat /\ DOMAIN f = 1 .. n /\ DOMAIN g = 1 .. (n + 1)
        /\ \A i \in 1 .. n : f[i] \in Nat /\ g[i] = f[i]
        /\ g[n + 1] = e.amount /\ e.amount \in Nat
    OBVIOUS
  <1>2. /\ Sum(s) = SumFunctionOnSet(f, 1 .. n)
        /\ Sum(Append(s, e)) = SumFunctionOnSet(g, 1 .. (n + 1))
    BY <1>1 DEF Sum, SumFunction
  <1> HIDE DEF n, f, g
  <1>3. IsFiniteSet(1 .. n) /\ IsFiniteSet(1 .. (n + 1))
    BY <1>1, FS_Interval
  <1>4. (1 .. (n + 1)) \ {n + 1} = 1 .. n /\ n + 1 \in 1 .. (n + 1)
    BY <1>1
  <1>5. \A i \in 1 .. (n + 1) : g[i] \in Nat
    BY <1>1
  <1>6. SumFunctionOnSet(f, 1 .. n) \in Nat
    BY <1>1, <1>3, SumStep
  <1>7. SumFunctionOnSet(g, 1 .. (n + 1)) =
          g[n + 1] + SumFunctionOnSet(g, (1 .. (n + 1)) \ {n + 1})
    <2>1. PICK D, last : D = 1 .. (n + 1) /\ last = n + 1
      OBVIOUS
    <2>2. IsFiniteSet(D) /\ last \in D /\ \A i \in D : g[i] \in Nat
      BY <1>3, <1>4, <1>5, <2>1
    <2>3. SumFunctionOnSet(g, D) = g[last] + SumFunctionOnSet(g, D \ {last})
      BY ONLY <2>2, SumStep
    <2> QED
      BY <2>1, <2>3
  <1>8. SumFunctionOnSet(g, 1 .. n) = SumFunctionOnSet(f, 1 .. n)
    BY <1>1, <1>3, SumAgrees
  <1> QED
    <2>1. PICK x \in Nat, y \in Nat : x = Sum(s) /\ y = e.amount
      BY <1>1, <1>2, <1>6
    <2>2. Sum(Append(s, e)) = y + x
      BY <1>1, <1>2, <1>4, <1>7, <1>8, <2>1
    <2>3. y + x = x + y
      OBVIOUS
    <2> QED
      BY <2>1, <2>2, <2>3

\* The sums of a Token node.
LEMMA NodeSums ==
    ASSUME NEW token \in TokenNodes
    PROVE  /\ Sum(token.mints) \in Nat /\ Sum(token.sends) \in Nat
           /\ Sum(token.receives) \in Nat /\ token.balance \in Nat
           /\ \A a \in Amounts : Sum(Append(token.mints, [amount |-> a])) = Sum(token.mints) + a
           /\ \A send \in Sends : Sum(Append(token.sends, send)) = Sum(token.sends) + send.amount
           /\ \A id \in Ids, a \in Amounts :
                Sum(Append(token.receives, [id |-> id, amount |-> a])) = Sum(token.receives) + a
           /\ \A e \in Sends : e.amount \in Nat
  <1>0. \A a \in Amounts : a \in Nat
    BY UintAssumption
  <1>1. /\ \A x \in [amount : Amounts] : x.amount \in Nat
        /\ \A x \in Sends : x.amount \in Nat
        /\ \A x \in [id : Ids, amount : Amounts] : x.amount \in Nat
    BY <1>0 DEF Sends
  <1>2. /\ token.mints \in Seq([amount : Amounts]) /\ token.sends \in Seq(Sends)
        /\ token.receives \in Seq([id : Ids, amount : Amounts]) /\ token.balance \in 0 .. MaxUint
    BY DEF TokenNodes
  <1>3. Sum(token.mints) \in Nat /\ Sum(token.sends) \in Nat /\ Sum(token.receives) \in Nat
    <2>1. Sum(token.mints) \in Nat
      BY <1>1, <1>2, SumType
    <2>2. Sum(token.sends) \in Nat
      BY <1>1, <1>2, SumType
    <2>3. Sum(token.receives) \in Nat
      BY <1>1, <1>2, SumType
    <2> QED
      BY <2>1, <2>2, <2>3
  <1>6. ASSUME NEW a \in Amounts
        PROVE  Sum(Append(token.mints, [amount |-> a])) = Sum(token.mints) + a
    <2>1. [amount |-> a] \in [amount : Amounts] /\ [amount |-> a].amount = a
      OBVIOUS
    <2> QED
      BY <1>1, <1>2, <2>1, SumAppend
  <1>7. ASSUME NEW send \in Sends
        PROVE  Sum(Append(token.sends, send)) = Sum(token.sends) + send.amount
    BY <1>1, <1>2, SumAppend
  <1>9. ASSUME NEW id \in Ids, NEW a \in Amounts
        PROVE  Sum(Append(token.receives, [id |-> id, amount |-> a])) = Sum(token.receives) + a
    <2>1. PICK e \in [id : Ids, amount : Amounts] : e = [id |-> id, amount |-> a] /\ e.amount = a
      <3>1. /\ [id |-> id, amount |-> a] \in [id : Ids, amount : Amounts]
            /\ [id |-> id, amount |-> a].amount = a
        OBVIOUS
      <3> QED
        BY ONLY <3>1, Zenon
    <2>2. Sum(Append(token.receives, e)) = Sum(token.receives) + e.amount
      BY <1>1, <1>2, SumAppend
    <2> QED
      BY <2>1, <2>2
  <1>8. token.balance \in Nat
    BY <1>2, UintAssumption
  <1> QED
    BY <1>1, <1>3, <1>6, <1>7, <1>8, <1>9

\* What goes out of a node and what is left comes from what goes in; the balance is what
\* is left, in uint64.
Solvent(token) == Sum(token.sends) + token.balance <= Sum(token.mints) + Sum(token.receives)
Balanced(token) ==
    Wrap(token.balance + Sum(token.sends)) = Wrap(Sum(token.mints) + Sum(token.receives))

\* A new token's books are empty.
LEMMA BooksEmpty == \A policy : Solvent(EmptyToken(policy)) /\ Balanced(EmptyToken(policy))
  BY SumNothing DEF Solvent, Balanced, EmptyToken

\* A mint, or a receive, adds as much to what came in and no more to the balance.
LEMMA BooksCredit ==
    ASSUME NEW sends \in Nat, NEW balance \in Nat, NEW in \in Nat, NEW a \in Nat,
           sends + balance <= in, Wrap(balance + sends) = Wrap(in)
    PROVE  /\ sends + Wrap(balance + a) <= in + a
           /\ Wrap(Wrap(balance + a) + sends) = Wrap(in + a)
  <1>1. balance + a \in Nat /\ balance + sends \in Nat
    OBVIOUS
  <1>2. Wrap(balance + a) \in Nat /\ Wrap(balance + a) <= balance + a
    BY <1>1, WrapBound
  <1>3. Wrap(Wrap(balance + a) + sends) = Wrap((balance + a) + sends)
    BY <1>1, WrapPlus
  <1>4. Wrap((balance + sends) + a) = Wrap(in + a)
    BY <1>1, WrapCancel
  <1>5. (balance + a) + sends = (balance + sends) + a
    OBVIOUS
  <1>6. sends + Wrap(balance + a) <= in + a
    BY <1>2
  <1> QED
    BY <1>3, <1>4, <1>5, <1>6

\* The balance of a sender does not wrap: it had what it sends.
LEMMA BooksDebit ==
    ASSUME NEW balance \in 0 .. MaxUint, NEW a \in Nat, a <= balance
    PROVE  Debited(balance, a) = balance - a /\ balance - a \in Nat
  <1>1. MaxUint \in Nat /\ balance \in Nat
    BY UintAssumption
  <1>2. balance - a \in 0 .. MaxUint /\ balance - a \in Nat
    BY <1>1
  <1>3. balance + (MaxUint + 1) - a = (balance - a) + (MaxUint + 1)
    BY <1>1
  <1> QED
    BY <1>2, <1>3, WrapBound DEF Debited

\* Each of the four ways to replace a token node keeps its books in order.
LEMMA BooksStep ==
    ASSUME TypeOK, NEW t \in Trees, NEW k \in Tokens, NEW token \in TokenNodes,
           Replaces(t, k, token),
           ledger[t][k] # NoToken => Solvent(ledger[t][k]) /\ Balanced(ledger[t][k])
    PROVE  Solvent(token) /\ Balanced(token)
  <1>1. CASE \E m \in Maxima : token = EmptyToken(m)
    BY <1>1, BooksEmpty
  <1>2. ASSUME NEW old \in TokenNodes, NEW a \in Amounts, Solvent(old), Balanced(old),
               token = Minting(old, a)
        PROVE  Solvent(token) /\ Balanced(token)
    <2>1. /\ token.mints = Append(old.mints, [amount |-> a]) /\ token.sends = old.sends
          /\ token.receives = old.receives /\ token.balance = Wrap(old.balance + a)
      BY <1>2 DEF Minting, TokenNodes
    <2>2. /\ Sum(old.mints) \in Nat /\ Sum(old.sends) \in Nat /\ Sum(old.receives) \in Nat
          /\ old.balance \in Nat /\ Sum(token.mints) = Sum(old.mints) + a
      BY <2>1, NodeSums
    <2>3. PICK sends \in Nat, in \in Nat, b \in Nat :
            sends = Sum(old.sends) /\ in = Sum(old.mints) + Sum(old.receives) /\ b = old.balance
      BY <2>2
    <2>4. a \in Nat
      BY UintAssumption
    <2>5. Sum(token.mints) + Sum(token.receives) = in + a
      BY <2>1, <2>2, <2>3, <2>4
    <2>6. sends + b <= in /\ Wrap(b + sends) = Wrap(in)
      BY <1>2, <2>3 DEF Solvent, Balanced
    <2>7. sends + Wrap(b + a) <= in + a /\ Wrap(Wrap(b + a) + sends) = Wrap(in + a)
      BY <2>4, <2>6, BooksCredit
    <2> QED
      BY <2>1, <2>3, <2>5, <2>7 DEF Solvent, Balanced
  <1>3. ASSUME NEW old \in TokenNodes, NEW id \in Ids, NEW to \in Destinations,
               NEW a \in Amounts, Solvent(old), Balanced(old), CanSend(old, a),
               token = Sending(old, id, to, a)
        PROVE  Solvent(token) /\ Balanced(token)
    <2>1. /\ token.sends = Append(old.sends, [id |-> id, amount |-> a, to |-> to])
          /\ token.mints = old.mints /\ token.receives = old.receives
          /\ token.balance = Debited(old.balance, a)
      BY <1>3 DEF Sending, TokenNodes
    <2>2. a \in Nat /\ a <= old.balance /\ old.balance \in 0 .. MaxUint
      BY <1>3, UintAssumption DEF CanSend, TokenNodes
    <2>3. token.balance = old.balance - a /\ old.balance - a \in Nat
      BY <2>1, <2>2, BooksDebit
    <2>4. Sum(token.sends) = Sum(old.sends) + a /\ Sum(old.sends) \in Nat
      <3>1. PICK send \in Sends : send = [id |-> id, amount |-> a, to |-> to] /\ send.amount = a
        <4>1. [id |-> id, amount |-> a, to |-> to] \in Sends
          BY DEF Sends
        <4>2. [id |-> id, amount |-> a, to |-> to].amount = a
          OBVIOUS
        <4> QED
          BY ONLY <4>1, <4>2, Zenon
      <3> QED
        BY <2>1, <3>1, NodeSums
    <2>5. /\ token.balance + Sum(token.sends) = old.balance + Sum(old.sends)
          /\ Sum(token.sends) + token.balance = Sum(old.sends) + old.balance
      BY <2>2, <2>3, <2>4, UintAssumption
    <2> QED
      BY <1>3, <2>1, <2>5 DEF Solvent, Balanced
  <1>4. ASSUME NEW old \in TokenNodes, NEW id \in Ids, NEW x \in Amounts,
               Solvent(old), Balanced(old), token = Receiving(old, id, x)
        PROVE  Solvent(token) /\ Balanced(token)
    <2>1. /\ token.receives = Append(old.receives, [id |-> id, amount |-> x])
          /\ token.sends = old.sends /\ token.mints = old.mints
          /\ token.balance = Wrap(old.balance + x)
      BY <1>4 DEF Receiving, TokenNodes
    <2>2. PICK a \in Nat : a = x
      BY UintAssumption
    <2>3. /\ Sum(old.mints) \in Nat /\ Sum(old.sends) \in Nat /\ Sum(old.receives) \in Nat
          /\ old.balance \in Nat /\ Sum(token.receives) = Sum(old.receives) + a
      BY <2>1, <2>2, NodeSums
    <2>4. PICK sends \in Nat, in \in Nat, b \in Nat :
            sends = Sum(old.sends) /\ in = Sum(old.mints) + Sum(old.receives) /\ b = old.balance
      BY <2>3
    <2>5. Sum(token.mints) + Sum(token.receives) = in + a
      BY <2>1, <2>3, <2>4
    <2>6. sends + b <= in /\ Wrap(b + sends) = Wrap(in)
      BY <1>4, <2>4 DEF Solvent, Balanced
    <2>7. sends + Wrap(b + a) <= in + a /\ Wrap(Wrap(b + a) + sends) = Wrap(in + a)
      BY <2>6, BooksCredit
    <2> QED
      BY <2>1, <2>2, <2>4, <2>5, <2>7 DEF Solvent, Balanced
  <1>5. \A p \in payloads : p.send.amount \in Amounts
    BY DEF TypeOK, Sends
  <1>6. ASSUME NEW p \in payloads, NEW id \in Ids, NEW old \in TokenNodes,
               old = IF ledger[t][k] = NoToken THEN EmptyToken(NoPolicy) ELSE ledger[t][k],
               token = Receiving(old, id, p.send.amount)
        PROVE  Solvent(token) /\ Balanced(token)
    BY <1>4, <1>5, <1>6, BooksEmpty
  <1> QED
    BY <1>1, <1>2, <1>3, <1>6, NoTokenAssumption DEF Replaces

\* The books of all tokens are in order, after every step.
LEMMA BooksInductive ==
    ASSUME TypeOK, NeverOverspent, BalanceMatchesHistory, [Next]_vars
    PROVE  NeverOverspent' /\ BalanceMatchesHistory'
  <1> DEFINE Books == \A t \in Trees, k \in Tokens :
                        ledger[t][k] # NoToken => Solvent(ledger[t][k]) /\ Balanced(ledger[t][k])
  <1>1. Books
    BY DEF NeverOverspent, BalanceMatchesHistory, Held, Solvent, Balanced
  <1>2. Books' => NeverOverspent' /\ BalanceMatchesHistory'
    BY DEF NeverOverspent, BalanceMatchesHistory, Held, Solvent, Balanced
  <1>3. ASSUME NEW t \in Trees, NEW k \in Tokens, NEW token \in TokenNodes,
               Update(t, k, token), Replaces(t, k, token)
        PROVE  Books'
    <2>1. Solvent(token) /\ Balanced(token)
      BY <1>1, <1>3, BooksStep
    <2>2. /\ ledger'[t][k] = token
          /\ \A u \in Trees, n \in Tokens : u # t \/ n # k => ledger'[u][n] = ledger[u][n]
      BY <1>3, UpdateEffect
    <2>3. ASSUME NEW u \in Trees, NEW n \in Tokens, ledger'[u][n] # NoToken
          PROVE  Solvent(ledger'[u][n]) /\ Balanced(ledger'[u][n])
      BY <1>1, <2>1, <2>2, <2>3
    <2> QED
      BY <2>3
  <1>4. ASSUME NEW t \in Trees, NEW k \in Tokens, NEW id \in Ids, MakePayload(t, k, id)
        PROVE  Books'
    BY <1>1, <1>4, PayloadEffect
  <1>5. CASE UNCHANGED vars
    <2>1. UNCHANGED ledger
      BY <1>5 DEF vars
    <2>2. Books'
      BY <1>1, <2>1
    <2> QED
      BY <1>2, <2>2
  <1> QED
    BY <1>2, <1>3, <1>4, <1>5, NextCases

\* No tree has sent more of a token than it minted and received, and the balance it stores
\* is what its history adds up to in uint64, whatever amounts overflow on the way.
THEOREM BooksKept == Spec => [](NeverOverspent /\ BalanceMatchesHistory)
  <1>1. Init => NeverOverspent /\ BalanceMatchesHistory
    BY DEF Init, NeverOverspent, BalanceMatchesHistory, Held
  <1>2. TypeOK /\ NeverOverspent /\ BalanceMatchesHistory /\ [Next]_vars
          => NeverOverspent' /\ BalanceMatchesHistory'
    BY BooksInductive
  <1> QED
    BY <1>1, <1>2, TypeCorrect, PTL DEF Spec

\* A balance never spends what did not come in.
THEOREM Solvency == Spec => []NeverOverspent
  BY BooksKept, PTL

\* The stored balance is what the history adds up to in uint64.
THEOREM BalancesRight == Spec => []BalanceMatchesHistory
  BY BooksKept, PTL
-----------------------------------------------------------------------------
(* Inflation.                                                               *)

\* A sum over two sets that have nothing in common.
LEMMA SumUnion ==
    ASSUME NEW f, NEW A, NEW B, IsFiniteSet(A), IsFiniteSet(B), A \cap B = {},
           \A x \in A \cup B : f[x] \in Nat
    PROVE  SumFunctionOnSet(f, A \cup B) = SumFunctionOnSet(f, A) + SumFunctionOnSet(f, B)
  <1> DEFINE Adds(s) == SumFunctionOnSet(f, s \cup B)
                          = SumFunctionOnSet(f, s) + SumFunctionOnSet(f, B)
             Bad == {s \in SUBSET A : ~Adds(s)}
  <1> SUFFICES ASSUME Bad # {} PROVE FALSE
    OBVIOUS
  <1>1. PICK s \in Bad : \A x \in s : s \ {x} \notin Bad
    <2>1. Bad \in SUBSET (SUBSET A)
      OBVIOUS
    <2> HIDE DEF Bad
    <2> QED
      BY <2>1, SmallestPart
  <1>2. /\ IsFiniteSet(s) /\ s \in SUBSET A /\ IsFiniteSet(s \cup B)
        /\ \A x \in s : f[x] \in Nat
        /\ \A x \in s \cup B : f[x] \in Nat
    BY <1>1, FS_Subset, FS_Union
  <1>3. SumFunctionOnSet(f, B) \in Nat
    BY SumStep
  <1>4. s # {}
    <2>1. SumFunctionOnSet(f, {} \cup B) = SumFunctionOnSet(f, B)
      <3>1. {} \cup B = B
        OBVIOUS
      <3> QED
        BY ONLY <3>1
    <2>2. Adds({})
      BY <1>3, <2>1, SumEmpty
    <2> QED
      BY <1>1, <2>2
  <1>5. PICK x \in s : TRUE
    BY <1>4
  <1>6. Adds(s \ {x})
    BY <1>1, <1>2, <1>5
  <1>7. /\ SumFunctionOnSet(f, s \ {x}) \in Nat
        /\ SumFunctionOnSet(f, s) = f[x] + SumFunctionOnSet(f, s \ {x})
    BY ONLY <1>2, <1>5, SumStep
  <1>8. SumFunctionOnSet(f, s \cup B) = f[x] + SumFunctionOnSet(f, (s \ {x}) \cup B)
    <2>1. PICK u : u = s \cup B
      OBVIOUS
    <2>2. IsFiniteSet(u) /\ x \in u /\ \A y \in u : f[y] \in Nat
      BY <1>2, <1>5, <2>1
    <2>3. SumFunctionOnSet(f, u) = f[x] + SumFunctionOnSet(f, u \ {x})
      BY ONLY <2>2, SumStep
    <2>4. u \ {x} = (s \ {x}) \cup B
      BY <1>2, <1>5, <2>1
    <2> QED
      BY ONLY <2>1, <2>3, <2>4
  <1>9. f[x] \in Nat
    BY <1>2, <1>5
  <1>10. \A a, b, c \in Nat : a + (b + c) = (a + b) + c
    OBVIOUS
  <1>11. SumFunctionOnSet(f, s \cup B)
           = f[x] + (SumFunctionOnSet(f, s \ {x}) + SumFunctionOnSet(f, B))
    BY <1>6, <1>8
  <1>12. Adds(s)
    <2>1. PICK a \in Nat, b \in Nat, c \in Nat :
            a = f[x] /\ b = SumFunctionOnSet(f, s \ {x}) /\ c = SumFunctionOnSet(f, B)
      BY <1>3, <1>7, <1>9
    <2> QED
      BY <1>7, <1>10, <1>11, <2>1
  <1> QED
    BY <1>1, <1>12

\* A sum of zeros is 0.
LEMMA SumZero ==
    ASSUME NEW f, NEW S, IsFiniteSet(S), \A x \in S : f[x] = 0
    PROVE  SumFunctionOnSet(f, S) = 0
  <1>1. /\ SumFunctionOnSet(f, S) \in Nat
        /\ SumFunctionOnSet(f, S) = SumFunctionOnSet(f, S) + SumFunctionOnSet(f, S)
    BY SumPlus
  <1>2. \A n \in Nat : n = n + n => n = 0
    OBVIOUS
  <1> QED
    BY <1>1, <1>2, Zenon

\* The places of the elements of the sequences in a family of sequences.
Places(seqs, D) == {q \in D \X Nat : q[2] \in DOMAIN seqs[q[1]]}
AmountAt(seqs, D) == [q \in D \X Nat |-> seqs[q[1]][q[2]].amount]

\* Adding up one sequence is adding up its places.
LEMMA SumRow ==
    ASSUME NEW S, \A e \in S : e.amount \in Nat, NEW D, NEW seqs \in [D -> Seq(S)], NEW x \in D
    PROVE  /\ IsFiniteSet(Places(seqs, {x}))
           /\ SumFunctionOnSet(AmountAt(seqs, D), Places(seqs, {x})) = Sum(seqs[x])
  <1> DEFINE n == Len(seqs[x])
             Row == Places(seqs, {x})
             f == [i \in DOMAIN seqs[x] |-> seqs[x][i].amount]
             g == AmountAt(seqs, D)
  <1>1. seqs[x] \in Seq(S) /\ n \in Nat /\ DOMAIN seqs[x] = 1 .. n
    OBVIOUS
  <1>2. /\ \A i \in 1 .. n : <<x, i>> \in Row /\ f[i] \in Nat /\ g[<<x, i>>] = f[i]
        /\ \A q \in Row : q[2] \in 1 .. n /\ q = <<x, q[2]>> /\ q \in {x} \X (1 .. n)
    BY <1>1 DEF Places, AmountAt
  <1>3. DOMAIN f = 1 .. n /\ Sum(seqs[x]) = SumFunctionOnSet(f, 1 .. n)
    BY <1>1 DEF Sum, SumFunction
  <1>4. IsFiniteSet(1 .. n)
    BY <1>1, FS_Interval
  <1>5. IsFiniteSet(Row)
    <2>1. IsFiniteSet({x} \X (1 .. n))
      BY <1>4, FS_Singleton, FS_Product
    <2>2. Row \subseteq {x} \X (1 .. n)
      BY <1>2
    <2> HIDE DEF Row
    <2> QED
      BY <2>1, <2>2, FS_Subset
  <1> HIDE DEF n, Row, f, g
  <1>6. \A q \in Row : g[q] \in Nat /\ g[q] = f[q[2]]
    BY <1>2
  <1>7. SumFunctionOnSet(f, 1 .. n) <= SumFunctionOnSet(g, Row)
    <2>1. PICK h : h = [i \in 1 .. n |-> <<x, i>>]
      OBVIOUS
    <2>2. /\ \A i \in 1 .. n : h[i] \in Row /\ f[i] <= g[h[i]]
          /\ \A i, j \in 1 .. n : h[i] = h[j] => i = j
      BY <1>2, <2>1
    <2>3. \A i \in 1 .. n : f[i] \in Nat
      BY <1>2
    <2>4. CoveredBy(f, 1 .. n, g, Row, h)
      BY ONLY <1>4, <1>5, <1>6, <2>2, <2>3 DEF CoveredBy
    <2> QED
      BY ONLY <2>4, SumInto
  <1>8. SumFunctionOnSet(g, Row) <= SumFunctionOnSet(f, 1 .. n)
    <2>1. PICK h : h = [q \in Row |-> q[2]]
      OBVIOUS
    <2>2. /\ \A q \in Row : h[q] \in 1 .. n /\ g[q] <= f[h[q]]
          /\ \A q, r \in Row : h[q] = h[r] => q = r
      BY <1>2, <1>6, <2>1
    <2>3. \A i \in 1 .. n : f[i] \in Nat
      BY <1>2
    <2>4. CoveredBy(g, Row, f, 1 .. n, h)
      BY ONLY <1>4, <1>5, <1>6, <2>2, <2>3 DEF CoveredBy
    <2> QED
      BY ONLY <2>4, SumInto
  <1>9. SumFunctionOnSet(f, 1 .. n) \in Nat /\ SumFunctionOnSet(g, Row) \in Nat
    BY <1>2, <1>4, <1>5, <1>6, SumStep
  <1>10. SumFunctionOnSet(g, Row) = SumFunctionOnSet(f, 1 .. n)
    BY <1>7, <1>8, <1>9
  <1> QED
    BY <1>3, <1>5, <1>10 DEF Row, g

\* A function with numbers to add up, and what is left of its sum without x.
Summable(f, s) == IsFiniteSet(s) /\ \A y \in s : f[y] \in Nat
Takes(f, s, x) ==
    /\ SumFunctionOnSet(f, s \ {x}) \in Nat
    /\ SumFunctionOnSet(f, s) = f[x] + SumFunctionOnSet(f, s \ {x})

\* Any element can be taken out of a sum.
LEMMA SumTake ==
    ASSUME NEW f, NEW s, NEW x, x \in s, Summable(f, s)
    PROVE  Takes(f, s, x)
  BY SumStep DEF Summable, Takes

\* Adding up the sums of some sequences is adding up all their places.
LEMMA SumPlaces ==
    ASSUME NEW S, \A e \in S : e.amount \in Nat, NEW D, IsFiniteSet(D),
           NEW seqs \in [D -> Seq(S)], NEW sums, \A x \in D : sums[x] = Sum(seqs[x])
    PROVE  /\ IsFiniteSet(Places(seqs, D))
           /\ SumFunctionOnSet(AmountAt(seqs, D), Places(seqs, D)) = SumFunctionOnSet(sums, D)
  <1> DEFINE g == AmountAt(seqs, D)
             Same(d) == /\ IsFiniteSet(Places(seqs, d))
                        /\ SumFunctionOnSet(g, Places(seqs, d)) = SumFunctionOnSet(sums, d)
             Bad == {d \in SUBSET D : ~Same(d)}
  <1> SUFFICES ASSUME Bad # {} PROVE FALSE
    OBVIOUS
  <1>1. PICK d \in Bad : \A x \in d : d \ {x} \notin Bad
    <2>1. Bad \in SUBSET (SUBSET D)
      OBVIOUS
    <2> HIDE DEF Bad
    <2> QED
      BY <2>1, SmallestPart
  <1>2. IsFiniteSet(d) /\ d \in SUBSET D
    BY <1>1, FS_Subset
  <1>3. d # {}
    <2>1. Places(seqs, {}) = {}
      BY DEF Places
    <2>2. Same({})
      BY <2>1, SumEmpty, FS_EmptySet
    <2> QED
      BY <1>1, <2>2
  <1>4. PICK x \in d : TRUE
    BY <1>3
  <1>5. Same(d \ {x})
    BY <1>1, <1>2, <1>4
  <1>6. x \in D /\ \A y \in d : sums[y] = Sum(seqs[y]) /\ sums[y] \in Nat
    BY <1>2, <1>4, SumType
  <1>7. IsFiniteSet(Places(seqs, {x})) /\ SumFunctionOnSet(g, Places(seqs, {x})) = sums[x]
    BY <1>4, <1>6, SumRow
  <1>8. /\ Places(seqs, d) = Places(seqs, d \ {x}) \cup Places(seqs, {x})
        /\ Places(seqs, d \ {x}) \cap Places(seqs, {x}) = {}
    BY <1>4 DEF Places
  <1>9. \A q \in Places(seqs, d) : g[q] \in Nat
    <2> TAKE q \in Places(seqs, d)
    <2>1. q[1] \in D /\ q \in D \X Nat /\ q[2] \in DOMAIN seqs[q[1]] /\ seqs[q[1]] \in Seq(S)
      BY <1>2 DEF Places
    <2>2. seqs[q[1]][q[2]] \in S
      BY <2>1
    <2> QED
      BY <2>1, <2>2 DEF AmountAt
  <1> HIDE DEF g, Bad
  <1>10. PICK A, B : A = Places(seqs, d \ {x}) /\ B = Places(seqs, {x})
    OBVIOUS
  <1>11. SumFunctionOnSet(g, A \cup B) = SumFunctionOnSet(g, A) + SumFunctionOnSet(g, B)
    <2>1. /\ IsFiniteSet(A) /\ IsFiniteSet(B) /\ A \cap B = {}
          /\ \A q \in A \cup B : g[q] \in Nat
      BY <1>5, <1>7, <1>8, <1>9, <1>10
    <2> QED
      BY ONLY <2>1, SumUnion
  <1>12. /\ SumFunctionOnSet(sums, d \ {x}) \in Nat
         /\ SumFunctionOnSet(sums, d) = sums[x] + SumFunctionOnSet(sums, d \ {x})
    <2>1. x \in d /\ Summable(sums, d)
      BY <1>2, <1>4, <1>6 DEF Summable
    <2>2. Takes(sums, d, x)
      BY ONLY <2>1, SumTake
    <2> QED
      BY ONLY <2>2 DEF Takes
  <1>13. IsFiniteSet(Places(seqs, d))
    <2>1. IsFiniteSet(A) /\ IsFiniteSet(B)
      BY <1>5, <1>7, <1>10
    <2>2. IsFiniteSet(A \cup B)
      BY ONLY <2>1, FS_Union
    <2> QED
      BY <1>8, <1>10, <2>2
  <1>14. SumFunctionOnSet(g, Places(seqs, d)) = SumFunctionOnSet(sums, d \ {x}) + sums[x]
    BY <1>5, <1>7, <1>8, <1>10, <1>11
  <1>15. sums[x] \in Nat
    BY <1>4, <1>6
  <1>16. \A a, b \in Nat : a + b = b + a
    OBVIOUS
  <1>17. Same(d)
    BY <1>12, <1>13, <1>14, <1>15, <1>16
  <1> QED
    BY <1>1, <1>17 DEF Bad

ReceivesOf(t, k) == IF ledger[t][k] = NoToken THEN <<>> ELSE ledger[t][k].receives
MintsOf(t, k) == IF ledger[t][k] = NoToken THEN <<>> ELSE ledger[t][k].mints

\* The histories of a token in all trees.
LEMMA Histories ==
    ASSUME TypeOK, NEW t \in Trees, NEW k \in Tokens
    PROVE  /\ SendsOf(t, k) \in Seq(Sends) /\ MintsOf(t, k) \in Seq([amount : Amounts])
           /\ ReceivesOf(t, k) \in Seq([id : Ids, amount : Amounts]) /\ Balance(t, k) \in Nat
           /\ Sum(SendsOf(t, k)) \in Nat /\ Sum(MintsOf(t, k)) \in Nat
           /\ Sum(ReceivesOf(t, k)) \in Nat
  <1>1. CASE ledger[t][k] = NoToken
    <2>1. /\ SendsOf(t, k) = <<>> /\ MintsOf(t, k) = <<>>
          /\ ReceivesOf(t, k) = <<>> /\ Balance(t, k) = 0
      BY <1>1 DEF SendsOf, MintsOf, ReceivesOf, Balance
    <2> QED
      BY <2>1, SumNothing
  <1>2. CASE ledger[t][k] # NoToken
    <2>1. PICK token \in TokenNodes : token = ledger[t][k]
      BY <1>2 DEF TypeOK
    <2>2. /\ SendsOf(t, k) = token.sends /\ MintsOf(t, k) = token.mints
          /\ ReceivesOf(t, k) = token.receives /\ Balance(t, k) = token.balance
      BY <1>2, <2>1 DEF SendsOf, MintsOf, ReceivesOf, Balance
    <2>3. /\ token.sends \in Seq(Sends) /\ token.mints \in Seq([amount : Amounts])
          /\ token.receives \in Seq([id : Ids, amount : Amounts])
      BY DEF TokenNodes
    <2> QED
      BY <2>2, <2>3, NodeSums
  <1> QED
    BY <1>1, <1>2

\* When every receive has the id of a send, all trees together have received no more of a
\* token than they have sent: every receive has a send of its own, because its destination
\* and its id tell which.
LEMMA ReceivedAtMostSent ==
    ASSUME TypeOK, ReceivedWasSent, NEW k \in Tokens, ReceivedUnderSentIds(k),
           NEW received, received = [t \in Trees |-> Sum(ReceivesOf(t, k))],
           NEW sent, sent = [t \in Trees |-> Sum(SendsOf(t, k))]
    PROVE  SumFunctionOnSet(received, Trees) <= SumFunctionOnSet(sent, Trees)
  <1> DEFINE Receives == [id : Ids, amount : Amounts]
  <1>0. (\A e \in Sends : e.amount \in Nat) /\ (\A e \in Receives : e.amount \in Nat)
    <2>1. Amounts \subseteq Nat
      BY UintAssumption
    <2> QED
      BY <2>1 DEF Sends
  <1>1. PICK rs \in [Trees -> Seq(Receives)] : rs = [t \in Trees |-> ReceivesOf(t, k)]
    BY Histories
  <1>2. PICK ss \in [Trees -> Seq(Sends)] : ss = [t \in Trees |-> SendsOf(t, k)]
    BY Histories
  <1> HIDE DEF Receives
  <1>3. PICK A, B, f, g : /\ A = Places(rs, Trees) /\ B = Places(ss, Trees)
                          /\ f = AmountAt(rs, Trees) /\ g = AmountAt(ss, Trees)
    OBVIOUS
  <1>4. IsFiniteSet(A) /\ SumFunctionOnSet(f, A) = SumFunctionOnSet(received, Trees)
    <2>1. \A t \in Trees : received[t] = Sum(rs[t])
      BY <1>1
    <2>2. rs \in [Trees -> Seq(Receives)] /\ IsFiniteSet(Trees)
      BY TreesAssumption
    <2>3. /\ IsFiniteSet(Places(rs, Trees))
          /\ SumFunctionOnSet(AmountAt(rs, Trees), Places(rs, Trees))
               = SumFunctionOnSet(received, Trees)
      BY ONLY <1>0, <2>1, <2>2, SumPlaces
    <2> QED
      BY <1>3, <2>3
  <1>5. IsFiniteSet(B) /\ SumFunctionOnSet(g, B) = SumFunctionOnSet(sent, Trees)
    <2>1. \A t \in Trees : sent[t] = Sum(ss[t])
      BY <1>2
    <2>2. ss \in [Trees -> Seq(Sends)] /\ IsFiniteSet(Trees)
      BY TreesAssumption
    <2>3. /\ IsFiniteSet(Places(ss, Trees))
          /\ SumFunctionOnSet(AmountAt(ss, Trees), Places(ss, Trees))
               = SumFunctionOnSet(sent, Trees)
      BY ONLY <1>0, <2>1, <2>2, SumPlaces
    <2> QED
      BY <1>3, <2>3
  <1>6. ASSUME NEW q \in A
        PROVE  /\ q = <<q[1], q[2]>> /\ q[1] \in Trees /\ q[2] \in DOMAIN rs[q[1]]
               /\ rs[q[1]][q[2]] \in Receives /\ f[q] = rs[q[1]][q[2]].amount /\ f[q] \in Nat
    <2>1. q \in Trees \X Nat /\ q[2] \in DOMAIN rs[q[1]]
      BY <1>3 DEF Places
    <2>2. rs[q[1]] \in Seq(Receives)
      BY <2>1
    <2>3. rs[q[1]][q[2]] \in Receives
      BY <2>1, <2>2
    <2>4. f[q] = rs[q[1]][q[2]].amount
      BY <1>3, <2>1 DEF AmountAt
    <2> QED
      BY <1>0, <2>1, <2>3, <2>4
  <1>7. ASSUME NEW p \in B PROVE g[p] = ss[p[1]][p[2]].amount /\ g[p] \in Nat
    <2>1. p \in Trees \X Nat /\ p[2] \in DOMAIN ss[p[1]]
      BY <1>3 DEF Places
    <2>2. ss[p[1]] \in Seq(Sends)
      BY <2>1
    <2>3. ss[p[1]][p[2]] \in Sends
      BY <2>1, <2>2
    <2>4. g[p] = ss[p[1]][p[2]].amount
      BY <1>3, <2>1 DEF AmountAt
    <2> QED
      BY <1>0, <2>3, <2>4
  <1> DEFINE SendFor(q) == [id |-> rs[q[1]][q[2]].id, amount |-> rs[q[1]][q[2]].amount,
                            to |-> q[1]]
  <1>8. ASSUME NEW q \in A PROVE \E p \in B : ss[p[1]][p[2]] = SendFor(q)
    <2>1. PICK t \in Trees : t = q[1]
      BY <1>6
    <2>2. ledger[t][k] # NoToken /\ rs[t] = ledger[t][k].receives /\ q[2] \in DOMAIN rs[t]
      <3>1. q[2] \in DOMAIN ReceivesOf(t, k) /\ rs[t] = ReceivesOf(t, k)
        BY <1>1, <1>6, <2>1
      <3> QED
        BY <3>1 DEF ReceivesOf
    <2>3. PICK u \in Trees : SendFor(q) \in Range(SendsOf(u, k))
      BY <2>1, <2>2 DEF ReceivedUnderSentIds
    <2>4. PICK j \in DOMAIN ss[u] : ss[u][j] = SendFor(q)
      BY <1>2, <2>3 DEF Range
    <2>5. j \in Nat
      <3>1. ss[u] \in Seq(Sends)
        OBVIOUS
      <3> QED
        BY <2>4, <3>1
    <2>6. <<u, j>> \in B /\ <<u, j>>[1] = u /\ <<u, j>>[2] = j
      BY <1>3, <2>4, <2>5 DEF Places
    <2> HIDE DEF SendFor
    <2> QED
      BY <2>4, <2>6
  <1>9. PICK h : h = [q \in A |-> CHOOSE p \in B : ss[p[1]][p[2]] = SendFor(q)]
    OBVIOUS
  <1>10. ASSUME NEW q \in A PROVE h[q] \in B /\ ss[h[q][1]][h[q][2]] = SendFor(q)
    <2> HIDE DEF SendFor
    <2> QED
      BY <1>8, <1>9
  <1>11. ASSUME NEW q \in A PROVE f[q] <= g[h[q]]
    <2>1. g[h[q]] = SendFor(q).amount
      BY <1>7, <1>10
    <2>2. SendFor(q).amount = f[q] /\ f[q] \in Nat
      BY <1>6
    <2> QED
      BY <2>1, <2>2
  <1>12. ASSUME NEW q \in A, NEW r \in A, h[q] = h[r] PROVE q = r
    <2>1. SendFor(q) = SendFor(r)
      <3> HIDE DEF SendFor
      <3> QED
        BY <1>10, <1>12
    <2>2. q[1] = r[1] /\ rs[q[1]][q[2]].id = rs[r[1]][r[2]].id
      BY <2>1
    <2>3. PICK t \in Trees : t = q[1] /\ t = r[1]
      BY <1>6, <2>2
    <2>4. q[2] \in DOMAIN rs[t] /\ r[2] \in DOMAIN rs[t] /\ rs[t][q[2]].id = rs[t][r[2]].id
      BY <1>6, <2>2, <2>3
    <2>5. q[2] = r[2]
      <3>1. rs[t] = ReceivesOf(t, k)
        BY <1>1
      <3>2. CASE ledger[t][k] = NoToken
        BY <2>4, <3>1, <3>2 DEF ReceivesOf
      <3>3. CASE ledger[t][k] # NoToken
        <4>1. rs[t] = ledger[t][k].receives
          BY <3>1, <3>3 DEF ReceivesOf
        <4>2. k \in Held(t)
          BY <3>3 DEF Held
        <4> DEFINE own == ledger[t][k].receives
        <4>3. \A i, j \in DOMAIN own : own[i].id = own[j].id => i = j
          BY <4>2, Zenon DEF ReceivedWasSent
        <4> HIDE DEF own
        <4>4. rs[t] = own
          BY <4>1 DEF own
        <4> QED
          BY <2>4, <4>3, <4>4, Zenon
      <3> QED
        BY <3>2, <3>3
    <2> QED
      BY <1>6, <2>2, <2>5
  <1> HIDE DEF SendFor
  <1>13. SumFunctionOnSet(f, A) <= SumFunctionOnSet(g, B)
    <2>1. /\ \A q \in A : f[q] \in Nat
          /\ \A p \in B : g[p] \in Nat
          /\ \A q \in A : h[q] \in B /\ f[q] <= g[h[q]]
          /\ \A q, r \in A : h[q] = h[r] => q = r
      BY <1>6, <1>7, <1>10, <1>11, <1>12
    <2>2. CoveredBy(f, A, g, B, h)
      BY ONLY <1>4, <1>5, <2>1 DEF CoveredBy
    <2> QED
      BY ONLY <2>2, SumInto
  <1> QED
    BY <1>4, <1>5, <1>13

\* Only a token's own tree has a monetary policy for it and mints it.
OwnPolicy ==
    \A t \in Trees : \A k \in Held(t) :
        k.did = t \/ (ledger[t][k].policy = NoPolicy /\ ledger[t][k].mints = <<>>)

\* A token is established, and so minted, in its own tree; a receive makes one without a
\* policy.
LEMMA PolicyInductive ==
    ASSUME TypeOK, OwnPolicy, [Next]_vars
    PROVE  OwnPolicy'
  <1> DEFINE Own(t, k, token) ==
               k.did = t \/ (token.policy = NoPolicy /\ token.mints = <<>>)
  <1>1. ASSUME NEW t \in Trees, NEW k \in Tokens, NEW token \in TokenNodes,
               Update(t, k, token), Replaces(t, k, token)
        PROVE  OwnPolicy'
    <2>1. ASSUME NEW old \in TokenNodes, Own(t, k, old)
          PROVE  /\ \A a \in Amounts : old.policy # NoPolicy => Own(t, k, Minting(old, a))
                 /\ \A id \in Ids, to \in Destinations, a \in Amounts :
                      Own(t, k, Sending(old, id, to, a))
                 /\ \A id, a : Own(t, k, Receiving(old, id, a))
      BY <2>1 DEF Minting, Sending, Receiving, TokenNodes
    <2>2. Own(t, k, EmptyToken(NoPolicy))
      BY DEF EmptyToken
    <2>3. ledger[t][k] \in TokenNodes => Own(t, k, ledger[t][k])
      BY NoTokenAssumption DEF OwnPolicy, Held
    <2>4. Own(t, k, token)
      <3>1. CASE k.did = t
        BY <3>1
      <3>2. CASE k.did # t
        <4> HIDE DEF Own
        <4> QED
          BY <1>1, <2>1, <2>2, <2>3, <3>2 DEF Replaces
      <3> QED
        BY <3>1, <3>2
    <2>5. ASSUME NEW u \in Trees, NEW n \in Tokens, ledger'[u][n] # NoToken
          PROVE  Own(u, n, ledger'[u][n])
      <3>1. CASE u = t /\ n = k
        BY <1>1, <2>4, <3>1, UpdateEffect
      <3>2. CASE u # t \/ n # k
        <4>1. ledger'[u][n] = ledger[u][n]
          BY <1>1, <3>2, UpdateEffect
        <4> QED
          BY <2>5, <4>1 DEF OwnPolicy, Held
      <3> QED
        BY <3>1, <3>2
    <2> QED
      BY <2>5 DEF OwnPolicy, Held
  <1>2. ASSUME NEW t \in Trees, NEW k \in Tokens, NEW id \in Ids, MakePayload(t, k, id)
        PROVE  OwnPolicy'
    BY <1>2, PayloadEffect DEF OwnPolicy, Held
  <1>3. CASE UNCHANGED vars
    BY <1>3 DEF vars, OwnPolicy, Held
  <1> QED
    BY <1>1, <1>2, <1>3, NextCases

\* When the books of all trees are in order, receivers gave the ids of the sends and none
\* twice, and only the token's own tree mints, the balances are covered by what that tree
\* minted: added up over all trees, the receives are no more than the sends.
LEMMA NoInflationHolds ==
    ASSUME TypeOK, NeverOverspent, ReceivedWasSent, OwnPolicy
    PROVE  NoInflation
  <1> SUFFICES ASSUME NEW k \in Tokens, ReceivedUnderSentIds(k)
               PROVE  SumFunction([t \in Trees |-> Balance(t, k)]) <= Minted(k)
    BY DEF NoInflation
  <1>1. PICK sent, balances, minted, received, out, in :
          /\ sent = [t \in Trees |-> Sum(SendsOf(t, k))]
          /\ balances = [t \in Trees |-> Balance(t, k)]
          /\ minted = [t \in Trees |-> Sum(MintsOf(t, k))]
          /\ received = [t \in Trees |-> Sum(ReceivesOf(t, k))]
          /\ out = [t \in Trees |-> sent[t] + balances[t]]
          /\ in = [t \in Trees |-> minted[t] + received[t]]
    OBVIOUS
  <1>2. ASSUME NEW t \in Trees
        PROVE  /\ sent[t] \in Nat /\ balances[t] \in Nat /\ minted[t] \in Nat
               /\ received[t] \in Nat /\ out[t] = sent[t] + balances[t]
               /\ in[t] = minted[t] + received[t] /\ out[t] <= in[t]
    <2>1. /\ sent[t] = Sum(SendsOf(t, k)) /\ balances[t] = Balance(t, k)
          /\ minted[t] = Sum(MintsOf(t, k)) /\ received[t] = Sum(ReceivesOf(t, k))
          /\ out[t] = sent[t] + balances[t] /\ in[t] = minted[t] + received[t]
      BY <1>1
    <2>2. sent[t] \in Nat /\ balances[t] \in Nat /\ minted[t] \in Nat /\ received[t] \in Nat
      BY <2>1, Histories
    <2>3. sent[t] + balances[t] <= minted[t] + received[t]
      <3>1. CASE ledger[t][k] = NoToken
        BY <2>1, <3>1, SumNothing DEF SendsOf, Balance, MintsOf, ReceivesOf
      <3>2. CASE ledger[t][k] # NoToken
        BY <2>1, <3>2 DEF SendsOf, Balance, MintsOf, ReceivesOf, NeverOverspent, Held
      <3> QED
        BY <3>1, <3>2
    <2> QED
      BY <2>1, <2>2, <2>3
  <1>3. IsFiniteSet(Trees) /\ \A t \in Trees : out[t] \in Nat /\ in[t] \in Nat
    BY <1>2, TreesAssumption
  <1>4. SumFunctionOnSet(out, Trees) <= SumFunctionOnSet(in, Trees)
    <2>1. PICK h : h = [t \in Trees |-> t]
      OBVIOUS
    <2>2. /\ \A t \in Trees : h[t] \in Trees /\ out[t] <= in[h[t]]
          /\ \A t, u \in Trees : h[t] = h[u] => t = u
      BY <1>2, <2>1
    <2>3. CoveredBy(out, Trees, in, Trees, h)
      BY ONLY <1>3, <2>2 DEF CoveredBy
    <2> QED
      BY ONLY <2>3, SumInto
  <1>5. /\ SumFunctionOnSet(sent, Trees) \in Nat /\ SumFunctionOnSet(balances, Trees) \in Nat
        /\ SumFunctionOnSet(out, Trees)
             = SumFunctionOnSet(sent, Trees) + SumFunctionOnSet(balances, Trees)
    <2>1. \A t \in Trees : sent[t] \in Nat /\ balances[t] \in Nat /\ out[t] = sent[t] + balances[t]
      BY <1>2
    <2> QED
      BY ONLY <1>3, <2>1, SumPlus
  <1>6. /\ SumFunctionOnSet(minted, Trees) \in Nat /\ SumFunctionOnSet(received, Trees) \in Nat
        /\ SumFunctionOnSet(in, Trees)
             = SumFunctionOnSet(minted, Trees) + SumFunctionOnSet(received, Trees)
    <2>1. \A t \in Trees :
             minted[t] \in Nat /\ received[t] \in Nat /\ in[t] = minted[t] + received[t]
      BY <1>2
    <2> QED
      BY ONLY <1>3, <2>1, SumPlus
  <1>7. SumFunctionOnSet(received, Trees) <= SumFunctionOnSet(sent, Trees)
    BY <1>1, ReceivedAtMostSent
  <1>8. SumFunctionOnSet(minted, Trees) = Minted(k)
    <2>1. PICK own \in Trees : own = k.did
      BY DEF Tokens
    <2>2. minted[own] = Minted(k) /\ minted[own] \in Nat
      BY <1>1, <1>2, <2>1, SumNothing DEF Minted, MintsOf
    <2>3. \A t \in Trees \ {own} : minted[t] = 0
      BY <1>1, <2>1, SumNothing DEF OwnPolicy, Held, MintsOf
    <2>4. IsFiniteSet(Trees \ {own})
      BY <1>3, FS_Subset
    <2>5. SumFunctionOnSet(minted, Trees \ {own}) = 0
      BY ONLY <2>3, <2>4, SumZero
    <2>6. \A t \in Trees : minted[t] \in Nat
      BY <1>2
    <2>7. SumFunctionOnSet(minted, Trees) = minted[own] + SumFunctionOnSet(minted, Trees \ {own})
      <3>1. own \in Trees
        BY <2>1
      <3> QED
        BY ONLY <1>3, <2>6, <3>1, SumStep
    <2> QED
      BY <2>2, <2>5, <2>7
  <1>9. PICK s \in Nat, b \in Nat, m \in Nat, r \in Nat :
          /\ s = SumFunctionOnSet(sent, Trees) /\ b = SumFunctionOnSet(balances, Trees)
          /\ m = SumFunctionOnSet(minted, Trees) /\ r = SumFunctionOnSet(received, Trees)
    BY <1>5, <1>6
  <1>10. s + b <= m + r /\ r <= s
    BY <1>4, <1>5, <1>6, <1>7, <1>9
  <1>11. b <= m
    BY <1>10
  <1>12. SumFunction(balances) = SumFunctionOnSet(balances, Trees)
    BY <1>1 DEF SumFunction
  <1> QED
    BY <1>1, <1>8, <1>9, <1>11, <1>12

\* In every state in which the receivers of a token gave the ids of its sends, all its
\* balances together are no more than its own tree minted, however payloads were delayed,
\* repeated and reordered and however amounts overflowed: the check of AlreadyReceived
\* is then enough.
THEOREM NothingFromNothing == Spec => []NoInflation
  <1>1. Init => OwnPolicy
    BY DEF Init, OwnPolicy, Held
  <1>2. TypeOK /\ OwnPolicy /\ [Next]_vars => OwnPolicy'
    BY PolicyInductive
  <1>3. Spec => []OwnPolicy
    BY <1>1, <1>2, TypeCorrect, PTL DEF Spec
  <1>4. TypeOK /\ NeverOverspent /\ ReceivedWasSent /\ OwnPolicy => NoInflation
    BY NoInflationHolds
  <1> QED
    BY <1>3, <1>4, TypeCorrect, Solvency, ReceivesSound, PTL
=============================================================================
