------------------------ MODULE ChainTreeClientProofs ------------------------
(***************************************************************************)
(* Theorems about ChainTreeClient, for every number of clients, sessions,  *)
(* objects, keys, rounds and blocks.                                       *)
(***************************************************************************)
EXTENDS ChainTreeClient, FiniteSetTheorems, TLAPS

RoundRecords ==
    [height : Nat, checkpoint : SUBSET Requests, state : [Objects -> Requests \cup {None}]]

PCs == {"idle", "send", "wait", "proved", "latest"}

\* The types in the form the steps need them: the variables are functions and sequences
\* over the sets that their parts are taken from.
Shape ==
    /\ rounds \in Seq(RoundRecords)
    /\ sent \in SUBSET Requests
    /\ current \in [Clients -> 0 .. Len(rounds)]
    /\ fetching \in SUBSET Clients
    /\ tree = [s \in Sessions |-> tree[s]] /\ \A s \in Sessions : tree[s].tip \in Tips
    /\ pc \in [Sessions -> PCs]
    /\ abr \in [Sessions -> Requests \cup {None}]
    /\ reply = [s \in Sessions |-> reply[s]]

\* A request as NewAddBlockRequest makes it.
WellFormed(a) ==
    /\ a.height = getHeight(a.previousTip)
    /\ a.newTip = Append(a.previousTip, a.payload)

\* What the group has agreed on: a round's checkpoint lists requests that were sent,
\* each of which is its object's request in the round's state; a request in a state
\* was valid on its previous tip.
Agreed ==
    /\ \A a \in sent : WellFormed(a)
    /\ \A i \in DOMAIN rounds :
         /\ rounds[i].height = i
         /\ \A a \in rounds[i].checkpoint : a \in sent /\ rounds[i].state[a.objectId] = a
         /\ \A o \in Objects : LET a == rounds[i].state[o] IN
              a # None => /\ a \in sent /\ a.objectId = o
                          /\ blockValidators(o, a.previousTip, a.payload)

\* The tip of an object in a later round goes on from its tip in an earlier one.
TipsGrow ==
    \A i, j \in DOMAIN rounds : i <= j =>
        \A o \in Objects : IsPrefix(TipOf(rounds[i].state, o), TipOf(rounds[j].state, o))

\* The session's client has adopted a round in which tip was the object's tip, or
\* a later one.
HasSeen(s, tip) ==
    \/ tip = Genesis
    \/ \E i \in 1 .. current[ClientOf[s]] : TipOf(rounds[i].state, ObjectOf[s]) = tip

\* A session's calls: the tree is never ahead of its client's current round, which is
\* what keeps GetTip from going back behind it.
Follows(s) ==
    /\ HasSeen(s, tree[s].tip)
    /\ tree[s].proof = None \/ tree[s].proof.tip = tree[s].tip
    /\ abr[s] = None <=> pc[s] = "idle"
    /\ pc[s] \in {"send", "wait", "proved"} =>
         /\ WellFormed(abr[s])
         /\ abr[s].objectId = ObjectOf[s] /\ abr[s].previousTip = tree[s].tip
    /\ pc[s] \in {"proved", "latest"} =>
         /\ reply[s].addBlockRequest = abr[s] /\ reply[s].tip = abr[s].newTip
         /\ HasSeen(s, abr[s].newTip)
    /\ pc[s] \notin {"proved", "latest"} => reply[s] = None
    /\ pc[s] = "proved" => Verify(reply[s])
    /\ pc[s] = "latest" => IsPrefix(tree[s].tip, abr[s].newTip)

IInv ==
    /\ Shape
    /\ Agreed
    /\ TipsGrow
    /\ \A c \in fetching : current[c] # 0
    /\ \A s \in Sessions : Follows(s)
-----------------------------------------------------------------------------
(* Tips and their prefixes *)

\* A tip is a sequence of signed blocks of bounded length.
LEMMA TipIsSeq ==
    ASSUME NEW t
    PROVE  t \in Tips <=> t \in Seq(SignedBlocks) /\ Len(t) <= MaxBlocks
  <1>1. ASSUME t \in Tips PROVE t \in Seq(SignedBlocks) /\ Len(t) <= MaxBlocks
    <2>1. PICK n \in 0 .. MaxBlocks : t \in [1 .. n -> SignedBlocks]
      BY <1>1 DEF Tips
    <2>2. n \in Nat /\ n <= MaxBlocks
      BY <2>1, SessionsAssumption
    <2>3. t \in Seq(SignedBlocks) /\ Len(t) = n
      BY <2>1, <2>2
    <2> QED
      BY <2>2, <2>3
  <1>2. ASSUME t \in Seq(SignedBlocks), Len(t) <= MaxBlocks PROVE t \in Tips
    <2>1. Len(t) \in 0 .. MaxBlocks /\ t \in [1 .. Len(t) -> SignedBlocks]
      BY <1>2, SessionsAssumption
    <2> QED
      BY <2>1 DEF Tips
  <1> QED
    BY <1>1, <1>2

\* A prefix, element by element.
LEMMA PrefixElements ==
    ASSUME NEW s \in Tips, NEW t \in Tips
    PROVE  IsPrefix(s, t) <=> Len(s) <= Len(t) /\ \A i \in 1 .. Len(s) : s[i] = t[i]
  BY TipIsSeq DEF IsPrefix

\* The empty tree has a tip.
LEMMA GenesisIsTip == Genesis \in Tips
  <1>1. Genesis \in [1 .. 0 -> SignedBlocks]
    BY DEF Genesis
  <1>2. 0 \in 0 .. MaxBlocks
    BY SessionsAssumption
  <1> QED
    BY <1>1, <1>2 DEF Tips

\* A tip is a prefix of itself, and the empty tree's tip is one of every tip.
LEMMA PrefixReflexive == \A t \in Tips : IsPrefix(t, t) /\ IsPrefix(Genesis, t)
  <1>1. ASSUME NEW t \in Tips PROVE IsPrefix(t, t)
    BY PrefixElements, TipIsSeq
  <1>2. Len(Genesis) = 0
    BY DEF Genesis
  <1>3. ASSUME NEW t \in Tips PROVE IsPrefix(Genesis, t)
    BY <1>2, GenesisIsTip, PrefixElements, TipIsSeq
  <1> QED
    BY <1>1, <1>3

\* Prefixes of prefixes are prefixes.
LEMMA PrefixTransitive ==
    ASSUME NEW s \in Tips, NEW t \in Tips, NEW u \in Tips, IsPrefix(s, t), IsPrefix(t, u)
    PROVE  IsPrefix(s, u)
  <1>1. Len(s) \in Nat /\ Len(t) \in Nat /\ Len(u) \in Nat
    BY TipIsSeq
  <1>2. /\ Len(s) <= Len(t) /\ Len(t) <= Len(u)
        /\ \A i \in 1 .. Len(s) : s[i] = t[i]
        /\ \A i \in 1 .. Len(t) : t[i] = u[i]
    BY PrefixElements
  <1>3. Len(s) <= Len(u) /\ \A i \in 1 .. Len(s) : s[i] = u[i]
    BY <1>1, <1>2
  <1> QED
    BY <1>3, PrefixElements

\* Playing a block on a tip goes on from that tip.
LEMMA PrefixOfAppend ==
    ASSUME NEW t \in Tips, NEW b \in SignedBlocks, Append(t, b) \in Tips
    PROVE  IsPrefix(t, Append(t, b))
  <1>1. t \in Seq(SignedBlocks)
    BY TipIsSeq
  <1>2. Len(Append(t, b)) = Len(t) + 1 /\ \A i \in 1 .. Len(t) : Append(t, b)[i] = t[i]
    BY <1>1
  <1> DEFINE u == Append(t, b)
  <1>3. /\ Len(t) \in Nat /\ u \in Tips
        /\ Len(u) = Len(t) + 1 /\ \A i \in 1 .. Len(t) : u[i] = t[i]
    BY <1>1, <1>2
  <1> HIDE DEF u
  <1>4. IsPrefix(t, u)
    BY <1>3, PrefixElements
  <1> QED
    BY <1>4 DEF u

\* The tips in the state of a round are tips.
LEMMA RoundTips ==
    ASSUME NEW R \in Seq(RoundRecords), NEW i \in DOMAIN R, NEW o \in Objects
    PROVE  R[i].state \in [Objects -> Requests \cup {None}] /\ TipOf(R[i].state, o) \in Tips
  <1>1. R[i] \in RoundRecords
    OBVIOUS
  <1>2. R[i].state \in [Objects -> Requests \cup {None}]
    BY <1>1 DEF RoundRecords
  <1>3. \A a \in Requests : a.newTip \in Tips
    BY DEF Requests
  <1> QED
    BY <1>2, <1>3, GenesisIsTip DEF TipOf

\* The state of the group is that of its last round.
LEMMA StateType ==
    ASSUME Shape
    PROVE  /\ \A o \in Objects : State[o] \in Requests \cup {None} /\ TipOf(State, o) \in Tips
           /\ rounds # <<>> => Len(rounds) \in DOMAIN rounds /\ State = rounds[Len(rounds)].state
  <1>1. rounds \in Seq(RoundRecords)
    BY DEF Shape
  <1>2. rounds # <<>> => Len(rounds) \in DOMAIN rounds /\ State = rounds[Len(rounds)].state
    BY <1>1 DEF State, Last
  <1>3. ASSUME NEW o \in Objects PROVE State[o] \in Requests \cup {None} /\ TipOf(State, o) \in Tips
    <2>1. CASE rounds = <<>>
      BY <2>1, GenesisIsTip DEF State, NoState, TipOf
    <2>2. CASE rounds # <<>>
      BY <1>1, <1>2, <2>2, RoundTips
    <2> QED
      BY <2>1, <2>2
  <1> QED
    BY <1>2, <1>3
-----------------------------------------------------------------------------
(* The rounds *)

\* The round that CompleteRound adds: the requests it lists are the tips of their
\* objects, and the other objects keep theirs.
LEMMA NewRound ==
    ASSUME Shape, NEW A \in SUBSET sent, CompleteRound(A)
    PROVE  /\ rounds' \in Seq(RoundRecords)
           /\ Len(rounds) \in Nat /\ Len(rounds') = Len(rounds) + 1
           /\ \A i \in 1 .. Len(rounds) : rounds'[i] = rounds[i]
           /\ LET r == rounds'[Len(rounds')] IN
                /\ r.height = Len(rounds') /\ r.checkpoint = A
                /\ \A a \in A : r.state[a.objectId] = a
                /\ \A o \in Objects : \/ r.state[o] = State[o]
                                      \/ r.state[o] \in A /\ r.state[o].objectId = o
  <1> DEFINE st == [o \in Objects |->
               IF \E a \in A : a.objectId = o THEN CHOOSE a \in A : a.objectId = o ELSE State[o]]
             r == [height |-> Len(rounds) + 1, checkpoint |-> A, state |-> st]
  <1>1. rounds \in Seq(RoundRecords) /\ A \subseteq Requests /\ Len(rounds) \in Nat
    BY DEF Shape
  <1>2. \A a \in A : a.objectId \in Objects
    BY <1>1 DEF Requests
  <1>3. ASSUME NEW o \in Objects
        PROVE  /\ \A a \in A : a.objectId = o => st[o] = a
               /\ \/ st[o] = State[o]
                  \/ st[o] \in A /\ st[o].objectId = o
    <2>1. CASE \E a \in A : a.objectId = o
      <3>1. st[o] \in A /\ st[o].objectId = o
        BY <2>1
      <3> QED
        BY <3>1 DEF CompleteRound, Acceptable
    <2>2. CASE ~\E a \in A : a.objectId = o
      BY <2>2
    <2> QED
      BY <2>1, <2>2
  <1>4. st \in [Objects -> Requests \cup {None}]
    BY <1>1, <1>3, StateType
  <1>5. rounds' = Append(rounds, r)
    BY DEF CompleteRound
  <1>6. r \in RoundRecords /\ r.height = Len(rounds) + 1 /\ r.checkpoint = A /\ r.state = st
    BY <1>1, <1>4 DEF RoundRecords
  <1> HIDE DEF r, st
  <1>7. /\ rounds' \in Seq(RoundRecords) /\ Len(rounds') = Len(rounds) + 1
        /\ \A i \in 1 .. Len(rounds) : rounds'[i] = rounds[i]
        /\ rounds'[Len(rounds')] = r
    BY <1>1, <1>5, <1>6
  <1> QED
    BY <1>1, <1>2, <1>3, <1>6, <1>7

\* Only CompleteRound changes the rounds, by adding one.
LEMMA RoundsStay ==
    ASSUME Shape, [Next]_vars
    PROVE  /\ Len(rounds) \in Nat /\ Len(rounds') \in Nat /\ Len(rounds) <= Len(rounds')
           /\ \A i \in 1 .. Len(rounds) : rounds'[i] = rounds[i]
           /\ rounds' = rounds \/ \E A \in SUBSET sent : CompleteRound(A)
  <1>1. Len(rounds) \in Nat
    BY DEF Shape
  <1>2. rounds' = rounds \/ \E A \in SUBSET sent : CompleteRound(A)
    BY DEF Next, vars, AdoptRound, Notify, FetchFails, Session, NewAddBlockRequest, Send,
           SendFails, StoreProof, GetTip, GetLatest, GetLatestFails
  <1>3. CASE rounds' = rounds
    BY <1>1, <1>2, <1>3
  <1>4. CASE \E A \in SUBSET sent : CompleteRound(A)
    BY <1>1, <1>2, <1>4, NewRound
  <1> QED
    BY <1>2, <1>3, <1>4

\* The request that PlayTransactions makes is as the group and GetLatest expect it.
LEMMA RequestType ==
    ASSUME Shape, NEW s \in Sessions, NEW b \in Blocks, NEW k \in KeysOf[s],
           Len(tree[s].tip) < MaxBlocks
    PROVE  LET a == Request(s, SignBlock(b, k)) IN
             /\ a \in Requests /\ WellFormed(a)
             /\ a.objectId = ObjectOf[s] /\ a.previousTip = tree[s].tip
  <1> DEFINE t == tree[s].tip
             p == SignBlock(b, k)
             u == Append(t, p)
  <1>1. p \in SignedBlocks
    BY SessionsAssumption DEF SignBlock, SignedBlocks
  <1>2. t \in Tips /\ t \in Seq(SignedBlocks) /\ Len(t) \in Nat
    BY TipIsSeq DEF Shape
  <1>3. u \in Seq(SignedBlocks) /\ Len(u) = Len(t) + 1
    BY <1>1, <1>2
  <1>4. u \in Tips
    <2> HIDE DEF u, t
    <2> QED
      BY <1>2, <1>3, TipIsSeq, SessionsAssumption DEF t
  <1>5. getHeight(t) \in 0 .. MaxBlocks
    BY <1>2, SessionsAssumption DEF getHeight, Genesis
  <1> QED
    BY <1>1, <1>2, <1>4, <1>5, SessionsAssumption DEF Request, Requests, WellFormed

\* The request that GetTip finds, in a round that its client has adopted.
LEMMA TipRequest ==
    ASSUME Shape, NEW s \in Sessions, GetTip(s)
    PROVE  LET h == current[ClientOf[s]] IN
             /\ h \in DOMAIN rounds
             /\ FetchHamt(FetchCompletedRound(ClientOf[s])) = rounds[h].state
             /\ rounds[h].state[ObjectOf[s]] \in Requests
  <1> DEFINE h == current[ClientOf[s]]
  <1>1. rounds \in Seq(RoundRecords) /\ Len(rounds) \in Nat
    BY DEF Shape
  <1>2. h \in 1 .. Len(rounds)
    <2>1. h \in 0 .. Len(rounds)
      BY SessionsAssumption DEF Shape
    <2>2. h # 0
      BY DEF GetTip
    <2> QED
      BY <1>1, <2>1, <2>2
  <1>3. rounds[h] \in RoundRecords
    BY <1>1, <1>2
  <1>4. rounds[h].state \in [Objects -> Requests \cup {None}]
    BY <1>3 DEF RoundRecords
  <1> QED
    BY <1>1, <1>2, <1>4, SessionsAssumption DEF GetTip, FetchHamt, FetchCompletedRound

\* The shape of the variables is kept.
LEMMA ShapeStep == IInv /\ [Next]_vars => Shape'
  <1> SUFFICES ASSUME IInv, [Next]_vars PROVE Shape'
    OBVIOUS
  <1>s. Shape
    BY DEF IInv
  <1> USE SessionsAssumption, NoneAssumption DEF Shape, PCs, Idle, callVars
  <1>1. ASSUME NEW A \in SUBSET sent, CompleteRound(A) PROVE Shape'
    <2>1. rounds' \in Seq(RoundRecords) /\ Len(rounds) \in Nat /\ Len(rounds') = Len(rounds) + 1
      BY <1>s, <1>1, NewRound
    <2>2. current' \in [Clients -> 0 .. Len(rounds')]
      BY <1>s, <1>1, <2>1 DEF CompleteRound
    <2> QED
      BY <1>s, <1>1, <2>1, <2>2 DEF CompleteRound
  <1>2. ASSUME NEW c \in Clients, NEW h \in 1 .. Len(rounds), AdoptRound(c, h) PROVE Shape'
    BY <1>s, <1>2 DEF AdoptRound
  <1>3. ASSUME NEW c \in Clients, Notify(c) PROVE Shape'
    BY <1>s, <1>3 DEF Notify
  <1>4. ASSUME NEW c \in Clients, FetchFails(c) PROVE Shape'
    BY <1>s, <1>4 DEF FetchFails
  <1>5. ASSUME NEW s \in Sessions, NEW b \in Blocks, NEW k \in KeysOf[s],
               NewAddBlockRequest(s, b, k)
        PROVE  Shape'
    <2>1. Request(s, SignBlock(b, k)) \in Requests /\ WellFormed(Request(s, SignBlock(b, k)))
      BY <1>s, <1>5, RequestType DEF NewAddBlockRequest
    <2> QED
      BY <1>s, <1>5, <2>1 DEF NewAddBlockRequest
  <1>6. ASSUME NEW s \in Sessions, Send(s) PROVE Shape'
    <2>1. abr[s] \in Requests
      BY <1>s, <1>6 DEF Send, IInv, Follows
    <2> QED
      BY <1>s, <1>6, <2>1 DEF Send
  <1>7. ASSUME NEW s \in Sessions, SendFails(s) PROVE Shape'
    BY <1>s, <1>7 DEF SendFails
  <1>8. ASSUME NEW s \in Sessions, StoreProof(s) PROVE Shape'
    <2>1. reply[s].tip \in Tips
      BY <1>s, <1>8 DEF StoreProof, IInv, Follows, Requests
    <2> QED
      BY <1>s, <1>8, <2>1 DEF StoreProof
  <1>9. ASSUME NEW s \in Sessions, GetTip(s) PROVE Shape'
    <2>1. FetchHamt(FetchCompletedRound(ClientOf[s]))[ObjectOf[s]] \in Requests
      BY <1>s, <1>9, TipRequest DEF GetTip
    <2> QED
      BY <1>s, <1>9, <2>1 DEF GetTip
  <1>10. ASSUME NEW s \in Sessions, GetLatest(s) PROVE Shape'
    <2>1. abr[s].newTip \in Tips
      BY <1>s, <1>10 DEF GetLatest, IInv, Follows, Requests
    <2> QED
      BY <1>s, <1>10, <2>1 DEF GetLatest
  <1>11. ASSUME NEW s \in Sessions, GetLatestFails(s) PROVE Shape'
    BY <1>s, <1>11 DEF GetLatestFails
  <1>12. CASE UNCHANGED vars
    BY <1>s, <1>12 DEF vars
  <1> QED
    BY <1>1, <1>2, <1>3, <1>4, <1>5, <1>6, <1>7, <1>8, <1>9, <1>10, <1>11, <1>12
       DEF Next, Session

\* Requests that reach the group are as NewAddBlockRequest made them.
LEMMA SentStep ==
    ASSUME IInv, [Next]_vars
    PROVE  sent \subseteq sent' /\ \A a \in sent' : WellFormed(a)
  <1>1. \A a \in sent : WellFormed(a)
    BY DEF IInv, Agreed
  <1>2. ASSUME NEW s \in Sessions, Send(s) PROVE sent' = sent \cup {abr[s]} /\ WellFormed(abr[s])
    BY <1>2 DEF Send, IInv, Follows
  <1>3. sent' = sent \/ \E s \in Sessions : Send(s)
    BY DEF Next, vars, CompleteRound, AdoptRound, Notify, FetchFails, Session,
           NewAddBlockRequest, SendFails, StoreProof, GetTip, GetLatest, GetLatestFails
  <1> QED
    BY <1>1, <1>2, <1>3

\* Agreement is kept: a new round lists requests that were sent and are valid on their
\* objects' tips.
LEMMA AgreedStep == IInv /\ [Next]_vars => Agreed'
  <1> SUFFICES ASSUME IInv, [Next]_vars PROVE Agreed'
    OBVIOUS
  <1> DEFINE Good(r) ==
               /\ \A a \in r.checkpoint : a \in sent' /\ r.state[a.objectId] = a
               /\ \A o \in Objects : LET a == r.state[o] IN
                    a # None => /\ a \in sent' /\ a.objectId = o
                                /\ blockValidators(o, a.previousTip, a.payload)
  <1>1. Shape /\ Agreed /\ rounds \in Seq(RoundRecords)
    BY DEF IInv, Shape
  <1>2. sent \subseteq sent' /\ \A a \in sent' : WellFormed(a)
    BY SentStep
  <1>3. \A i \in 1 .. Len(rounds) : rounds[i].height = i /\ Good(rounds[i])
    <2>1. DOMAIN rounds = 1 .. Len(rounds)
      BY <1>1
    <2> QED
      BY <1>1, <1>2, <2>1 DEF Agreed
  <1>4. rounds' \in Seq(RoundRecords)
    BY ShapeStep DEF Shape
  <1>5. ASSUME NEW A \in SUBSET sent, CompleteRound(A)
        PROVE  rounds'[Len(rounds')].height = Len(rounds') /\ Good(rounds'[Len(rounds')])
    <2> DEFINE r == rounds'[Len(rounds')]
    <2>1. /\ r.height = Len(rounds') /\ r.checkpoint = A
          /\ \A a \in A : r.state[a.objectId] = a
          /\ \A o \in Objects : \/ r.state[o] = State[o]
                                \/ r.state[o] \in A /\ r.state[o].objectId = o
      BY <1>1, <1>5, NewRound
    <2> HIDE DEF r
    <2>2. ASSUME NEW o \in Objects, r.state[o] # None
          PROVE  /\ r.state[o] \in sent' /\ r.state[o].objectId = o
                 /\ blockValidators(o, r.state[o].previousTip, r.state[o].payload)
      <3>1. CASE r.state[o] \in A /\ r.state[o].objectId = o
        BY <3>1, <1>2, <1>5 DEF CompleteRound, Acceptable
      <3>2. CASE r.state[o] = State[o]
        <4>1. rounds # <<>>
          BY <2>2, <3>2 DEF State, NoState
        <4>2. Len(rounds) \in 1 .. Len(rounds) /\ State = rounds[Len(rounds)].state
          BY <1>1, <4>1, StateType
        <4> QED
          BY <1>3, <2>2, <3>2, <4>2
      <3> QED
        BY <2>1, <3>1, <3>2
    <2>3. r.height = Len(rounds') /\ Good(r)
      BY <1>2, <2>1, <2>2
    <2> QED
      BY <2>3 DEF r
  <1>6. \A i \in 1 .. Len(rounds') : rounds'[i].height = i /\ Good(rounds'[i])
    <2> HIDE DEF Good
    <2>1. CASE rounds' = rounds
      BY <2>1, <1>3
    <2>2. CASE \E A \in SUBSET sent : CompleteRound(A)
      <3>1. /\ Len(rounds) \in Nat /\ Len(rounds') = Len(rounds) + 1
            /\ \A i \in 1 .. Len(rounds) : rounds'[i] = rounds[i]
        BY <2>2, <1>1, NewRound
      <3>2. \A i \in 1 .. Len(rounds') : i = Len(rounds') \/ i \in 1 .. Len(rounds)
        BY <3>1
      <3>3. rounds'[Len(rounds')].height = Len(rounds') /\ Good(rounds'[Len(rounds')])
        BY <2>2, <1>5
      <3> QED
        BY <3>1, <3>2, <3>3, <1>3
    <2> QED
      BY <1>1, <2>1, <2>2, RoundsStay
  <1>7. DOMAIN rounds' = 1 .. Len(rounds')
    BY <1>4
  <1> QED
    BY <1>2, <1>6, <1>7 DEF Agreed

\* A request is accepted only on top of its object's tip, so tips only grow.
LEMMA TipsGrowStep == IInv /\ [Next]_vars => TipsGrow'
  <1> SUFFICES ASSUME IInv, [Next]_vars PROVE TipsGrow'
    OBVIOUS
  <1>1. Shape /\ Agreed /\ TipsGrow /\ rounds' \in Seq(RoundRecords)
    BY ShapeStep DEF IInv, Shape
  <1>d. DOMAIN rounds' = 1 .. Len(rounds')
    BY <1>1
  <1> SUFFICES ASSUME NEW i \in 1 .. Len(rounds'), NEW j \in 1 .. Len(rounds'), i <= j,
                      NEW o \in Objects
               PROVE  IsPrefix(TipOf(rounds'[i].state, o), TipOf(rounds'[j].state, o))
    BY <1>d DEF TipsGrow, TipOf
  <1> DEFINE T(n) == TipOf(rounds'[n].state, o)
  <1>2. T(i) \in Tips /\ T(j) \in Tips
    BY <1>1, <1>d, RoundTips
  <1>3. /\ Len(rounds) \in Nat
        /\ \A n \in 1 .. Len(rounds) : rounds'[n] = rounds[n]
        /\ DOMAIN rounds = 1 .. Len(rounds)
    BY <1>1, RoundsStay DEF Shape
  <1>4. CASE i \in 1 .. Len(rounds) /\ j \in 1 .. Len(rounds)
    BY <1>1, <1>3, <1>4 DEF TipsGrow
  <1>5. CASE i = j
    BY <1>2, <1>5, PrefixReflexive
  <1>6. CASE i \in 1 .. Len(rounds) /\ j = Len(rounds) + 1
    <2>1. PICK A \in SUBSET sent : CompleteRound(A)
      BY <1>1, <1>3, <1>6, RoundsStay
    <2>2. \/ rounds'[j].state[o] = State[o]
          \/ rounds'[j].state[o] \in A /\ rounds'[j].state[o].objectId = o
      BY <1>1, <1>6, <2>1, NewRound
    <2>3. rounds # <<>> /\ State = rounds[Len(rounds)].state /\ Len(rounds) \in 1 .. Len(rounds)
      BY <1>1, <1>3, <1>6, StateType
    <2>4. IsPrefix(T(i), TipOf(State, o)) /\ TipOf(State, o) \in Tips
      BY <1>1, <1>3, <1>6, <2>3, StateType DEF TipsGrow
    <2>5. CASE rounds'[j].state[o] = State[o]
      BY <2>4, <2>5 DEF TipOf
    <2>6. CASE rounds'[j].state[o] \in A /\ rounds'[j].state[o].objectId = o
      <3> DEFINE a == rounds'[j].state[o]
      <3>1. a \in Requests /\ WellFormed(a) /\ a.previousTip = TipOf(State, o)
        BY <1>1, <2>1, <2>6 DEF Shape, Agreed, CompleteRound, Acceptable
      <3>2. T(j) = Append(TipOf(State, o), a.payload)
        BY <3>1, NoneAssumption DEF TipOf, WellFormed
      <3>3. a.payload \in SignedBlocks
        BY <3>1 DEF Requests
      <3>4. IsPrefix(TipOf(State, o), T(j))
        BY <1>2, <2>4, <3>2, <3>3, PrefixOfAppend
      <3> QED
        BY <1>2, <2>4, <3>4, PrefixTransitive
    <2> QED
      BY <2>2, <2>5, <2>6
  <1>7. Len(rounds') = Len(rounds) \/ Len(rounds') = Len(rounds) + 1
    BY <1>1, RoundsStay, NewRound
  <1> QED
    BY <1>3, <1>4, <1>5, <1>6, <1>7
-----------------------------------------------------------------------------
(* The sessions *)

\* A client never goes back, and it holds the lock only with a round adopted.
LEMMA CurrentStep ==
    ASSUME IInv, [Next]_vars
    PROVE  /\ \A c \in Clients : current'[c] >= current[c]
           /\ \A c \in fetching' : current'[c] # 0
  <1> USE SessionsAssumption DEF callVars
  <1>s. /\ current \in [Clients -> 0 .. Len(rounds)] /\ fetching \in SUBSET Clients
        /\ \A c \in fetching : current[c] # 0
        /\ Len(rounds) \in Nat
    BY DEF IInv, Shape
  <1>1. ASSUME NEW c \in Clients, NEW h \in 1 .. Len(rounds), AdoptRound(c, h)
        PROVE  /\ \A d \in Clients : current'[d] >= current[d]
               /\ \A d \in fetching' : current'[d] # 0
    BY <1>s, <1>1 DEF AdoptRound, IsNewer
  <1>2. ASSUME NEW c \in Clients, Notify(c) \/ FetchFails(c)
        PROVE  current' = current /\ fetching' \subseteq fetching
    BY <1>2 DEF Notify, FetchFails
  <1>3. ASSUME NEW A \in SUBSET sent, CompleteRound(A) PROVE UNCHANGED <<current, fetching>>
    BY <1>3 DEF CompleteRound
  <1>4. ASSUME NEW s \in Sessions, Session(s) PROVE UNCHANGED <<current, fetching>>
    BY <1>4 DEF Session, NewAddBlockRequest, Send, SendFails, StoreProof, GetTip, GetLatest,
                GetLatestFails
  <1>5. CASE UNCHANGED vars
    BY <1>s, <1>5 DEF vars
  <1> QED
    BY <1>s, <1>1, <1>2, <1>3, <1>4, <1>5 DEF Next

\* What a client has adopted stays adopted.
LEMMA SeenStays ==
    ASSUME IInv, [Next]_vars, NEW s \in Sessions, NEW tip, HasSeen(s, tip)
    PROVE  HasSeen(s, tip)'
  <1> DEFINE c == ClientOf[s]
  <1>1. c \in Clients /\ current[c] \in 0 .. Len(rounds) /\ Len(rounds) \in Nat
    BY SessionsAssumption DEF IInv, Shape
  <1>2. current'[c] >= current[c] /\ current'[c] \in Nat
    <2>1. current' \in [Clients -> 0 .. Len(rounds')] /\ Len(rounds') \in Nat
      BY ShapeStep DEF Shape
    <2> QED
      BY <1>1, <2>1, CurrentStep
  <1>3. CASE tip = Genesis
    BY <1>3 DEF HasSeen
  <1>4. ASSUME NEW i \in 1 .. current[c], TipOf(rounds[i].state, ObjectOf[s]) = tip
        PROVE  HasSeen(s, tip)'
    <2>1. i \in 1 .. current'[c] /\ i \in 1 .. Len(rounds)
      BY <1>1, <1>2
    <2>2. rounds'[i] = rounds[i]
      BY <2>1, RoundsStay DEF IInv
    <2>3. TipOf(rounds'[i].state, ObjectOf[s]) = tip
      BY <1>4, <2>2 DEF TipOf
    <2> QED
      BY <2>1, <2>3 DEF HasSeen, TipOf
  <1> QED
    BY <1>3, <1>4 DEF HasSeen

\* A proof that passes Verify passes it for ever.
LEMMA VerifyStays ==
    ASSUME IInv, [Next]_vars, NEW p, Verify(p)
    PROVE  Verify(p)'
  <1>1. rounds \in Seq(RoundRecords) /\ rounds' \in Seq(RoundRecords)
    BY ShapeStep DEF IInv, Shape
  <1>2. PICK i \in DOMAIN rounds : rounds[i] = p.confirmation
    BY DEF Verify, Confirmed
  <1>3. i \in DOMAIN rounds' /\ rounds'[i] = rounds[i]
    BY <1>1, RoundsStay DEF IInv
  <1>4. Confirmed(p.confirmation)'
    BY <1>2, <1>3 DEF Confirmed
  <1> QED
    BY <1>4 DEF Verify

\* A session whose call does not move follows its client as before.
LEMMA FollowsFrame ==
    ASSUME IInv, [Next]_vars, NEW s \in Sessions,
           tree'[s] = tree[s], pc'[s] = pc[s], abr'[s] = abr[s], reply'[s] = reply[s]
    PROVE  Follows(s)'
  <1>1. Follows(s)
    BY DEF IInv
  <1>2. HasSeen(s, tree[s].tip)'
    <2>1. PICK tip : tip = tree[s].tip
      OBVIOUS
    <2>2. HasSeen(s, tip)'
      BY <1>1, <2>1, SeenStays DEF Follows
    <2> QED
      BY <2>1, <2>2 DEF HasSeen
  <1>3. pc[s] \in {"proved", "latest"} => HasSeen(s, abr[s].newTip)'
    <2>1. PICK tip : tip = abr[s].newTip
      OBVIOUS
    <2>2. pc[s] \in {"proved", "latest"} => HasSeen(s, tip)'
      BY <1>1, <2>1, SeenStays DEF Follows
    <2> QED
      BY <2>1, <2>2 DEF HasSeen
  <1>4. pc[s] = "proved" => Verify(reply[s])'
    <2>1. PICK p : p = reply[s]
      OBVIOUS
    <2>2. pc[s] = "proved" => Verify(p)'
      BY <1>1, <2>1, VerifyStays DEF Follows
    <2> QED
      BY <2>1, <2>2 DEF Verify, Confirmed
  <1> QED
    BY <1>1, <1>2, <1>3, <1>4 DEF Follows, WellFormed

\* Nothing but its own call and the client's notification moves a session.
LEMMA FollowsOthers ==
    ASSUME IInv, [Next]_vars, NEW s \in Sessions, NEW t \in Sessions, t # s,
           Session(s) 
    PROVE  Follows(t)'
  <1>1. /\ tree = [u \in Sessions |-> tree[u]] /\ pc = [u \in Sessions |-> pc[u]]
        /\ abr = [u \in Sessions |-> abr[u]] /\ reply = [u \in Sessions |-> reply[u]]
    BY DEF IInv, Shape
  <1>2. tree'[t] = tree[t] /\ pc'[t] = pc[t] /\ abr'[t] = abr[t] /\ reply'[t] = reply[t]
    BY <1>1 DEF Session, NewAddBlockRequest, Send, SendFails, StoreProof, GetTip, GetLatest,
                GetLatestFails, Idle
  <1> QED
    BY <1>2, FollowsFrame

\* The checkpoint of the client's current round lists the request: the proof is one of
\* the object's tip in that round.
LEMMA FollowsNotify ==
    ASSUME IInv, [Next]_vars, NEW c \in Clients, Notify(c), NEW s \in Sessions
    PROVE  Follows(s)'
  <1> DEFINE r == FetchCompletedRound(c)
             p == ProofOf(abr[s], r)
  <1>1. /\ Shape /\ Agreed /\ Follows(s)
        /\ pc \in [Sessions -> PCs] /\ reply = [u \in Sessions |-> reply[u]]
        /\ rounds \in Seq(RoundRecords)
    BY DEF IInv, Shape
  <1>2. UNCHANGED <<rounds, sent, current, tree, abr>>
    BY DEF Notify
  <1>3. CASE ~(ClientOf[s] = c /\ pc[s] = "wait" /\ abr[s] \in FetchCheckpoint(r))
    <2>1. pc'[s] = pc[s] /\ reply'[s] = reply[s]
      BY <1>1, <1>3 DEF Notify
    <2> QED
      BY <1>2, <2>1, FollowsFrame
  <1>4. CASE ClientOf[s] = c /\ pc[s] = "wait" /\ abr[s] \in FetchCheckpoint(r)
    <2>1. pc'[s] = "proved" /\ reply'[s] = p
      BY <1>1, <1>4 DEF Notify
    <2>2. current[c] \in 1 .. Len(rounds) /\ current[c] \in DOMAIN rounds
      BY <1>1 DEF IInv, Shape, Notify
    <2>3. /\ abr[s] \in Requests /\ WellFormed(abr[s])
          /\ abr[s].objectId = ObjectOf[s] /\ abr[s].previousTip = tree[s].tip
      BY <1>1, <1>4, NoneAssumption DEF Follows, Shape
    <2>4. r.state[ObjectOf[s]] = abr[s]
      BY <1>1, <1>4, <2>2, <2>3 DEF Agreed, FetchCompletedRound, FetchCheckpoint
    <2>5. TipOf(r.state, ObjectOf[s]) = abr[s].newTip
      BY <2>3, <2>4, NoneAssumption DEF TipOf
    <2>6. HasSeen(s, abr[s].newTip)
      BY <1>4, <2>2, <2>5 DEF HasSeen, FetchCompletedRound
    <2>7. HasSeen(s, abr[s].newTip)' /\ HasSeen(s, tree[s].tip)'
      BY <1>1, <1>2, <2>6 DEF HasSeen, Follows, TipOf
    <2>8. Verify(p)
      BY <1>4, <2>2 DEF Verify, Confirmed, ProofOf, FetchCompletedRound, FetchCheckpoint
    <2>9. Verify(reply[s])'
      BY <1>2, <2>1, <2>8 DEF Verify, Confirmed
    <2>10. reply'[s].addBlockRequest = abr'[s] /\ reply'[s].tip = abr'[s].newTip
      BY <1>2, <2>1 DEF ProofOf
    <2> QED
      BY <1>1, <1>2, <1>4, <2>1, <2>3, <2>7, <2>9, <2>10, NoneAssumption DEF Follows, WellFormed
  <1> QED
    BY <1>3, <1>4

\* The request that GetTip finds is not behind the session's tree, because the tree is
\* not ahead of the current round.
LEMMA TipNotBehind ==
    ASSUME IInv, NEW s \in Sessions, GetTip(s)
    PROVE  LET a == FetchHamt(FetchCompletedRound(ClientOf[s]))[ObjectOf[s]] IN
             /\ a \in Requests
             /\ HasSeen(s, a.newTip)
             /\ IsPrefix(tree[s].tip, a.newTip)
  <1> DEFINE h == current[ClientOf[s]]
             o == ObjectOf[s]
             a == rounds[h].state[o]
  <1>1. /\ Shape /\ TipsGrow /\ HasSeen(s, tree[s].tip) /\ rounds \in Seq(RoundRecords)
        /\ o \in Objects
    BY SessionsAssumption DEF IInv, Follows, Shape
  <1>2. h \in DOMAIN rounds /\ a \in Requests
        /\ a = FetchHamt(FetchCompletedRound(ClientOf[s]))[ObjectOf[s]]
    BY <1>1, TipRequest
  <1>3. h \in Nat /\ h \in 1 .. h /\ DOMAIN rounds = 1 .. Len(rounds) /\ Len(rounds) \in Nat
    BY <1>1, <1>2
  <1>4. TipOf(rounds[h].state, o) = a.newTip /\ a.newTip \in Tips
    BY <1>2, NoneAssumption DEF TipOf, Requests
  <1>5. HasSeen(s, a.newTip)
    BY <1>3, <1>4 DEF HasSeen
  <1>6. IsPrefix(tree[s].tip, a.newTip)
    <2>1. CASE tree[s].tip = Genesis
      BY <1>4, <2>1, PrefixReflexive
    <2>2. ASSUME NEW i \in 1 .. h, TipOf(rounds[i].state, o) = tree[s].tip
          PROVE  IsPrefix(tree[s].tip, a.newTip)
      <3>1. i \in DOMAIN rounds /\ i <= h
        BY <1>2, <1>3
      <3> QED
        BY <1>1, <1>2, <1>4, <2>2, <3>1 DEF TipsGrow
    <2> QED
      BY <1>1, <2>1, <2>2 DEF HasSeen
  <1> QED
    BY <1>2, <1>5, <1>6

\* The session's own calls.
LEMMA FollowsSession ==
    ASSUME IInv, [Next]_vars, NEW s \in Sessions, Session(s)
    PROVE  Follows(s)'
  <1>1. /\ Shape /\ Follows(s)
        /\ tree = [u \in Sessions |-> tree[u]] /\ reply = [u \in Sessions |-> reply[u]]
        /\ pc \in [Sessions -> PCs] /\ abr \in [Sessions -> Requests \cup {None}]
    BY DEF IInv, Shape
  <1>2. UNCHANGED <<rounds, current>>
    BY DEF Session, NewAddBlockRequest, Send, SendFails, StoreProof, GetTip, GetLatest,
           GetLatestFails
  <1>3. ASSUME NEW tip, HasSeen(s, tip) PROVE HasSeen(s, tip)'
    BY <1>2, <1>3 DEF HasSeen, TipOf
  <1> USE NoneAssumption DEF Follows, Idle
  <1>4. ASSUME tree'[s].tip = tree[s].tip PROVE HasSeen(s, tree[s].tip)'
    BY <1>1, <1>2, <1>4 DEF HasSeen, TipOf
  <1>5. ASSUME NEW b \in Blocks, NEW k \in KeysOf[s], NewAddBlockRequest(s, b, k)
        PROVE  Follows(s)'
    <2> DEFINE a == Request(s, SignBlock(b, k))
    <2>1. /\ a \in Requests /\ WellFormed(a)
          /\ a.objectId = ObjectOf[s] /\ a.previousTip = tree[s].tip
      BY <1>1, <1>5, RequestType DEF NewAddBlockRequest
    <2>2. pc'[s] = "send" /\ abr'[s] = a /\ UNCHANGED <<tree, reply>> /\ pc[s] = "idle"
      BY <1>1, <1>5 DEF NewAddBlockRequest
    <2> HIDE DEF a
    <2> QED
      BY <1>1, <1>4, <2>1, <2>2 DEF WellFormed
  <1>6. CASE Send(s)
    <2>1. pc'[s] = "wait" /\ pc[s] = "send" /\ UNCHANGED <<tree, abr, reply>>
      BY <1>1, <1>6 DEF Send
    <2> QED
      BY <1>1, <1>4, <2>1 DEF WellFormed
  <1>7. CASE SendFails(s) \/ GetLatestFails(s)
    <2>1. pc'[s] = "idle" /\ abr'[s] = None /\ reply'[s] = None /\ UNCHANGED tree
      BY <1>1, <1>7 DEF SendFails, GetLatestFails
    <2> QED
      BY <1>1, <1>4, <2>1
  <1>8. CASE StoreProof(s) \/ GetLatest(s)
    <2>1. /\ pc'[s] = "idle" /\ abr'[s] = None /\ reply'[s] = None
          /\ tree'[s] = [tip |-> abr[s].newTip, proof |-> reply[s]]
          /\ HasSeen(s, abr[s].newTip) /\ reply[s].tip = abr[s].newTip
      BY <1>1, <1>8 DEF StoreProof, GetLatest
    <2>2. HasSeen(s, tree[s].tip)'
      BY <1>2, <2>1 DEF HasSeen, TipOf
    <2> QED
      BY <2>1, <2>2
  <1>9. CASE GetTip(s)
    <2> DEFINE a == FetchHamt(FetchCompletedRound(ClientOf[s]))[ObjectOf[s]]
    <2>1. a \in Requests /\ HasSeen(s, a.newTip) /\ IsPrefix(tree[s].tip, a.newTip)
      BY <1>9, TipNotBehind
    <2>2. /\ pc'[s] = "latest" /\ abr'[s] = a /\ UNCHANGED tree
          /\ reply'[s].addBlockRequest = a /\ reply'[s].tip = a.newTip
      BY <1>1, <1>9 DEF GetTip
    <2> HIDE DEF a
    <2>3. HasSeen(s, abr[s].newTip)'
      BY <1>2, <2>1, <2>2 DEF HasSeen, TipOf
    <2> QED
      BY <1>1, <1>4, <2>1, <2>2, <2>3
  <1> QED
    BY <1>5, <1>6, <1>7, <1>8, <1>9 DEF Session

\* Every session follows its client.
LEMMA FollowsStep == IInv /\ [Next]_vars => \A s \in Sessions : Follows(s)'
  <1> SUFFICES ASSUME IInv, [Next]_vars, NEW s \in Sessions PROVE Follows(s)'
    OBVIOUS
  <1>1. ASSUME NEW t \in Sessions, Session(t) PROVE Follows(s)'
    BY <1>1, FollowsSession, FollowsOthers
  <1>2. ASSUME NEW c \in Clients, Notify(c) PROVE Follows(s)'
    BY <1>2, FollowsNotify
  <1>3. ASSUME UNCHANGED callVars PROVE Follows(s)'
    BY <1>3, FollowsFrame DEF callVars
  <1> QED
    BY <1>1, <1>2, <1>3 DEF Next, CompleteRound, AdoptRound, FetchFails, vars, callVars

-----------------------------------------------------------------------------
(* The results *)

\* The inductive invariant holds.
THEOREM Inductive == Spec => []IInv
  <1>1. Init => IInv
    <2> SUFFICES ASSUME Init PROVE IInv
      OBVIOUS
    <2>1. rounds \in Seq(RoundRecords) /\ Len(rounds) = 0 /\ DOMAIN rounds = {}
      BY DEF Init
    <2>2. Shape
      BY <2>1, GenesisIsTip DEF Init, Shape, PCs
    <2> QED
      BY <2>1, <2>2 DEF Init, IInv, Agreed, TipsGrow, Follows, HasSeen
  <1>2. IInv /\ [Next]_vars => IInv'
    BY ShapeStep, AgreedStep, TipsGrowStep, CurrentStep, FollowsStep DEF IInv
  <1> QED
    BY <1>1, <1>2, PTL DEF Spec

\* The variables of the clients, the sessions and the group hold what they can hold.
THEOREM TypeCorrect == Spec => []TypeOK
  <1>1. IInv => TypeOK
    <2> SUFFICES ASSUME IInv PROVE TypeOK
      OBVIOUS
    <2>1. /\ Shape /\ Agreed
          /\ \A s \in Sessions : Follows(s)
          /\ \A c \in fetching : current[c] # 0
      BY DEF IInv
    <2>2. ASSUME NEW s \in Sessions
          PROVE  /\ tree[s].tip \in Tips /\ pc[s] \in PCs
                 /\ abr[s] \in Requests \cup {None} /\ (abr[s] = None <=> pc[s] = "idle")
                 /\ IF pc[s] \in {"proved", "latest"} THEN reply[s].addBlockRequest = abr[s]
                                                       ELSE reply[s] = None
      BY <2>1 DEF Shape, Follows
    <2>3. \A i \in DOMAIN rounds : rounds[i].height = i /\ rounds[i].checkpoint \subseteq sent
      BY <2>1 DEF Agreed
    <2> QED
      BY <2>1, <2>2, <2>3 DEF TypeOK, Shape, PCs
  <1> QED
    BY <1>1, Inductive, PTL

\* Every session's tree is at a tip that the group agreed on, with a proof of that tip,
\* for any sessions and clients and however many calls fail (PlayTransactions and
\* GetLatest set tree and proof together).
THEOREM TreesCommitted == Spec => []TreeIsCommitted
  <1>1. IInv => TreeIsCommitted
    <2> SUFFICES ASSUME IInv, NEW s \in Sessions
                 PROVE  /\ tree[s].tip \in TipsOf(ObjectOf[s])
                        /\ tree[s].proof # None => tree[s].proof.tip = tree[s].tip
      BY DEF TreeIsCommitted
    <2>1. Follows(s)
      BY DEF IInv
    <2>2. rounds \in Seq(RoundRecords) /\ current[ClientOf[s]] \in 0 .. Len(rounds)
      BY SessionsAssumption DEF IInv, Shape
    <2>3. 1 .. current[ClientOf[s]] \subseteq DOMAIN rounds
      BY <2>2
    <2>4. tree[s].tip \in TipsOf(ObjectOf[s])
      BY <2>1, <2>3 DEF Follows, HasSeen, TipsOf
    <2> QED
      BY <2>1, <2>4 DEF Follows
  <1> QED
    BY <1>1, Inductive, PTL

\* The proof that Send hands back passes proof.Verify.
THEOREM RepliesVerify == Spec => []ReplyVerifies
  <1>1. IInv => ReplyVerifies
    BY DEF IInv, Follows, ReplyVerifies
  <1> QED
    BY <1>1, Inductive, PTL

\* The sanity check of GetLatest never fails on a request that the group accepted,
\* whatever validators the group runs.
THEOREM SanityChecked == Spec => []SanityCheckHolds
  <1>1. IInv => SanityCheckHolds
    <2> SUFFICES ASSUME IInv, NEW o \in Objects, State[o] # None PROVE Replays(State[o])
      BY DEF SanityCheckHolds
    <2> DEFINE a == State[o]
    <2>1. Shape /\ Agreed
      BY DEF IInv
    <2>2. Len(rounds) \in DOMAIN rounds /\ State = rounds[Len(rounds)].state
      BY <2>1, StateType DEF State, NoState
    <2>3. /\ a \in sent /\ a.objectId = o /\ blockValidators(o, a.previousTip, a.payload)
          /\ WellFormed(a) /\ a \in Requests
      BY <2>1, <2>2 DEF Agreed, Shape
    <2> HIDE DEF a
    <2>4. a.previousTip \in Seq(SignedBlocks)
      BY <2>3, TipIsSeq DEF Requests
    <2>5. ReplayBase(a) = a.previousTip
      <3>1. CASE a.previousTip = Genesis
        BY <3>1 DEF ReplayBase
      <3>2. CASE a.previousTip # Genesis
        <4>1. Len(a.previousTip) > 0
          BY <2>4, <3>2 DEF Genesis
        <4>2. a.height = Len(a.previousTip) - 1 + 1 /\ Len(a.previousTip) \in Nat
          BY <2>3, <2>4, <3>2 DEF WellFormed, getHeight
        <4> QED
          BY <4>1, <4>2 DEF ReplayBase
      <3> QED
        BY <3>1, <3>2
    <2>6. Replays(a)
      BY <2>3, <2>5 DEF Replays, WellFormed
    <2> QED
      BY <2>6 DEF a
  <1> QED
    BY <1>1, Inductive, PTL

\* A tip with a valid proof was the tip of the object that the proof names
\* (GenerateHasValidProof), whatever proofs its parts were taken from.
THEOREM ProofsSound == Spec => []VerifiedWasCommitted
  <1>1. IInv => VerifiedWasCommitted
    <2> SUFFICES ASSUME IInv, NEW p \in Parts, HasValidProof(p.tip, p)
                 PROVE  p.tip \in TipsOf(p.objectId)
      BY DEF VerifiedWasCommitted
    <2> DEFINE a == p.addBlockRequest
    <2>1. /\ Verify(p) /\ Shape /\ Agreed /\ p.objectId \in Objects
      BY DEF IInv, HasValidProof, Parts
    <2>2. PICK i \in DOMAIN rounds : rounds[i] = p.round
      BY <2>1 DEF Verify, Confirmed
    <2>3. a \in rounds[i].checkpoint /\ p.tip = a.newTip /\ p.objectId = a.objectId
      BY <2>1, <2>2 DEF Verify
    <2>4. a \in Requests /\ rounds[i].state[a.objectId] = a
      BY <2>1, <2>3 DEF Agreed, Shape
    <2>5. TipOf(rounds[i].state, p.objectId) = p.tip
      BY <2>3, <2>4, NoneAssumption DEF TipOf
    <2> QED
      BY <2>5 DEF TipsOf
  <1> QED
    BY <1>1, Inductive, PTL

\* A session's tree only ever grows: neither PlayTransactions nor GetLatest takes a block
\* back, with other sessions and clients on the same object.
THEOREM TreesAdvance == Spec => TreeAdvances
  <1>1. IInv /\ [Next]_vars => [\A s \in Sessions : IsPrefix(tree[s].tip, tree'[s].tip)]_vars
    <2> SUFFICES ASSUME IInv, [Next]_vars, NEW s \in Sessions
                 PROVE  IsPrefix(tree[s].tip, tree'[s].tip)
      OBVIOUS
    <2>1. /\ Follows(s) /\ tree = [u \in Sessions |-> tree[u]] /\ tree[s].tip \in Tips
          /\ abr[s] \in Requests \cup {None}
      BY DEF IInv, Shape
    <2>2. IsPrefix(tree[s].tip, tree[s].tip)
      BY <2>1, PrefixReflexive
    <2>3. CASE StoreProof(s)
      <3>1. /\ tree'[s].tip = abr[s].newTip /\ abr[s] \in Requests
            /\ abr[s].newTip = Append(tree[s].tip, abr[s].payload)
        BY <2>1, <2>3, NoneAssumption DEF StoreProof, Follows, WellFormed
      <3>2. abr[s].newTip \in Tips /\ abr[s].payload \in SignedBlocks
        BY <3>1 DEF Requests
      <3> QED
        BY <2>1, <3>1, <3>2, PrefixOfAppend
    <2>4. CASE GetLatest(s)
      BY <2>1, <2>4 DEF GetLatest, Follows
    <2>5. CASE ~StoreProof(s) /\ ~GetLatest(s)
      <3>1. tree'[s] = tree[s]
        BY <2>1, <2>5 DEF Next, CompleteRound, AdoptRound, Notify, FetchFails, Session,
              NewAddBlockRequest, Send, SendFails, StoreProof, GetTip, GetLatest,
              GetLatestFails, vars, callVars
      <3> QED
        BY <2>2, <3>1
    <2> QED
      BY <2>3, <2>4, <2>5
  <1> QED
    BY <1>1, Inductive, PTL DEF Spec, TreeAdvances
-----------------------------------------------------------------------------
(* Ownership: what the fold over a tip's blocks gives *)

PlayedOn(block, auths) == PlayOwnership(auths, block)
BlockAt(tip, i) == tip[i]
LastOf(S) == Max(S)

Owners == INSTANCE FoldLemmas WITH Op <- PlayedOn, F <- BlockAt, Pick <- LastOf

\* The authentications are a fold over the positions of a tip, last one first.
LEMMA AuthenticationsFold ==
    \A o, tip : Authentications(o, tip) = Owners!Fold({GenesisKey[o]}, tip, DOMAIN tip)
  BY DEF Authentications, FoldLeft, MapThenFoldSet, Owners!Fold, Owners!Iter, PlayedOn,
         BlockAt, LastOf

\* A set of positions has a last one.
LEMMA LastPosition ==
    ASSUME NEW n \in Nat, NEW s \in SUBSET (1 .. n), s # {}
    PROVE  LastOf(s) \in s /\ \A y \in s : LastOf(s) >= y
  <1> DEFINE Bounds == {b \in Nat : \A x \in s : x <= b}
  <1>1. n \in Bounds
    OBVIOUS
  <1>2. PICK b \in Bounds : \A c \in Bounds : b <= c
    <2>1. Bounds \in SUBSET Nat /\ Bounds # {}
      BY <1>1
    <2> HIDE DEF Bounds
    <2> QED
      BY <2>1, Owners!LeastNumber
  <1>3. b \in s
    <2> SUFFICES ASSUME b \notin s PROVE FALSE
      OBVIOUS
    <2>1. \A x \in s : x \in Nat /\ x < b
      BY <1>2
    <2>2. b \in Nat /\ b - 1 \in Nat
      <3>1. PICK x \in s : TRUE
        OBVIOUS
      <3> QED
        BY <1>2, <2>1, <3>1
    <2>3. \A x \in s : x <= b - 1
      BY <2>1, <2>2
    <2>4. b - 1 \in Bounds
      BY <2>2, <2>3
    <2> HIDE DEF Bounds
    <2> QED
      BY <1>2, <2>2, <2>4
  <1>4. \E x \in s : \A y \in s : x >= y
    BY <1>2, <1>3
  <1> QED
    BY <1>4 DEF LastOf, Max

\* The empty tree belongs to its genesis key.
LEMMA AuthenticationsGenesis == \A o : Authentications(o, Genesis) = {GenesisKey[o]}
  <1> TAKE o
  <1>1. DOMAIN Genesis = {}
    BY DEF Genesis
  <1> QED
    BY <1>1, AuthenticationsFold, Owners!FoldEmpty

\* A block is played on the authentications of the blocks before it.
LEMMA AuthenticationsAppend ==
    ASSUME NEW o, NEW t \in Seq(SignedBlocks), NEW b \in SignedBlocks
    PROVE  Authentications(o, Append(t, b)) = PlayOwnership(Authentications(o, t), b)
  <1> DEFINE u == Append(t, b)
             n == Len(t)
             B == {GenesisKey[o]}
  <1>1. n \in Nat /\ DOMAIN t = 1 .. n
    OBVIOUS
  <1>2. /\ DOMAIN u = 1 .. n + 1 /\ u[n + 1] = b
        /\ \A i \in 1 .. n : u[i] = t[i]
    OBVIOUS
  <1> HIDE DEF u, n, B
  <1>3. \A k \in Nat : Owners!IsFiniteSet(1 .. k) /\ Owners!Picks(1 .. k)
    <2> TAKE k \in Nat
    <2>1. Owners!IsFiniteSet(1 .. k)
      <3>1. IsFiniteSet(1 .. k)
        BY FS_Interval
      <3> QED
        BY <3>1 DEF IsFiniteSet, Owners!IsFiniteSet
    <2> QED
      BY <2>1, LastPosition DEF Owners!Picks
  <1>4. LastOf(1 .. n + 1) = n + 1 /\ (1 .. n + 1) \ {n + 1} = 1 .. n /\ 1 .. n + 1 # {}
    <2>1. n + 1 \in Nat /\ 1 .. n + 1 \in SUBSET (1 .. n + 1) /\ n + 1 \in 1 .. n + 1
      BY <1>1
    <2>2. LastOf(1 .. n + 1) \in 1 .. n + 1 /\ \A y \in 1 .. n + 1 : LastOf(1 .. n + 1) >= y
      BY <2>1, LastPosition
    <2> QED
      BY <1>1, <2>1, <2>2
  <1>5. Owners!Fold(B, u, 1 .. n + 1) = PlayOwnership(Owners!Fold(B, u, 1 .. n), b)
    <2>1. Owners!Fold(B, u, 1 .. n + 1) =
            PlayedOn(BlockAt(u, LastOf(1 .. n + 1)),
                     Owners!Fold(B, u, (1 .. n + 1) \ {LastOf(1 .. n + 1)}))
      <3>1. PICK s : s = 1 .. n + 1
        OBVIOUS
      <3>2. Owners!IsFiniteSet(s) /\ Owners!Picks(s) /\ s # {}
        BY <1>1, <1>3, <1>4, <3>1
      <3>3. Owners!Fold(B, u, s) =
              PlayedOn(BlockAt(u, LastOf(s)), Owners!Fold(B, u, s \ {LastOf(s)}))
        BY ONLY <3>2, Owners!FoldStep
      <3> QED
        BY ONLY <3>1, <3>3
    <2> QED
      BY <1>2, <1>4, <2>1 DEF PlayedOn, BlockAt
  <1>6. Owners!Fold(B, u, 1 .. n) = Owners!Fold(B, t, 1 .. n)
    <2>1. \A i \in 1 .. n : BlockAt(u, i) = BlockAt(t, i)
      BY <1>2 DEF BlockAt
    <2> QED
      BY <1>1, <1>3, <2>1, Owners!FoldAgrees
  <1> QED
    BY <1>1, <1>2, <1>5, <1>6, AuthenticationsFold DEF u, B

\* Who owns a tree: the owners of its last handover, or its genesis key.
OwnersAre(o, tip) ==
    \/ /\ \A i \in 1 .. Len(tip) : NewOwners[tip[i].txns] = {}
       /\ Authentications(o, tip) = {GenesisKey[o]}
    \/ \E i \in 1 .. Len(tip) : /\ HandedOver(tip, i, Len(tip) + 1)
                                /\ Authentications(o, tip) = NewOwners[tip[i].txns]

\* SignedByOwners, of one block of one tip.
SignedBy(o, tip, j) ==
    \/ \E i \in 1 .. j - 1 : /\ HandedOver(tip, i, j)
                            /\ tip[j].signer \in NewOwners[tip[i].txns]
    \/ /\ \A i \in 1 .. j - 1 : NewOwners[tip[i].txns] = {}
       /\ tip[j].signer = GenesisKey[o]

WellSigned(o, tip) == OwnersAre(o, tip) /\ \A j \in 1 .. Len(tip) : SignedBy(o, tip, j)

\* The empty tree is well signed.
LEMMA GenesisWellSigned == \A o : WellSigned(o, Genesis)
  <1> TAKE o
  <1>1. Len(Genesis) = 0
    BY DEF Genesis
  <1> QED
    BY <1>1, AuthenticationsGenesis DEF WellSigned, OwnersAre

\* A block that passes IsOwner keeps a tree well signed.
LEMMA WellSignedAppend ==
    ASSUME NEW o, NEW t \in Seq(SignedBlocks), NEW b \in SignedBlocks,
           WellSigned(o, t), IsOwner(o, t, b)
    PROVE  WellSigned(o, Append(t, b))
  <1> DEFINE u == Append(t, b)
             n == Len(t)
  <1>1. n \in Nat /\ Len(u) = n + 1 /\ u[n + 1] = b /\ \A i \in 1 .. n : u[i] = t[i]
    OBVIOUS
  <1>2. Authentications(o, u) = PlayOwnership(Authentications(o, t), b)
    BY AuthenticationsAppend
  <1>3. OwnersAre(o, t) /\ \A j \in 1 .. n : SignedBy(o, t, j)
    BY DEF WellSigned
  <1>n. /\ \A i \in 1 .. n : NewOwners[u[i].txns] = NewOwners[t[i].txns]
        /\ NewOwners[u[n + 1].txns] = NewOwners[b.txns]
        /\ \A i \in 1 .. n + 1 : i \in 1 .. n \/ i = n + 1
    <2> HIDE DEF u, n
    <2> QED
      BY <1>1
  <1> HIDE DEF u, n
  <1>4. OwnersAre(o, u)
    <2>1. CASE NewOwners[b.txns] # {}
      <3>1. HandedOver(u, n + 1, (n + 1) + 1)
        BY <1>1, <2>1 DEF HandedOver
      <3>2. Authentications(o, u) = NewOwners[b.txns]
        BY <1>2, <2>1 DEF PlayOwnership
      <3> QED
        BY <1>1, <3>1, <3>2 DEF OwnersAre
    <2>2. CASE NewOwners[b.txns] = {}
      <3>1. Authentications(o, u) = Authentications(o, t)
        BY <1>2, <2>2 DEF PlayOwnership
      <3>2. CASE /\ \A i \in 1 .. n : NewOwners[t[i].txns] = {}
                 /\ Authentications(o, t) = {GenesisKey[o]}
        <4>1. \A i \in 1 .. n + 1 : NewOwners[u[i].txns] = {}
          BY <1>n, <2>2, <3>2
        <4> QED
          BY <1>1, <3>1, <3>2, <4>1 DEF OwnersAre
      <3>3. ASSUME NEW i \in 1 .. n, HandedOver(t, i, n + 1),
                   Authentications(o, t) = NewOwners[t[i].txns]
            PROVE  OwnersAre(o, u)
        <4>1. HandedOver(u, i, (n + 1) + 1)
          <5>1. \A m \in i + 1 .. (n + 1) - 1 : NewOwners[t[m].txns] = {}
            BY <3>3 DEF HandedOver
          <5>2. \A m \in i + 1 .. ((n + 1) + 1) - 1 :
                   m = n + 1 \/ (m \in i + 1 .. (n + 1) - 1 /\ m \in 1 .. n)
            BY <1>1
          <5>3. \A m \in i + 1 .. ((n + 1) + 1) - 1 : NewOwners[u[m].txns] = {}
            BY <1>n, <2>2, <5>1, <5>2
          <5> QED
            BY <1>n, <3>3, <5>3 DEF HandedOver
        <4> QED
          BY <1>1, <3>1, <3>3, <4>1 DEF OwnersAre
      <3> QED
        BY <1>3, <3>2, <3>3 DEF OwnersAre, n
    <2> QED
      BY <2>1, <2>2
  <1>5. ASSUME NEW j \in 1 .. n PROVE SignedBy(o, u, j)
    <2>1. SignedBy(o, t, j) /\ u[j] = t[j] /\ \A i \in 1 .. j - 1 : u[i] = t[i]
      BY <1>1, <1>3
    <2>2. \A i \in 1 .. j - 1 : HandedOver(t, i, j) => HandedOver(u, i, j)
      <3> TAKE i \in 1 .. j - 1
      <3>1. \A m \in i .. j - 1 : m \in 1 .. n
        BY <1>1
      <3>2. i \in i .. j - 1 /\ i + 1 .. j - 1 \subseteq i .. j - 1
        BY <1>1
      <3> QED
        BY <1>n, <3>1, <3>2 DEF HandedOver
    <2>3. \A i \in 1 .. j - 1 : i \in 1 .. n
      BY <1>1
    <2> QED
      BY <1>n, <2>1, <2>2, <2>3 DEF SignedBy
  <1>6. SignedBy(o, u, n + 1)
    <2>1. b.signer \in Authentications(o, t)
      BY DEF IsOwner, IsBlockSignedBy
    <2>2. CASE /\ \A i \in 1 .. n : NewOwners[t[i].txns] = {}
               /\ Authentications(o, t) = {GenesisKey[o]}
      <3>1. (n + 1) - 1 = n /\ b.signer = GenesisKey[o]
        BY <1>1, <2>1, <2>2
      <3> QED
        BY <1>1, <1>n, <2>2, <3>1 DEF SignedBy
    <2>3. ASSUME NEW i \in 1 .. n, HandedOver(t, i, n + 1),
                 Authentications(o, t) = NewOwners[t[i].txns]
          PROVE  SignedBy(o, u, n + 1)
      <3>1. HandedOver(u, i, n + 1)
        <4>1. \A m \in i + 1 .. (n + 1) - 1 : m \in 1 .. n
          BY <1>1
        <4> QED
          BY <1>n, <2>3, <4>1 DEF HandedOver
      <3>2. (n + 1) - 1 = n /\ b.signer \in NewOwners[u[i].txns]
        BY <1>1, <1>n, <2>1, <2>3
      <3> QED
        BY <1>1, <3>1, <3>2 DEF SignedBy
    <2> QED
      BY <1>3, <2>2, <2>3 DEF OwnersAre, n
  <1>7. \A j \in 1 .. n + 1 : SignedBy(o, u, j)
    BY <1>1, <1>5, <1>6
  <1> QED
    BY <1>1, <1>4, <1>7 DEF WellSigned, u

\* The group only adds blocks that pass the validators on the tip they are played on.
LEMMA WellSignedStep ==
    IInv /\ (\A o \in Objects : WellSigned(o, TipOf(State, o))) /\ [Next]_vars
      => (\A o \in Objects : WellSigned(o, TipOf(State, o)))'
  <1> SUFFICES ASSUME IInv, \A o \in Objects : WellSigned(o, TipOf(State, o)), [Next]_vars,
                      NEW o \in Objects
               PROVE  WellSigned(o, TipOf(State', o))
    BY DEF TipOf
  <1>1. Shape /\ Agreed /\ rounds \in Seq(RoundRecords) /\ rounds' \in Seq(RoundRecords)
    BY ShapeStep DEF IInv, Shape
  <1>2. CASE rounds' = rounds
    BY <1>2 DEF State
  <1>3. ASSUME NEW A \in SUBSET sent, CompleteRound(A) PROVE WellSigned(o, TipOf(State', o))
    <2> DEFINE r == rounds'[Len(rounds')]
    <2>1. /\ Len(rounds') = Len(rounds) + 1 /\ Len(rounds) \in Nat
          /\ \/ r.state[o] = State[o]
             \/ r.state[o] \in A /\ r.state[o].objectId = o
      BY <1>1, <1>3, NewRound
    <2>2. State' = r.state
      BY <1>1, <2>1 DEF State, Last
    <2> HIDE DEF r
    <2>3. CASE r.state[o] = State[o]
      BY <2>2, <2>3 DEF TipOf
    <2>4. CASE r.state[o] \in A /\ r.state[o].objectId = o
      <3> DEFINE a == r.state[o]
      <3>1. /\ a \in Requests /\ WellFormed(a)
            /\ a.previousTip = TipOf(State, o) /\ IsOwner(o, a.previousTip, a.payload)
        BY <1>1, <1>3, <2>4 DEF Shape, Agreed, CompleteRound, Acceptable, blockValidators
      <3>2. a.previousTip \in Seq(SignedBlocks) /\ a.payload \in SignedBlocks
        BY <3>1, TipIsSeq DEF Requests
      <3>3. TipOf(State', o) = Append(a.previousTip, a.payload)
        BY <2>2, <3>1, NoneAssumption DEF TipOf, WellFormed
      <3> HIDE DEF a
      <3> QED
        BY <3>1, <3>2, <3>3, WellSignedAppend
    <2> QED
      BY <2>1, <2>3, <2>4
  <1> QED
    BY <1>1, <1>2, <1>3, RoundsStay

\* Ownership follows the handovers on every chain the group agrees on, for any keys,
\* handovers and sessions that compete for a tree (IsOwner).
THEOREM OwnersSign == Spec => []SignedByOwners
  <1> DEFINE W == \A o \in Objects : WellSigned(o, TipOf(State, o))
  <1>1. Init => W
    BY GenesisWellSigned DEF Init, State, NoState, TipOf
  <1>2. IInv /\ W /\ [Next]_vars => W'
    BY WellSignedStep
  <1>3. IInv /\ W => SignedByOwners
    <2> SUFFICES ASSUME IInv, W, NEW o \in Objects, NEW j \in DOMAIN TipOf(State, o)
                 PROVE  SignedBy(o, TipOf(State, o), j)
      BY DEF SignedByOwners, SignedBy
    <2>1. TipOf(State, o) \in Seq(SignedBlocks)
      BY StateType, TipIsSeq DEF IInv
    <2>2. j \in 1 .. Len(TipOf(State, o))
      BY <2>1
    <2> QED
      BY <2>2 DEF WellSigned
  <1> HIDE DEF W
  <1> QED
    BY <1>1, <1>2, <1>3, Inductive, PTL DEF Spec
=============================================================================
