--------------------------- MODULE ChainTreeClient ---------------------------
(***************************************************************************)
(* Playing transactions on a chain tree and reading it back: Client.       *)
(* PlayTransactions, GetTip and GetLatest (gossip/client/client.go),       *)
(* NewAddBlockRequest (gossip/client/processblocks.go), the ownership of   *)
(* trees (IsOwner in gossip/types/validators.go, SignBlock in consensus/   *)
(* consensus.go) and the check of a proof (proof/proof.go,                 *)
(* GenerateHasValidProof in validators.go).                                *)
(*                                                                         *)
(* A session is a program that holds a SignedChainTree and calls one       *)
(* method after the other; several sessions, on one client or on several,  *)
(* may hold the same object.  The notary group is external: it completes   *)
(* rounds whose checkpoint lists the requests it accepts, at most one for  *)
(* each object and only on top of that object's tip.  A client adopts      *)
(* rounds upwards and may skip some (RoundSubscriber).                     *)
(*                                                                         *)
(* Nodes are addressed by their content.  A tip is the sequence of the     *)
(* blocks played from the empty tree, a round or a request stands for its  *)
(* own CID.  The state nodes that travel with a request are left out: two  *)
(* requests for the same block on the same tip are one request here.  In   *)
(* the code Go's map order may give the second one another CID; it is then *)
(* never notified of the first one's round, which is a case of SendFails.  *)
(***************************************************************************)
EXTENDS Naturals, Sequences, FiniteSets, SequencesExt

CONSTANTS
    Clients,    \* the SDK clients
    Sessions,   \* users of a SignedChainTree
    ClientOf,   \* the client a session calls
    ObjectOf,   \* the object (DID) whose tree a session holds
    Objects,    \* the objects
    Keys,       \* the private keys, each standing for its address
    KeysOf,     \* the keys a session may sign with
    GenesisKey, \* the key an object's DID was made from
    Blocks,     \* the transactions a block may hold
    NewOwners,  \* the keys a block's SetOwnership lists, {} if it has none
    MaxRounds,  \* bound: completed rounds
    MaxBlocks,  \* bound: blocks of one tree
    None        \* no request, proof or round

ASSUME SessionsAssumption ==
    /\ ClientOf \in [Sessions -> Clients]
    /\ ObjectOf \in [Sessions -> Objects]
    /\ KeysOf \in [Sessions -> SUBSET Keys] /\ GenesisKey \in [Objects -> Keys]
    /\ NewOwners \in [Blocks -> SUBSET Keys]
    /\ MaxRounds \in Nat /\ MaxBlocks \in Nat

VARIABLES
    rounds,     \* the completed rounds, each with its checkpoint and its state
    sent,       \* the requests published on the transaction topic
    current,    \* per client: the height of rs.current, 0 for nil
    fetching,   \* the clients inside handleQuorum, holding rs.Lock
    tree,       \* per session: the tip of its tree and the proof kept with it
    pc,         \* per session: where it is
    abr,        \* per session: the request it plays, or has found with GetTip
    reply       \* per session: the proof it is about to store

vars == <<rounds, sent, current, fetching, tree, pc, abr, reply>>
callVars == <<tree, pc, abr, reply>>

\* The state of the group after the last round: for each object the request
\* that made its tip.
NoState == [o \in Objects |-> None]
State == IF rounds = <<>> THEN NoState ELSE Last(rounds).state

Genesis == <<>>
TipOf(state, o) == IF state[o] = None THEN Genesis ELSE state[o].newTip

Init ==
    /\ rounds = <<>>
    /\ sent = {}
    /\ current = [c \in Clients |-> 0]
    /\ fetching = {}
    /\ tree = [s \in Sessions |-> [tip |-> Genesis, proof |-> None]]
    /\ pc = [s \in Sessions |-> "idle"]
    /\ abr = [s \in Sessions |-> None]
    /\ reply = [s \in Sessions |-> None]
-----------------------------------------------------------------------------
(* Ownership *)

\* The signature is over the block and goes into its headers, under the address.
SignBlock(b, k) == [txns |-> b, signer |-> k]

IsBlockSignedBy(block, addr) == block.signer = addr

\* What playing a block does to tree/_tupelo/authentications: SetOwnership replaces
\* them, SetData writes below tree/data only.
PlayOwnership(auths, block) ==
    IF NewOwners[block.txns] = {} THEN auths ELSE NewOwners[block.txns]

\* Mutant of Authentications: the genesis key owns the tree for ever.
AuthenticationsAndGenesis(o, tip) ==
    {GenesisKey[o]} \cup FoldLeft(PlayOwnership, {GenesisKey[o]}, tip)

\* "If there are no authentications then the Chain Tree is still owned by its
\* genesis key"
Authentications(o, tip) == FoldLeft(PlayOwnership, {GenesisKey[o]}, tip)

\* The validator IsOwner, run on the tree the block is to be played on.
IsOwner(o, tip, block) ==
    \E addr \in Authentications(o, tip) : IsBlockSignedBy(block, addr)

\* The validators of the default configuration.  The other one, IsTokenRecipient,
\* passes every block that receives no tokens (TokenLedger has those).
blockValidators(o, tip, block) == IsOwner(o, tip, block)
-----------------------------------------------------------------------------
(* The notary group *)

\* It accepts a request whose previous tip is the object's tip and whose block
\* passes the validators.
Acceptable(A) ==
    /\ \A a \in A : /\ a.previousTip = TipOf(State, a.objectId)
                     /\ blockValidators(a.objectId, a.previousTip, a.payload)
    /\ \A a, b \in A : a.objectId = b.objectId => a = b

CompleteRound(A) ==
    /\ Len(rounds) < MaxRounds
    /\ Acceptable(A)
    /\ rounds' = Append(rounds,
         [height |-> Len(rounds) + 1,
          checkpoint |-> A,
          state |-> [o \in Objects |->
             IF \E a \in A : a.objectId = o THEN CHOOSE a \in A : a.objectId = o
                                            ELSE State[o]]])
    /\ UNCHANGED <<sent, current, fetching, callVars>>
-----------------------------------------------------------------------------
(* roundSubscriber, seen from the calls: rs.current is set first, the       *)
(* checkpoint is fetched and the subscribers are called under the lock.     *)

LockFree(c) == c \notin fetching

\* Mutant of IsNewer: a confirmation of an earlier round is adopted as well.
IsAnother(c, h) == h # current[c]

\* The confirmation's Height is larger than that of rs.current.  Here confirmations carry
\* the heights of their rounds; RoundSubscriber has those that do not.
IsNewer(c, h) == h > current[c]

\* Mutant of AdoptRound: rs.current is left for later.
AdoptRoundLate(c, h) ==
    /\ LockFree(c) /\ IsNewer(c, h)
    /\ fetching' = fetching \cup {c}
    /\ UNCHANGED <<rounds, sent, current, callVars>>

AdoptRound(c, h) ==
    /\ LockFree(c) /\ IsNewer(c, h)
    /\ current' = [current EXCEPT ![c] = h]
    /\ fetching' = fetching \cup {c}
    /\ UNCHANGED <<rounds, sent, callVars>>

\* What a client reads through its current round.
FetchCompletedRound(c) == rounds[current[c]]
FetchCheckpoint(round) == round.checkpoint
FetchHamt(round) == round.state

\* Mutant of ProofOf: the proof is made like the one of GetTip.
ProofWithoutRound(a, round) ==
    [objectId |-> a.objectId, tip |-> a.newTip, addBlockRequest |-> a,
     checkpoint |-> None, round |-> None, confirmation |-> round]

\* The proof that the callback of subscribe makes.
ProofOf(a, round) ==
    [objectId |-> a.objectId, tip |-> a.newTip, addBlockRequest |-> a,
     checkpoint |-> FetchCheckpoint(round), round |-> round, confirmation |-> round]

\* Every call of Send whose request the checkpoint lists gets its proof.
Notify(c) ==
    LET round == FetchCompletedRound(c)
        proved == {s \in Sessions : /\ ClientOf[s] = c /\ pc[s] = "wait"
                                    /\ abr[s] \in FetchCheckpoint(round)}
    IN  /\ c \in fetching
        /\ fetching' = fetching \ {c}
        /\ pc' = [s \in Sessions |-> IF s \in proved THEN "proved" ELSE pc[s]]
        /\ reply' = [s \in Sessions |->
                       IF s \in proved THEN ProofOf(abr[s], round) ELSE reply[s]]
        /\ UNCHANGED <<rounds, sent, current, tree, abr>>

\* The round or its checkpoint cannot be fetched: nobody is notified.
FetchFails(c) ==
    /\ c \in fetching
    /\ fetching' = fetching \ {c}
    /\ UNCHANGED <<rounds, sent, current, callVars>>
-----------------------------------------------------------------------------
(* Client.PlayTransactions *)

Idle(s) ==
    /\ pc' = [pc EXCEPT ![s] = "idle"]
    /\ abr' = [abr EXCEPT ![s] = None]
    /\ reply' = [reply EXCEPT ![s] = None]

\* getHeight: 0 for the first block, else one more than the height in the root,
\* which is that of the last block.
getHeight(tip) == IF tip = Genesis THEN 0 ELSE (Len(tip) - 1) + 1

\* The block is played on a copy of the tree that tracks the nodes; the copy's
\* tip becomes the request's new tip and the tree itself stays where it is.
Request(s, block) ==
    [objectId |-> ObjectOf[s],
     previousTip |-> tree[s].tip,
     height |-> getHeight(tree[s].tip),
     payload |-> block,
     newTip |-> Append(tree[s].tip, block)]

\* "we run the block validators to save devs from themselves": a block that is
\* signed with another key than an owner's ends in an error, and nothing changes.
NewAddBlockRequest(s, b, k) ==
    /\ pc[s] = "idle" /\ Len(tree[s].tip) < MaxBlocks
    /\ blockValidators(ObjectOf[s], tree[s].tip, SignBlock(b, k))
    /\ abr' = [abr EXCEPT ![s] = Request(s, SignBlock(b, k))]
    /\ pc' = [pc EXCEPT ![s] = "send"]
    /\ UNCHANGED <<rounds, sent, current, fetching, tree, reply>>

\* Send subscribes under rs.Lock, publishes and waits.
Send(s) ==
    /\ pc[s] = "send" /\ LockFree(ClientOf[s])
    /\ sent' = sent \cup {abr[s]}
    /\ pc' = [pc EXCEPT ![s] = "wait"]
    /\ UNCHANGED <<rounds, current, fetching, tree, abr, reply>>

\* Mutant of SendFails: the tree is moved to the new tip without a proof.
SendFailsAdvanced(s) ==
    /\ \/ pc[s] = "send" /\ LockFree(ClientOf[s])
       \/ pc[s] = "wait"
    /\ tree' = [tree EXCEPT ![s].tip = abr[s].newTip]
    /\ Idle(s)
    /\ UNCHANGED <<rounds, sent, current, fetching>>

\* Publishing fails, or no proof comes in time: PlayTransactions returns the error
\* and the tree stays where it was, whatever the group makes of the request.
SendFails(s) ==
    /\ \/ pc[s] = "send" /\ LockFree(ClientOf[s])
       \/ pc[s] = "wait"
    /\ Idle(s)
    /\ UNCHANGED <<rounds, sent, current, fetching, tree>>

\* "tree.ChainTree = newChainTree; tree.Proof = proof"
StoreProof(s) ==
    /\ pc[s] = "proved"
    /\ tree' = [tree EXCEPT ![s] = [tip |-> reply[s].tip, proof |-> reply[s]]]
    /\ Idle(s)
    /\ UNCHANGED <<rounds, sent, current, fetching>>
-----------------------------------------------------------------------------
(* Client.GetLatest *)

\* GetTip: the request the current round's state holds for the object.  Without
\* a current round, or without the object in it, the call ends with an error
\* and changes nothing.  The proof has no round and no checkpoint.
GetTip(s) ==
    LET c == ClientOf[s]
        a == FetchHamt(FetchCompletedRound(c))[ObjectOf[s]]
    IN  /\ pc[s] = "idle" /\ LockFree(c)
        /\ current[c] # 0 /\ a # None
        /\ abr' = [abr EXCEPT ![s] = a]
        /\ reply' = [reply EXCEPT ![s] =
             [objectId |-> ObjectOf[s], tip |-> a.newTip, addBlockRequest |-> a,
              checkpoint |-> None, round |-> None, confirmation |-> FetchCompletedRound(c)]]
        /\ pc' = [pc EXCEPT ![s] = "latest"]
        /\ UNCHANGED <<rounds, sent, current, fetching, tree>>

\* Mutant of ReplayBase: the second block is taken for the first one.
ReplayBaseFirst(a) == IF a.height > 1 THEN a.previousTip ELSE Genesis

\* The tree GetLatest plays the request's block on again: the one at the previous
\* tip or, for the first block, a new empty tree.
ReplayBase(a) == IF a.height > 0 THEN a.previousTip ELSE Genesis

\* The block passes the validators once more, and the new tip is the request's
\* ("sanity check the new tip").
Replays(a) ==
    /\ blockValidators(a.objectId, ReplayBase(a), a.payload)
    /\ Append(ReplayBase(a), a.payload) = a.newTip

\* The session goes on with the tree it is given.
GetLatest(s) ==
    /\ pc[s] = "latest"
    /\ Replays(abr[s])
    /\ tree' = [tree EXCEPT ![s] = [tip |-> abr[s].newTip, proof |-> reply[s]]]
    /\ Idle(s)
    /\ UNCHANGED <<rounds, sent, current, fetching>>

\* A node cannot be fetched, or the block does not replay.
GetLatestFails(s) ==
    /\ pc[s] = "latest"
    /\ Idle(s)
    /\ UNCHANGED <<rounds, sent, current, fetching, tree>>
-----------------------------------------------------------------------------
Session(s) ==
    \/ \E b \in Blocks, k \in KeysOf[s] : NewAddBlockRequest(s, b, k)
    \/ Send(s) \/ SendFails(s) \/ StoreProof(s)
    \/ GetTip(s) \/ GetLatest(s) \/ GetLatestFails(s)

Next ==
    \/ \E A \in SUBSET sent : CompleteRound(A)
    \/ \E c \in Clients : \E h \in 1 .. Len(rounds) : AdoptRound(c, h)
    \/ \E c \in Clients : Notify(c) \/ FetchFails(c)
    \/ \E s \in Sessions : Session(s)

Spec == Init /\ [][Next]_vars
-----------------------------------------------------------------------------
(* proof.Verify and GenerateHasValidProof *)

\* verifyRoundConfirmation: a quorum signed the round's CID.
Confirmed(conf) == \E i \in DOMAIN rounds : rounds[i] = conf

\* Mutant of Verify: the request is not looked up in the checkpoint.
VerifyWithoutCheckpoint(p) ==
    /\ Confirmed(p.confirmation)
    /\ p.round = p.confirmation
    /\ p.checkpoint = p.round.checkpoint
    /\ p.tip = p.addBlockRequest.newTip
    /\ p.objectId = p.addBlockRequest.objectId

Verify(p) ==
    /\ Confirmed(p.confirmation)
    /\ p.round = p.confirmation
    /\ p.checkpoint = p.round.checkpoint
    /\ p.addBlockRequest \in p.checkpoint
    /\ p.tip = p.addBlockRequest.newTip
    /\ p.objectId = p.addBlockRequest.objectId

\* The proof that comes with a payload is a proof of the payload's tip.
HasValidProof(tip, p) == p.tip = tip /\ Verify(p)
-----------------------------------------------------------------------------
SignedBlocks == [txns : Blocks, signer : Keys]
Tips == UNION {[1 .. n -> SignedBlocks] : n \in 0 .. MaxBlocks}
Requests ==
    [objectId : Objects, previousTip : Tips, height : 0 .. MaxBlocks,
     payload : SignedBlocks, newTip : Tips]

ASSUME NoneAssumption == None \notin Requests

\* The variables hold what they can hold, and a call has what its step needs.
TypeOK ==
    /\ \A a \in sent : a \in Requests
    /\ \A i \in DOMAIN rounds : rounds[i].height = i /\ rounds[i].checkpoint \subseteq sent
    /\ current \in [Clients -> 0 .. Len(rounds)]
    /\ fetching \subseteq Clients
    /\ \A c \in fetching : current[c] # 0
    /\ \A s \in Sessions :
         /\ tree[s].tip \in Tips
         /\ pc[s] \in {"idle", "send", "wait", "proved", "latest"}
         /\ abr[s] \in Requests \cup {None}
         /\ abr[s] = None <=> pc[s] = "idle"
         /\ IF pc[s] \in {"proved", "latest"} THEN reply[s].addBlockRequest = abr[s]
                                               ELSE reply[s] = None

\* Every tip the object has had.
TipsOf(o) == {Genesis} \cup {TipOf(rounds[i].state, o) : i \in DOMAIN rounds}

\* A session's tree is at a tip the group has agreed on and its proof is a proof of
\* that tip, however calls time out, rounds are skipped or others play on it.
TreeIsCommitted ==
    \A s \in Sessions :
        /\ tree[s].tip \in TipsOf(ObjectOf[s])
        /\ tree[s].proof # None => tree[s].proof.tip = tree[s].tip

\* What Send returns passes Verify.
ReplyVerifies == \A s \in Sessions : pc[s] = "proved" => Verify(reply[s])

\* A session's tree only ever grows: GetLatest never takes back a block whose proof
\* the session has seen, because rs.current is set before anybody is notified.
TreeAdvances == [][\A s \in Sessions : IsPrefix(tree[s].tip, tree'[s].tip)]_vars

\* "sanity check the new tip" (client.go) holds of every request the group accepted:
\* GetLatest reads the height and the previous tip as NewAddBlockRequest wrote them,
\* and the validators it runs accept the block again.
SanityCheckHolds == \A o \in Objects : State[o] # None => Replays(State[o])

\* Ownership follows the handovers on the chain the group agrees on, whoever had
\* requests under way when a tree changed hands: up to the first handover every block
\* is signed by the genesis key, and from a handover up to and including the
\* next one by one of the new owners.
HandedOver(tip, i, j) ==
    /\ NewOwners[tip[i].txns] # {}
    /\ \A m \in i + 1 .. j - 1 : NewOwners[tip[m].txns] = {}

SignedByOwners ==
    \A o \in Objects : LET tip == TipOf(State, o) IN
        \A j \in DOMAIN tip :
            \/ \E i \in 1 .. j - 1 : /\ HandedOver(tip, i, j)
                                    /\ tip[j].signer \in NewOwners[tip[i].txns]
            \/ /\ \A i \in 1 .. j - 1 : NewOwners[tip[i].txns] = {}
               /\ tip[j].signer = GenesisKey[o]

\* Every proof put together from parts that are around.
Parts ==
    [objectId : Objects,
     tip : {a.newTip : a \in sent},
     addBlockRequest : sent,
     checkpoint : {rounds[i].checkpoint : i \in DOMAIN rounds} \cup {None},
     round : {rounds[i] : i \in DOMAIN rounds} \cup {None},
     confirmation : {rounds[i] : i \in DOMAIN rounds}]

\* A tip that passes HasValidProof was the tip of the object the proof names,
\* whatever parts of other proofs the proof is put together from.  The parts are
\* looked at when everybody is at rest: calls that give up and clients that catch up
\* leave the parts as they are.
AtRest ==
    /\ \A s \in Sessions : pc[s] = "idle"
    /\ fetching = {} /\ \A c \in Clients : current[c] = Len(rounds)

VerifiedWasCommitted ==
    AtRest =>
        \A p \in Parts : HasValidProof(p.tip, p) => p.tip \in TipsOf(p.objectId)
=============================================================================
