--------------------------- MODULE RoundSubscriber ---------------------------
(***************************************************************************)
(* The round subscriber of the SDK client (gossip/client/roundsubscriber.go)*)
(* together with the signature arithmetic it rests on (signatures/         *)
(* signature.go) and the quorum size of the notary group (gossip/types/    *)
(* notarygroup.go).                                                        *)
(*                                                                         *)
(* Every client listens to the group's pubsub topic.  Each confirmation    *)
(* carries a height, a round and, per signer, how many times that signer's *)
(* signature was added into the aggregate.  The client adds the            *)
(* confirmations of one height and round together until a quorum of        *)
(* distinct signers is behind it, then makes it the current round, fetches *)
(* its checkpoint and notifies its subscribers.  Pubsub may lose, repeat,  *)
(* delay and reorder confirmations: a loop may receive any confirmation at *)
(* any time.                                                               *)
(*                                                                         *)
(* The signatures cover the round only.  The height of a confirmation is a *)
(* field of the message that nothing compares with the round's own height, *)
(* so any of Heights may come with any round.                              *)
(***************************************************************************)
EXTENDS Naturals, Sequences, FiniteSets

CONSTANTS
    Clients,        \* the SDK clients, each with its own roundSubscriber
    Loops,          \* the receive loops of one subscriber: one per call of start
    Signers,        \* the notary group's signers
    Faulty,         \* signers that may sign two rounds of the same height
    Rounds,         \* the round CIDs
    HeightOf,       \* Round.Height of every round
    Heights,        \* the values of Height in the messages on the topic
    Vectors,        \* the Signature.Signers vectors seen on the topic
    MaxCount,       \* the largest signer count (math.MaxUint32 in the code)
    MaxPublished,   \* bound: a loop's ctx is cancelled after so many notifications
    NoRound,        \* rs.current before the first round
    NoMsg,          \* a loop that holds no confirmation
    NoLoop          \* nobody holds the subscriber's lock

ASSUME SignersAssumption == IsFiniteSet(Signers) /\ Signers # {}

ASSUME FaultyAssumption ==
    Faulty \subseteq Signers /\ 3 * Cardinality(Faulty) < Cardinality(Signers)

ASSUME RoundsAssumption == HeightOf \in [Rounds -> Nat] /\ Heights \subseteq Nat

ASSUME CountAssumption ==
    /\ MaxCount \in Nat \ {0}
    /\ MaxPublished \in Nat
    /\ Vectors \subseteq [Signers -> 0 .. MaxCount]

ASSUME NullAssumption ==
    /\ NoLoop \notin Loops
    /\ NoMsg \notin [height : Heights, round : Rounds, sig : Vectors]
    /\ NoRound \notin [height : Heights, round : Rounds]
    /\ NoRound \notin [height : Heights, round : Rounds, sig : [Signers -> 0 .. MaxCount]]

VARIABLES
    signed,         \* <<s, r>>: signer s has signed round r
    current,        \* per client: rs.current, a confirmation, or NoRound
    inflight,       \* per client: rs.inflight, the aggregate of each height and round
    checked,        \* per client and loop: the confirmation that passed the checks
    lock,           \* per client: the loop inside handleQuorum, holding rs.Lock
    published,      \* per client: the rounds notified to the subscribers, with heights
    heard           \* per client, for the properties: <<h, r, s>> when a confirmation of
                    \* height h with s behind round r has reached the conflict sets

vars == <<signed, current, inflight, checked, lock, published, heard>>
-----------------------------------------------------------------------------
\* Mutant of QuorumCount: rounded down.
QuorumCountRoundedDown == (2 * Cardinality(Signers)) \div 3

\* NotaryGroup.QuorumCount: two thirds of the signers, rounded up.
QuorumCount == (2 * Cardinality(Signers) + 2) \div 3

Sigs == [Signers -> 0 .. MaxCount]

\* The signers an aggregate stands for.
SignersOf(sig) == {s \in Signers : sig[s] > 0}

\* Mutant of SignerCount: every signature counts, repeated ones too.
SignatureCount(sig) ==
    Cardinality({p \in Signers \X (1 .. MaxCount) : p[2] <= sig[p[1]]})

SignerCount(sig) == Cardinality(SignersOf(sig))

isQuorum(sig) == SignerCount(sig) >= QuorumCount

\* A round that is no key of the conflict sets: a stored aggregate always has
\* a signer, so the empty vector stands for "not there".
NoSig == [s \in Signers |-> 0]

\* Mutant of WouldOverflow: the sums are not checked.
NeverOverflows(a, b) == FALSE

\* AggregateBLSSignatures: counts are added signer by signer, and the whole
\* aggregation fails when one of the sums leaves uint32.
WouldOverflow(a, b) == \E s \in Signers : a[s] + b[s] > MaxCount
AggregateBLSSignatures(a, b) == [s \in Signers |-> a[s] + b[s]]

\* What the topic carries, and what a client holds.
Confirmations == [height : Heights, round : Rounds, sig : Vectors]
Aggregates == [height : Heights, round : Rounds, sig : Sigs]

\* RestoreBLSPublicKey and Valid: the aggregate verifies against the sum of the
\* keys of the signers it names when each of them has signed that round.
Valid(m) == \A s \in SignersOf(m.sig) : <<s, m.round>> \in signed

\* Mutant of IsStale: a confirmation of the current height passes.
IsStrictlyStale(c, m) == current[c] # NoRound /\ m.height < current[c].height

\* "rs.current != nil && confirmation.Height <= rs.current.Height()"
IsStale(c, m) == current[c] # NoRound /\ m.height <= current[c].height

\* The signers behind a round, and the rounds that a quorum of them signed.
SignersBehind(r) == {s \in Signers : <<s, r>> \in signed}
Decided == {r \in Rounds : Cardinality(SignersBehind(r)) >= QuorumCount}

\* A height without a conflict set.
NoConflicts == [r \in Rounds |-> NoSig]

\* The aggregate that a client holds for the round of a message, and that with the message.
HeldFor(c, m) == inflight[c][m.height][m.round]
Updated(c, m) == AggregateBLSSignatures(HeldFor(c, m), m.sig)
-----------------------------------------------------------------------------
Init ==
    /\ signed = {}
    /\ current = [c \in Clients |-> NoRound]
    /\ inflight = [c \in Clients |-> [h \in Heights |-> NoConflicts]]
    /\ checked = [c \in Clients |-> [l \in Loops |-> NoMsg]]
    /\ lock = [c \in Clients |-> NoLoop]
    /\ published = [c \in Clients |-> <<>>]
    /\ heard = [c \in Clients |-> {}]

\* A signer of the group signs a completed round.  A signer that is not faulty
\* signs one round per height.
Sign(s, r) ==
    /\ <<s, r>> \notin signed
    /\ s \notin Faulty =>
         \A p \in Rounds : HeightOf[p] = HeightOf[r] => <<s, p>> \notin signed
    /\ signed' = signed \cup {<<s, r>>}
    /\ UNCHANGED <<current, inflight, checked, lock, published, heard>>

\* handleMessage up to the lock: rs.current is read without holding it.  A
\* confirmation that fails a check is dropped and changes nothing.
Check(c, l, m) ==
    /\ checked[c][l] = NoMsg /\ lock[c] # l
    /\ Len(published[c]) < MaxPublished
    /\ ~IsStale(c, m)
    /\ Valid(m)
    /\ checked' = [checked EXCEPT ![c][l] = m]
    /\ UNCHANGED <<signed, current, inflight, lock, published, heard>>

\* The signers of a confirmation that has reached the conflict sets.
Hear(c, m, signers) ==
    heard' = [heard EXCEPT ![c] = @ \cup {<<m.height, m.round, s>> : s \in signers}]

\* handleMessage takes the lock and roundConflictSet.add fails: the existing aggregate is
\* kept and the confirmation is lost, unless it was of one signer, who is in the aggregate.
AddFails(c, l) ==
    LET m == checked[c][l]
    IN  /\ m # NoMsg /\ lock[c] = NoLoop
        /\ WouldOverflow(HeldFor(c, m), m.sig)
        /\ Hear(c, m, {s \in Signers : SignersOf(m.sig) = {s}})
        /\ checked' = [checked EXCEPT ![c][l] = NoMsg]
        /\ UNCHANGED <<signed, current, inflight, lock, published>>

\* Mutant of Add: the incoming confirmation is looked at, not the combination.
AddLooksAtMessage(c, l) ==
    LET m == checked[c][l]
    IN  /\ m # NoMsg /\ lock[c] = NoLoop
        /\ ~WouldOverflow(HeldFor(c, m), m.sig)
        /\ ~isQuorum(m.sig)
        /\ inflight' = [inflight EXCEPT ![c][m.height][m.round] = Updated(c, m)]
        /\ Hear(c, m, SignersOf(m.sig))
        /\ checked' = [checked EXCEPT ![c][l] = NoMsg]
        /\ UNCHANGED <<signed, current, lock, published>>

\* roundConflictSet.add combines the confirmation with what is held for its height and
\* round, and the combination is not a quorum yet.
Add(c, l) ==
    LET m == checked[c][l]
    IN  /\ m # NoMsg /\ lock[c] = NoLoop
        /\ ~WouldOverflow(HeldFor(c, m), m.sig)
        /\ ~isQuorum(Updated(c, m))
        /\ inflight' = [inflight EXCEPT ![c][m.height][m.round] = Updated(c, m)]
        /\ Hear(c, m, SignersOf(m.sig))
        /\ checked' = [checked EXCEPT ![c][l] = NoMsg]
        /\ UNCHANGED <<signed, current, lock, published>>

\* Mutant of Pruned: the conflict set of the next height goes as well.
PrunedOneMore(c, h) ==
    [k \in Heights |-> IF k <= h + 1 THEN NoConflicts ELSE inflight[c][k]]

\* The conflict sets handleQuorum keeps: the ones above the new height.
Pruned(c, h) == [k \in Heights |-> IF k <= h THEN NoConflicts ELSE inflight[c][k]]

\* The combination makes a quorum: handleQuorum makes the round current and
\* forgets every conflict set up to its height, before it fetches anything.
MakeQuorum(c, l) ==
    LET m == checked[c][l]
    IN  /\ m # NoMsg /\ lock[c] = NoLoop
        /\ ~WouldOverflow(HeldFor(c, m), m.sig)
        /\ isQuorum(Updated(c, m))
        /\ current' = [current EXCEPT ![c] = [m EXCEPT !.sig = Updated(c, m)]]
        /\ inflight' = [inflight EXCEPT ![c] = Pruned(c, m.height)]
        /\ Hear(c, m, SignersOf(m.sig))
        /\ checked' = [checked EXCEPT ![c][l] = NoMsg]
        /\ lock' = [lock EXCEPT ![c] = l]
        /\ UNCHANGED <<signed, published>>

\* The completed round and its checkpoint are there: handleQuorum notifies the
\* subscribers and the lock is released.
Publish(c, l) ==
    /\ lock[c] = l
    /\ published' = [published EXCEPT ![c] =
                        Append(@, [height |-> current[c].height, round |-> current[c].round])]
    /\ lock' = [lock EXCEPT ![c] = NoLoop]
    /\ UNCHANGED <<signed, current, inflight, checked, heard>>

\* One of them cannot be fetched within 30 seconds or does not decode:
\* handleQuorum returns the error and nobody is notified of the round.
FetchFails(c, l) ==
    /\ lock[c] = l
    /\ lock' = [lock EXCEPT ![c] = NoLoop]
    /\ UNCHANGED <<signed, current, inflight, checked, published, heard>>

Loop(c, l) ==
    \/ \E m \in Confirmations : Check(c, l, m)
    \/ AddFails(c, l)
    \/ Add(c, l)
    \/ MakeQuorum(c, l)
    \/ Publish(c, l)
    \/ FetchFails(c, l)

Next ==
    \/ \E s \in Signers, r \in Rounds : Sign(s, r)
    \/ \E c \in Clients, l \in Loops : Loop(c, l)

Spec == Init /\ [][Next]_vars
-----------------------------------------------------------------------------
\* The variables hold what the Go fields can hold.
TypeOK ==
    /\ signed \subseteq Signers \X Rounds
    /\ current \in [Clients -> Aggregates \cup {NoRound}]
    /\ inflight \in [Clients -> [Heights -> [Rounds -> Sigs]]]
    /\ checked \in [Clients -> [Loops -> Confirmations \cup {NoMsg}]]
    /\ lock \in [Clients -> Loops \cup {NoLoop}]
    /\ published \in [Clients -> Seq([height : Heights, round : Rounds])]
    /\ heard \in [Clients -> SUBSET (Heights \X Rounds \X Signers)]

\* The confirmation a client holds as current, and hands out in proofs, is the
\* signature of a quorum of distinct signers that really signed that round:
\* the repeated signatures that aggregation adds up never count twice.
CurrentHasQuorum ==
    \A c \in Clients : current[c] # NoRound =>
        Cardinality(SignersOf(current[c].sig) \cap SignersBehind(current[c].round))
          >= QuorumCount

\* A quorum is noticed when it is reached: no aggregate left in the conflict
\* sets has a quorum, so no round waits for one more message to be adopted.
NoUnnoticedQuorum ==
    \A c \in Clients, h \in Heights, r \in Rounds : ~isQuorum(inflight[c][h][r])

\* Every round that client c has notified or holds as current.
Seen(c) ==
    {published[c][i].round : i \in 1 .. Len(published[c])}
      \cup {r \in Rounds : current[c] # NoRound /\ current[c].round = r}

\* Two clients never act on different rounds of the same Round.Height, however the
\* confirmations reach them, whatever heights they carry and whatever a third of the
\* signers signs.
Agreement ==
    \A c, d \in Clients : \A r \in Seen(c), q \in Seen(d) :
        HeightOf[r] = HeightOf[q] => r = q

\* With one receive loop, the conflict sets up to the current height are gone
\* and none comes back, although rs.current is compared before the lock.
InflightAboveCurrent ==
    \A c \in Clients, h \in Heights :
        current[c] # NoRound /\ h <= current[c].height => inflight[c][h] = NoConflicts

\* With one receive loop, subscribers are notified of one confirmation per height, in the
\* order of the heights that the confirmations carry, and of none beyond the current one.
PublishedInOrder ==
    \A c \in Clients :
      /\ \A i, j \in 1 .. Len(published[c]) :
           i < j => published[c][i].height < published[c][j].height
      /\ \A i \in 1 .. Len(published[c]) :
           current[c] # NoRound /\ published[c][i].height <= current[c].height

\* With one receive loop the height of the current confirmation only grows.
CurrentAdvances ==
    [][\A c \in Clients : current'[c] # current[c] =>
          /\ current'[c] # NoRound
          /\ current[c] # NoRound => current[c].height < current'[c].height]_vars

\* With one receive loop, a client that has been sent the confirmations of a quorum of
\* signers for a round at a height is at that height or above: no signature is lost
\* between the messages it comes in, whatever else comes in between, although counters
\* fill up, conflict sets are thrown away and messages are refused.
HeardRoundReached ==
    \A c \in Clients, h \in Heights, r \in Rounds :
        Cardinality({s \in Signers : <<h, r, s>> \in heard[c]}) >= QuorumCount =>
            current[c] # NoRound /\ current[c].height >= h

\* The inductive invariant, in parts.  A signer that is not faulty has signed one
\* round per height.
SignedOnce ==
    \A s \in Signers \ Faulty : \A r, q \in Rounds :
        /\ <<s, r>> \in signed /\ <<s, q>> \in signed
        /\ HeightOf[r] = HeightOf[q]
        => r = q

\* Every signer an aggregate stands for has signed its round: in the conflict
\* sets, in the confirmations on their way to them, and in the current round.
HeldIsSigned ==
    \A c \in Clients, h \in Heights, r \in Rounds :
        SignersOf(inflight[c][h][r]) \subseteq SignersBehind(r)
CheckedIsSigned ==
    \A c \in Clients, l \in Loops : checked[c][l] # NoMsg => Valid(checked[c][l])
CurrentIsSigned ==
    \A c \in Clients : current[c] # NoRound =>
        isQuorum(current[c].sig) /\ Valid(current[c])

\* A loop that fetches has made a round current, and what it notifies is decided.
FetchingHasCurrent == \A c \in Clients : lock[c] # NoLoop => current[c] # NoRound
PublishedIsDecided ==
    \A c \in Clients : \A i \in 1 .. Len(published[c]) : published[c][i].round \in Decided

Sound ==
    /\ SignedOnce
    /\ HeldIsSigned /\ CheckedIsSigned /\ CurrentIsSigned
    /\ FetchingHasCurrent /\ PublishedIsDecided

\* With one receive loop, the answer of the check made before the lock still
\* holds when the lock is taken, and a round is notified before the next one
\* becomes current.
CheckedIsFresh ==
    \A c \in Clients, l \in Loops :
        checked[c][l] # NoMsg =>
            /\ lock[c] = NoLoop
            /\ current[c] # NoRound => checked[c][l].height > current[c].height
NotifiedBelowCurrent ==
    \A c \in Clients : lock[c] # NoLoop =>
        \A i \in 1 .. Len(published[c]) : published[c][i].height < current[c].height

\* Whoever was heard for a height above the current one is held in its conflict set.
HeardIsHeld ==
    \A c \in Clients, h \in Heights, r \in Rounds, s \in Signers :
        <<h, r, s>> \in heard[c] =>
            \/ current[c] # NoRound /\ h <= current[c].height
            \/ s \in SignersOf(inflight[c][h][r])

OneLoop == \A k, l \in Loops : k = l
Forward ==
    /\ CheckedIsFresh /\ NotifiedBelowCurrent
    /\ InflightAboveCurrent /\ PublishedInOrder /\ HeardIsHeld

\* With one receive loop, a client follows the rounds the group decides: see
\* NotaryRounds.
Abstract == INSTANCE NotaryRounds WITH
    decided <- Decided,
    adopted <- [c \in Clients |->
                  IF current[c] = NoRound THEN NoRound
                  ELSE [height |-> current[c].height, round |-> current[c].round]]

ImplementsNotaryRounds == Abstract!RoundsSpec
=============================================================================
