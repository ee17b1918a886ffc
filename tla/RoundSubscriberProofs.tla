------------------------ MODULE RoundSubscriberProofs ------------------------
(***************************************************************************)
(* Theorems about RoundSubscriber, for every number of clients, receive    *)
(* loops, signers, rounds and heights.                                     *)
(***************************************************************************)
EXTENDS RoundSubscriber, FiniteSetTheorems, TLAPS

\* roundConflictSet.add keeps the counts in range when it does not fail.
LEMMA AggregateType ==
    ASSUME NEW a \in Sigs, NEW b \in Sigs, ~WouldOverflow(a, b)
    PROVE  AggregateBLSSignatures(a, b) \in Sigs
  BY CountAssumption DEF Sigs, WouldOverflow, AggregateBLSSignatures

\* An aggregate stands for the signers of its two parts.
LEMMA AggregateSigners ==
    ASSUME NEW a \in Sigs, NEW b \in Sigs
    PROVE  SignersOf(AggregateBLSSignatures(a, b)) = SignersOf(a) \cup SignersOf(b)
  BY CountAssumption DEF Sigs, SignersOf, AggregateBLSSignatures

\* Parts of the notary group are finite and ordered by their size.
LEMMA PartsOfGroup ==
    ASSUME NEW A \in SUBSET Signers, NEW B \in SUBSET Signers
    PROVE  /\ Cardinality(A) \in Nat
           /\ A \subseteq B => Cardinality(A) <= Cardinality(B)
           /\ Cardinality(A) <= Cardinality(Signers)
           /\ Cardinality(A \cup B) + Cardinality(A \cap B) = Cardinality(A) + Cardinality(B)
  <1>1. IsFiniteSet(A) /\ IsFiniteSet(B) /\ IsFiniteSet(A \cap B) /\ IsFiniteSet(A \cup B)
    BY SignersAssumption, FS_Subset
  <1>2. Cardinality(A \cup B) = Cardinality(A) + Cardinality(B) - Cardinality(A \cap B)
    BY <1>1, FS_Union
  <1>3. A \subseteq B => Cardinality(A) <= Cardinality(B)
    BY <1>1, FS_Subset
  <1>4. Cardinality(A) <= Cardinality(Signers)
    BY SignersAssumption, FS_Subset
  <1>5. /\ Cardinality(A) \in Nat /\ Cardinality(B) \in Nat
        /\ Cardinality(A \cap B) \in Nat /\ Cardinality(A \cup B) \in Nat
    BY <1>1, FS_CardinalityType
  <1> QED
    BY <1>2, <1>3, <1>4, <1>5

\* Two quorums of the notary group have a signer in common that is not faulty.
LEMMA QuorumsMeet ==
    ASSUME NEW A \in SUBSET Signers, NEW B \in SUBSET Signers,
           Cardinality(A) >= QuorumCount, Cardinality(B) >= QuorumCount
    PROVE  \E s \in A \cap B : s \notin Faulty
  <1> DEFINE n == Cardinality(Signers)
  <1>1. n \in Nat /\ 3 * QuorumCount >= 2 * n /\ QuorumCount \in Nat
    <2>1. n \in Nat
      BY SignersAssumption, FS_CardinalityType
    <2> HIDE DEF n
    <2>2. 3 * ((2 * n + 2) \div 3) >= 2 * n /\ (2 * n + 2) \div 3 \in Nat
      BY <2>1
    <2> QED
      BY <2>1, <2>2 DEF QuorumCount, n
  <1>2. SUFFICES ASSUME A \cap B \subseteq Faulty PROVE FALSE
    OBVIOUS
  <1>3. Cardinality(A \cap B) <= Cardinality(Faulty) /\ Cardinality(Faulty) \in Nat
    BY <1>2, PartsOfGroup, FaultyAssumption
  <1>4. /\ Cardinality(A) \in Nat /\ Cardinality(B) \in Nat /\ Cardinality(A \cap B) \in Nat
        /\ Cardinality(A \cup B) \in Nat /\ Cardinality(A \cup B) <= n
        /\ Cardinality(A \cup B) + Cardinality(A \cap B) = Cardinality(A) + Cardinality(B)
    <2>1. A \cap B \in SUBSET Signers /\ A \cup B \in SUBSET Signers
      OBVIOUS
    <2> QED
      BY <2>1, PartsOfGroup
  <1> HIDE DEF n
  <1>5. 3 * Cardinality(Faulty) < n
    BY FaultyAssumption DEF n
  <1> QED
    BY <1>1, <1>3, <1>4, <1>5
-----------------------------------------------------------------------------
\* What a loop has checked is a confirmation, and adding it to what the client holds
\* gives an aggregate.
LEMMA CheckedTypes ==
    ASSUME TypeOK, NEW c \in Clients, NEW l \in Loops, checked[c][l] # NoMsg
    PROVE  LET m == checked[c][l]
           IN  /\ m \in Confirmations
               /\ m.height \in Heights /\ m.round \in Rounds /\ m.sig \in Sigs
               /\ HeldFor(c, m) \in Sigs
               /\ ~WouldOverflow(HeldFor(c, m), m.sig) => Updated(c, m) \in Sigs
  <1> DEFINE m == checked[c][l]
  <1>1. m \in Confirmations
    BY DEF TypeOK
  <1>2. m.height \in Heights /\ m.round \in Rounds /\ m.sig \in Sigs
    BY <1>1, CountAssumption DEF Confirmations, Sigs
  <1>3. HeldFor(c, m) \in Sigs
    BY <1>2 DEF TypeOK, HeldFor
  <1>4. ~WouldOverflow(HeldFor(c, m), m.sig) => Updated(c, m) \in Sigs
    BY <1>2, <1>3, AggregateType DEF Updated
  <1> QED
    BY <1>1, <1>2, <1>3, <1>4

\* A confirmation with an aggregate signature is what a client can hold as current,
\* and is not mistaken for none.
LEMMA AggregateMade ==
    ASSUME NEW m \in Confirmations, NEW sig \in Sigs
    PROVE  LET new == [m EXCEPT !.sig = sig]
           IN  /\ new \in Aggregates /\ new # NoRound
               /\ new.height = m.height /\ new.round = m.round /\ new.sig = sig
               /\ new.height \in Heights
  <1>1. [m EXCEPT !.sig = sig] \in Aggregates
    BY DEF Aggregates, Confirmations
  <1> QED
    BY <1>1, NullAssumption DEF Aggregates, Confirmations, Sigs

\* The signers heard are signers of the group, at heights and for rounds that exist.
LEMMA HearType ==
    ASSUME TypeOK, NEW c \in Clients, NEW m \in Confirmations, NEW signers \in SUBSET Signers,
           Hear(c, m, signers)
    PROVE  heard' \in [Clients -> SUBSET (Heights \X Rounds \X Signers)]
  <1>1. {<<m.height, m.round, s>> : s \in signers} \subseteq Heights \X Rounds \X Signers
    BY DEF Confirmations
  <1> DEFINE new == {<<m.height, m.round, s>> : s \in signers}
  <1>2. heard' = [heard EXCEPT ![c] = @ \cup new]
    BY DEF Hear
  <1> HIDE DEF new
  <1> QED
    BY <1>1, <1>2 DEF TypeOK, new

\* A height without a conflict set holds no signature.
LEMMA NoConflictsType == NoConflicts \in [Rounds -> Sigs]
  BY CountAssumption DEF NoConflicts, NoSig, Sigs

\* Every step keeps the types; the round a client fetches is its current one.
LEMMA TypeCorrectStep ==
    ASSUME TypeOK, FetchingHasCurrent, [Next]_vars
    PROVE  TypeOK' /\ FetchingHasCurrent'
  <1>1. ASSUME NEW s \in Signers, NEW r \in Rounds, Sign(s, r) PROVE TypeOK'
    <2>1. signed' = signed \cup {<<s, r>>} /\ signed \subseteq Signers \X Rounds
      BY <1>1 DEF Sign, TypeOK
    <2>2. signed' \subseteq Signers \X Rounds
      BY ONLY <2>1, s \in Signers, r \in Rounds
    <2> QED
      BY <1>1, <2>2 DEF Sign, TypeOK
  <1>2. ASSUME NEW c \in Clients, NEW l \in Loops, NEW m \in Confirmations, Check(c, l, m)
        PROVE TypeOK'
    BY <1>2 DEF Check, TypeOK
  <1>3. ASSUME NEW c \in Clients, NEW l \in Loops, AddFails(c, l) PROVE TypeOK'
    <2> DEFINE m == checked[c][l]
               alone == {s \in Signers : SignersOf(m.sig) = {s}}
    <2>1. m \in Confirmations /\ alone \in SUBSET Signers /\ Hear(c, m, alone)
      BY <1>3, CheckedTypes DEF AddFails
    <2>2. heard' \in [Clients -> SUBSET (Heights \X Rounds \X Signers)]
      BY ONLY TypeOK, <2>1, HearType
    <2> QED
      BY <1>3, <2>2 DEF AddFails, TypeOK
  <1>4. ASSUME NEW c \in Clients, NEW m \in Confirmations, Hear(c, m, SignersOf(m.sig))
        PROVE  heard' \in [Clients -> SUBSET (Heights \X Rounds \X Signers)]
    <2>1. SignersOf(m.sig) \in SUBSET Signers
      BY DEF SignersOf
    <2> QED
      BY ONLY <1>4, <2>1, TypeOK, HearType
  <1>5. ASSUME NEW c \in Clients, NEW l \in Loops, Add(c, l) PROVE TypeOK'
    <2> DEFINE m == checked[c][l]
    <2>1. /\ m \in Confirmations /\ m.height \in Heights /\ m.round \in Rounds
          /\ Updated(c, m) \in Sigs
          /\ Hear(c, m, SignersOf(m.sig))
      BY <1>5, CheckedTypes DEF Add
    <2>2. inflight' = [inflight EXCEPT ![c][m.height][m.round] = Updated(c, m)]
      BY <1>5 DEF Add
    <2>3. heard' \in [Clients -> SUBSET (Heights \X Rounds \X Signers)]
      BY <1>4, <2>1
    <2> HIDE DEF m
    <2>4. inflight' \in [Clients -> [Heights -> [Rounds -> Sigs]]]
      BY <2>1, <2>2 DEF TypeOK
    <2> QED
      BY <1>5, <2>3, <2>4 DEF Add, TypeOK
  <1>6. ASSUME NEW c \in Clients, NEW l \in Loops, MakeQuorum(c, l)
        PROVE  TypeOK' /\ FetchingHasCurrent'
    <2> DEFINE m == checked[c][l]
               new == [m EXCEPT !.sig = Updated(c, m)]
    <2>1. /\ m \in Confirmations /\ Updated(c, m) \in Sigs
          /\ Hear(c, m, SignersOf(m.sig))
      BY <1>6, CheckedTypes DEF MakeQuorum
    <2>2. new \in Aggregates /\ new # NoRound
      BY <2>1, AggregateMade
    <2>3. Pruned(c, m.height) \in [Heights -> [Rounds -> Sigs]]
      BY NoConflictsType DEF Pruned, TypeOK
    <2>4. current' = [current EXCEPT ![c] = new]
      BY <1>6 DEF MakeQuorum
    <2> HIDE DEF new
    <2>5. current' \in [Clients -> Aggregates \cup {NoRound}]
      BY <2>2, <2>4 DEF TypeOK
    <2>6. inflight' \in [Clients -> [Heights -> [Rounds -> Sigs]]]
      BY <1>6, <2>3 DEF MakeQuorum, TypeOK
    <2>7. checked' \in [Clients -> [Loops -> Confirmations \cup {NoMsg}]]
      BY <1>6 DEF MakeQuorum, TypeOK
    <2>8. heard' \in [Clients -> SUBSET (Heights \X Rounds \X Signers)]
      BY <1>4, <2>1
    <2>9. TypeOK'
      BY <1>6, <2>5, <2>6, <2>7, <2>8 DEF MakeQuorum, TypeOK
    <2>10. FetchingHasCurrent'
      BY <1>6, <2>2, <2>4 DEF MakeQuorum, FetchingHasCurrent, TypeOK
    <2> QED
      BY <2>9, <2>10
  <1>7. ASSUME NEW c \in Clients, NEW l \in Loops, Publish(c, l) PROVE TypeOK'
    <2>1. lock[c] # NoLoop
      BY <1>7, NullAssumption DEF Publish
    <2>2. current[c] \in Aggregates
      BY <2>1 DEF TypeOK, FetchingHasCurrent
    <2> DEFINE new == [height |-> current[c].height, round |-> current[c].round]
               Notes == [height : Heights, round : Rounds]
    <2>3. new \in Notes
      BY <2>2 DEF Aggregates
    <2>4. published' = [published EXCEPT ![c] = Append(@, new)]
          /\ published \in [Clients -> Seq(Notes)]
      BY <1>7 DEF Publish, TypeOK
    <2> HIDE DEF new, Notes
    <2>5. published' \in [Clients -> Seq(Notes)]
      BY <2>3, <2>4
    <2> USE DEF Notes
    <2> QED
      BY <1>7, <2>5 DEF Publish, TypeOK
  <1>8. ASSUME NEW c \in Clients, NEW l \in Loops, FetchFails(c, l) PROVE TypeOK'
    BY <1>8 DEF FetchFails, TypeOK
  <1>9. CASE UNCHANGED vars
    BY <1>9 DEF vars, TypeOK, FetchingHasCurrent
  <1>10. ASSUME NEW c \in Clients, NEW l \in Loops, Loop(c, l)
         PROVE  TypeOK' /\ FetchingHasCurrent'
    <2>1. CASE \E m \in Confirmations : Check(c, l, m)
      BY <2>1, <1>2 DEF Check, FetchingHasCurrent
    <2>2. CASE AddFails(c, l)
      BY <2>2, <1>3 DEF AddFails, FetchingHasCurrent
    <2>3. CASE Add(c, l)
      BY <2>3, <1>5 DEF Add, FetchingHasCurrent
    <2>4. CASE MakeQuorum(c, l)
      BY <2>4, <1>6
    <2>5. CASE Publish(c, l)
      BY <2>5, <1>7 DEF Publish, FetchingHasCurrent, TypeOK
    <2>6. CASE FetchFails(c, l)
      BY <2>6, <1>8 DEF FetchFails, FetchingHasCurrent, TypeOK
    <2> QED
      BY <1>10, <2>1, <2>2, <2>3, <2>4, <2>5, <2>6 DEF Loop
  <1>11. ASSUME NEW s \in Signers, NEW r \in Rounds, Sign(s, r)
         PROVE FetchingHasCurrent'
    BY <1>11 DEF Sign, FetchingHasCurrent
  <1> QED
    BY <1>1, <1>9, <1>10, <1>11 DEF Next

\* A client that fetches a round's checkpoint has made that round current, and
\* RoundSubscriber's variables keep their types in every behaviour.
THEOREM TypeCorrect == Spec => [](TypeOK /\ FetchingHasCurrent)
  <1>1. Init => TypeOK /\ FetchingHasCurrent
    BY NoConflictsType DEF Init, TypeOK, FetchingHasCurrent
  <1>2. TypeOK /\ FetchingHasCurrent /\ [Next]_vars => TypeOK' /\ FetchingHasCurrent'
    BY TypeCorrectStep
  <1> QED
    BY <1>1, <1>2, PTL DEF Spec
-----------------------------------------------------------------------------
\* A quorum has at least one signer.
LEMMA QuorumIsPositive == QuorumCount \in Nat /\ QuorumCount > 0
  <1> DEFINE n == Cardinality(Signers)
  <1>1. n \in Nat /\ n # 0
    BY SignersAssumption, FS_CardinalityType, FS_EmptySet
  <1> HIDE DEF n
  <1>2. (2 * n + 2) \div 3 \in Nat /\ (2 * n + 2) \div 3 > 0
    BY <1>1
  <1> QED
    BY <1>2 DEF QuorumCount, n

\* An aggregate of a quorum of signers that signed a round makes it decided.
LEMMA QuorumIsDecided ==
    ASSUME NEW r \in Rounds, NEW sig \in Sigs, isQuorum(sig),
           SignersOf(sig) \subseteq SignersBehind(r)
    PROVE  r \in Decided
  <1>1. SignersOf(sig) \in SUBSET Signers /\ SignersBehind(r) \in SUBSET Signers
    BY DEF SignersOf, SignersBehind
  <1>2. /\ Cardinality(SignersOf(sig)) \in Nat /\ Cardinality(SignersBehind(r)) \in Nat
        /\ Cardinality(SignersOf(sig)) <= Cardinality(SignersBehind(r))
    BY <1>1, PartsOfGroup
  <1> QED
    BY <1>2, QuorumIsPositive DEF Decided, isQuorum, SignerCount

\* Only one round is decided at a height.
LEMMA DecidedOnce ==
    ASSUME SignedOnce, NEW r \in Decided, NEW q \in Decided, HeightOf[r] = HeightOf[q]
    PROVE  r = q
  <1>1. /\ SignersBehind(r) \in SUBSET Signers /\ SignersBehind(q) \in SUBSET Signers
        /\ Cardinality(SignersBehind(r)) >= QuorumCount
        /\ Cardinality(SignersBehind(q)) >= QuorumCount
        /\ r \in Rounds /\ q \in Rounds
    BY DEF Decided, SignersBehind
  <1>2. PICK s \in SignersBehind(r) \cap SignersBehind(q) : s \notin Faulty
    BY <1>1, QuorumsMeet
  <1> QED
    BY <1>1, <1>2 DEF SignedOnce, SignersBehind

\* The same as one formula, which holds of the next state as well.
OneDecidedPerHeight == \A r, q \in Decided : HeightOf[r] = HeightOf[q] => r = q

\* When correct signers sign one round per height, one round per height is decided.
LEMMA DecidedOnePerHeight == SignedOnce => OneDecidedPerHeight
  BY DecidedOnce DEF OneDecidedPerHeight

\* What is signed stays signed, and what is decided stays decided.
LEMMA SignedGrows ==
    ASSUME [Next]_vars
    PROVE  /\ signed \subseteq signed'
           /\ \A r \in Rounds : SignersBehind(r) \subseteq SignersBehind(r)'
           /\ Decided \subseteq Decided'
  <1>1. signed \subseteq signed'
    <2>1. ASSUME NEW s \in Signers, NEW r \in Rounds, Sign(s, r) PROVE signed \subseteq signed'
      BY ONLY <2>1 DEF Sign
    <2>2. ASSUME NEW c \in Clients, NEW l \in Loops, Loop(c, l) PROVE UNCHANGED signed
      BY ONLY <2>2, Zenon DEF Loop, Check, AddFails, Add, MakeQuorum, Publish, FetchFails
    <2> QED
      BY <2>1, <2>2 DEF Next, vars
  <1>2. ASSUME NEW r \in Rounds PROVE SignersBehind(r) \subseteq SignersBehind(r)'
    BY <1>1 DEF SignersBehind
  <1>3. ASSUME NEW r \in Decided PROVE r \in Decided'
    <2>1. /\ SignersBehind(r) \in SUBSET Signers /\ SignersBehind(r)' \in SUBSET Signers
          /\ SignersBehind(r) \subseteq SignersBehind(r)'
          /\ r \in Rounds /\ Cardinality(SignersBehind(r)) >= QuorumCount
      BY <1>2 DEF SignersBehind, Decided
    <2>2. /\ Cardinality(SignersBehind(r)) \in Nat /\ Cardinality(SignersBehind(r)') \in Nat
          /\ Cardinality(SignersBehind(r)) <= Cardinality(SignersBehind(r)')
      BY <2>1, PartsOfGroup
    <2>3. Cardinality(SignersBehind(r)') >= QuorumCount
      BY <2>1, <2>2, QuorumIsPositive
    <2> QED
      BY <2>1, <2>3 DEF Decided
  <1> QED
    BY <1>1, <1>2, <1>3

\* Adding what a loop has checked to what the client holds gives an aggregate of signers
\* of that round.
LEMMA CheckedAdds ==
    ASSUME TypeOK, HeldIsSigned, CheckedIsSigned,
           NEW c \in Clients, NEW l \in Loops, checked[c][l] # NoMsg
    PROVE  LET m == checked[c][l]
           IN  SignersOf(Updated(c, m)) \subseteq SignersBehind(m.round)
  <1> DEFINE m == checked[c][l]
  <1>1. m.height \in Heights /\ m.round \in Rounds /\ m.sig \in Sigs /\ HeldFor(c, m) \in Sigs
    BY CheckedTypes
  <1>2. SignersOf(m.sig) \subseteq SignersBehind(m.round)
    BY DEF CheckedIsSigned, Valid, SignersBehind, SignersOf
  <1>3. SignersOf(HeldFor(c, m)) \subseteq SignersBehind(m.round)
    BY <1>1 DEF HeldIsSigned, HeldFor
  <1>4. SignersOf(Updated(c, m)) = SignersOf(HeldFor(c, m)) \cup SignersOf(m.sig)
    BY <1>1, AggregateSigners DEF Updated
  <1> QED
    BY <1>2, <1>3, <1>4

\* A round that is no key of the conflict sets has no signer.
LEMMA NoSigEmpty == SignersOf(NoSig) = {} /\ NoSig \in Sigs
  BY CountAssumption DEF SignersOf, NoSig, Sigs
-----------------------------------------------------------------------------
\* Everything a client holds was really signed, whatever arrives in whatever
\* order and however many loops handle it: the inductive step.
LEMMA SoundStep ==
    ASSUME TypeOK, TypeOK', Sound, [Next]_vars
    PROVE  Sound'
  <1>1. SUFFICES ASSUME /\ SignedOnce /\ HeldIsSigned /\ CheckedIsSigned /\ CurrentIsSigned
                        /\ FetchingHasCurrent /\ PublishedIsDecided
                 PROVE  Sound'
    BY DEF Sound
  <1>2. /\ signed \subseteq signed'
        /\ \A r \in Rounds : SignersBehind(r) \subseteq SignersBehind(r)'
        /\ Decided \subseteq Decided'
    BY SignedGrows
  <1>3. ASSUME UNCHANGED inflight PROVE HeldIsSigned'
    BY <1>1, <1>2, <1>3 DEF HeldIsSigned, SignersOf
  <1>4. ASSUME UNCHANGED current PROVE CurrentIsSigned'
    BY <1>1, <1>2, <1>4 DEF CurrentIsSigned, Valid, SignersOf, isQuorum, SignerCount
  <1>5. ASSUME UNCHANGED published PROVE PublishedIsDecided'
    BY <1>1, <1>2, <1>5 DEF PublishedIsDecided
  <1>6. ASSUME UNCHANGED signed PROVE SignedOnce'
    BY <1>1, <1>6 DEF SignedOnce
  <1>7. ASSUME UNCHANGED <<lock, current>> PROVE FetchingHasCurrent'
    BY <1>1, <1>7 DEF FetchingHasCurrent
  <1>8. ASSUME NEW c \in Clients, NEW l \in Loops,
               checked' = [checked EXCEPT ![c][l] = NoMsg] \/ UNCHANGED checked
        PROVE  CheckedIsSigned'
    <2>0. checked \in [Clients -> [Loops -> Confirmations \cup {NoMsg}]]
      BY DEF TypeOK
    <2>1. \A d \in Clients, k \in Loops : checked'[d][k] = NoMsg \/ checked'[d][k] = checked[d][k]
      BY ONLY <1>8, <2>0
    <2> SUFFICES ASSUME NEW d \in Clients, NEW k \in Loops, checked'[d][k] # NoMsg
                 PROVE  \A s \in SignersOf(checked'[d][k].sig) :
                            <<s, checked'[d][k].round>> \in signed'
      BY DEF CheckedIsSigned, Valid, SignersOf
    <2>2. checked'[d][k] = checked[d][k] /\ Valid(checked[d][k])
      BY <1>1, <2>1 DEF CheckedIsSigned
    <2> QED
      BY ONLY <1>2, <2>2 DEF Valid
  <1>9. ASSUME NEW s \in Signers, NEW r \in Rounds, Sign(s, r) PROVE Sound'
    <2>1. SignedOnce'
      BY <1>1, <1>9 DEF Sign, SignedOnce
    <2>2. CheckedIsSigned'
      BY <1>1, <1>2, <1>9 DEF CheckedIsSigned, Valid, SignersOf, Sign
    <2>3. UNCHANGED <<inflight, current, published, lock>>
      BY <1>9 DEF Sign
    <2> QED
      BY <2>1, <2>2, <2>3, <1>3, <1>4, <1>5, <1>7 DEF Sound
  <1>10. ASSUME NEW c \in Clients, NEW l \in Loops, NEW m \in Confirmations, Check(c, l, m)
         PROVE  Sound'
    <2>1. CheckedIsSigned'
      BY <1>1, <1>10 DEF CheckedIsSigned, Valid, SignersOf, Check, TypeOK
    <2>2. UNCHANGED <<signed, inflight, current, published, lock>>
      BY <1>10 DEF Check
    <2> QED
      BY <2>1, <2>2, <1>3, <1>4, <1>5, <1>6, <1>7 DEF Sound
  <1>11. ASSUME NEW c \in Clients, NEW l \in Loops, AddFails(c, l) PROVE Sound'
    BY <1>11, <1>3, <1>4, <1>5, <1>6, <1>7, <1>8 DEF AddFails, Sound
  <1>12. ASSUME NEW c \in Clients, NEW l \in Loops, Add(c, l) PROVE Sound'
    <2> DEFINE m == checked[c][l]
               updated == Updated(c, m)
    <2>1. /\ m.height \in Heights /\ m.round \in Rounds /\ updated \in Sigs
          /\ SignersOf(updated) \subseteq SignersBehind(m.round)
      BY <1>1, <1>12, CheckedTypes, CheckedAdds DEF Add
    <2>2. inflight' = [inflight EXCEPT ![c][m.height][m.round] = updated] /\ UNCHANGED signed
      BY <1>12 DEF Add
    <2> HIDE DEF m, updated
    <2>3. HeldIsSigned'
      BY <1>1, <2>1, <2>2 DEF HeldIsSigned, SignersOf, SignersBehind, TypeOK
    <2> QED
      BY <1>12, <2>3, <1>4, <1>5, <1>6, <1>7, <1>8 DEF Add, Sound
  <1>13. ASSUME NEW c \in Clients, NEW l \in Loops, MakeQuorum(c, l) PROVE Sound'
    <2> DEFINE m == checked[c][l]
               updated == Updated(c, m)
               new == [m EXCEPT !.sig = updated]
    <2>1. /\ m \in Confirmations /\ updated \in Sigs
          /\ SignersOf(updated) \subseteq SignersBehind(m.round)
      BY <1>1, <1>13, CheckedTypes, CheckedAdds DEF MakeQuorum
    <2>2. /\ inflight' = [inflight EXCEPT ![c] = Pruned(c, m.height)]
          /\ current' = [current EXCEPT ![c] = new]
          /\ isQuorum(updated)
          /\ UNCHANGED <<signed, published>>
      BY <1>13 DEF MakeQuorum
    <2> HIDE DEF m, updated
    <2>3. new \in Aggregates /\ new # NoRound /\ new.round = m.round /\ new.sig = updated
      BY ONLY <2>1, AggregateMade
    <2>4. HeldIsSigned'
      <3>1. ASSUME NEW d \in Clients, NEW h \in Heights, NEW r \in Rounds
            PROVE  inflight'[d][h][r] = NoSig \/ inflight'[d][h][r] = inflight[d][h][r]
        BY <2>2 DEF Pruned, NoConflicts, TypeOK
      <3> QED
        BY <1>1, <1>2, <3>1, NoSigEmpty DEF HeldIsSigned, SignersOf
    <2>5. isQuorum(new.sig) /\ SignersOf(new.sig) \subseteq SignersBehind(new.round)
      BY <2>1, <2>2, <2>3
    <2> HIDE DEF new
    <2>6. \A d \in Clients : current'[d] = IF d = c THEN new ELSE current[d]
      BY <2>2 DEF TypeOK
    <2>7. CurrentIsSigned'
      <3> SUFFICES ASSUME NEW d \in Clients, current'[d] # NoRound
                   PROVE  isQuorum(current'[d].sig) /\ Valid(current[d])'
        BY DEF CurrentIsSigned, isQuorum, SignerCount, SignersOf
      <3>1. CASE d = c
        BY <2>2, <2>5, <2>6, <3>1 DEF Valid, SignersOf, SignersBehind
      <3>2. CASE d # c
        <4>1. current'[d] = current[d] /\ signed' = signed
          BY <2>2, <2>6, <3>2
        <4>2. isQuorum(current[d].sig) /\ Valid(current[d])
          BY <1>1, <4>1 DEF CurrentIsSigned
        <4> QED
          BY <4>1, <4>2 DEF Valid, SignersOf
      <3> QED
        BY <3>1, <3>2
    <2>8. FetchingHasCurrent'
      BY <1>1, <1>13, <2>3, <2>6 DEF FetchingHasCurrent, MakeQuorum, TypeOK
    <2> QED
      BY <1>13, <2>4, <2>7, <2>8, <1>5, <1>6, <1>8 DEF MakeQuorum, Sound
  <1>14. ASSUME NEW c \in Clients, NEW l \in Loops, Publish(c, l) PROVE Sound'
    <2>1. lock[c] # NoLoop /\ current[c] # NoRound
      BY <1>1, <1>14, NullAssumption DEF Publish, FetchingHasCurrent
    <2>2. /\ current[c].round \in Rounds /\ current[c].sig \in Sigs
          /\ published[c] \in Seq([height : Heights, round : Rounds])
      BY <2>1 DEF TypeOK, Aggregates
    <2> DEFINE new == [height |-> current[c].height, round |-> current[c].round]
    <2>3. new.round \in Decided
      BY <1>1, <2>1, <2>2, QuorumIsDecided DEF CurrentIsSigned, Valid, SignersBehind, SignersOf
    <2>4. /\ published' = [published EXCEPT ![c] = Append(published[c], new)]
          /\ UNCHANGED <<signed, current, inflight, checked>>
          /\ lock' = [lock EXCEPT ![c] = NoLoop]
      BY <1>14 DEF Publish
    <2> HIDE DEF new
    <2>5. PublishedIsDecided'
      <3> SUFFICES ASSUME NEW d \in Clients, NEW i \in 1 .. Len(published'[d])
                   PROVE  published'[d][i].round \in Decided'
        BY DEF PublishedIsDecided
      <3>1. CASE d = c
        <4>1. published'[d] = Append(published[c], new)
          BY <2>4, <3>1 DEF TypeOK
        <4>2. published'[d][i] = new \/ \E j \in 1 .. Len(published[c]) :
                published'[d][i] = published[c][j]
          BY <4>1, <2>2
        <4> QED
          BY <1>1, <1>2, <2>3, <4>2 DEF PublishedIsDecided
      <3>2. CASE d # c
        <4>1. published'[d] = published[d]
          BY <2>4, <3>2 DEF TypeOK
        <4> QED
          BY <1>1, <1>2, <4>1 DEF PublishedIsDecided
      <3> QED
        BY <3>1, <3>2
    <2>6. FetchingHasCurrent'
      BY <1>1, <2>4 DEF FetchingHasCurrent, TypeOK
    <2> QED
      BY <2>4, <2>5, <2>6, <1>3, <1>4, <1>6, <1>8 DEF Sound
  <1>15. ASSUME NEW c \in Clients, NEW l \in Loops, FetchFails(c, l) PROVE Sound'
    <2>1. FetchingHasCurrent'
      BY <1>1, <1>15 DEF FetchingHasCurrent, FetchFails, TypeOK
    <2> QED
      BY <1>15, <2>1, <1>3, <1>4, <1>5, <1>6, <1>8 DEF FetchFails, Sound
  <1>16. CASE UNCHANGED vars
    <2>1. CheckedIsSigned'
      BY <1>1, <1>16 DEF CheckedIsSigned, Valid, SignersOf, vars
    <2> QED
      BY <1>16, <2>1, <1>3, <1>4, <1>5, <1>6, <1>7 DEF vars, Sound
  <1> QED
    BY <1>9, <1>10, <1>11, <1>12, <1>13, <1>14, <1>15, <1>16 DEF Next, Loop

\* Everything a client holds was really signed, in every behaviour.
THEOREM SoundAlways == Spec => []Sound
  <1>1. Init => Sound
    <2> SUFFICES ASSUME Init PROVE Sound
      OBVIOUS
    <2>1. SignedOnce /\ CheckedIsSigned /\ CurrentIsSigned /\ FetchingHasCurrent
      BY DEF Init, SignedOnce, CheckedIsSigned, CurrentIsSigned, FetchingHasCurrent
    <2>2. HeldIsSigned
      BY NoSigEmpty DEF Init, HeldIsSigned, NoConflicts
    <2>3. PublishedIsDecided
      BY DEF Init, PublishedIsDecided
    <2> QED
      BY <2>1, <2>2, <2>3 DEF Sound
  <1>2. TypeOK /\ TypeOK' /\ Sound /\ [Next]_vars => Sound'
    BY SoundStep
  <1> QED
    BY <1>1, <1>2, TypeCorrect, PTL DEF Spec

\* The confirmation a client holds as current, and hands out in proofs, is the
\* signature of a quorum of distinct signers that signed that round.
THEOREM CurrentAlwaysHasQuorum == Spec => []CurrentHasQuorum
  <1>1. Sound => CurrentHasQuorum
    <2> SUFFICES ASSUME Sound, NEW c \in Clients, current[c] # NoRound
                 PROVE  Cardinality(SignersOf(current[c].sig) \cap SignersBehind(current[c].round))
                          >= QuorumCount
      BY DEF CurrentHasQuorum
    <2>1. SignersOf(current[c].sig) \cap SignersBehind(current[c].round) = SignersOf(current[c].sig)
      BY DEF Sound, CurrentIsSigned, Valid, SignersOf, SignersBehind
    <2> QED
      BY <2>1 DEF Sound, CurrentIsSigned, isQuorum, SignerCount
  <1> QED
    BY <1>1, SoundAlways, PTL

\* No two clients ever act on different rounds of the same height.
THEOREM AgreementAlways == Spec => []Agreement
  <1>1. TypeOK /\ Sound => Agreement
    <2> SUFFICES ASSUME TypeOK, Sound PROVE Agreement
      OBVIOUS
    <2>1. ASSUME NEW c \in Clients, NEW r \in Seen(c) PROVE r \in Decided
      <3>1. CASE \E i \in 1 .. Len(published[c]) : r = published[c][i].round
        BY <3>1 DEF Sound, PublishedIsDecided
      <3>2. CASE current[c] # NoRound /\ current[c].round = r
        <4>1. r \in Rounds /\ current[c].sig \in Sigs
          BY <3>2 DEF TypeOK, Aggregates
        <4>2. isQuorum(current[c].sig) /\ SignersOf(current[c].sig) \subseteq SignersBehind(r)
          BY <3>2 DEF Sound, CurrentIsSigned, Valid, SignersOf, SignersBehind
        <4> QED
          BY <4>1, <4>2, QuorumIsDecided
      <3> QED
        BY <2>1, <3>1, <3>2 DEF Seen
    <2> QED
      BY <2>1, DecidedOnce DEF Agreement, Sound
  <1> QED
    BY <1>1, TypeCorrect, SoundAlways, PTL

\* No aggregate that has a quorum stays in a client's conflict sets.
THEOREM NoQuorumUnnoticed == Spec => []NoUnnoticedQuorum
  <1>1. ~isQuorum(NoSig)
    BY NoSigEmpty, QuorumIsPositive, FS_EmptySet DEF isQuorum, SignerCount
  <1>2. Init => NoUnnoticedQuorum
    BY <1>1 DEF Init, NoUnnoticedQuorum, NoConflicts
  <1>3. TypeOK /\ NoUnnoticedQuorum /\ [Next]_vars => NoUnnoticedQuorum'
    <2> SUFFICES ASSUME TypeOK, NoUnnoticedQuorum, [Next]_vars PROVE NoUnnoticedQuorum'
      OBVIOUS
    <2>1. ASSUME UNCHANGED inflight PROVE NoUnnoticedQuorum'
      BY <2>1 DEF NoUnnoticedQuorum, isQuorum, SignerCount, SignersOf
    <2>2. ASSUME NEW c \in Clients, NEW l \in Loops, Add(c, l) PROVE NoUnnoticedQuorum'
      <3> DEFINE m == checked[c][l]
                 updated == Updated(c, m)
      <3>1. /\ ~isQuorum(updated)
            /\ inflight' = [inflight EXCEPT ![c][m.height][m.round] = updated]
        BY <2>2 DEF Add
      <3> HIDE DEF m, updated
      <3>2. \A d \in Clients, h \in Heights, r \in Rounds :
              inflight'[d][h][r] = updated \/ inflight'[d][h][r] = inflight[d][h][r]
        BY <3>1 DEF TypeOK
      <3>3. \A d \in Clients, h \in Heights, r \in Rounds : ~isQuorum(inflight[d][h][r])
        BY DEF NoUnnoticedQuorum
      <3>4. \A d \in Clients, h \in Heights, r \in Rounds : ~isQuorum(inflight'[d][h][r])
        BY ONLY <3>1, <3>2, <3>3
      <3> QED
        BY ONLY <3>4 DEF NoUnnoticedQuorum, isQuorum, SignerCount, SignersOf
    <2>3. ASSUME NEW c \in Clients, NEW l \in Loops, MakeQuorum(c, l)
          PROVE  NoUnnoticedQuorum'
      <3>1. \A d \in Clients, h \in Heights, r \in Rounds :
              inflight'[d][h][r] = NoSig \/ inflight'[d][h][r] = inflight[d][h][r]
        BY <2>3 DEF MakeQuorum, Pruned, NoConflicts, TypeOK
      <3>2. \A d \in Clients, h \in Heights, r \in Rounds : ~isQuorum(inflight[d][h][r])
        BY DEF NoUnnoticedQuorum
      <3>3. \A d \in Clients, h \in Heights, r \in Rounds : ~isQuorum(inflight'[d][h][r])
        BY ONLY <1>1, <3>1, <3>2
      <3> QED
        BY ONLY <3>3 DEF NoUnnoticedQuorum, isQuorum, SignerCount, SignersOf
    <2>4. CASE UNCHANGED vars
      BY <2>1, <2>4 DEF vars
    <2> QED
      BY <2>1, <2>2, <2>3, <2>4
         DEF Next, Loop, Sign, Check, AddFails, Publish, FetchFails
  <1> QED
    BY <1>2, <1>3, TypeCorrect, PTL DEF Spec
-----------------------------------------------------------------------------
\* With one receive loop a subscriber moves forward: the inductive step.
LEMMA ForwardStep ==
    ASSUME OneLoop, TypeOK, TypeOK', FetchingHasCurrent, Forward, [Next]_vars
    PROVE  Forward'
  <1> DEFINE H(c) == current[c].height
             Notes == [height : Heights, round : Rounds]
  <1>1. SUFFICES ASSUME CheckedIsFresh, NotifiedBelowCurrent,
                        InflightAboveCurrent, PublishedInOrder, HeardIsHeld
                 PROVE  Forward'
    BY DEF Forward
  <1>0. /\ checked \in [Clients -> [Loops -> Confirmations \cup {NoMsg}]]
        /\ current \in [Clients -> Aggregates \cup {NoRound}]
        /\ inflight \in [Clients -> [Heights -> [Rounds -> Sigs]]]
        /\ lock \in [Clients -> Loops \cup {NoLoop}]
        /\ published \in [Clients -> Seq(Notes)]
        /\ heard \in [Clients -> SUBSET (Heights \X Rounds \X Signers)]
    BY DEF TypeOK
  <1>2. \A h \in Heights : h \in Nat
    BY RoundsAssumption
  <1>3. \A c \in Clients : current[c] # NoRound => H(c) \in Heights /\ H(c) \in Nat
    BY <1>0, <1>2 DEF Aggregates
  \* The heights that subscribers have been told.
  <1>told. \A c \in Clients : \A i \in 1 .. Len(published[c]) : published[c][i].height \in Nat
    <2> SUFFICES ASSUME NEW c \in Clients, NEW i \in 1 .. Len(published[c])
                 PROVE  published[c][i].height \in Nat
      OBVIOUS
    <2> HIDE DEF Notes
    <2>1. published[c] \in Seq(Notes)
      BY <1>0
    <2>2. published[c][i] \in Notes
      BY ONLY <2>1, i \in 1 .. Len(published[c])
    <2> QED
      BY <1>2, <2>2 DEF Notes
  <1>4. ASSUME UNCHANGED <<current, checked, lock>> PROVE CheckedIsFresh'
    BY <1>1, <1>4 DEF CheckedIsFresh
  <1>5. ASSUME UNCHANGED <<current, published, lock>> PROVE NotifiedBelowCurrent'
    BY <1>1, <1>5 DEF NotifiedBelowCurrent
  <1>6. ASSUME UNCHANGED <<current, inflight>> PROVE InflightAboveCurrent'
    BY <1>1, <1>6 DEF InflightAboveCurrent
  <1>7. ASSUME UNCHANGED <<current, published>> PROVE PublishedInOrder'
    BY <1>1, <1>7 DEF PublishedInOrder
  <1>8. ASSUME UNCHANGED <<current, inflight, heard>> PROVE HeardIsHeld'
    BY <1>1, <1>8 DEF HeardIsHeld, SignersOf
  <1>9. ASSUME NEW c \in Clients, NEW l \in Loops, checked' = [checked EXCEPT ![c][l] = NoMsg],
               UNCHANGED <<current, lock>>
        PROVE  CheckedIsFresh'
    <2>1. \A d \in Clients, k \in Loops : checked'[d][k] = NoMsg \/ checked'[d][k] = checked[d][k]
      BY ONLY <1>0, <1>9
    <2> QED
      BY ONLY <1>1, <1>9, <2>1 DEF CheckedIsFresh
  \* What has been heard is what was heard before and the signers of one message.
  <1>10. ASSUME NEW c \in Clients, NEW m \in Confirmations, NEW signers \in SUBSET Signers,
                Hear(c, m, signers), NEW d \in Clients, NEW h, NEW r, NEW s,
                <<h, r, s>> \in heard'[d]
         PROVE  \/ <<h, r, s>> \in heard[d]
                \/ d = c /\ h = m.height /\ r = m.round /\ s \in signers
    <2> DEFINE new == {<<m.height, m.round, t>> : t \in signers}
    <2>1. heard' = [heard EXCEPT ![c] = @ \cup new]
      BY <1>10 DEF Hear
    <2>2. <<h, r, s>> \in new => h = m.height /\ r = m.round /\ s \in signers
      OBVIOUS
    <2> HIDE DEF new
    <2>3. <<h, r, s>> \in heard[d] \/ (d = c /\ <<h, r, s>> \in new)
      BY ONLY <1>0, <1>10, <2>1
    <2> QED
      BY <2>2, <2>3
  <1>11. ASSUME NEW c \in Clients, NEW l \in Loops, NEW m \in Confirmations, Check(c, l, m)
         PROVE  Forward'
    <2>1. lock[c] = NoLoop
      BY <1>0, <1>11 DEF Check, OneLoop
    <2>2. m.height \in Nat /\ (current[c] # NoRound => m.height > H(c))
      BY <1>2, <1>3, <1>11 DEF Check, IsStale, Confirmations
    <2>3. CheckedIsFresh'
      BY <1>0, <1>1, <1>11, <2>1, <2>2 DEF Check, CheckedIsFresh
    <2> QED
      BY <1>11, <2>3, <1>5, <1>6, <1>7, <1>8 DEF Check, Forward
  <1>12. ASSUME NEW c \in Clients, NEW l \in Loops, AddFails(c, l) PROVE Forward'
    <2> DEFINE m == checked[c][l]
               alone == {s \in Signers : SignersOf(m.sig) = {s}}
    <2>1. /\ m # NoMsg /\ WouldOverflow(HeldFor(c, m), m.sig)
          /\ Hear(c, m, alone)
          /\ checked' = [checked EXCEPT ![c][l] = NoMsg]
          /\ UNCHANGED <<signed, current, inflight, lock, published>>
      BY <1>12 DEF AddFails
    <2>2. /\ m \in Confirmations /\ m.sig \in Sigs /\ HeldFor(c, m) \in Sigs
          /\ m.height \in Heights /\ m.round \in Rounds
      BY <2>1, CheckedTypes
    <2>3. \A s \in alone : s \in SignersOf(HeldFor(c, m))
      <3> SUFFICES ASSUME NEW s \in Signers, SignersOf(m.sig) = {s}
                   PROVE  HeldFor(c, m)[s] > 0
        BY DEF SignersOf
      <3>1. PICK t \in Signers : HeldFor(c, m)[t] + m.sig[t] > MaxCount
        BY <2>1 DEF WouldOverflow
      <3>2. /\ m.sig[t] \in 0 .. MaxCount /\ HeldFor(c, m)[t] \in 0 .. MaxCount
            /\ (m.sig[t] > 0 => t = s)
        BY <2>2 DEF Sigs, SignersOf
      <3> QED
        BY <3>1, <3>2, CountAssumption
    <2>4. CheckedIsFresh'
      BY <1>9, <2>1
    <2> HIDE DEF m
    <2>5. HeardIsHeld'
      <3> SUFFICES ASSUME NEW d \in Clients, NEW h \in Heights, NEW r \in Rounds,
                          NEW s \in Signers, <<h, r, s>> \in heard'[d]
                   PROVE  \/ current[d] # NoRound /\ h <= H(d)
                          \/ s \in SignersOf(inflight[d][h][r])
        BY <2>1 DEF HeardIsHeld, SignersOf
      <3>1. <<h, r, s>> \in heard[d] \/ (d = c /\ h = m.height /\ r = m.round /\ s \in alone)
        BY <1>10, <2>1, <2>2
      <3> QED
        BY <1>1, <2>3, <3>1 DEF HeardIsHeld, HeldFor
    <2> QED
      BY <2>1, <2>4, <2>5, <1>5, <1>6, <1>7 DEF Forward
  <1>13. ASSUME NEW c \in Clients, NEW l \in Loops, Add(c, l) PROVE Forward'
    <2> DEFINE m == checked[c][l]
    <2>1. /\ m # NoMsg /\ inflight' = [inflight EXCEPT ![c][m.height][m.round] = Updated(c, m)]
          /\ Hear(c, m, SignersOf(m.sig))
          /\ checked' = [checked EXCEPT ![c][l] = NoMsg]
          /\ UNCHANGED <<current, lock, published>>
      BY <1>13 DEF Add
    <2>2. /\ m \in Confirmations /\ m.sig \in Sigs /\ HeldFor(c, m) \in Sigs
          /\ m.height \in Heights /\ m.round \in Rounds
          /\ SignersOf(m.sig) \in SUBSET Signers
      BY <2>1, CheckedTypes DEF SignersOf
    <2>3. current[c] # NoRound => m.height > H(c)
      BY <1>1, <2>1 DEF CheckedIsFresh
    <2>4. CheckedIsFresh'
      BY <1>9, <2>1
    <2>5. SignersOf(Updated(c, m)) = SignersOf(HeldFor(c, m)) \cup SignersOf(m.sig)
      BY <2>2, AggregateSigners DEF Updated
    <2> HIDE DEF m
    <2>6. \A d \in Clients, h \in Heights : d # c \/ h # m.height =>
            inflight'[d][h] = inflight[d][h]
      BY ONLY <1>0, <2>1, <2>2
    <2>7. InflightAboveCurrent'
      BY <1>1, <1>2, <1>3, <2>1, <2>2, <2>3, <2>6 DEF InflightAboveCurrent
    <2>8. \A d \in Clients, h \in Heights, r \in Rounds :
            inflight'[d][h][r] = IF d = c /\ h = m.height /\ r = m.round
                                 THEN Updated(c, m) ELSE inflight[d][h][r]
      BY ONLY <1>0, <2>1, <2>2
    <2>9. HeardIsHeld'
      <3> SUFFICES ASSUME NEW d \in Clients, NEW h \in Heights, NEW r \in Rounds,
                          NEW s \in Signers, <<h, r, s>> \in heard'[d]
                   PROVE  \/ current[d] # NoRound /\ h <= H(d)
                          \/ s \in SignersOf(inflight'[d][h][r])
        BY <2>1 DEF HeardIsHeld, SignersOf
      <3>1. \/ <<h, r, s>> \in heard[d]
            \/ d = c /\ h = m.height /\ r = m.round /\ s \in SignersOf(m.sig)
        BY <1>10, <2>1, <2>2
      <3>2. \/ <<h, r, s>> \in heard[d] => current[d] # NoRound /\ h <= H(d)
            \/ s \in SignersOf(inflight[d][h][r])
            \/ <<h, r, s>> \notin heard[d]
        BY <1>1 DEF HeardIsHeld
      <3> QED
        BY ONLY <2>5, <2>8, <3>1, <3>2 DEF HeldFor
    <2> QED
      BY <2>1, <2>4, <2>7, <2>9, <1>5, <1>7 DEF Forward
  <1>14. ASSUME NEW c \in Clients, NEW l \in Loops, MakeQuorum(c, l) PROVE Forward'
    <2> DEFINE m == checked[c][l]
               new == [m EXCEPT !.sig = Updated(c, m)]
    <2>1. /\ m # NoMsg /\ lock[c] = NoLoop
          /\ ~WouldOverflow(HeldFor(c, m), m.sig)
          /\ current' = [current EXCEPT ![c] = new]
          /\ inflight' = [inflight EXCEPT ![c] = Pruned(c, m.height)]
          /\ Hear(c, m, SignersOf(m.sig))
          /\ checked' = [checked EXCEPT ![c][l] = NoMsg]
          /\ lock' = [lock EXCEPT ![c] = l]
          /\ UNCHANGED published
      BY <1>14 DEF MakeQuorum
    <2>2. /\ m \in Confirmations /\ m.height \in Heights /\ m.round \in Rounds
          /\ Updated(c, m) \in Sigs /\ SignersOf(m.sig) \in SUBSET Signers
          /\ (current[c] # NoRound => m.height > H(c))
      BY <1>1, <2>1, CheckedTypes DEF CheckedIsFresh, SignersOf
    <2>3. new.height = m.height /\ new # NoRound
      BY <2>2, AggregateMade
    <2> HIDE DEF m, new
    <2>4. /\ current'[c] = new /\ inflight'[c] = Pruned(c, m.height)
          /\ \A d \in Clients : d # c =>
               /\ current'[d] = current[d] /\ lock'[d] = lock[d]
               /\ checked'[d] = checked[d] /\ inflight'[d] = inflight[d]
      BY ONLY <1>0, <2>1
    <2>5. \A k \in Loops : checked'[c][k] = NoMsg
      BY ONLY <1>0, <2>1, OneLoop, l \in Loops DEF OneLoop
    <2>6. \A i \in 1 .. Len(published[c]) : published[c][i].height < m.height
      <3> SUFFICES ASSUME NEW i \in 1 .. Len(published[c])
                   PROVE  published[c][i].height < m.height
        OBVIOUS
      <3>1. current[c] # NoRound /\ published[c][i].height <= H(c)
        BY <1>1 DEF PublishedInOrder
      <3>2. published[c][i].height \in Nat
        BY <1>told
      <3> QED
        BY <1>2, <1>3, <2>2, <3>1, <3>2
    <2>7. CheckedIsFresh'
      BY <1>1, <2>4, <2>5 DEF CheckedIsFresh
    <2>8. NotifiedBelowCurrent'
      BY <1>1, <2>1, <2>3, <2>4, <2>6 DEF NotifiedBelowCurrent
    <2>9. InflightAboveCurrent'
      BY <1>1, <2>3, <2>4 DEF InflightAboveCurrent, Pruned
    <2>10. PublishedInOrder'
      <3> SUFFICES ASSUME NEW d \in Clients
                   PROVE  /\ \A i, j \in 1 .. Len(published'[d]) : i < j =>
                               published'[d][i].height < published'[d][j].height
                          /\ \A i \in 1 .. Len(published'[d]) :
                               /\ current'[d] # NoRound
                               /\ published'[d][i].height <= current'[d].height
        BY DEF PublishedInOrder
      <3>1. published'[d] = published[d]
        BY <2>1
      <3>2. \A i, j \in 1 .. Len(published[d]) : i < j =>
               published[d][i].height < published[d][j].height
        BY <1>1 DEF PublishedInOrder
      <3>3. CASE d = c
        <4>1. \A i \in 1 .. Len(published[c]) : published[c][i].height \in Nat
          BY <1>told
        <4> QED
          BY <1>2, <2>2, <2>3, <2>4, <2>6, <3>1, <3>2, <3>3, <4>1
      <3>4. CASE d # c
        BY <1>1, <2>4, <3>1, <3>2, <3>4 DEF PublishedInOrder
      <3> QED
        BY <3>3, <3>4
    <2>11. HeardIsHeld'
      <3> SUFFICES ASSUME NEW d \in Clients, NEW h \in Heights, NEW r \in Rounds,
                          NEW s \in Signers, <<h, r, s>> \in heard'[d]
                   PROVE  \/ current'[d] # NoRound /\ h <= current'[d].height
                          \/ s \in SignersOf(inflight'[d][h][r])
        BY DEF HeardIsHeld, SignersOf
      <3>1. <<h, r, s>> \in heard[d] \/ (d = c /\ h = m.height)
        BY <1>10, <2>1, <2>2
      <3>2. <<h, r, s>> \in heard[d] =>
               (current[d] # NoRound /\ h <= H(d)) \/ s \in SignersOf(inflight[d][h][r])
        BY <1>1 DEF HeardIsHeld
      <3>3. CASE d = c
        <4>1. h \in Nat /\ m.height \in Nat /\ current'[d] # NoRound
              /\ current'[d].height = m.height
          BY <1>2, <2>2, <2>3, <2>4, <3>3
        <4>2. h > m.height => inflight'[d][h] = inflight[d][h]
          BY <2>4, <3>3, <4>1 DEF Pruned
        <4>3. current[d] # NoRound => H(d) \in Nat /\ m.height > H(d)
          BY <1>3, <2>2, <3>3
        <4> QED
          BY ONLY <3>1, <3>2, <4>1, <4>2, <4>3
      <3>4. CASE d # c
        BY <2>4, <3>1, <3>2, <3>4
      <3> QED
        BY <3>3, <3>4
    <2> QED
      BY <2>7, <2>8, <2>9, <2>10, <2>11 DEF Forward
  <1>15. ASSUME NEW c \in Clients, NEW l \in Loops, Publish(c, l) PROVE Forward'
    <2> DEFINE new == [height |-> current[c].height, round |-> current[c].round]
    <2>1. /\ lock[c] # NoLoop /\ current[c] # NoRound
          /\ published' = [published EXCEPT ![c] = Append(published[c], new)]
          /\ lock' = [lock EXCEPT ![c] = NoLoop]
          /\ UNCHANGED <<signed, current, inflight, checked, heard>>
      BY <1>15, NullAssumption DEF Publish, FetchingHasCurrent
    <2>2. new.height = H(c) /\ new \in Notes
      BY <1>0, <2>1 DEF Aggregates
    <2> HIDE DEF new, Notes
    <2>3. /\ published'[c] = Append(published[c], new) /\ lock'[c] = NoLoop
          /\ \A d \in Clients : d # c =>
               /\ published'[d] = published[d] /\ lock'[d] = lock[d]
      BY ONLY <1>0, <2>1
    <2>4. CheckedIsFresh'
      BY <1>1, <2>1, <2>3 DEF CheckedIsFresh
    <2>5. NotifiedBelowCurrent'
      BY <1>1, <2>1, <2>3 DEF NotifiedBelowCurrent
    <2>6. PublishedInOrder'
      <3> SUFFICES ASSUME NEW d \in Clients
                   PROVE  /\ \A i, j \in 1 .. Len(published'[d]) : i < j =>
                               published'[d][i].height < published'[d][j].height
                          /\ \A i \in 1 .. Len(published'[d]) :
                               /\ current'[d] # NoRound
                               /\ published'[d][i].height <= current'[d].height
        BY DEF PublishedInOrder
      <3>1. CASE d = c
        <4> DEFINE old == published[c]
                   all == Append(old, new)
        <4>1. old \in Seq(Notes)
          BY <1>0
        <4>2. published'[d] = all /\ current'[d] = current[c]
          BY <2>1, <2>3, <3>1
        <4>3. /\ \A i \in 1 .. Len(old) : old[i].height < new.height
              /\ \A i, j \in 1 .. Len(old) : i < j => old[i].height < old[j].height
          BY <1>1, <2>1, <2>2 DEF NotifiedBelowCurrent, PublishedInOrder
        <4>4. /\ \A i \in 1 .. Len(old) : old[i].height \in Nat
              /\ new.height \in Nat
          BY <1>2, <1>told, <2>2 DEF Notes
        <4>5. /\ Len(all) = Len(old) + 1 /\ Len(old) \in Nat
              /\ all[Len(old) + 1] = new
              /\ \A i \in 1 .. Len(old) : all[i] = old[i]
          BY <4>1, <2>2
        <4> HIDE DEF old, all
        <4>6. \A i \in 1 .. Len(old) + 1 : i \in 1 .. Len(old) \/ i = Len(old) + 1
          BY <4>5
        <4>7. \A i, j \in 1 .. Len(old) + 1 : i < j => all[i].height < all[j].height
          <5> SUFFICES ASSUME NEW i \in 1 .. Len(old) + 1, NEW j \in 1 .. Len(old) + 1, i < j
                       PROVE  all[i].height < all[j].height
            OBVIOUS
          <5>1. i \in 1 .. Len(old)
            BY <4>5
          <5>2. CASE j \in 1 .. Len(old)
            BY <4>3, <4>5, <5>1, <5>2
          <5>3. CASE j = Len(old) + 1
            BY <4>3, <4>5, <5>1, <5>3
          <5> QED
            BY <4>6, <5>2, <5>3
        <4>8. \A i \in 1 .. Len(old) + 1 : all[i].height <= new.height
          BY <4>3, <4>4, <4>5, <4>6
        <4> QED
          BY <2>1, <2>2, <4>2, <4>5, <4>7, <4>8
      <3>2. CASE d # c
        BY <1>1, <2>1, <2>3, <3>2 DEF PublishedInOrder
      <3> QED
        BY <3>1, <3>2
    <2> QED
      BY <2>1, <2>4, <2>5, <2>6, <1>6, <1>8 DEF Forward
  <1>16. ASSUME NEW c \in Clients, NEW l \in Loops, FetchFails(c, l) PROVE Forward'
    <2>1. /\ lock' = [lock EXCEPT ![c] = NoLoop]
          /\ UNCHANGED <<signed, current, inflight, checked, published, heard>>
      BY <1>16 DEF FetchFails
    <2>2. \A d \in Clients : lock'[d] = NoLoop \/ lock'[d] = lock[d]
      BY ONLY <1>0, <2>1
    <2>3. CheckedIsFresh'
      BY <1>1, <2>1, <2>2 DEF CheckedIsFresh
    <2>4. NotifiedBelowCurrent'
      BY <1>1, <2>1, <2>2 DEF NotifiedBelowCurrent
    <2> QED
      BY <2>1, <2>3, <2>4, <1>6, <1>7, <1>8 DEF Forward
  <1>17. ASSUME NEW s \in Signers, NEW r \in Rounds, Sign(s, r) PROVE Forward'
    BY <1>17, <1>4, <1>5, <1>6, <1>7, <1>8 DEF Sign, Forward
  <1>18. CASE UNCHANGED vars
    BY <1>18, <1>4, <1>5, <1>6, <1>7, <1>8 DEF vars, Forward
  <1> QED
    BY <1>11, <1>12, <1>13, <1>14, <1>15, <1>16, <1>17, <1>18 DEF Next, Loop

\* At the start nothing has been checked, notified, held or heard.
LEMMA ForwardInit == Init => Forward
  BY DEF Init, Forward, CheckedIsFresh, NotifiedBelowCurrent,
         InflightAboveCurrent, PublishedInOrder, HeardIsHeld

\* With one receive loop: subscribers are notified of one confirmation per height that
\* the confirmations carry, in order, and the conflict sets up to the current height are
\* gone, although handleMessage compares the heights before it takes the lock.
THEOREM ForwardAlways ==
    ASSUME OneLoop PROVE Spec => [](InflightAboveCurrent /\ PublishedInOrder)
  <1>1. /\ TypeOK /\ TypeOK' /\ FetchingHasCurrent /\ Forward
        /\ [Next]_vars
        => Forward'
    BY ForwardStep
  <1>2. Forward => InflightAboveCurrent /\ PublishedInOrder
    BY DEF Forward
  <1> QED
    BY <1>1, <1>2, ForwardInit, TypeCorrect, PTL DEF Spec

\* With one receive loop no signature is lost: a client that has been sent those of a
\* quorum for a round at a height, in any messages and with any others in between, has
\* reached that height.
THEOREM HeardAlwaysReached == ASSUME OneLoop PROVE Spec => []HeardRoundReached
  <1>1. /\ TypeOK /\ TypeOK' /\ FetchingHasCurrent /\ Forward
        /\ [Next]_vars
        => Forward'
    BY ForwardStep
  <1>2. TypeOK /\ Forward /\ NoUnnoticedQuorum => HeardRoundReached
    <2> SUFFICES ASSUME TypeOK, Forward, NoUnnoticedQuorum,
                        NEW c \in Clients, NEW h \in Heights, NEW r \in Rounds,
                        Cardinality({s \in Signers : <<h, r, s>> \in heard[c]}) >= QuorumCount,
                        ~(current[c] # NoRound /\ current[c].height >= h)
                 PROVE  FALSE
      BY DEF HeardRoundReached
    <2> DEFINE told == {s \in Signers : <<h, r, s>> \in heard[c]}
               held == SignersOf(inflight[c][h][r])
    <2>1. h \in Nat /\ (current[c] # NoRound => current[c].height \in Nat)
      BY RoundsAssumption DEF TypeOK, Aggregates
    <2>2. told \subseteq held
      BY <2>1 DEF Forward, HeardIsHeld
    <2>3. told \in SUBSET Signers /\ held \in SUBSET Signers
      BY DEF SignersOf
    <2>4. ~(Cardinality(held) >= QuorumCount)
      BY DEF NoUnnoticedQuorum, isQuorum, SignerCount
    <2>5. Cardinality(told) >= QuorumCount
      OBVIOUS
    <2> HIDE DEF told, held
    <2>6. /\ Cardinality(told) \in Nat /\ Cardinality(held) \in Nat
          /\ Cardinality(told) <= Cardinality(held)
      BY ONLY <2>2, <2>3, PartsOfGroup
    <2> QED
      BY ONLY <2>4, <2>5, <2>6, QuorumIsPositive
  <1> QED
    BY <1>1, <1>2, ForwardInit, TypeCorrect, NoQuorumUnnoticed, PTL DEF Spec

\* What a step may do to the current round of a client: nothing, or replace it
\* by a decided round that was told at a greater height.
LEMMA CurrentStep ==
    ASSUME TypeOK, Sound, Forward, [Next]_vars, NEW c \in Clients, current'[c] # current[c]
    PROVE  /\ current'[c] # NoRound
           /\ current'[c].height \in Heights
           /\ current'[c].round \in Decided
           /\ current[c] # NoRound => current[c].height < current'[c].height
  <1>0. current \in [Clients -> Aggregates \cup {NoRound}]
    BY DEF TypeOK
  <1>1. PICK l \in Loops : MakeQuorum(c, l)
    <2>1. \A d \in Clients, k \in Loops : MakeQuorum(d, k) /\ d # c => current'[c] = current[c]
      BY <1>0 DEF MakeQuorum
    <2> QED
      BY <2>1 DEF Next, Loop, Sign, Check, AddFails, Add, Publish, FetchFails, vars
  <1> DEFINE m == checked[c][l]
             updated == Updated(c, m)
             new == [m EXCEPT !.sig = updated]
  <1>2. /\ m \in Confirmations /\ m.round \in Rounds /\ updated \in Sigs
        /\ SignersOf(updated) \subseteq SignersBehind(m.round)
    BY <1>1, CheckedTypes, CheckedAdds DEF Sound, MakeQuorum
  <1>3. m.round \in Decided
    BY <1>1, <1>2, QuorumIsDecided DEF MakeQuorum
  <1>4. current'[c] = new
    BY <1>0, <1>1 DEF MakeQuorum
  <1>5. current[c] # NoRound => m.height > current[c].height
    BY <1>1 DEF MakeQuorum, Forward, CheckedIsFresh
  <1> HIDE DEF m, updated
  <1>6. new # NoRound /\ new.round = m.round /\ new.height = m.height /\ new.height \in Heights
    BY ONLY <1>2, AggregateMade
  <1>7. current[c] # NoRound => current[c].height \in Nat
    BY <1>0, RoundsAssumption DEF Aggregates
  <1>8. m.height \in Nat
    BY <1>6, RoundsAssumption
  <1> HIDE DEF new
  <1> QED
    BY <1>3, <1>4, <1>5, <1>6, <1>7, <1>8

\* With one receive loop the height of a client's current confirmation only grows,
\* whatever heights the messages carry.
THEOREM CurrentAlwaysAdvances == ASSUME OneLoop PROVE Spec => CurrentAdvances
  <1>1. Init => Forward
    BY ForwardInit
  <1>2. /\ TypeOK /\ TypeOK' /\ FetchingHasCurrent /\ Forward
        /\ [Next]_vars
        => Forward'
    BY ForwardStep
  <1>3. TypeOK /\ Sound /\ Forward /\ [Next]_vars =>
          [\A c \in Clients : current'[c] # current[c] =>
             /\ current'[c] # NoRound
             /\ current[c] # NoRound => current[c].height < current'[c].height]_vars
    BY CurrentStep
  <1> QED
    BY <1>1, <1>2, <1>3, TypeCorrect, SoundAlways, PTL DEF Spec, CurrentAdvances

\* With one receive loop, clients that listen to a notary group in which less than
\* a third of the signers is faulty implement NotaryRounds: one round per height
\* is decided, and every client goes through decided rounds at growing heights, those
\* that it is told.
THEOREM Refinement == ASSUME OneLoop PROVE Spec => ImplementsNotaryRounds
  <1> DEFINE Told(m) == [height |-> m.height, round |-> m.round]
             adopted == [c \in Clients |-> IF current[c] = NoRound THEN NoRound
                                                                  ELSE Told(current[c])]
  <1>1. Init => Forward
    BY ForwardInit
  <1>2. /\ TypeOK /\ TypeOK' /\ FetchingHasCurrent /\ Forward
        /\ [Next]_vars
        => Forward'
    BY ForwardStep
  <1>3. Init => Abstract!RoundsInit
    <2> SUFFICES ASSUME Init PROVE Abstract!RoundsInit
      OBVIOUS
    <2>1. ASSUME NEW r \in Rounds PROVE SignersBehind(r) = {}
      BY DEF Init, SignersBehind
    <2>2. Decided = {}
      BY <2>1, QuorumIsPositive, FS_EmptySet DEF Decided
    <2> QED
      BY <2>2 DEF Abstract!RoundsInit, Init
  <1>0. SignedOnce' => OneDecidedPerHeight'
    BY DecidedOnePerHeight, PTL
  <1>4. TypeOK /\ Sound /\ Sound' /\ Forward /\ [Next]_vars
          => [Abstract!RoundsNext]_(Abstract!rvars)
    <2> SUFFICES ASSUME TypeOK, Sound, Sound', Forward, [Next]_vars
                 PROVE  [Abstract!RoundsNext]_(Abstract!rvars)
      OBVIOUS
    <2>1. ASSUME NEW s \in Signers, NEW r \in Rounds, Sign(s, r)
          PROVE  [Abstract!RoundsNext]_(Abstract!rvars)
      <3>1. \A q \in Rounds : q # r => SignersBehind(q)' = SignersBehind(q)
        BY <2>1 DEF Sign, SignersBehind
      <3>2. Decided' = Decided \/ (Decided' = Decided \cup {r} /\ r \notin Decided)
        BY <3>1, SignedGrows DEF Decided
      <3>3. UNCHANGED current
        BY <2>1 DEF Sign
      <3>4. CASE Decided' = Decided
        BY <3>3, <3>4 DEF Abstract!rvars
      <3>5. CASE Decided' = Decided \cup {r} /\ r \notin Decided
        <4>1. \A d \in Decided : HeightOf[d] # HeightOf[r]
          <5> SUFFICES ASSUME NEW d \in Decided, HeightOf[d] = HeightOf[r] PROVE FALSE
            OBVIOUS
          <5>1. d \in Decided' /\ r \in Decided' /\ SignedOnce'
            BY <3>5 DEF Sound
          <5>2. d = r
            BY <5>1, <1>0 DEF OneDecidedPerHeight
          <5> QED
            BY <3>5, <5>2
        <4> QED
          BY <3>3, <3>5, <4>1 DEF Abstract!RoundsNext, Abstract!Decide
      <3> QED
        BY <3>2, <3>4, <3>5
    <2>2. ASSUME NEW c \in Clients, NEW l \in Loops, Loop(c, l)
          PROVE  [Abstract!RoundsNext]_(Abstract!rvars)
      <3>1. UNCHANGED signed
        BY <2>2 DEF Loop, Check, AddFails, Add, MakeQuorum, Publish, FetchFails
      <3>2. Decided' = Decided
        BY <3>1 DEF Decided, SignersBehind
      <3>3. CASE UNCHANGED current
        BY <3>2, <3>3 DEF Abstract!rvars
      <3>4. CASE ~ UNCHANGED current
        <4>1. MakeQuorum(c, l)
          BY <2>2, <3>4 DEF Loop, Check, AddFails, Add, Publish, FetchFails
        <4>2. \A d \in Clients : d # c => current'[d] = current[d]
          BY <4>1 DEF MakeQuorum, TypeOK
        <4>3. current'[c] # current[c]
          BY <4>1, <4>2, <3>4 DEF MakeQuorum, TypeOK
        <4>4. PICK h \in Heights, r \in Rounds :
                /\ r \in Decided /\ current'[c] # NoRound
                /\ current'[c].round = r /\ current'[c].height = h
                /\ current[c] # NoRound => current[c].height < h
          BY <4>3, CurrentStep DEF Decided
        <4>5. adopted' = [adopted EXCEPT ![c] = [height |-> h, round |-> r]]
          BY <4>2, <4>4
        <4>6. adopted[c] # NoRound => adopted[c].height < h
          BY <4>4
        <4>7. Abstract!Adopt(c, h, r)
          BY <3>2, <4>4, <4>5, <4>6 DEF Abstract!Adopt
        <4> QED
          BY <4>4, <4>7 DEF Abstract!RoundsNext
      <3> QED
        BY <3>3, <3>4
    <2>3. CASE UNCHANGED vars
      <3>1. Decided' = Decided /\ UNCHANGED current
        BY <2>3 DEF vars, Decided, SignersBehind
      <3> QED
        BY <3>1 DEF Abstract!rvars
    <2> QED
      BY <2>1, <2>2, <2>3 DEF Next
  <1> QED
    BY <1>1, <1>2, <1>3, <1>4, TypeCorrect, SoundAlways, PTL
       DEF Spec, ImplementsNotaryRounds, Abstract!RoundsSpec
=============================================================================
