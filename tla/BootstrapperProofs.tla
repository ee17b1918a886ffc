------------------------- MODULE BootstrapperProofs -------------------------
(***************************************************************************)
(* Theorems about Bootstrapper, for every finite set of peers and of       *)
(* addresses, every bootstrap list, threshold and number of waits, and     *)
(* however many connections are lost.                                      *)
(***************************************************************************)
EXTENDS Bootstrapper, FiniteSetTheorems, TLAPS

\* Before Host.Bootstrap nothing runs and nothing was logged.
NotStarted ==
    /\ bootstrapStarted <=> pc # "off"
    /\ pc = "off" => ~warned

\* Outside of bootstrap there are no dials and nothing is counted.
AtRest == ~Bootstrapping => attempted = {} /\ dials = {} /\ arrived = {}

\* Every connection was there when bootstrap looked, was dialled, or came by itself.
Accounted ==
    Bootstrapping =>
        /\ dials \subseteq attempted
        /\ connected \ arrived \subseteq currentPeers \cup PeersOf(attempted)

\* The peers that were there and the ones attempted are no more than the threshold, and
\* less as long as bootstrap still dials.
WithinNeed ==
    Bootstrapping =>
        /\ Cardinality(currentPeers) + Cardinality(attempted) <= minPeers
        /\ pc = "dial" => Cardinality(currentPeers) + Cardinality(attempted) < minPeers

IInv == TypeOK /\ NotStarted /\ AtRest /\ Accounted /\ WithinNeed /\ ListSuffices
-----------------------------------------------------------------------------
\* The peers and addresses a host deals with are finitely many.
LEMMA FiniteParts ==
    ASSUME TypeOK
    PROVE  /\ IsFiniteSet(bootstrapPeers) /\ IsFiniteSet(attempted)
           /\ IsFiniteSet(currentPeers) /\ IsFiniteSet(connected)
           /\ Cardinality(bootstrapPeers) \in Nat /\ Cardinality(attempted) \in Nat
           /\ Cardinality(currentPeers) \in Nat /\ Cardinality(connected) \in Nat
  <1>1. IsFiniteSet(Addrs) /\ IsFiniteSet(Peers)
    BY BootstrapAssumption
  <1>2. /\ bootstrapPeers \subseteq Addrs /\ attempted \subseteq Addrs
        /\ currentPeers \subseteq Peers /\ connected \subseteq Peers
    BY DEF TypeOK
  <1>3. /\ IsFiniteSet(bootstrapPeers) /\ IsFiniteSet(attempted)
        /\ IsFiniteSet(currentPeers) /\ IsFiniteSet(connected)
    BY <1>1, <1>2, FS_Subset
  <1> QED
    BY <1>3, FS_CardinalityType

\* The threshold is a number no larger than the list.
LEMMA MinPeersBound ==
    ASSUME TypeOK
    PROVE  minPeers \in Nat /\ minPeers <= Cardinality(bootstrapPeers)
  <1>1. PICK c \in Nat : c = Cardinality(bootstrapPeers)
    BY FiniteParts
  <1>2. DefaultMin \in Nat
    BY BootstrapAssumption
  <1>3. PICK m \in {DefaultMin, c} : \A y \in {DefaultMin, c} : m <= y
    BY <1>2
  <1>4. minPeers \in {DefaultMin, c} /\ \A y \in {DefaultMin, c} : minPeers <= y
    BY <1>1, <1>3 DEF minPeers, Min
  <1> QED
    BY <1>1, <1>2, <1>4

\* As many addresses have at most as many peers.
LEMMA PeersOfBound ==
    ASSUME NEW list \in SUBSET Addrs
    PROVE  IsFiniteSet(PeersOf(list)) /\ Cardinality(PeersOf(list)) <= Cardinality(list)
  <1>1. IsFiniteSet(list)
    BY BootstrapAssumption, FS_Subset
  <1>2. PICK f : f = [a \in list |-> PeerOf[a]]
    OBVIOUS
  <1>3. f \in Surjection(list, PeersOf(list))
    BY <1>2 DEF Surjection, PeersOf
  <1> QED
    BY <1>1, <1>3, FS_Surjection

\* The threshold depends on the list alone.
LEMMA Unmoved ==
    ASSUME UNCHANGED bootstrapPeers
    PROVE  minPeers' = minPeers
  BY DEF minPeers

\* Looking: bootstrap begins with nothing attempted.
LEMMA LookStep == IInv /\ Look => IInv'
  <1> SUFFICES ASSUME IInv, Look PROVE IInv'
    OBVIOUS
  <1>1. /\ UNCHANGED <<bootstrapStarted, bootstrapPeers, ctx, tick, attempted, warned, dials,
                       dhtBootStarted, connected, arrived, lost, wait>>
        /\ pc = "look" /\ attempted = {} /\ dials = {} /\ arrived = {}
    BY DEF Look, netVars, IInv, AtRest, Bootstrapping
  <1>2. minPeers' = minPeers
    BY <1>1, Unmoved
  <1>3. CASE TooFew(connected)
    <2>1. pc' = "dial" /\ currentPeers' = connected
      BY <1>3 DEF Look
    <2>2. TypeOK' /\ NotStarted' /\ AtRest' /\ ListSuffices' /\ Accounted'
      BY <1>1, <2>1 DEF IInv, TypeOK, NotStarted, AtRest, ListSuffices, Accounted, Bootstrapping
    <2>3. WithinNeed'
      <3>1. Cardinality(attempted') = 0
        BY <1>1, FS_EmptySet
      <3>2. Cardinality(connected) < minPeers /\ Cardinality(connected) \in Nat /\ minPeers \in Nat
        BY <1>3, FiniteParts, MinPeersBound DEF TooFew, IInv
      <3> QED
        BY <1>2, <2>1, <3>1, <3>2 DEF WithinNeed
    <2> QED
      BY <2>2, <2>3 DEF IInv
  <1>4. CASE ~TooFew(connected)
    <2>1. pc' = "select" /\ currentPeers' = currentPeers
      BY <1>4 DEF Look
    <2> QED
      BY <1>1, <2>1 DEF IInv, TypeOK, NotStarted, AtRest, ListSuffices, Accounted, WithinNeed,
                        Bootstrapping
  <1> QED
    BY <1>3, <1>4

\* Dialling: one more address, as long as there was still one to be dialled.
LEMMA DialStep ==
    ASSUME IInv, NEW a \in Addrs, Dial(a)
    PROVE  IInv'
  <1>1. /\ UNCHANGED <<bootstrapStarted, bootstrapPeers, ctx, tick, currentPeers, warned,
                       dhtBootStarted, connected, arrived, lost, wait>>
        /\ pc = "dial" /\ a \in bootstrapPeers /\ a \notin attempted
        /\ attempted' = attempted \cup {a} /\ dials' = dials \cup {a}
        /\ pc' = IF EnoughAttempted(attempted') THEN "join" ELSE "dial"
    BY DEF Dial, Candidates, netVars
  <1>2. minPeers' = minPeers
    BY <1>1, Unmoved
  <1>3. TypeOK' /\ NotStarted' /\ AtRest' /\ ListSuffices'
    BY <1>1 DEF IInv, TypeOK, NotStarted, AtRest, ListSuffices, Bootstrapping
  <1>4. Accounted'
    BY <1>1 DEF IInv, Accounted, Bootstrapping, PeersOf
  <1>5. WithinNeed'
    <2>1. PICK c \in Nat, n \in Nat, m \in Nat :
            c = Cardinality(currentPeers) /\ n = Cardinality(attempted) /\ m = minPeers
      BY FiniteParts, MinPeersBound DEF IInv
    <2>2. Cardinality(attempted') = n + 1
      BY <1>1, <2>1, FiniteParts, FS_AddElement DEF IInv
    <2>3. c + n < m
      BY <1>1, <2>1 DEF IInv, WithinNeed, Bootstrapping
    <2>4. EnoughAttempted(attempted') <=> n + 1 = m - c
      BY <2>1, <2>2 DEF EnoughAttempted, peersNeeded
    <2>5. c + (n + 1) <= m /\ (pc' = "dial" => c + (n + 1) < m)
      BY <1>1, <2>3, <2>4
    <2> QED
      BY <1>1, <1>2, <2>1, <2>2, <2>5 DEF WithinNeed
  <1> QED
    BY <1>3, <1>4, <1>5 DEF IInv

\* A list of different peers does not run out: its addresses that were not attempted would
\* all belong to peers that were there, and there are more of them than of those.
LEMMA NotEnoughStep == IInv /\ NotEnoughNodes => IInv'
  <1> SUFFICES ASSUME IInv, NotEnoughNodes PROVE IInv'
    OBVIOUS
  <1>1. /\ UNCHANGED <<bootstrapStarted, bootstrapPeers, ctx, tick, currentPeers, attempted,
                       dials, dhtBootStarted, connected, arrived, lost, wait>>
        /\ pc = "dial" /\ pc' = "join" /\ warned' = TRUE /\ Candidates = {}
    BY DEF NotEnoughNodes, netVars
  <1>2. minPeers' = minPeers
    BY <1>1, Unmoved
  <1>3. ~Distinct(bootstrapPeers)
    <2> DEFINE Rest == bootstrapPeers \ attempted
    <2>1. PICK c \in Nat, n \in Nat, m \in Nat, l \in Nat :
            /\ c = Cardinality(currentPeers) /\ n = Cardinality(attempted) /\ m = minPeers
            /\ l = Cardinality(bootstrapPeers) /\ m <= l
      BY FiniteParts, MinPeersBound DEF IInv
    <2>2. c + n < m
      BY <1>1, <2>1 DEF IInv, WithinNeed, Bootstrapping
    <2>3. IsFiniteSet(Rest) /\ Cardinality(Rest) = l - n
      <3>1. bootstrapPeers \cap attempted = attempted
        BY DEF IInv, TypeOK
      <3>2. IsFiniteSet(bootstrapPeers) /\ IsFiniteSet(attempted)
        BY FiniteParts DEF IInv
      <3>3. /\ IsFiniteSet(Rest)
            /\ Cardinality(Rest)
                 = Cardinality(bootstrapPeers) - Cardinality(bootstrapPeers \cap attempted)
        BY <3>2, FS_Difference
      <3> QED
        BY <2>1, <3>1, <3>3
    <2>4. PICK f \in [Rest -> currentPeers] : \A a \in Rest : f[a] = PeerOf[a]
      <3>1. \A a \in Rest : PeerOf[a] \in currentPeers
        BY <1>1 DEF Candidates
      <3>2. [a \in Rest |-> PeerOf[a]] \in [Rest -> currentPeers]
        BY <3>1
      <3> QED
        BY <3>2
    <2>5. c < l - n
      BY <2>1, <2>2
    <2>6. Cardinality(currentPeers) < Cardinality(Rest) /\ IsFiniteSet(currentPeers)
      BY <2>1, <2>3, <2>5, FiniteParts DEF IInv
    <2> HIDE DEF Rest
    <2>7. PICK a \in Rest, b \in Rest : a # b /\ f[a] = f[b]
      BY <2>3, <2>4, <2>6, FS_PigeonHole
    <2> QED
      BY <2>4, <2>7 DEF Distinct, Rest
  <1>4. TypeOK' /\ NotStarted' /\ AtRest' /\ Accounted'
    BY <1>1 DEF IInv, TypeOK, NotStarted, AtRest, Accounted, Bootstrapping
  <1>5. WithinNeed'
    BY <1>1, <1>2 DEF IInv, WithinNeed, Bootstrapping
  <1>6. ListSuffices'
    BY <1>1, <1>3 DEF ListSuffices, Distinct
  <1> QED
    BY <1>4, <1>5, <1>6 DEF IInv

\* A dial that succeeds connects to a peer whose address was attempted.
LEMMA ConnectStep ==
    ASSUME IInv, NEW a \in Addrs, ConnectFails(a) \/ ConnectSucceeds(a)
    PROVE  IInv'
  <1>1. /\ UNCHANGED <<bootstrapStarted, bootstrapPeers, ctx, tick, pc, currentPeers, attempted,
                       warned, dhtBootStarted, arrived, lost, wait>>
        /\ a \in dials /\ dials' = dials \ {a}
        /\ connected' \in {connected, connected \cup {PeerOf[a]}}
    BY DEF ConnectFails, ConnectSucceeds, loopVars, netVars
  <1>2. minPeers' = minPeers
    BY <1>1, Unmoved
  <1>3. PeerOf[a] \in Peers
    BY BootstrapAssumption
  <1>4. TypeOK' /\ NotStarted' /\ AtRest' /\ ListSuffices'
    BY <1>1, <1>3 DEF IInv, TypeOK, NotStarted, AtRest, ListSuffices, Bootstrapping
  <1>5. Accounted'
    <2>1. a \in dials /\ (Bootstrapping => PeerOf[a] \in PeersOf(attempted))
      BY <1>1 DEF IInv, Accounted, PeersOf
    <2> QED
      BY <1>1, <2>1 DEF IInv, Accounted, Bootstrapping
  <1>6. WithinNeed'
    BY <1>1, <1>2 DEF IInv, WithinNeed, Bootstrapping
  <1> QED
    BY <1>4, <1>5, <1>6 DEF IInv

\* Peers come and go: the ones that come by themselves are not counted.
LEMMA PeerStep ==
    ASSUME IInv, NEW p \in Peers, PeerArrives(p) \/ PeerLeaves(p)
    PROVE  IInv'
  <1>1. /\ UNCHANGED <<bootstrapStarted, bootstrapPeers, ctx, tick, pc, currentPeers, attempted,
                       warned, dials, dhtBootStarted, wait>>
        /\ \/ /\ connected' = connected \cup {p} /\ lost' = lost
              /\ arrived' = IF Bootstrapping THEN arrived \cup {p} ELSE arrived
           \/ /\ connected' = connected \ {p} /\ arrived' = arrived \ {p}
              /\ lost < MaxLost /\ lost' = lost + 1
    BY DEF PeerArrives, PeerLeaves, loopVars
  <1>2. minPeers' = minPeers
    BY <1>1, Unmoved
  <1>3. lost' \in 0 .. MaxLost
    BY <1>1, BootstrapAssumption DEF IInv, TypeOK
  <1>4. TypeOK' /\ NotStarted' /\ AtRest' /\ ListSuffices'
    BY <1>1, <1>3 DEF IInv, TypeOK, NotStarted, AtRest, ListSuffices, Bootstrapping
  <1>5. Accounted'
    BY <1>1 DEF IInv, Accounted, Bootstrapping
  <1>6. WithinNeed'
    BY <1>1, <1>2 DEF IInv, WithinNeed, Bootstrapping
  <1> QED
    BY <1>4, <1>5, <1>6 DEF IInv

\* Host.Bootstrap is called once, when nothing was attempted or logged.
LEMMA StartStep ==
    ASSUME IInv, NEW list \in Lists, Bootstrap(list)
    PROVE  IInv'
  <1>1. list \subseteq Addrs
    BY BootstrapAssumption
  <1>2. pc = "off" /\ attempted = {} /\ dials = {} /\ arrived = {} /\ ~warned
    BY DEF Bootstrap, IInv, NotStarted, AtRest, Bootstrapping
  <1>3. TypeOK' /\ NotStarted' /\ AtRest' /\ ListSuffices'
    BY <1>1, <1>2
       DEF Bootstrap, netVars, IInv, TypeOK, NotStarted, AtRest, ListSuffices, Bootstrapping
  <1>4. ~Bootstrapping'
    BY DEF Bootstrap, Bootstrapping
  <1> QED
    BY <1>3, <1>4 DEF IInv, Accounted, WithinNeed

\* The steps that leave the dials and the connections alone.
LEMMA OtherStep ==
    ASSUME IInv, Stop \/ Tick \/ Join \/ TakeTick \/ ContextDone \/ \E w \in Waits : Wait(w)
    PROVE  IInv'
  <1>1. CASE Join
    BY <1>1 DEF Join, IInv, TypeOK, NotStarted, AtRest, ListSuffices, Accounted, WithinNeed,
                Bootstrapping
  <1>2. CASE TakeTick \/ ContextDone
    <2>1. ~Bootstrapping /\ ~Bootstrapping'
      BY <1>2 DEF TakeTick, ContextDone, Bootstrapping
    <2>2. tick' \in BOOLEAN /\ pc' \in {"look", "done"} /\ pc = "select"
      <3>1. tick' = FALSE
        BY <1>2 DEF TakeTick, ContextDone
      <3> QED
        BY <1>2, <3>1 DEF TakeTick, ContextDone
    <2>3. UNCHANGED <<bootstrapStarted, bootstrapPeers, ctx, currentPeers, attempted, warned,
                      dials, dhtBootStarted, netVars, wait>>
      BY <1>2 DEF TakeTick, ContextDone
    <2>4. TypeOK' /\ NotStarted' /\ AtRest' /\ ListSuffices'
      BY <2>1, <2>2, <2>3 DEF netVars, IInv, TypeOK, NotStarted, AtRest, ListSuffices
    <2> QED
      BY <2>1, <2>4 DEF IInv, Accounted, WithinNeed
  <1>3. CASE Stop \/ Tick \/ \E w \in Waits : Wait(w)
    <2>1. UNCHANGED <<bootstrapStarted, bootstrapPeers, loopVars, dials, dhtBootStarted, netVars>>
      BY <1>3 DEF Stop, Tick, Wait, WaitForBootstrap, WaitSucceeds, WaitTimesOut
    <2>2. minPeers' = minPeers
      BY <2>1, Unmoved
    <2>3. TypeOK'
      <3>1. ctx' \in {"none", "live", "done"} /\ (pc = "off" <=> ctx' = "none")
        BY <1>3 DEF Stop, Tick, Wait, WaitForBootstrap, WaitSucceeds, WaitTimesOut, IInv, TypeOK
      <3>2. tick' \in BOOLEAN
        BY <1>3 DEF Stop, Tick, Wait, WaitForBootstrap, WaitSucceeds, WaitTimesOut, IInv, TypeOK
      <3>3. wait' \in [Waits -> {"start", "select", "done"}]
        BY <1>3 DEF Stop, Tick, Wait, WaitForBootstrap, WaitSucceeds, WaitTimesOut, IInv, TypeOK
      <3> QED
        BY <2>1, <3>1, <3>2, <3>3 DEF loopVars, netVars, IInv, TypeOK
    <2>4. NotStarted' /\ AtRest' /\ ListSuffices' /\ Accounted'
      BY <2>1 DEF loopVars, netVars, IInv, NotStarted, AtRest, ListSuffices, Accounted,
                  Bootstrapping
    <2>5. WithinNeed'
      BY <2>1, <2>2 DEF loopVars, IInv, WithinNeed, Bootstrapping
    <2> QED
      BY <2>3, <2>4, <2>5 DEF IInv
  <1> QED
    BY <1>1, <1>2, <1>3

\* The invariant holds and every step keeps it.
THEOREM Inductive == Spec => []IInv
  <1>1. Init => IInv
    <2> SUFFICES ASSUME Init PROVE IInv
      OBVIOUS
    <2>1. ~Bootstrapping
      BY DEF Init, Bootstrapping
    <2>2. TypeOK
      <3>1. /\ bootstrapStarted \in BOOLEAN /\ tick \in BOOLEAN
            /\ dhtBootStarted \in BOOLEAN /\ warned \in BOOLEAN
        BY Zenon DEF Init
      <3>2. lost \in 0 .. MaxLost /\ wait \in [Waits -> {"start", "select", "done"}]
        BY BootstrapAssumption DEF Init
      <3> QED
        BY <3>1, <3>2 DEF Init, TypeOK
    <2> QED
      BY <2>1, <2>2
         DEF Init, IInv, NotStarted, AtRest, Accounted, WithinNeed, ListSuffices
  <1>2. IInv /\ [Next]_vars => IInv'
    <2> SUFFICES ASSUME IInv, [Next]_vars PROVE IInv'
      OBVIOUS
    <2>1. CASE UNCHANGED vars
      <3>1. minPeers' = minPeers
        BY <2>1, Unmoved DEF vars
      <3> QED
        BY <2>1, <3>1 DEF vars, loopVars, netVars, IInv, TypeOK, NotStarted, AtRest, Accounted,
                          WithinNeed, ListSuffices, Bootstrapping
    <2>2. CASE Next
      BY <2>2, StartStep, LookStep, DialStep, NotEnoughStep, ConnectStep, PeerStep, OtherStep
         DEF Next, Loop, Network
    <2> QED
      BY <2>1, <2>2
  <1> QED
    BY <1>1, <1>2, PTL DEF Spec

\* The variables hold what the Go fields can hold.
THEOREM TypeCorrect == Spec => []TypeOK
  BY Inductive, PTL DEF IInv

\* A list of different peers never runs out of addresses to dial.
THEOREM ListsSuffice == Spec => []ListSuffices
  BY Inductive, PTL DEF IInv

\* The bootstrapper's own dials never take the host past the threshold, whoever else comes
\* or goes while they are under way.
THEOREM NoOvershoot == Spec => []NeverOvershoots
  <1>1. IInv => NeverOvershoots
    <2> SUFFICES ASSUME IInv, Bootstrapping
                 PROVE  Cardinality(connected \ arrived) <= minPeers
      BY DEF NeverOvershoots
    <2>1. PICK c \in Nat, n \in Nat, m \in Nat :
            c = Cardinality(currentPeers) /\ n = Cardinality(attempted) /\ m = minPeers
      BY FiniteParts, MinPeersBound DEF IInv
    <2>2. PICK P : P = PeersOf(attempted)
      OBVIOUS
    <2>3. IsFiniteSet(P) /\ Cardinality(P) <= n /\ Cardinality(P) \in Nat
      <3>1. attempted \in SUBSET Addrs
        BY DEF IInv, TypeOK
      <3> QED
        BY <2>1, <2>2, <3>1, PeersOfBound, FS_CardinalityType
    <2>4. /\ IsFiniteSet(currentPeers \cup P)
          /\ Cardinality(currentPeers \cup P) <= c + n
      <3>1. IsFiniteSet(currentPeers)
        BY FiniteParts DEF IInv
      <3>2. /\ IsFiniteSet(currentPeers \cup P)
            /\ Cardinality(currentPeers \cup P)
                 = Cardinality(currentPeers) + Cardinality(P) - Cardinality(currentPeers \cap P)
        BY <2>3, <3>1, FS_Union
      <3>3. Cardinality(currentPeers \cap P) \in Nat
        BY <2>3, <3>1, FS_Intersection, FS_CardinalityType
      <3> QED
        BY <2>1, <2>3, <3>2, <3>3
    <2>5. /\ Cardinality(connected \ arrived) <= Cardinality(currentPeers \cup P)
          /\ Cardinality(connected \ arrived) \in Nat
          /\ Cardinality(currentPeers \cup P) \in Nat
      <3>1. connected \ arrived \subseteq currentPeers \cup P
        BY <2>2 DEF IInv, Accounted
      <3> QED
        BY <2>4, <3>1, FS_Subset, FS_CardinalityType
    <2>6. c + n <= m
      BY <2>1 DEF IInv, WithinNeed
    <2> QED
      BY <2>1, <2>4, <2>5, <2>6
  <1> QED
    BY <1>1, Inductive, PTL
=============================================================================
