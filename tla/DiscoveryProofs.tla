--------------------------- MODULE DiscoveryProofs ---------------------------
(***************************************************************************)
(* Theorems about Discovery, for any numbers of starts, waits, peers and   *)
(* discoverers: the type invariant, no missed count, no unearned success,  *)
(* and the namespace that can always be stopped.                           *)
(***************************************************************************)
EXTENDS Discovery, TLAPS

\* newTupeloDiscoverer gives a discoverer that was not there before.
LEMMA FreshDiscoverer ==
    ASSUME Discoverers \ made # {}
    PROVE  newTupeloDiscoverer \in Discoverers \ made
  <1>1. PICK d \in Discoverers : d \notin made
    OBVIOUS
  <1> QED
    BY <1>1 DEF newTupeloDiscoverer

\* Every step is one of a start or a stop, of a search, of an event or of a wait.
LEMMA Steps ==
    ASSUME Next
    PROVE  \/ \E s \in Starts : Start(s) /\ UNCHANGED panicked
           \/ StopDiscovery /\ UNCHANGED panicked
           \/ \E s \in Starts : Search(s) /\ UNCHANGED panicked
           \/ \E e \in events : Publish(e) /\ UNCHANGED panicked
           \/ \E w \in Waits : Wait(w) /\ UNCHANGED panicked
           \/ \E w \in Waits : SendOnClosed(w)
  BY DEF Next, Running

-----------------------------------------------------------------------------
(* Types *)

\* What has a type and a discoverer keeps both in every step of a start.
LEMMA TypeStart ==
    ASSUME TypeOK, Begun, UNCHANGED panicked, NEW s \in Starts, Start(s)
    PROVE  TypeOK' /\ Begun'
  <1> USE DiscoveryAssumption DEF TypeOK, Begun, searchVars, waitVars
  <1>1. CASE StartDiscovery(s)
    <2> DEFINE d == IF discoverer = None THEN newTupeloDiscoverer ELSE discoverer
    <2>1. d \in Discoverers
      BY <1>1, FreshDiscoverer DEF StartDiscovery
    <2>2. /\ discoverer' = d /\ made' = made \cup {d}
          /\ std' = [std EXCEPT ![s] = d] /\ spc' = [spc EXCEPT ![s] = "check"]
          /\ UNCHANGED <<started, cancelFunc, cancelled, advertising, searchVars,
                         connected, events, waitVars>>
      BY <1>1 DEF StartDiscovery
    <2> HIDE DEF d
    <2> QED
      BY <2>1, <2>2
  <1>2. CASE Bootstrap(s)
    BY <1>2 DEF Bootstrap
  <1>3. CASE CheckStarted(s)
    BY <1>3 DEF CheckStarted
  <1>4. CASE Advertise(s)
    BY <1>4 DEF Advertise
  <1>5. CASE FindPeers(s)
    BY <1>5 DEF FindPeers
  <1>6. CASE StartFails(s)
    BY <1>6 DEF StartFails
  <1>7. CASE SetStarted(s)
    BY <1>7 DEF SetStarted
  <1> QED
    BY <1>1, <1>2, <1>3, <1>4, <1>5, <1>6, <1>7 DEF Start

\* ... and in every step of a search.
LEMMA TypeSearch ==
    ASSUME TypeOK, Begun, UNCHANGED panicked, NEW s \in Starts, Search(s)
    PROVE  TypeOK' /\ Begun'
  <1> USE DEF TypeOK, Begun, startVars, waitVars
  <1>1. ASSUME NEW p \in Peers, NewPeer(s, p)
        PROVE  TypeOK' /\ Begun'
    BY <1>1 DEF NewPeer
  <1>2. ASSUME NEW p \in Peers, KnownPeer(s, p)
        PROVE  TypeOK' /\ Begun'
    BY <1>2 DEF KnownPeer, Count
  <1>3. ASSUME NEW p \in Peers, Connect(s, p)
        PROVE  TypeOK' /\ Begun'
    BY <1>3 DEF Connect, Count
  <1>4. CASE SearchEnds(s)
    BY <1>4 DEF SearchEnds
  <1>5. CASE AdvertiseEnds(s)
    BY <1>5 DEF AdvertiseEnds, searchVars
  <1> QED
    BY <1>1, <1>2, <1>3, <1>4, <1>5 DEF Search

\* ... and in every step of a wait.
LEMMA TypeWait ==
    ASSUME TypeOK, Begun, UNCHANGED panicked, NEW w \in Waits, Wait(w)
    PROVE  TypeOK' /\ Begun'
  <1> USE DEF TypeOK, Begun, startVars, searchVars
  <1>1. CASE WaitForDiscovery(w)
    BY <1>1 DEF WaitForDiscovery
  <1>2. CASE Subscribe(w)
    BY <1>2 DEF Subscribe
  <1>3. CASE Load(w)
    BY <1>3 DEF Load
  <1>4. CASE Receive(w)
    BY <1>4 DEF Receive
  <1>5. CASE Timeout(w)
    BY <1>5 DEF Timeout
  <1>6. CASE Close(w)
    BY <1>6 DEF Close
  <1>7. CASE Unsubscribe(w)
    BY <1>7 DEF Unsubscribe
  <1> QED
    BY <1>1, <1>2, <1>3, <1>4, <1>5, <1>6, <1>7 DEF Wait

\* ... and in every step.
LEMMA TypeStep ==
    ASSUME TypeOK, Begun, [Next]_vars
    PROVE  TypeOK' /\ Begun'
  <1>1. CASE StopDiscovery /\ UNCHANGED panicked
    BY <1>1 DEF TypeOK, Begun, StopDiscovery, Stop, searchVars, waitVars
  <1>2. ASSUME NEW e \in events, Publish(e), UNCHANGED panicked
        PROVE  TypeOK' /\ Begun'
    BY <1>2 DEF TypeOK, Begun, Publish, startVars, searchVars
  <1>3. ASSUME NEW w \in Waits, SendOnClosed(w)
        PROVE  TypeOK' /\ Begun'
    BY <1>3 DEF TypeOK, Begun, SendOnClosed, startVars, searchVars, waitVars
  <1>4. CASE UNCHANGED vars
    BY <1>4 DEF TypeOK, Begun, vars, startVars, searchVars, waitVars
  <1>5. ASSUME NEW s \in Starts, Start(s), UNCHANGED panicked
        PROVE  TypeOK' /\ Begun'
    BY <1>5, TypeStart
  <1>6. ASSUME NEW s \in Starts, Search(s), UNCHANGED panicked
        PROVE  TypeOK' /\ Begun'
    BY <1>6, TypeSearch
  <1>7. ASSUME NEW w \in Waits, Wait(w), UNCHANGED panicked
        PROVE  TypeOK' /\ Begun'
    BY <1>7, TypeWait
  <1>8. CASE Next
    BY <1>8, <1>1, <1>2, <1>3, <1>5, <1>6, <1>7, Steps
  <1> QED
    BY <1>4, <1>8

\* Discovery's variables always hold what they can hold, and every call that has
\* begun works on a discoverer.
THEOREM TypeCorrect == Spec => [](TypeOK /\ Begun)
  <1>1. Init => TypeOK /\ Begun
    <2>1. (CHOOSE d \in Discoverers : TRUE) \in Discoverers
      BY DiscoveryAssumption
    <2>2. Init => discoverer \in Discoverers \cup {None} /\ made = {discoverer} \ {None}
      BY <2>1 DEF Init
    <2>3. Init => panicked \in BOOLEAN
      BY DEF Init
    <2>4. Init => TypeOK
      BY <2>2, <2>3 DEF Init, TypeOK
    <2>5. Init => Begun
      BY DEF Init, Begun
    <2> QED
      BY <2>4, <2>5
  <1> QED
    BY <1>1, TypeStep, PTL DEF Spec

-----------------------------------------------------------------------------
(* Counts *)

\* What a step does to the counts and to the waits: nothing, one more count,
\* an event, or a step of one wait.
LEMMA CountSteps ==
    ASSUME TypeOK, Begun, [Next]_vars
    PROVE  \/ UNCHANGED <<connected, events, waitVars>>
           \/ \E d \in Discoverers : Count(d) /\ UNCHANGED waitVars
           \/ \E e \in events : Publish(e)
           \/ \E w \in Waits : Wait(w)
  <1>1. ASSUME NEW s \in Starts, Start(s)
        PROVE  UNCHANGED <<connected, events, waitVars>>
    BY <1>1 DEF Start, StartDiscovery, Bootstrap, CheckStarted, Advertise, FindPeers,
                StartFails, SetStarted
  <1>2. ASSUME NEW s \in Starts, Search(s)
        PROVE  \/ UNCHANGED <<connected, events, waitVars>>
               \/ \E d \in Discoverers : Count(d) /\ UNCHANGED waitVars
    <2>1. ASSUME NEW p \in Peers, KnownPeer(s, p) \/ Connect(s, p)
          PROVE  Count(std[s]) /\ UNCHANGED waitVars /\ std[s] \in Discoverers
      BY <2>1 DEF KnownPeer, Connect, TypeOK, Begun
    <2> QED
      BY <1>2, <2>1 DEF Search, NewPeer, SearchEnds, AdvertiseEnds
  <1>3. CASE StopDiscovery \/ UNCHANGED vars \/ \E w \in Waits : SendOnClosed(w)
    BY <1>3 DEF StopDiscovery, SendOnClosed, vars
  <1>4. CASE Next
    <2>1. CASE \E s \in Starts : Start(s)
      BY <1>1, <2>1
    <2>2. CASE \E s \in Starts : Search(s)
      BY <1>2, <2>2
    <2>3. CASE \E e \in events : Publish(e)
      BY <2>3, Zenon
    <2>4. CASE \E w \in Waits : Wait(w)
      BY <2>4, Zenon
    <2>5. \/ \E s \in Starts : Start(s) \/ Search(s)
          \/ \E e \in events : Publish(e)
          \/ \E w \in Waits : Wait(w) \/ SendOnClosed(w)
          \/ StopDiscovery
      BY <1>4, Steps
    <2> QED
      BY <1>3, <2>1, <2>2, <2>3, <2>4, <2>5, Zenon
  <1> QED
    BY <1>3, <1>4

\* A step misses no count.
LEMMA MissedStep ==
    ASSUME TypeOK, Begun, NoMissedCount, [Next]_vars
    PROVE  NoMissedCount'
  <1> USE DiscoveryAssumption
  <1>1. CASE UNCHANGED <<connected, events, waitVars>>
    BY <1>1 DEF NoMissedCount, waitVars
  <1>2. ASSUME NEW d \in Discoverers, Count(d), UNCHANGED waitVars
        PROVE  NoMissedCount'
    <2>1. /\ connected' = [connected EXCEPT ![d] = connected[d] + 1]
          /\ [td |-> d, n |-> connected[d] + 1] \in events' /\ events \subseteq events'
      BY <1>2 DEF Count
    <2>2. UNCHANGED <<wpc, wtd, sends>>
      BY <1>2 DEF waitVars
    <2>3. connected \in [Discoverers -> Nat] /\ NumOf \in [Waits -> Nat]
      BY DEF TypeOK
    <2> QED
      BY <2>1, <2>2, <2>3 DEF NoMissedCount
  <1>3. ASSUME NEW e \in events, Publish(e)
        PROVE  NoMissedCount'
    BY <1>3 DEF NoMissedCount, Publish, Subscribers, Wakes, TypeOK
  <1>4. ASSUME NEW w \in Waits, Wait(w)
        PROVE  NoMissedCount'
    <2>1. CASE Load(w)
      BY <2>1 DEF NoMissedCount, Load, Wakes, TypeOK
    <2>2. CASE ~Load(w)
      BY <1>4, <2>2 DEF NoMissedCount, Wait, WaitForDiscovery, Subscribe, Receive, Timeout,
                        Close, Unsubscribe, TypeOK
    <2> QED
      BY <2>1, <2>2
  <1> QED
    BY <1>1, <1>2, <1>3, <1>4, CountSteps

\* A wait for connections never misses the count it waits for, whatever the order of
\* its own steps, the increments and the events.
THEOREM CountNeverMissed == Spec => []NoMissedCount
  <1>1. Init => NoMissedCount
    BY DEF Init, NoMissedCount
  <1> QED
    BY <1>1, TypeCorrect, MissedStep, PTL DEF Spec

\* A step keeps events and wake-ups backed by counts.
LEMMA CountedStep ==
    ASSUME TypeOK, Begun, EventsWereCounted, SendsWereCounted, [Next]_vars
    PROVE  EventsWereCounted' /\ SendsWereCounted'
  <1> USE DiscoveryAssumption
  <1>1. CASE UNCHANGED <<connected, events, waitVars>>
    BY <1>1 DEF EventsWereCounted, SendsWereCounted, waitVars
  <1>2. ASSUME NEW d \in Discoverers, Count(d), UNCHANGED waitVars
        PROVE  EventsWereCounted' /\ SendsWereCounted'
    BY <1>2 DEF EventsWereCounted, SendsWereCounted, Count, waitVars, TypeOK
  <1>3. ASSUME NEW e \in events, Publish(e)
        PROVE  EventsWereCounted' /\ SendsWereCounted'
    BY <1>3 DEF EventsWereCounted, SendsWereCounted, Publish, Subscribers, Wakes,
                TypeOK, Begun
  <1>4. ASSUME NEW w \in Waits, Wait(w)
        PROVE  EventsWereCounted' /\ SendsWereCounted'
    <2>1. UNCHANGED <<connected, events>>
      BY <1>4 DEF Wait, WaitForDiscovery, Subscribe, Load, Receive, Timeout, Close,
                  Unsubscribe
    <2>2. CASE Load(w)
      BY <2>1, <2>2 DEF EventsWereCounted, SendsWereCounted, Load, Wakes, TypeOK, Begun
    <2>3. CASE Receive(w)
      BY <2>1, <2>3 DEF EventsWereCounted, SendsWereCounted, Receive, TypeOK, Begun
    <2>4. CASE WaitForDiscovery(w)
      BY <2>1, <2>4 DEF EventsWereCounted, SendsWereCounted, WaitForDiscovery, TypeOK
    <2>5. CASE Subscribe(w) \/ Timeout(w) \/ Close(w) \/ Unsubscribe(w)
      BY <2>1, <2>5 DEF EventsWereCounted, SendsWereCounted, Subscribe, Timeout, Close,
                        Unsubscribe, TypeOK
    <2> QED
      BY <1>4, <2>2, <2>3, <2>4, <2>5 DEF Wait
  <1> QED
    BY <1>1, <1>2, <1>3, <1>4, CountSteps

\* WaitForDiscovery returns nil only after its discoverer has counted to the number.
THEOREM SuccessAlwaysCounted == Spec => []SuccessWasCounted
  <1>1. Init => EventsWereCounted /\ SendsWereCounted
    BY DEF Init, EventsWereCounted, SendsWereCounted
  <1>2. SendsWereCounted => SuccessWasCounted
    BY DEF SendsWereCounted, SuccessWasCounted
  <1> QED
    BY <1>1, <1>2, TypeCorrect, CountedStep, PTL DEF Spec

-----------------------------------------------------------------------------
(* Stopping *)

\* A step keeps the namespace's discoverer stoppable.
LEMMA StoppableStep ==
    ASSUME TypeOK, Begun, Stoppable, [Next]_vars
    PROVE  Stoppable'
  <1> DEFINE same == UNCHANGED <<discoverer, started, cancelFunc, cancelled, spc, std>>
  <1> USE DiscoveryAssumption
          DEF Stoppable, CancelFuncIsOwn, CancelledIsGone, UnderWayHasCancelFunc,
              StartedCanBeStopped
  <1>1. CASE same
    BY <1>1
  <1>2. ASSUME NEW s \in Starts, StartDiscovery(s)
        PROVE  Stoppable'
    <2> DEFINE d == IF discoverer = None THEN newTupeloDiscoverer ELSE discoverer
    <2>1. /\ spc[s] = "start"
          /\ discoverer' = d
          /\ std' = [std EXCEPT ![s] = d] /\ spc' = [spc EXCEPT ![s] = "check"]
          /\ UNCHANGED <<started, cancelFunc, cancelled>>
      BY <1>2 DEF StartDiscovery
    <2>2. d \in Discoverers /\ (d = discoverer \/ d \notin made)
      BY <1>2, FreshDiscoverer DEF StartDiscovery, TypeOK
    <2> HIDE DEF d
    <2> QED
      BY <2>1, <2>2 DEF TypeOK, Begun
  <1>3. ASSUME NEW s \in Starts, Bootstrap(s)
        PROVE  Stoppable'
    BY <1>3 DEF Bootstrap, TypeOK
  <1>4. ASSUME NEW s \in Starts, CheckStarted(s)
        PROVE  Stoppable'
    BY <1>4 DEF CheckStarted, TypeOK, Begun
  <1>5. ASSUME NEW s \in Starts,
               Advertise(s) \/ FindPeers(s) \/ StartFails(s)
        PROVE  Stoppable'
    BY <1>5 DEF Advertise, FindPeers, StartFails, TypeOK
  <1>6. ASSUME NEW s \in Starts, SetStarted(s)
        PROVE  Stoppable'
    BY <1>6 DEF SetStarted, TypeOK, Begun
  <1>7. CASE StopDiscovery
    BY <1>7 DEF StopDiscovery, Stop, TypeOK, Begun
  <1>8. ASSUME NEW s \in Starts, Search(s)
        PROVE  same
    BY <1>8 DEF Search, NewPeer, KnownPeer, Connect, SearchEnds, AdvertiseEnds, startVars
  <1>9. ASSUME NEW e \in events, Publish(e)
        PROVE  same
    BY <1>9 DEF Publish, startVars
  <1>10. ASSUME NEW w \in Waits, Wait(w) \/ SendOnClosed(w)
         PROVE  same
    BY <1>10 DEF Wait, WaitForDiscovery, Subscribe, Load, Receive, Timeout, Close,
                 Unsubscribe, SendOnClosed, startVars
  <1>11. CASE UNCHANGED vars
    BY <1>11 DEF vars, startVars
  <1> HIDE DEF same, Stoppable
  <1> QED
    BY <1>1, <1>2, <1>3, <1>4, <1>5, <1>6, <1>7, <1>8, <1>9, <1>10, <1>11, Steps DEF Start

\* However starts overlap with each other and with stops, the namespace's
\* discoverer, once it says it is started, has a cancelFunc whose context is not done.
THEOREM StartedAlwaysStoppable == Spec => []StartedCanBeStopped
  <1>1. Init => Stoppable
    BY DiscoveryAssumption
       DEF Init, Stoppable, CancelFuncIsOwn, CancelledIsGone, UnderWayHasCancelFunc,
           StartedCanBeStopped
  <1>2. Stoppable => StartedCanBeStopped
    BY DEF Stoppable
  <1> QED
    BY <1>1, <1>2, TypeCorrect, StoppableStep, PTL DEF Spec
=============================================================================
