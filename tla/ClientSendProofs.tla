-------------------------- MODULE ClientSendProofs --------------------------
(***************************************************************************)
(* Proofs about ClientSend, for any number of callers, requests and rounds. *)
(* The argument: a caller is in the stream only while its channel is open  *)
(* (Orderly), and the loop only sends to callers that are in the stream,   *)
(* which cannot leave it while the loop holds rs.Lock.                     *)
(***************************************************************************)
EXTENDS ClientSend, TLAPS

\* Every action keeps the types.
LEMMA TypeStep == TypeOK /\ [Next]_vars => TypeOK'
  <1> SUFFICES ASSUME TypeOK, [Next]_vars PROVE TypeOK'
    OBVIOUS
  <1> USE CallersAssumption DEF TypeOK, Callers, PCs, Goto, Return, callVars, chanVars, loopVars
  <1>1. ASSUME NEW p \in Callers, Cancel(p) PROVE TypeOK'
    BY <1>1 DEF Cancel
  <1>2. ASSUME NEW s \in Senders, Send(s) PROVE TypeOK'
    <2>1. CASE Subscribe(s)
      BY <2>1 DEF Subscribe
    <2>2. CASE SubscribeFails(s)
      BY <2>2 DEF SubscribeFails
    <2>3. CASE SendWithoutWait(s)
      BY <2>3 DEF SendWithoutWait
    <2>4. CASE SendFails(s)
      BY <2>4 DEF SendFails
    <2>5. CASE SendTimeout(s)
      BY <2>5 DEF SendTimeout
    <2>6. CASE Unsubscribe(s)
      BY <2>6 DEF Unsubscribe
    <2>7. CASE Close(s)
      BY <2>7 DEF Close
    <2> QED
      BY <1>2, <2>1, <2>2, <2>3, <2>4, <2>5, <2>6, <2>7 DEF Send
  <1>3. ASSUME NEW w \in Waiters, WaitForFirstRound(w) PROVE TypeOK'
    <2>1. CASE CheckCurrent(w)
      BY <2>1 DEF CheckCurrent
    <2>2. CASE SubscribeToRounds(w)
      BY <2>2 DEF SubscribeToRounds
    <2>3. CASE ReceiveRound(w)
      BY <2>3 DEF ReceiveRound
    <2>4. CASE WaitTimeout(w)
      BY <2>4 DEF WaitTimeout
    <2>5. CASE WaitCancelled(w)
      BY <2>5 DEF WaitCancelled
    <2>6. CASE Unsubscribe(w)
      BY <2>6 DEF Unsubscribe
    <2>7. CASE Close(w)
      BY <2>7 DEF Close
    <2> QED
      BY <1>3, <2>1, <2>2, <2>3, <2>4, <2>5, <2>6, <2>7 DEF WaitForFirstRound
  <1>4. ASSUME NEW A \in SUBSET sent, NewRound(A) PROVE TypeOK'
    BY <1>4 DEF NewRound
  <1>5. ASSUME HandleQuorum PROVE TypeOK'
    <2>1. CASE FetchFails
      BY <2>1 DEF FetchFails
    <2>2. CASE Fetched
      BY <2>2 DEF Fetched
    <2>3. CASE Published
      BY <2>3 DEF Published
    <2>4. ASSUME NEW s \in Senders, SkipSender(s) PROVE TypeOK'
      BY <2>4 DEF SkipSender
    <2>5. ASSUME NEW s \in Senders, CallSender(s) PROVE TypeOK'
      BY <2>5 DEF CallSender
    <2>6. ASSUME NEW s \in Senders, Handover(s) PROVE TypeOK'
      BY <2>6 DEF Handover
    <2>7. ASSUME NEW w \in Waiters, CallWaiter(w) PROVE TypeOK'
      BY <2>7 DEF CallWaiter
    <2>8. ASSUME NEW w \in Waiters, Buffer(w) PROVE TypeOK'
      BY <2>8 DEF Buffer
    <2> QED
      BY <1>5, <2>1, <2>2, <2>3, <2>4, <2>5, <2>6, <2>7, <2>8 DEF HandleQuorum
  <1>6. CASE UNCHANGED vars
    BY <1>6 DEF vars
  <1> QED
    BY <1>1, <1>2, <1>3, <1>4, <1>5, <1>6 DEF Next

\* The variables of the goroutines hold what they can hold, for any callers.
THEOREM TypeCorrect == Spec => []TypeOK
  <1>1. Init => TypeOK
    BY CallersAssumption DEF Init, TypeOK, Callers, PCs
  <1> QED
    BY <1>1, TypeStep, PTL DEF Spec

\* A caller leaves the stream under the lock the loop holds, and closes after it.
LEMMA OrderlyStep == TypeOK /\ TypeOK' /\ Orderly /\ [Next]_vars => Orderly'
  <1> SUFFICES ASSUME TypeOK, TypeOK', Orderly, [Next]_vars PROVE Orderly'
    OBVIOUS
  <1> USE CallersAssumption
      DEF TypeOK, Callers, PCs, Goto, Return, callVars, chanVars, loopVars, LockFree,
          StreamFree, Orderly, Subscribed, ClosedAtEnd, CallsSubscribed, ProofMeansDone
  <1>1. ASSUME NEW p \in Callers, Cancel(p) PROVE Orderly'
    BY <1>1 DEF Cancel
  <1>2. ASSUME NEW s \in Senders, Send(s) PROVE Orderly'
    <2>1. CASE Subscribe(s)
      BY <2>1 DEF Subscribe
    <2>2. CASE SubscribeFails(s)
      BY <2>2 DEF SubscribeFails
    <2>3. CASE SendWithoutWait(s)
      BY <2>3 DEF SendWithoutWait
    <2>4. CASE SendFails(s)
      BY <2>4 DEF SendFails
    <2>5. CASE SendTimeout(s)
      BY <2>5 DEF SendTimeout
    <2>6. CASE Unsubscribe(s)
      BY <2>6 DEF Unsubscribe
    <2>7. CASE Close(s)
      BY <2>7 DEF Close
    <2> QED
      BY <1>2, <2>1, <2>2, <2>3, <2>4, <2>5, <2>6, <2>7 DEF Send
  <1>3. ASSUME NEW w \in Waiters, WaitForFirstRound(w) PROVE Orderly'
    <2>1. CASE CheckCurrent(w)
      BY <2>1 DEF CheckCurrent
    <2>2. CASE SubscribeToRounds(w)
      BY <2>2 DEF SubscribeToRounds
    <2>3. CASE ReceiveRound(w)
      BY <2>3 DEF ReceiveRound
    <2>4. CASE WaitTimeout(w)
      BY <2>4 DEF WaitTimeout
    <2>5. CASE WaitCancelled(w)
      BY <2>5 DEF WaitCancelled
    <2>6. CASE Unsubscribe(w)
      BY <2>6 DEF Unsubscribe
    <2>7. CASE Close(w)
      BY <2>7 DEF Close
    <2> QED
      BY <1>3, <2>1, <2>2, <2>3, <2>4, <2>5, <2>6, <2>7 DEF WaitForFirstRound
  <1>4. ASSUME NEW A \in SUBSET sent, NewRound(A) PROVE Orderly'
    BY <1>4 DEF NewRound
  <1>5. ASSUME HandleQuorum PROVE Orderly'
    <2>1. CASE FetchFails
      BY <2>1 DEF FetchFails
    <2>2. CASE Fetched
      BY <2>2 DEF Fetched
    <2>3. CASE Published
      BY <2>3 DEF Published
    <2>4. ASSUME NEW s \in Senders, SkipSender(s) PROVE Orderly'
      BY <2>4 DEF SkipSender
    <2>5. ASSUME NEW s \in Senders, CallSender(s) PROVE Orderly'
      BY <2>5 DEF CallSender
    <2>6. ASSUME NEW s \in Senders, Handover(s) PROVE Orderly'
      BY <2>6 DEF Handover
    <2>7. ASSUME NEW w \in Waiters, CallWaiter(w) PROVE Orderly'
      BY <2>7 DEF CallWaiter
    <2>8. ASSUME NEW w \in Waiters, Buffer(w) PROVE Orderly'
      BY <2>8 DEF Buffer
    <2> QED
      BY <1>5, <2>1, <2>2, <2>3, <2>4, <2>5, <2>6, <2>7, <2>8 DEF HandleQuorum
  <1>6. CASE UNCHANGED vars
    BY <1>6 DEF vars
  <1> QED
    BY <1>1, <1>2, <1>3, <1>4, <1>5, <1>6 DEF Next

\* Callers subscribe, unsubscribe and close in order, as the loop relies on.
THEOREM OrderlyAlways == Spec => []Orderly
  <1>1. Init => Orderly
    BY CallersAssumption
       DEF Init, Orderly, Subscribed, ClosedAtEnd, CallsSubscribed, ProofMeansDone, Callers
  <1> QED
    BY <1>1, TypeCorrect, OrderlyStep, PTL DEF Spec

\* The receive loop never sends on a closed channel, whoever times out when.
THEOREM NeverSendsOnClosedChannel == Spec => []NoSendOnClosedChannel
  <1>1. TypeOK /\ Orderly => NoSendOnClosedChannel
    BY DEF TypeOK, Orderly, Subscribed, ClosedAtEnd, CallsSubscribed, NoSendOnClosedChannel
  <1> QED
    BY <1>1, TypeCorrect, OrderlyAlways, PTL

\* No caller that has its proof is ever offered a second one.
THEOREM NeverASecondProof == Spec => []NoSecondProof
  <1>1. TypeOK /\ Orderly => NoSecondProof
    <2> SUFFICES ASSUME TypeOK, Orderly, loop = "send" PROVE result[target] # "proof"
      BY DEF NoSecondProof
    <2>1. target \in Callers
      BY DEF TypeOK
    <2> QED
      BY <2>1, CallersAssumption DEF TypeOK, Orderly, ProofMeansDone, Callers
  <1> QED
    BY <1>1, TypeCorrect, OrderlyAlways, PTL

\* A callback is done only when its proof is delivered or being delivered, or its
\* context was done.
LEMMA ForgottenStep ==
    TypeOK /\ TypeOK' /\ Orderly /\ NoProofForgotten /\ [Next]_vars => NoProofForgotten'
  <1> SUFFICES ASSUME TypeOK, TypeOK', Orderly, NoProofForgotten, [Next]_vars
               PROVE  NoProofForgotten'
    OBVIOUS
  <1> USE CallersAssumption
      DEF TypeOK, Callers, Goto, Return, callVars, chanVars, loopVars,
          Orderly, ProofMeansDone, NoProofForgotten
  <1>1. ASSUME NEW p \in Callers, Cancel(p) PROVE NoProofForgotten'
    BY <1>1 DEF Cancel
  <1>2. ASSUME NEW s \in Senders, Send(s) PROVE NoProofForgotten'
    BY <1>2 DEF Send, Subscribe, SubscribeFails, SendWithoutWait, SendFails, SendTimeout,
                Unsubscribe, Close
  <1>3. ASSUME NEW w \in Waiters, WaitForFirstRound(w) PROVE NoProofForgotten'
    BY <1>3 DEF WaitForFirstRound, CheckCurrent, SubscribeToRounds, ReceiveRound,
                WaitTimeout, WaitCancelled, Unsubscribe, Close
  <1>4. ASSUME NEW A \in SUBSET sent, NewRound(A) PROVE NoProofForgotten'
    BY <1>4 DEF NewRound
  <1>5. ASSUME HandleQuorum PROVE NoProofForgotten'
    BY <1>5 DEF HandleQuorum, FetchFails, Fetched, Published, SkipSender, CallSender,
                Handover, CallWaiter, Buffer
  <1>6. CASE UNCHANGED vars
    BY <1>6 DEF vars
  <1> QED
    BY <1>1, <1>2, <1>3, <1>4, <1>5, <1>6 DEF Next

\* An accepted request whose callback was called is never forgotten.
THEOREM NeverForgotten == Spec => []NoProofForgotten
  <1>1. Init => NoProofForgotten
    BY DEF Init, NoProofForgotten
  <1> QED
    BY <1>1, ForgottenStep, TypeCorrect, OrderlyAlways, PTL DEF Spec

\* A wedged loop stays wedged: its caller is in the stream, so it waits for the lock.
THEOREM WedgedStays == Spec => WedgedForever
  <1>1. TypeOK /\ Orderly /\ [Next]_vars => [Wedged => Wedged']_vars
    <2> SUFFICES ASSUME TypeOK, Orderly, Wedged, Next PROVE Wedged'
      BY DEF Wedged
    <2> USE CallersAssumption
        DEF TypeOK, Callers, PCs, Goto, Return, callVars, chanVars, loopVars, LockFree,
            StreamFree, Orderly, Subscribed, CallsSubscribed, Wedged
    <2>1. ASSUME NEW p \in Callers, Cancel(p) PROVE Wedged'
      BY <2>1 DEF Cancel
    <2>2. ASSUME NEW s \in Senders, Send(s) PROVE Wedged'
      BY <2>2 DEF Send, Subscribe, SubscribeFails, SendWithoutWait, SendFails, SendTimeout,
                  Unsubscribe, Close
    <2>3. ASSUME NEW w \in Waiters, WaitForFirstRound(w) PROVE Wedged'
      BY <2>3 DEF WaitForFirstRound, CheckCurrent, SubscribeToRounds, ReceiveRound,
                  WaitTimeout, WaitCancelled, Unsubscribe, Close
    <2>4. ASSUME NEW A \in SUBSET sent, NewRound(A) PROVE Wedged'
      BY <2>4 DEF NewRound
    <2>5. ASSUME HandleQuorum PROVE Wedged'
      BY <2>5 DEF HandleQuorum, FetchFails, Fetched, Published, SkipSender, CallSender,
                  Handover, CallWaiter, Buffer
    <2> QED
      BY <2>1, <2>2, <2>3, <2>4, <2>5 DEF Next
  <1> QED
    BY <1>1, TypeCorrect, OrderlyAlways, PTL DEF Spec, WedgedForever
=============================================================================
