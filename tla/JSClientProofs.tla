---------------------------- MODULE JSClientProofs ----------------------------
(***************************************************************************)
(* Theorems about JSClient, for any number of method calls, awaits, bridge *)
(* calls and messages.                                                     *)
(*                                                                         *)
(* Each component has an invariant of its own that its actions keep: the   *)
(* bridge and the subscription without conditions, the Thens as long as    *)
(* none is settled twice.  What JSClient adds is that a method settles its *)
(* Then when it ends, and only then.                                       *)
(***************************************************************************)
EXTENDS JSClient, TLAPS

(* The bridge *)

\* The functions of a call are there exactly while it is under way, and a call that was
\* answered has used up its promise.
BridgeInv ==
    /\ BridgeTypeOK
    /\ \A k \in Calls : k \in open <=> call[k] # "free"
    /\ \A k \in Calls : answer[k] \in {"ok", "error"} => promise[k] = "none"

BridgeStep ==
    \/ \E k \in Calls :
         \/ Begin(k) \/ StartPromise(k) \/ (\E ans \in {"ok", "error"} : Settle(k, ans))
         \/ Callback(k) \/ ContextDone(k) \/ Return(k)
    \/ UNCHANGED bridgeVars

\* Every action of the bridge keeps its invariant.
LEMMA BridgeKeeps ==
    ASSUME BridgeInv, BridgeStep
    PROVE  BridgeInv'
  <1>1. ASSUME NEW k \in Calls, Begin(k) PROVE BridgeInv'
    BY <1>1 DEF Begin, Available, BridgeInv, BridgeTypeOK
  <1>2. ASSUME NEW k \in Calls, StartPromise(k) PROVE BridgeInv'
    BY <1>2 DEF StartPromise, BridgeInv, BridgeTypeOK
  <1>3. ASSUME NEW k \in Calls, NEW ans \in {"ok", "error"}, Settle(k, ans) PROVE BridgeInv'
    BY <1>3 DEF Settle, BridgeInv, BridgeTypeOK
  <1>4. ASSUME NEW k \in Calls, Callback(k) PROVE BridgeInv'
    BY <1>4 DEF Callback, BridgeInv, BridgeTypeOK
  <1>5. ASSUME NEW k \in Calls, ContextDone(k) PROVE BridgeInv'
    BY <1>5 DEF ContextDone, BridgeInv, BridgeTypeOK
  <1>6. ASSUME NEW k \in Calls, Return(k) PROVE BridgeInv'
    BY <1>6 DEF Return, Release, BridgeInv, BridgeTypeOK
  <1>7. CASE UNCHANGED bridgeVars
    BY <1>7 DEF bridgeVars, BridgeInv, BridgeTypeOK
  <1> QED
    BY <1>1, <1>2, <1>3, <1>4, <1>5, <1>6, <1>7 DEF BridgeStep

\* A promise that settles late finds its functions released.
LEMMA CallbackInTime ==
    ASSUME BridgeInv, NEW k \in Calls, Callback(k)
    PROVE  UNCHANGED crashed
  BY DEF Callback, BridgeInv
-----------------------------------------------------------------------------
(* The subscription *)

PubSubInv ==
    /\ PubSubTypeOK
    /\ \/ arriving = {} /\ received \o queue = [i \in 1 .. sent |-> i]
       \/ sent > 0 /\ arriving = {sent} /\ received \o queue = [i \in 1 .. sent - 1 |-> i]

\* JavaScript calls the function only when no message is on its way.
PubSubStep ==
    \/ Register
    \/ arriving = {} /\ Message
    \/ \E m \in arriving : QueueJS(m)
    \/ Receive
    \/ UNCHANGED pubsubVars

\* Next takes the first message of the queue.
LEMMA TakeFirst ==
    ASSUME NEW S, NEW r \in Seq(S), NEW q \in Seq(S), q # <<>>
    PROVE  /\ Append(r, Head(q)) \o Tail(q) = r \o q
           /\ Append(r, Head(q)) \in Seq(S) /\ Tail(q) \in Seq(S)
  OBVIOUS

\* A message joins the end of the queue.
LEMMA JoinLast ==
    ASSUME NEW S, NEW r \in Seq(S), NEW q \in Seq(S), NEW n \in S
    PROVE  r \o q \in Seq(S) /\ r \o Append(q, n) = Append(r \o q, n)
  OBVIOUS

\* The messages so far are in order, and the next one is added.
LEMMA AddLast ==
    ASSUME NEW n \in Nat, n > 0, NEW S, NEW s \in Seq(S), n \in S, s = [i \in 1 .. n - 1 |-> i]
    PROVE  Append(s, n) = [i \in 1 .. n |-> i]
  <1>1. DOMAIN s = 1 .. Len(s) /\ DOMAIN s = 1 .. n - 1 /\ Len(s) \in Nat
    OBVIOUS
  <1>2. Len(s) = n - 1
    BY <1>1
  <1>3. \A i \in 1 .. n - 1 : s[i] = i
    OBVIOUS
  <1>4. PICK u : u = Append(s, n)
    OBVIOUS
  <1>5. /\ u \in Seq(S) /\ DOMAIN u = 1 .. n /\ u[n] = n
        /\ \A i \in 1 .. n - 1 : u[i] = s[i]
    BY <1>2, <1>4
  <1>6. \A i \in 1 .. n : u[i] = i
    BY <1>3, <1>5
  <1>7. u = [i \in 1 .. n |-> i]
    BY <1>5, <1>6
  <1> QED
    BY <1>4, <1>7

\* A sequence stays one over a larger set.
LEMMA SeqMonotone ==
    ASSUME NEW A, NEW B, A \subseteq B, NEW s \in Seq(A)
    PROVE  s \in Seq(B)
  <1>1. s \in [1 .. Len(s) -> B] /\ Len(s) \in Nat
    OBVIOUS
  <1> QED
    BY <1>1

\* Every action of the subscription keeps its invariant.
LEMMA PubSubKeeps ==
    ASSUME PubSubInv, PubSubStep
    PROVE  PubSubInv'
  <1>0. sent \in Nat /\ MaxMessages \in Nat
    BY MessagesAssumption DEF PubSubInv, PubSubTypeOK
  <1>1. CASE Register
    <2>1. subscribed' \in BOOLEAN
      BY <1>1, Zenon DEF Register
    <2> QED
      BY <1>1, <2>1 DEF Register, PubSubInv, PubSubTypeOK
  <1>2. CASE arriving = {} /\ Message
    <2>1. sent' = sent + 1 /\ sent < MaxMessages /\ arriving' = {sent + 1}
      BY <1>2 DEF Message
    <2>2. 1 .. sent \subseteq 1 .. sent'
      BY <1>0, <2>1
    <2>3. queue \in Seq(1 .. sent') /\ received \in Seq(1 .. sent')
      <3>1. queue \in Seq(1 .. sent) /\ received \in Seq(1 .. sent)
        BY DEF PubSubInv, PubSubTypeOK
      <3> QED
        BY <2>2, <3>1, SeqMonotone
    <2>4. PubSubTypeOK'
      BY <1>0, <1>2, <2>1, <2>3 DEF Message, PubSubInv, PubSubTypeOK
    <2>5. received \o queue = [i \in 1 .. sent |-> i] /\ sent' - 1 = sent /\ sent' > 0
      BY <1>0, <1>2, <2>1 DEF PubSubInv
    <2> QED
      BY <1>2, <2>1, <2>4, <2>5 DEF Message, PubSubInv
  <1>3. ASSUME NEW m \in arriving, QueueJS(m) PROVE PubSubInv'
    <2>1. /\ sent > 0 /\ arriving = {sent} /\ m = sent
          /\ received \o queue = [i \in 1 .. sent - 1 |-> i]
      BY <1>3 DEF PubSubInv
    <2>2. /\ arriving' = {} /\ queue' = Append(queue, sent)
          /\ UNCHANGED <<subscribed, sent, received>>
      BY <1>3, <2>1 DEF QueueJS
    <2>3. received \in Seq(1 .. sent) /\ queue \in Seq(1 .. sent) /\ sent \in 1 .. sent
      BY <1>0, <2>1 DEF PubSubInv, PubSubTypeOK
    <2>4. /\ received \o Append(queue, sent) = [i \in 1 .. sent |-> i]
          /\ Append(queue, sent) \in Seq(1 .. sent)
      <3>1. /\ received \o queue \in Seq(1 .. sent)
            /\ received \o Append(queue, sent) = Append(received \o queue, sent)
        BY <2>3, JoinLast
      <3>2. Append(received \o queue, sent) = [i \in 1 .. sent |-> i]
        BY <1>0, <2>1, <2>3, <3>1, AddLast
      <3> QED
        BY <2>3, <3>1, <3>2
    <2> QED
      BY <2>2, <2>4 DEF PubSubInv, PubSubTypeOK
  <1>4. CASE Receive
    <2>1. /\ received' = Append(received, Head(queue)) /\ queue' = Tail(queue) /\ queue # <<>>
          /\ UNCHANGED <<subscribed, sent, arriving>>
      BY <1>4 DEF Receive
    <2>2. received \in Seq(1 .. sent) /\ queue \in Seq(1 .. sent)
      BY DEF PubSubInv, PubSubTypeOK
    <2>3. /\ received' \o queue' = received \o queue
          /\ received' \in Seq(1 .. sent) /\ queue' \in Seq(1 .. sent)
      <3>1. /\ Append(received, Head(queue)) \o Tail(queue) = received \o queue
            /\ Append(received, Head(queue)) \in Seq(1 .. sent) /\ Tail(queue) \in Seq(1 .. sent)
        BY <2>1, <2>2, TakeFirst
      <3> QED
        BY <2>1, <3>1
    <2> QED
      BY <2>1, <2>3 DEF PubSubInv, PubSubTypeOK
  <1>5. CASE UNCHANGED pubsubVars
    BY <1>5 DEF pubsubVars, PubSubInv, PubSubTypeOK
  <1> QED
    BY <1>1, <1>2, <1>3, <1>4, <1>5 DEF PubSubStep
-----------------------------------------------------------------------------
(* The Thens *)

Settled(t) == result[t] # "none" \/ t \in err

\* The Then of an await has come out that way.
Said(a, f) == IF f = "resolve" THEN result[ThenOf[a]] # "none" ELSE ThenOf[a] \in err

\* The functions a Then keeps are of its own awaits.
OwnCbs == \A t \in Thens : \A a \in resolveCbs[t] \cup errorCbs[t] : ThenOf[a] = t

\* A Then comes out one way.
OneWay == \A t \in err : result[t] = "none"

\* What an await is told, or is about to be told, is how its Then came out.
ToldTrue ==
    \A a \in Awaits :
        told[a] = <<>> \/ (a \in asked /\ \E f \in {"resolve", "reject"} :
                                            told[a] = <<f>> /\ Said(a, f))
TellingTrue ==
    \A a \in Awaits, f \in {"resolve", "reject"} :
        <<a, f>> \in telling => a \in asked /\ told[a] = <<>> /\ Said(a, f)

ThenInv == ThenTypeOK /\ OwnCbs /\ OneWay /\ ToldTrue /\ TellingTrue

\* A call of then, before or after its Then is settled.
LEMMA ThenKeeps ==
    ASSUME ThenInv, NEW a \in Awaits, Then(a)
    PROVE  ThenInv'
  <1> DEFINE t == ThenOf[a]
  <1>0. t \in Thens /\ Rejecting \subseteq Awaits
    BY ThenAssumption
  <1>1. /\ a \notin asked /\ asked' = asked \cup {a} /\ UNCHANGED <<result, err, told>>
        /\ asked \subseteq Awaits
    BY DEF Then, ThenInv, ThenTypeOK
  <1>2. told[a] = <<>> /\ \A f \in {"resolve", "reject"} : <<a, f>> \notin telling
    BY <1>1 DEF ThenInv, ToldTrue, TellingTrue
  <1>3. \/ /\ result[t] # "none" /\ telling' = telling \cup {<<a, "resolve">>}
           /\ UNCHANGED <<resolveCbs, errorCbs>>
        \/ /\ t \in err /\ telling' \in {telling, telling \cup {<<a, "reject">>}}
           /\ UNCHANGED <<resolveCbs, errorCbs>>
        \/ /\ resolveCbs' = [resolveCbs EXCEPT ![t] = @ \cup {a}]
           /\ errorCbs' = [errorCbs EXCEPT ![t] = @ \cup ({a} \cap Rejecting)]
           /\ UNCHANGED telling
    BY DEF Then, handleJSThenCall
  <1>4. /\ resolveCbs \in [Thens -> SUBSET asked] /\ errorCbs \in [Thens -> SUBSET asked]
        /\ telling \subseteq Awaits \X {"resolve", "reject"}
    BY DEF ThenInv, ThenTypeOK
  <1> HIDE DEF t
  <1>5. /\ resolveCbs' \in [Thens -> SUBSET asked'] /\ errorCbs' \in [Thens -> SUBSET asked']
        /\ \A u \in Thens :
             /\ resolveCbs'[u] \subseteq resolveCbs[u] \cup (IF u = t THEN {a} ELSE {})
             /\ errorCbs'[u] \subseteq errorCbs[u] \cup (IF u = t THEN {a} ELSE {})
    <2>1. CASE UNCHANGED <<resolveCbs, errorCbs>>
      BY <1>1, <1>4, <2>1
    <2>2. CASE /\ resolveCbs' = [resolveCbs EXCEPT ![t] = @ \cup {a}]
               /\ errorCbs' = [errorCbs EXCEPT ![t] = @ \cup ({a} \cap Rejecting)]
      BY <1>0, <1>1, <1>4, <2>2
    <2> QED
      BY <1>3, <2>1, <2>2
  <1>6. ThenTypeOK'
    <2>1. telling' \subseteq Awaits \X {"resolve", "reject"}
      BY <1>3, <1>4
    <2> QED
      BY <1>1, <1>5, <2>1 DEF ThenInv, ThenTypeOK
  <1>7. OwnCbs'
    BY <1>5 DEF t, ThenInv, OwnCbs
  <1>8. OneWay' /\ ToldTrue'
    BY <1>1 DEF ThenInv, OneWay, ToldTrue, Said
  <1>9. TellingTrue'
    <2> SUFFICES ASSUME NEW b \in Awaits, NEW f \in {"resolve", "reject"}, <<b, f>> \in telling'
                 PROVE  b \in asked' /\ told'[b] = <<>> /\ Said(b, f)'
      BY DEF TellingTrue
    <2>1. CASE <<b, f>> \in telling
      BY <1>1, <2>1 DEF ThenInv, TellingTrue, Said
    <2>2. CASE <<b, f>> \notin telling
      <3>1. b = a /\ (f = "resolve" => result[t] # "none") /\ (f = "reject" => t \in err)
        BY <1>3, <2>2
      <3> QED
        BY <1>1, <1>2, <3>1 DEF t, Said
    <2> QED
      BY <2>1, <2>2
  <1> QED
    BY <1>6, <1>7, <1>8, <1>9 DEF ThenInv

\* Before its Then is settled an await has been told nothing.
LEMMA NotYetTold ==
    ASSUME ThenInv, NEW a \in Awaits, ~Settled(ThenOf[a])
    PROVE  told[a] = <<>> /\ \A f \in {"resolve", "reject"} : <<a, f>> \notin telling
  BY DEF ThenInv, ToldTrue, TellingTrue, Said, Settled

\* Resolve tells the awaits that have asked.
LEMMA ResolveKeeps ==
    ASSUME ThenInv, NEW t \in Thens, NEW res \in {"nil", "value"}, ~Settled(t), Resolve(t, res)
    PROVE  ThenInv'
  <1>1. /\ result' = [result EXCEPT ![t] = res]
        /\ telling' = telling \cup (resolveCbs[t] \X {"resolve"})
        /\ resolveCbs' = [resolveCbs EXCEPT ![t] = {}]
        /\ UNCHANGED <<err, errorCbs, asked, told>>
    BY DEF Resolve
  <1>2. /\ resolveCbs \in [Thens -> SUBSET asked] /\ asked \subseteq Awaits
        /\ result \in [Thens -> {"none", "nil", "value"}] /\ err \subseteq Thens
        /\ telling \subseteq Awaits \X {"resolve", "reject"}
    BY DEF ThenInv, ThenTypeOK
  <1>3. ThenTypeOK'
    BY <1>1, <1>2 DEF ThenInv, ThenTypeOK
  <1>4. OwnCbs'
    BY <1>1, <1>2 DEF ThenInv, OwnCbs
  <1>5. OneWay'
    BY <1>1, <1>2 DEF ThenInv, OneWay, Settled
  <1>6. \A u \in Thens : result[u] # "none" => result'[u] # "none"
    BY <1>1, <1>2
  <1>7. \A a \in Awaits : \A f : Said(a, f) => Said(a, f)'
    BY <1>1, <1>6, ThenAssumption DEF Said
  <1>8. ToldTrue'
    BY <1>1, <1>7 DEF ThenInv, ToldTrue
  <1>9. TellingTrue'
    <2> SUFFICES ASSUME NEW b \in Awaits, NEW f \in {"resolve", "reject"}, <<b, f>> \in telling'
                 PROVE  b \in asked' /\ told'[b] = <<>> /\ Said(b, f)'
      BY DEF TellingTrue
    <2>1. CASE <<b, f>> \in telling
      BY <1>1, <1>7, <2>1 DEF ThenInv, TellingTrue
    <2>2. CASE <<b, f>> \notin telling
      <3>1. b \in resolveCbs[t] /\ f = "resolve"
        BY <1>1, <2>2
      <3>2. ThenOf[b] = t /\ b \in asked
        BY <1>2, <3>1 DEF ThenInv, OwnCbs
      <3>3. result'[t] # "none"
        BY <1>1, <1>2
      <3> QED
        BY <1>1, <3>1, <3>2, <3>3, NotYetTold DEF Said
    <2> QED
      BY <2>1, <2>2
  <1> QED
    BY <1>3, <1>4, <1>5, <1>8, <1>9 DEF ThenInv

\* Reject tells the awaits that have asked and passed a second function.
LEMMA RejectKeeps ==
    ASSUME ThenInv, NEW t \in Thens, ~Settled(t), Reject(t)
    PROVE  ThenInv'
  <1>1. /\ err' = err \cup {t}
        /\ telling' = telling \cup (errorCbs[t] \X {"reject"})
        /\ errorCbs' = [errorCbs EXCEPT ![t] = {}]
        /\ UNCHANGED <<result, resolveCbs, asked, told>>
    BY DEF Reject
  <1>2. /\ errorCbs \in [Thens -> SUBSET asked] /\ asked \subseteq Awaits /\ err \subseteq Thens
        /\ telling \subseteq Awaits \X {"resolve", "reject"}
    BY DEF ThenInv, ThenTypeOK
  <1>3. ThenTypeOK'
    BY <1>1, <1>2 DEF ThenInv, ThenTypeOK
  <1>4. OwnCbs'
    BY <1>1, <1>2 DEF ThenInv, OwnCbs
  <1>5. OneWay'
    BY <1>1, <1>2 DEF ThenInv, OneWay, Settled
  <1>6. \A a \in Awaits : \A f : Said(a, f) => Said(a, f)'
    BY <1>1 DEF Said
  <1>7. ToldTrue'
    BY <1>1, <1>6 DEF ThenInv, ToldTrue
  <1>8. TellingTrue'
    <2> SUFFICES ASSUME NEW b \in Awaits, NEW f \in {"resolve", "reject"}, <<b, f>> \in telling'
                 PROVE  b \in asked' /\ told'[b] = <<>> /\ Said(b, f)'
      BY DEF TellingTrue
    <2>1. CASE <<b, f>> \in telling
      BY <1>1, <1>6, <2>1 DEF ThenInv, TellingTrue
    <2>2. CASE <<b, f>> \notin telling
      <3>1. b \in errorCbs[t] /\ f = "reject"
        BY <1>1, <2>2
      <3>2. ThenOf[b] = t /\ b \in asked
        BY <1>2, <3>1 DEF ThenInv, OwnCbs
      <3> QED
        BY <1>1, <3>1, <3>2, NotYetTold DEF Said
    <2> QED
      BY <2>1, <2>2
  <1> QED
    BY <1>3, <1>4, <1>5, <1>7, <1>8 DEF ThenInv

\* A goroutine tells an await.
LEMMA TellKeeps ==
    ASSUME ThenInv, NEW a \in Awaits, NEW f \in {"resolve", "reject"}, Tell(a, f)
    PROVE  ThenInv'
  <1>1. /\ <<a, f>> \in telling /\ telling' = telling \ {<<a, f>>}
        /\ told' = [told EXCEPT ![a] = Append(told[a], f)]
        /\ UNCHANGED <<result, err, resolveCbs, errorCbs, asked>>
    BY DEF Tell
  <1>2. told \in [Awaits -> Seq({"resolve", "reject"})]
    BY DEF ThenInv, ThenTypeOK
  <1>3. a \in asked /\ told[a] = <<>> /\ Said(a, f)
    BY <1>1 DEF ThenInv, TellingTrue
  <1>4. told' = [told EXCEPT ![a] = <<f>>] /\ <<f>> \in Seq({"resolve", "reject"})
    <2>1. Append(<<>>, f) = <<f>>
      OBVIOUS
    <2> QED
      BY <1>1, <1>3, <2>1
  <1>5. ThenTypeOK'
    BY <1>1, <1>2, <1>4 DEF ThenInv, ThenTypeOK
  <1>6. OwnCbs' /\ OneWay'
    BY <1>1 DEF ThenInv, OwnCbs, OneWay
  <1>7. \A b \in Awaits : \A g : Said(b, g) => Said(b, g)'
    BY <1>1 DEF Said
  <1>8. ToldTrue'
    <2> SUFFICES ASSUME NEW b \in Awaits
                 PROVE  \/ told'[b] = <<>>
                        \/ b \in asked' /\ \E g \in {"resolve", "reject"} :
                                             told'[b] = <<g>> /\ Said(b, g)'
      BY DEF ToldTrue
    <2>1. CASE b = a
      BY <1>1, <1>2, <1>3, <1>4, <1>7, <2>1
    <2>2. CASE b # a
      <3>1. told'[b] = told[b]
        BY <1>2, <1>4, <2>2
      <3> QED
        BY <1>1, <1>7, <3>1 DEF ThenInv, ToldTrue
    <2> QED
      BY <2>1, <2>2
  <1>9. TellingTrue'
    <2> SUFFICES ASSUME NEW b \in Awaits, NEW g \in {"resolve", "reject"}, <<b, g>> \in telling'
                 PROVE  b \in asked' /\ told'[b] = <<>> /\ Said(b, g)'
      BY DEF TellingTrue
    <2>1. <<b, g>> \in telling /\ <<b, g>> # <<a, f>>
      BY <1>1
    <2>2. b \in asked /\ told[b] = <<>> /\ Said(b, g)
      BY <2>1 DEF ThenInv, TellingTrue
    <2>3. b # a
      BY <1>3, <2>1, <2>2, ThenAssumption DEF ThenInv, OneWay, Said
    <2> QED
      BY <1>1, <1>2, <1>4, <1>7, <2>2, <2>3
  <1> QED
    BY <1>5, <1>6, <1>8, <1>9 DEF ThenInv

\* No await is told twice, and all awaits of a Then are told the same.
LEMMA ThenInvToldOnce == ThenInv => ToldOnce
  <1> SUFFICES ASSUME ThenInv PROVE ToldOnce
    OBVIOUS
  <1>1. ASSUME NEW a \in Awaits
        PROVE  Len(told[a]) + (IF \E f \in {"resolve", "reject"} : <<a, f>> \in telling
                                 THEN 1 ELSE 0) <= 1
    <2>1. CASE told[a] = <<>>
      BY <2>1
    <2>2. CASE told[a] # <<>>
      <3>1. \A f \in {"resolve", "reject"} : <<a, f>> \notin telling
        BY <2>2 DEF ThenInv, TellingTrue
      <3>2. PICK f \in {"resolve", "reject"} : told[a] = <<f>>
        BY <2>2 DEF ThenInv, ToldTrue
      <3>3. Len(told[a]) = 1
        BY <3>2
      <3> QED
        BY <3>1, <3>3
    <2> QED
      BY <2>1, <2>2
  <1>2. ASSUME NEW a \in Awaits, NEW b \in Awaits, ThenOf[a] = ThenOf[b], told[a] # <<>>,
               told[b] # <<>>
        PROVE  told[a] = told[b]
    <2>1. PICK f \in {"resolve", "reject"} : told[a] = <<f>> /\ Said(a, f)
      BY <1>2 DEF ThenInv, ToldTrue
    <2>2. PICK g \in {"resolve", "reject"} : told[b] = <<g>> /\ Said(b, g)
      BY <1>2 DEF ThenInv, ToldTrue
    <2>3. f = g
      BY <1>2, <2>1, <2>2 DEF ThenInv, OneWay, Said
    <2> QED
      BY <2>1, <2>2, <2>3
  <1> QED
    BY <1>1, <1>2 DEF ToldOnce
-----------------------------------------------------------------------------
(* The methods *)

\* Where a method's goroutine can be, with what it still has to do.
MethodInv ==
    /\ pc \in [Thens -> {"none", "nil", "run", "call", "wait", "woken", "leave", "done"}]
    /\ left \in [Thens -> Nat] /\ \A t \in Thens : left[t] <= BridgeCalls[t]
    /\ \A t \in Thens : pc[t] = "call" <=> call[t] # "free"
    /\ \A t \in Thens : pc[t] = "call" => left[t] > 0
    /\ \A t \in Thens : pc[t] \in {"wait", "woken"} =>
                          t \in WaitForRound \/ (t \in Plays /\ left[t] = 1)

\* A method that has ended stays where it is.
DoneStays == \A t \in Thens : pc[t] = "done" => pc'[t] = "done"

\* What a call of the bridge goes through while it is under way.
Under(k) ==
    \/ StartPromise(k) \/ Callback(k) \/ ContextDone(k)
    \/ \E ans \in {"ok", "error"} : Settle(k, ans)

\* The calls are under way from Begin to Return.
LEMMA CallEffect ==
    ASSUME BridgeInv, NEW k \in Calls
    PROVE  /\ Under(k) \/ UNCHANGED bridgeVars =>
                \A j \in Calls : call'[j] = "free" <=> call[j] = "free"
           /\ Begin(k) => /\ call[k] = "free" /\ call'[k] # "free"
                          /\ \A j \in Calls \ {k} : call'[j] = call[j]
           /\ Return(k) => /\ call[k] # "free" /\ call'[k] = "free"
                           /\ \A j \in Calls \ {k} : call'[j] = call[j]
  <1>1. call \in [Calls -> {"free", "select", "leave"}]
    BY DEF BridgeInv, BridgeTypeOK
  <1>2. ASSUME Under(k) PROVE \A j \in Calls : call'[j] = "free" <=> call[j] = "free"
    BY <1>1, <1>2 DEF Under, StartPromise, Callback, ContextDone, Settle
  <1>3. ASSUME UNCHANGED bridgeVars PROVE \A j \in Calls : call'[j] = "free" <=> call[j] = "free"
    BY <1>3 DEF bridgeVars
  <1>4. ASSUME Begin(k) PROVE /\ call[k] = "free" /\ call'[k] # "free"
                              /\ \A j \in Calls \ {k} : call'[j] = call[j]
    BY <1>1, <1>4 DEF Begin, Available
  <1>5. ASSUME Return(k) PROVE /\ call[k] # "free" /\ call'[k] = "free"
                               /\ \A j \in Calls \ {k} : call'[j] = call[j]
    BY <1>1, <1>5 DEF Return
  <1> QED
    BY <1>2, <1>3, <1>4, <1>5

\* A method moves on without the bridge.
LEMMA MoveKeeps ==
    ASSUME MethodInv, NEW t \in Thens, NEW v \in {"nil", "run", "wait", "leave", "done"},
           pc[t] \notin {"call", "done"}, pc' = [pc EXCEPT ![t] = v], UNCHANGED left,
           v = "wait" => t \in WaitForRound \/ (t \in Plays /\ left[t] = 1),
           \A u \in Thens : call'[u] = "free" <=> call[u] = "free"
    PROVE  MethodInv' /\ DoneStays
  BY DEF MethodInv, DoneStays

\* A method calls the bridge.
LEMMA CallKeeps ==
    ASSUME BridgeInv, MethodInv, NEW t \in Thens, Begin(t), pc[t] # "done", left[t] > 0,
           pc' = [pc EXCEPT ![t] = "call"], UNCHANGED left
    PROVE  MethodInv' /\ DoneStays
  <1>1. t \in Calls /\ Thens \subseteq Calls
    BY MethodsAssumption
  <1>2. call'[t] # "free" /\ \A u \in Thens \ {t} : call'[u] = call[u]
    BY <1>1, CallEffect
  <1> QED
    BY <1>2 DEF MethodInv, DoneStays

\* A method's call of the bridge returns.
LEMMA ReturnKeeps ==
    ASSUME BridgeInv, MethodInv, NEW t \in Thens, Return(t), pc[t] = "call",
           NEW v \in {"run", "leave", "done"}, pc' = [pc EXCEPT ![t] = v],
           left' \in {left, [left EXCEPT ![t] = left[t] - 1]}
    PROVE  MethodInv' /\ DoneStays
  <1>1. t \in Calls /\ Thens \subseteq Calls
    BY MethodsAssumption
  <1>2. call'[t] = "free" /\ \A u \in Thens \ {t} : call'[u] = call[u]
    BY <1>1, CallEffect
  <1>3. /\ left \in [Thens -> Nat] /\ left[t] > 0 /\ BridgeCalls \in [Thens -> Nat]
        /\ \A u \in Thens : left[u] <= BridgeCalls[u]
    BY MethodsAssumption DEF MethodInv
  <1>4. /\ left' \in [Thens -> Nat] /\ \A u \in Thens : left'[u] <= BridgeCalls[u]
        /\ \A u \in Thens \ {t} : left'[u] = left[u]
    BY <1>3
  <1> QED
    BY <1>2, <1>4 DEF MethodInv, DoneStays

\* The methods are where they were.
LEMMA StayKeeps ==
    ASSUME MethodInv, UNCHANGED <<pc, left>>,
           \A u \in Thens : call'[u] = "free" <=> call[u] = "free"
    PROVE  MethodInv' /\ DoneStays
  BY DEF MethodInv, DoneStays

\* A round wakes a method that waits for it.
LEMMA WakeKeeps ==
    ASSUME MethodInv, NEW t \in Thens, pc[t] = "wait", pc' = [pc EXCEPT ![t] = "woken"],
           UNCHANGED left, \A u \in Thens : call'[u] = "free" <=> call[u] = "free"
    PROVE  MethodInv' /\ DoneStays
  BY DEF MethodInv, DoneStays
-----------------------------------------------------------------------------
(* The client *)

\* A method settles its Then when it ends, and not before.
SettledDone == \A t \in Thens : Settled(t) => pc[t] = "done"

\* The receive loop is about to fetch only when it has a fetch to make and a slot for it.
ReaderInv ==
    /\ reader \in {"off", "next", "handle", "get", "fetch", "publish", "send"}
    /\ gets \in 0 .. FetchGets
    /\ reader = "get" => gets > 0 /\ \E k \in FetchCalls : Available(k)

ClientInv ==
    /\ buffered \subseteq WaitForRound
    /\ todo \subseteq Plays \cup WaitForRound
    /\ target \in Plays \cup WaitForRound \cup {NoOne}
    /\ clientSingleton \in BOOLEAN /\ current \in BOOLEAN
    /\ crashed \in {"no", "deadline", "nil", "panic"}

IInv ==
    /\ BridgeInv /\ PubSubInv /\ ThenInv /\ MethodInv
    /\ SettledDone /\ ReaderInv /\ ClientInv

\* What a step of the bridge leaves alone: the methods' calls, and the free slots.
SameCalls == \A t \in Thens : call'[t] = "free" <=> call[t] = "free"
KeepsSlots == \A k \in FetchCalls : Available(k) => Available(k)'

\* A call that is under way takes no free slot, and no method begins or ends a call.
LEMMA BridgeRuns ==
    ASSUME BridgeInv, (\E k \in Calls : Under(k)) \/ UNCHANGED bridgeVars
    PROVE  BridgeInv' /\ SameCalls /\ KeepsSlots
  <1>0. Thens \subseteq Calls /\ FetchCalls \subseteq Calls
    BY MethodsAssumption
  <1>1. CASE UNCHANGED bridgeVars
    <2>1. BridgeInv'
      BY <1>1, BridgeKeeps DEF BridgeStep
    <2> QED
      BY <1>1, <2>1 DEF SameCalls, KeepsSlots, Available, bridgeVars
  <1>2. ASSUME NEW k \in Calls, Under(k) PROVE BridgeInv' /\ SameCalls /\ KeepsSlots
    <2>1. BridgeInv'
      BY <1>2, BridgeKeeps DEF BridgeStep, Under
    <2>2. SameCalls
      BY <1>0, <1>2, CallEffect DEF SameCalls
    <2>3. KeepsSlots
      <3>1. /\ call \in [Calls -> {"free", "select", "leave"}]
            /\ promise \in [Calls -> {"none", "starting", "pending", "ok", "error", "blocked"}]
        BY DEF BridgeInv, BridgeTypeOK
      <3>2. ~Available(k) /\ \A j \in Calls \ {k} : call'[j] = call[j] /\ promise'[j] = promise[j]
        BY <1>2, <3>1 DEF Under, StartPromise, Callback, ContextDone, Settle, Available
      <3> QED
        BY <1>0, <3>2 DEF KeepsSlots, Available
    <2> QED
      BY <2>1, <2>2, <2>3
  <1> QED
    BY <1>1, <1>2

\* A method's call takes no slot of the receive loop.
LEMMA BridgeBegins ==
    ASSUME BridgeInv, NEW t \in Thens, Begin(t)
    PROVE  BridgeInv' /\ KeepsSlots
  <1>0. t \in Calls /\ FetchCalls \subseteq Calls \ {t}
    BY MethodsAssumption
  <1>1. BridgeInv'
    BY <1>0, BridgeKeeps DEF BridgeStep
  <1>2. KeepsSlots
    BY <1>0 DEF Begin, KeepsSlots, Available, BridgeInv, BridgeTypeOK
  <1> QED
    BY <1>1, <1>2

\* A call that returns keeps the free slots and, with an answer, frees its own.
LEMMA BridgeReturned ==
    ASSUME BridgeInv, NEW k \in Calls, Return(k)
    PROVE  /\ BridgeInv' /\ KeepsSlots
           /\ k \in FetchCalls => SameCalls
           /\ answer[k] \in {"ok", "error"} => Available(k)'
           /\ crashed' \in {crashed, "deadline"}
  <1>0. FetchCalls \subseteq Calls /\ Thens \subseteq Calls /\ Thens \cap FetchCalls = {}
    BY MethodsAssumption
  <1>1. BridgeInv'
    BY BridgeKeeps DEF BridgeStep
  <1>2. KeepsSlots
    BY <1>0 DEF Return, KeepsSlots, Available, BridgeInv, BridgeTypeOK
  <1>3. k \in FetchCalls => SameCalls
    BY <1>0, CallEffect DEF SameCalls
  <1>4. answer[k] \in {"ok", "error"} => Available(k)'
    BY DEF Return, Available, BridgeInv, BridgeTypeOK
  <1>5. crashed' \in {crashed, "deadline"}
    BY DEF Return
  <1> QED
    BY <1>1, <1>2, <1>3, <1>4, <1>5

\* A method settles its Then as it ends.
LEMMA SettlesOnce ==
    ASSUME ThenInv, SettledDone, NEW t \in Thens, pc[t] # "done", pc'[t] = "done", DoneStays,
           Reject(t) \/ Resolve(t, Value(t))
    PROVE  ThenInv' /\ SettledDone'
  <1>1. ~Settled(t)
    BY DEF SettledDone
  <1>2. Value(t) \in {"nil", "value"}
    BY DEF Value
  <1>3. ThenInv'
    BY <1>1, <1>2, RejectKeeps, ResolveKeeps
  <1>4. \A u \in Thens \ {t} : Settled(u)' => Settled(u)
    BY DEF Reject, Resolve, Settled, ThenInv, ThenTypeOK
  <1> QED
    BY <1>3, <1>4 DEF SettledDone, DoneStays

\* The Thens are where they were.
LEMMA ThensRest ==
    ASSUME ThenInv, SettledDone, DoneStays, UNCHANGED thenVars
    PROVE  ThenInv' /\ SettledDone'
  <1>1. ThenInv'
    BY DEF thenVars, ThenInv, ThenTypeOK, OwnCbs, OneWay, ToldTrue, TellingTrue, Said
  <1>2. SettledDone'
    BY DEF thenVars, SettledDone, Settled, DoneStays
  <1> QED
    BY <1>1, <1>2

\* The receive loop is where it was.
LEMMA ReaderRests ==
    ASSUME ReaderInv, KeepsSlots, UNCHANGED <<reader, gets>>
    PROVE  ReaderInv'
  BY DEF ReaderInv, KeepsSlots

\* A step of a method that neither calls the bridge nor ends it.
LEMMA MovesOn ==
    ASSUME IInv, NEW t \in Thens, NEW v \in {"nil", "run", "wait", "leave"},
           pc[t] \notin {"call", "done"}, pc' = [pc EXCEPT ![t] = v],
           v = "wait" => t \in WaitForRound \/ (t \in Plays /\ left[t] = 1),
           UNCHANGED <<bridgeVars, crashed, thenVars, pubsubVars, callVars, readerVars>>
    PROVE  IInv'
  <1>1. BridgeInv' /\ SameCalls /\ KeepsSlots
    BY BridgeRuns DEF IInv
  <1>2. MethodInv' /\ DoneStays
    BY <1>1, MoveKeeps DEF IInv, SameCalls, callVars
  <1>3. ThenInv' /\ SettledDone'
    BY <1>2, ThensRest DEF IInv
  <1>4. PubSubInv'
    BY PubSubKeeps DEF IInv, PubSubStep
  <1>5. ReaderInv'
    BY <1>1, ReaderRests DEF IInv, readerVars
  <1>6. ClientInv'
    BY DEF IInv, ClientInv, callVars, readerVars
  <1> QED
    BY <1>1, <1>2, <1>3, <1>4, <1>5, <1>6 DEF IInv

\* A method that is not in a call of the bridge ends, and may start the receive loop.
LEMMA Ends ==
    ASSUME IInv, NEW t \in Thens, pc[t] \notin {"call", "done"}, pc' = [pc EXCEPT ![t] = "done"],
           Reject(t) \/ Resolve(t, Value(t)), reader' \in {reader, "next"},
           clientSingleton' \in BOOLEAN,
           UNCHANGED <<bridgeVars, crashed, pubsubVars, left, buffered, gets, current, todo,
                       target>>
    PROVE  IInv'
  <1>1. BridgeInv' /\ SameCalls /\ KeepsSlots
    BY BridgeRuns DEF IInv
  <1>2. MethodInv' /\ DoneStays
    BY <1>1, MoveKeeps DEF IInv, SameCalls
  <1>3. pc'[t] = "done"
    BY DEF IInv, MethodInv
  <1>4. ThenInv' /\ SettledDone'
    BY <1>2, <1>3, SettlesOnce DEF IInv
  <1>5. PubSubInv'
    BY PubSubKeeps DEF IInv, PubSubStep
  <1>6. ReaderInv'
    <2>1. CASE reader' = reader
      BY <1>1, <2>1, ReaderRests DEF IInv
    <2>2. CASE reader' = "next"
      BY <2>2 DEF IInv, ReaderInv
    <2> QED
      BY <2>1, <2>2
  <1>7. ClientInv'
    BY DEF IInv, ClientInv
  <1> QED
    BY <1>1, <1>2, <1>4, <1>5, <1>6, <1>7 DEF IInv

\* A step of another goroutine leaves the methods alone.
LEMMA MethodsRest ==
    ASSUME IInv, UNCHANGED methodVars, SameCalls
    PROVE  MethodInv' /\ DoneStays
  BY StayKeeps DEF IInv, methodVars, callVars, SameCalls

\* A step of JavaScript keeps the invariant.
LEMMA JavaScriptKeeps ==
    ASSUME IInv, JavaScript
    PROVE  IInv'
  <1>1. ASSUME NEW t \in Thens, CallMethod(t) PROVE IInv'
    BY <1>1, MovesOn DEF CallMethod
  <1>2. ASSUME NEW t \in Thens, CallOnNil(t) PROVE IInv'
    BY <1>2, MovesOn DEF CallOnNil
  <1>3. ASSUME NEW t \in Thens, CallRefused(t) PROVE IInv'
    BY <1>3, Ends DEF CallRefused, callVars, readerVars, IInv, ClientInv
  <1>4. ASSUME NEW a \in Awaits, CallThen(a) PROVE IInv'
    <2>1. BridgeInv' /\ SameCalls /\ KeepsSlots
      BY <1>4, BridgeRuns DEF CallThen, IInv
    <2>2. MethodInv' /\ DoneStays
      BY <1>4, <2>1, MethodsRest DEF CallThen
    <2>3. ThenInv'
      BY <1>4, ThenKeeps DEF CallThen, IInv
    <2>4. SettledDone'
      BY <1>4, <2>2 DEF CallThen, Then, IInv, SettledDone, Settled, DoneStays
    <2>5. PubSubInv' /\ ReaderInv' /\ ClientInv'
      BY <1>4, <2>1, PubSubKeeps, ReaderRests
      DEF CallThen, IInv, PubSubStep, ClientInv, readerVars, methodVars, callVars
    <2> QED
      BY <2>1, <2>2, <2>3, <2>4, <2>5 DEF IInv
  <1>5. ASSUME NEW k \in Calls, PromiseSettles(k) PROVE IInv'
    <2>1. BridgeInv' /\ SameCalls /\ KeepsSlots
      BY <1>5, BridgeRuns DEF PromiseSettles, IInv, Under
    <2>2. MethodInv' /\ DoneStays
      BY <1>5, <2>1, MethodsRest DEF PromiseSettles
    <2>3. ThenInv' /\ SettledDone'
      BY <1>5, <2>2, ThensRest DEF PromiseSettles, IInv
    <2>4. PubSubInv' /\ ReaderInv' /\ ClientInv'
      BY <1>5, <2>1, PubSubKeeps, ReaderRests
      DEF PromiseSettles, IInv, PubSubStep, ClientInv, readerVars, methodVars, callVars
    <2> QED
      BY <2>1, <2>2, <2>3, <2>4 DEF IInv
  <1>6. CASE MessageArrives
    <2>1. BridgeInv' /\ SameCalls /\ KeepsSlots
      BY <1>6, BridgeRuns DEF MessageArrives, IInv
    <2>2. MethodInv' /\ DoneStays
      BY <1>6, <2>1, MethodsRest DEF MessageArrives
    <2>3. ThenInv' /\ SettledDone'
      BY <1>6, <2>2, ThensRest DEF MessageArrives, IInv
    <2>4. PubSubInv'
      BY <1>6, PubSubKeeps DEF MessageArrives, GoIdle, IInv, PubSubStep
    <2>5. ReaderInv' /\ ClientInv'
      BY <1>6, <2>1, ReaderRests
      DEF MessageArrives, IInv, ClientInv, readerVars, methodVars, callVars
    <2> QED
      BY <2>1, <2>2, <2>3, <2>4, <2>5 DEF IInv
  <1> QED
    BY <1>1, <1>2, <1>3, <1>4, <1>5, <1>6 DEF JavaScript

\* So does a step of a goroutine of the bridge, of a Then or of the subscription.
LEMMA HelperKeeps ==
    ASSUME IInv,
           \/ \E k \in Calls : AskForPromise(k) \/ RunCallback(k)
           \/ \E a \in Awaits : TellAwait(a)
           \/ QueueMessage
           \/ \E k \in FetchCalls : Deadline(k)
    PROVE  IInv'
  <1>0. FetchCalls \subseteq Calls
    BY MethodsAssumption
  <1>1. ASSUME NEW k \in Calls, AskForPromise(k) PROVE IInv'
    <2>1. BridgeInv' /\ SameCalls /\ KeepsSlots
      BY <1>1, BridgeRuns DEF AskForPromise, IInv, Under
    <2>2. MethodInv' /\ DoneStays
      BY <1>1, <2>1, MethodsRest DEF AskForPromise
    <2>3. ThenInv' /\ SettledDone'
      BY <1>1, <2>2, ThensRest DEF AskForPromise, IInv
    <2>4. PubSubInv'
      BY <1>1, PubSubKeeps DEF AskForPromise, IInv, PubSubStep
    <2>5. ReaderInv' /\ ClientInv'
      BY <1>1, <2>1, ReaderRests
      DEF AskForPromise, IInv, ClientInv, readerVars, methodVars, callVars
    <2> QED
      BY <2>1, <2>2, <2>3, <2>4, <2>5 DEF IInv
  <1>2. ASSUME NEW k \in Calls, RunCallback(k) PROVE IInv'
    <2>1. BridgeInv' /\ SameCalls /\ KeepsSlots /\ UNCHANGED crashed
      BY <1>2, BridgeRuns, CallbackInTime DEF RunCallback, IInv, Under
    <2>2. MethodInv' /\ DoneStays
      BY <1>2, <2>1, MethodsRest DEF RunCallback
    <2>3. ThenInv' /\ SettledDone'
      BY <1>2, <2>2, ThensRest DEF RunCallback, IInv
    <2>4. PubSubInv' /\ ReaderInv' /\ ClientInv'
      BY <1>2, <2>1, PubSubKeeps, ReaderRests
      DEF RunCallback, IInv, PubSubStep, ClientInv, readerVars, methodVars, callVars
    <2> QED
      BY <2>1, <2>2, <2>3, <2>4 DEF IInv
  <1>3. ASSUME NEW a \in Awaits, TellAwait(a) PROVE IInv'
    <2>1. BridgeInv' /\ SameCalls /\ KeepsSlots
      BY <1>3, BridgeRuns DEF TellAwait, IInv
    <2>2. MethodInv' /\ DoneStays
      BY <1>3, <2>1, MethodsRest DEF TellAwait
    <2>3. ThenInv'
      BY <1>3, TellKeeps DEF TellAwait, IInv
    <2>4. SettledDone'
      BY <1>3, <2>2 DEF TellAwait, Tell, IInv, SettledDone, Settled, DoneStays
    <2>5. PubSubInv' /\ ReaderInv' /\ ClientInv'
      BY <1>3, <2>1, PubSubKeeps, ReaderRests
      DEF TellAwait, IInv, PubSubStep, ClientInv, readerVars, methodVars, callVars
    <2> QED
      BY <2>1, <2>2, <2>3, <2>4, <2>5 DEF IInv
  <1>4. CASE QueueMessage
    <2>1. BridgeInv' /\ SameCalls /\ KeepsSlots
      BY <1>4, BridgeRuns DEF QueueMessage, IInv
    <2>2. MethodInv' /\ DoneStays
      BY <1>4, <2>1, MethodsRest DEF QueueMessage
    <2>3. ThenInv' /\ SettledDone'
      BY <1>4, <2>2, ThensRest DEF QueueMessage, IInv
    <2>4. PubSubInv'
      BY <1>4, PubSubKeeps DEF QueueMessage, IInv, PubSubStep
    <2>5. ReaderInv' /\ ClientInv'
      BY <1>4, <2>1, ReaderRests
      DEF QueueMessage, IInv, ClientInv, readerVars, methodVars, callVars
    <2> QED
      BY <2>1, <2>2, <2>3, <2>4, <2>5 DEF IInv
  <1>5. ASSUME NEW k \in FetchCalls, Deadline(k) PROVE IInv'
    <2>1. BridgeInv' /\ SameCalls /\ KeepsSlots
      BY <1>0, <1>5, BridgeRuns DEF Deadline, IInv, Under
    <2>2. MethodInv' /\ DoneStays
      BY <1>5, <2>1, MethodsRest DEF Deadline
    <2>3. ThenInv' /\ SettledDone'
      BY <1>5, <2>2, ThensRest DEF Deadline, IInv
    <2>4. PubSubInv' /\ ReaderInv' /\ ClientInv'
      BY <1>5, <2>1, PubSubKeeps, ReaderRests
      DEF Deadline, IInv, PubSubStep, ClientInv, readerVars, methodVars, callVars
    <2> QED
      BY <2>1, <2>2, <2>3, <2>4 DEF IInv
  <1> QED
    BY <1>1, <1>2, <1>3, <1>4, <1>5

\* A method calls the bridge.
LEMMA Calling ==
    ASSUME IInv, NEW t \in Thens, pc[t] # "done", left[t] > 0, Begin(t),
           pc' = [pc EXCEPT ![t] = "call"],
           UNCHANGED <<crashed, thenVars, pubsubVars, callVars, readerVars>>
    PROVE  IInv'
  <1>1. BridgeInv' /\ KeepsSlots
    BY BridgeBegins DEF IInv
  <1>2. MethodInv' /\ DoneStays
    BY CallKeeps DEF IInv, callVars
  <1>3. ThenInv' /\ SettledDone'
    BY <1>2, ThensRest DEF IInv
  <1>4. PubSubInv' /\ ReaderInv' /\ ClientInv'
    BY <1>1, PubSubKeeps, ReaderRests DEF IInv, PubSubStep, ClientInv, readerVars, callVars
  <1> QED
    BY <1>1, <1>2, <1>3, <1>4 DEF IInv

\* A method's step keeps the invariant.
LEMMA MethodKeeps ==
    ASSUME IInv, NEW t \in Thens,
           \/ DereferenceNil(t) \/ BadArgument(t)
           \/ CallBridge(t) \/ BridgeReturns(t) \/ BridgeFails(t) \/ SendFails(t)
           \/ Finish(t) \/ WaitForARound(t)
           \/ UnsubscribeAndReject(t) \/ FinishWait(t) \/ FinishSend(t) \/ TimerFires(t)
    PROVE  IInv'
  <1>0. t \in Calls /\ Plays \cap WaitForRound = {} /\ left[t] \in Nat
    BY MethodsAssumption DEF IInv, MethodInv
  <1>1. CASE DereferenceNil(t)
    <2>1. BridgeInv' /\ SameCalls /\ KeepsSlots
      BY <1>1, BridgeRuns DEF DereferenceNil, IInv
    <2>2. MethodInv' /\ DoneStays
      BY <1>1, <2>1, MethodsRest DEF DereferenceNil
    <2>3. ThenInv' /\ SettledDone'
      BY <1>1, <2>2, ThensRest DEF DereferenceNil, IInv
    <2>4. PubSubInv' /\ ReaderInv' /\ ClientInv'
      BY <1>1, <2>1, PubSubKeeps, ReaderRests
      DEF DereferenceNil, IInv, PubSubStep, ClientInv, readerVars, methodVars, callVars
    <2> QED
      BY <2>1, <2>2, <2>3, <2>4 DEF IInv
  <1>2. CASE BadArgument(t)
    BY <1>2, Ends DEF BadArgument, callVars, readerVars, IInv, ClientInv
  <1>3. CASE CallBridge(t)
    BY <1>3, Calling DEF CallBridge
  <1>4. CASE BridgeReturns(t)
    <2>1. BridgeInv' /\ KeepsSlots /\ crashed' \in {crashed, "deadline"}
      BY <1>0, <1>4, BridgeReturned DEF BridgeReturns, IInv
    <2>2. MethodInv' /\ DoneStays
      <3>1. left' = [left EXCEPT ![t] = left[t] - 1]
        BY <1>4 DEF BridgeReturns
      <3> QED
        BY <1>4, <3>1, ReturnKeeps DEF BridgeReturns, IInv
    <2>3. ThenInv' /\ SettledDone'
      BY <1>4, <2>2, ThensRest DEF BridgeReturns, IInv
    <2>4. PubSubInv' /\ ReaderInv' /\ ClientInv'
      BY <1>4, <2>1, PubSubKeeps, ReaderRests
      DEF BridgeReturns, IInv, PubSubStep, ClientInv, readerVars
    <2> QED
      BY <2>1, <2>2, <2>3, <2>4 DEF IInv
  <1>5. CASE BridgeFails(t)
    <2>1. BridgeInv' /\ KeepsSlots /\ crashed' \in {crashed, "deadline"}
      BY <1>0, <1>5, BridgeReturned DEF BridgeFails, IInv
    <2>2. MethodInv' /\ DoneStays
      BY <1>5, ReturnKeeps DEF BridgeFails, IInv, callVars
    <2>3. ThenInv' /\ SettledDone'
      <3>1. pc[t] # "done" /\ pc'[t] = "done"
        BY <1>5 DEF BridgeFails, IInv, MethodInv
      <3> QED
        BY <1>5, <2>2, <3>1, SettlesOnce DEF BridgeFails, IInv
    <2>4. PubSubInv' /\ ReaderInv' /\ ClientInv'
      BY <1>5, <2>1, PubSubKeeps, ReaderRests
      DEF BridgeFails, IInv, PubSubStep, ClientInv, readerVars, callVars
    <2> QED
      BY <2>1, <2>2, <2>3, <2>4 DEF IInv
  <1>6. CASE Finish(t)
    <2>1. clientSingleton' \in BOOLEAN
      BY <1>6, Zenon DEF Finish
    <2> QED
      BY <1>6, <2>1, Ends DEF Finish
  <1>7. CASE WaitForARound(t)
    <2>1. t \in WaitForRound \/ (t \in Plays /\ left[t] = 1)
      BY <1>7 DEF WaitForARound, MustWait
    <2> QED
      BY <1>7, <2>1, MovesOn DEF WaitForARound
  <1>8. CASE UnsubscribeAndReject(t)
    BY <1>8, Ends DEF UnsubscribeAndReject, callVars, readerVars, IInv, ClientInv
  <1>9. CASE FinishWait(t)
    BY <1>9, Ends DEF FinishWait, callVars, readerVars, IInv, ClientInv
  <1>10. CASE FinishSend(t)
    <2>1. left[t] > 0
      BY <1>0, <1>10 DEF FinishSend, IInv, MethodInv
    <2> QED
      BY <1>10, <2>1, Calling DEF FinishSend
  <1>11. CASE TimerFires(t)
    BY <1>11, MovesOn DEF TimerFires
  <1>12. CASE SendFails(t)
    <2>1. BridgeInv' /\ KeepsSlots /\ crashed' \in {crashed, "deadline"}
      BY <1>0, <1>12, BridgeReturned DEF SendFails, IInv
    <2>2. MethodInv' /\ DoneStays
      BY <1>12, ReturnKeeps DEF SendFails, IInv, callVars
    <2>3. ThenInv' /\ SettledDone'
      BY <1>12, <2>2, ThensRest DEF SendFails, IInv
    <2>4. PubSubInv' /\ ReaderInv' /\ ClientInv'
      BY <1>12, <2>1, PubSubKeeps, ReaderRests
      DEF SendFails, IInv, PubSubStep, ClientInv, readerVars, callVars
    <2> QED
      BY <2>1, <2>2, <2>3, <2>4 DEF IInv
  <1> QED
    BY <1>1, <1>2, <1>3, <1>4, <1>5, <1>6, <1>7, <1>8, <1>9, <1>10, <1>11, <1>12

\* A step of the receive loop keeps the invariant, and so does a panic of startClient.
LEMMA ReaderKeeps ==
    ASSUME IInv,
           \/ BadConfig \/ ReadNext \/ NoQuorum \/ HandleQuorum \/ StartGet
           \/ Published \/ \E t \in Thens : CallCallback(t) \/ Deliver(t)
           \/ \E k \in FetchCalls : GetReturns(k) \/ GetFails(k) \/ StartPublish(k)
    PROVE  IInv'
  <1>0. /\ FetchCalls \subseteq Calls /\ Thens \cap FetchCalls = {} /\ Thens \subseteq Calls
        /\ FetchGets \in Nat /\ FetchGets > 0 /\ Plays \subseteq Thens
    BY MethodsAssumption
  <1>1. ASSUME UNCHANGED <<thenVars, methodVars>>, SameCalls
        PROVE  MethodInv' /\ ThenInv' /\ SettledDone'
    <2>1. MethodInv' /\ DoneStays
      BY <1>1, MethodsRest
    <2> QED
      BY <1>1, <2>1, ThensRest DEF IInv
  <1>2. ASSUME UNCHANGED bridgeVars PROVE BridgeInv' /\ SameCalls /\ KeepsSlots
    BY <1>2, BridgeRuns DEF IInv
  <1>3. ASSUME UNCHANGED pubsubVars PROVE PubSubInv'
    BY <1>3, PubSubKeeps DEF IInv, PubSubStep
  <1>4. CASE BadConfig
    <2>1. ReaderInv' /\ ClientInv'
      BY <1>2, <1>4, ReaderRests DEF BadConfig, IInv, ClientInv, readerVars, methodVars, callVars
    <2> QED
      BY <1>1, <1>2, <1>3, <1>4, <2>1 DEF BadConfig, IInv
  <1>5. CASE ReadNext
    <2>1. PubSubInv'
      BY <1>5, PubSubKeeps DEF ReadNext, IInv, PubSubStep
    <2>2. ReaderInv' /\ ClientInv'
      BY <1>5 DEF ReadNext, IInv, ReaderInv, ClientInv, methodVars, callVars
    <2> QED
      BY <1>1, <1>2, <1>5, <2>1, <2>2 DEF ReadNext, IInv
  <1>6. CASE NoQuorum
    <2>1. ReaderInv' /\ ClientInv'
      BY <1>6 DEF NoQuorum, IInv, ReaderInv, ClientInv, methodVars, callVars
    <2> QED
      BY <1>1, <1>2, <1>3, <1>6, <2>1 DEF NoQuorum, IInv
  <1>7. CASE HandleQuorum
    <2>1. current' \in BOOLEAN
      BY <1>7, Zenon DEF HandleQuorum
    <2>2. ClientInv'
      BY <1>7, <2>1 DEF HandleQuorum, IInv, ClientInv, methodVars, callVars
    <2>3. \E k \in FetchCalls : Available(k)'
      BY <1>2, <1>7 DEF HandleQuorum, KeepsSlots
    <2>4. ReaderInv'
      BY <1>0, <1>7, <2>3 DEF HandleQuorum, ReaderInv
    <2> QED
      BY <1>1, <1>2, <1>3, <1>7, <2>2, <2>4 DEF HandleQuorum, IInv
  <1>8. CASE StartGet
    <2>1. PICK k \in FetchCalls : Begin(k)
      <3>1. \E k \in FetchCalls : Available(k)
        BY <1>8 DEF StartGet, IInv, ReaderInv
      <3> QED
        BY <1>8, <3>1 DEF StartGet
    <2>2. BridgeInv'
      BY <1>0, <2>1, BridgeKeeps DEF BridgeStep, IInv
    <2>3. SameCalls
      BY <1>0, <2>1, CallEffect DEF SameCalls, IInv
    <2>4. ReaderInv' /\ ClientInv'
      BY <1>0, <1>8 DEF StartGet, IInv, ReaderInv, ClientInv, methodVars, callVars
    <2> QED
      BY <1>1, <1>3, <1>8, <2>2, <2>3, <2>4 DEF StartGet, IInv
  <1>9. ASSUME NEW t \in Thens, CallCallback(t) PROVE IInv'
    <2>1. ReaderInv' /\ ClientInv'
      BY <1>9 DEF CallCallback, IInv, ReaderInv, ClientInv, methodVars, callVars
    <2> QED
      BY <1>1, <1>2, <1>3, <1>9, <2>1 DEF CallCallback, IInv
  <1>10. ASSUME NEW t \in Thens, Deliver(t) PROVE IInv'
    <2>1. MethodInv' /\ DoneStays
      <3>1. CASE pc[t] = "wait"
        BY <1>2, <1>10, <3>1, WakeKeeps DEF Deliver, IInv, SameCalls
      <3>2. CASE pc[t] # "wait"
        BY <1>2, <1>10, <3>2, StayKeeps DEF Deliver, IInv, SameCalls
      <3> QED
        BY <3>1, <3>2
    <2>2. ThenInv' /\ SettledDone'
      BY <1>10, <2>1, ThensRest DEF Deliver, IInv
    <2>3. ReaderInv' /\ ClientInv'
      BY <1>10 DEF Deliver, Ready, IInv, ReaderInv, ClientInv
    <2> QED
      BY <1>2, <1>3, <1>10, <2>1, <2>2, <2>3 DEF Deliver, IInv
  <1>11. ASSUME NEW k \in FetchCalls, GetReturns(k) PROVE IInv'
    <2>1. /\ BridgeInv' /\ SameCalls /\ Available(k)'
          /\ crashed' \in {crashed, "deadline"}
      BY <1>0, <1>11, BridgeReturned DEF GetReturns, IInv
    <2>2. ReaderInv' /\ ClientInv'
      BY <1>11, <2>1 DEF GetReturns, IInv, ReaderInv, ClientInv, methodVars, callVars
    <2> QED
      BY <1>1, <1>3, <1>11, <2>1, <2>2 DEF GetReturns, IInv
  <1>12. ASSUME NEW k \in FetchCalls, GetFails(k) PROVE IInv'
    <2>1. BridgeInv' /\ SameCalls /\ crashed' \in {crashed, "deadline"}
      BY <1>0, <1>12, BridgeReturned DEF GetFails, IInv
    <2>2. ReaderInv' /\ ClientInv'
      BY <1>0, <1>12, <2>1 DEF GetFails, IInv, ReaderInv, ClientInv, methodVars, callVars
    <2> QED
      BY <1>1, <1>3, <1>12, <2>1, <2>2 DEF GetFails, IInv
  <1>13. ASSUME NEW k \in FetchCalls, StartPublish(k) PROVE IInv'
    <2>1. BridgeInv' /\ SameCalls /\ crashed' \in {crashed, "deadline"}
      BY <1>0, <1>13, BridgeReturned DEF StartPublish, IInv
    <2>2. todo' \subseteq Plays \cup WaitForRound
      BY <1>13 DEF StartPublish, Unproven, RoundSubscribers
    <2>3. ReaderInv' /\ ClientInv'
      BY <1>13, <2>1, <2>2 DEF StartPublish, IInv, ReaderInv, ClientInv, methodVars, callVars
    <2> QED
      BY <1>1, <1>3, <1>13, <2>1, <2>3 DEF StartPublish, IInv
  <1>14. CASE Published
    <2>1. ReaderInv' /\ ClientInv'
      BY <1>14 DEF Published, IInv, ReaderInv, ClientInv, methodVars, callVars
    <2> QED
      BY <1>1, <1>2, <1>3, <1>14, <2>1 DEF Published, IInv
  <1> QED
    BY <1>4, <1>5, <1>6, <1>7, <1>8, <1>9, <1>10, <1>11, <1>12, <1>13, <1>14
-----------------------------------------------------------------------------
\* The SDK starts with nothing under way.
LEMMA InitIInv == Init => IInv
  <1> SUFFICES ASSUME Init PROVE IInv
    OBVIOUS
  <1>1. BridgeInv
    BY DEF Init, BridgeInit, BridgeInv, BridgeTypeOK
  <1>2. PubSubInv
    <2>1. subscribed \in BOOLEAN
      BY Zenon DEF Init, PubSubInit
    <2>2. <<>> \o <<>> = [i \in 1 .. 0 |-> i] /\ <<>> \in Seq(1 .. 0)
      OBVIOUS
    <2> QED
      BY <2>1, <2>2, MessagesAssumption DEF Init, PubSubInit, PubSubInv, PubSubTypeOK
  <1>3. ThenInv /\ SettledDone
    BY DEF Init, ThenInit, ThenInv, ThenTypeOK, OwnCbs, OneWay, ToldTrue, TellingTrue, SettledDone,
           Settled
  <1>4. MethodInv
    BY MethodsAssumption DEF Init, BridgeInit, MethodInv
  <1>5. ReaderInv
    BY MethodsAssumption DEF Init, ReaderInv
  <1>6. clientSingleton \in BOOLEAN /\ current \in BOOLEAN
    BY Zenon DEF Init
  <1>7. ClientInv
    BY <1>6 DEF Init, ClientInv
  <1> QED
    BY <1>1, <1>2, <1>3, <1>4, <1>5, <1>7 DEF IInv

\* The invariants of the bridge, of the subscription, of the Thens and of the methods hold
\* together, whatever JavaScript calls and in whichever order the goroutines run.
THEOREM Inductive == Spec => []IInv
  <1>1. Init => IInv
    BY InitIInv
  <1>2. IInv /\ [Next]_vars => IInv'
    <2> SUFFICES ASSUME IInv, [Next]_vars PROVE IInv'
      OBVIOUS
    <2>1. CASE JavaScript
      BY <2>1, JavaScriptKeeps
    <2>2. CASE Goroutine
      BY <2>2, HelperKeeps, MethodKeeps, ReaderKeeps DEF Goroutine
    <2>3. CASE Timer
      BY <2>3, HelperKeeps, MethodKeeps DEF Timer
    <2>4. CASE UNCHANGED vars
      <3>1. BridgeInv' /\ SameCalls /\ KeepsSlots
        BY <2>4, BridgeRuns DEF IInv, vars
      <3>2. MethodInv' /\ DoneStays
        BY <2>4, <3>1, MethodsRest DEF vars
      <3>3. ThenInv' /\ SettledDone'
        BY <2>4, <3>2, ThensRest DEF IInv, vars
      <3>4. PubSubInv' /\ ReaderInv' /\ ClientInv'
        BY <2>4, <3>1, PubSubKeeps, ReaderRests
        DEF IInv, vars, PubSubStep, ClientInv, readerVars, methodVars, callVars
      <3> QED
        BY <3>1, <3>2, <3>3, <3>4 DEF IInv
    <2> QED
      BY <2>1, <2>2, <2>3, <2>4 DEF Next
  <1> QED
    BY <1>1, <1>2, PTL DEF Spec

\* The variables keep their types; a method is in a call exactly while the bridge has one of it.
THEOREM TypeCorrect == Spec => []TypeOK
  <1>1. IInv => TypeOK
    BY DEF IInv, TypeOK, BridgeInv, PubSubInv, ThenInv, MethodInv, ReaderInv, ClientInv
  <1> QED
    BY <1>1, Inductive, PTL

\* A promise that settles after its call gave up never sends on the closed channel.
THEOREM NoLateCallbacks == Spec => []NoLateCallback
  <1>1. IInv => NoLateCallback
    BY DEF IInv, ClientInv, NoLateCallback
  <1> QED
    BY <1>1, Inductive, PTL

\* However then, Resolve and Reject are ordered, an await is told once, and all awaits of a
\* Then are told the same.
THEOREM AwaitsToldOnce == Spec => []ToldOnce
  <1>1. IInv => ToldOnce
    BY ThenInvToldOnce DEF IInv
  <1> QED
    BY <1>1, Inductive, PTL

\* Next returns the messages of the topic in the order JavaScript had them, without a gap.
THEOREM InOrder == Spec => []MessagesInOrder
  <1>1. IInv => MessagesInOrder
    BY DEF IInv, PubSubInv, MessagesInOrder
  <1> QED
    BY <1>1, Inductive, PTL
=============================================================================
