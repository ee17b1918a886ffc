------------------------------ MODULE JSClient ------------------------------
(***************************************************************************)
(* The SDK in a browser: the functions JavaScript may call (wasm/main.go,  *)
(* wasm/jsclient/jsclient.go), composed with the calls they make of the    *)
(* JavaScript node store and pubsub (JSBridge), with the Thens they answer *)
(* with (Thenable) and with the loop of the round subscriber on a          *)
(* JavaScript subscription (JSPubSub).                                     *)
(*                                                                         *)
(* Go runs in the one thread of JavaScript.  The runtime lets JavaScript   *)
(* go on when every goroutine is parked, so an event of JavaScript (a call *)
(* of a method or of then, a promise that settles, a message) finds Go     *)
(* idle and starts goroutines, which then run in any order.  Timers of Go  *)
(* may fire at any time.                                                   *)
(*                                                                         *)
(* A method is a number of calls of the bridge, after each of which it     *)
(* goes on or rejects, and for some a wait for a round.  What it computes  *)
(* is in the modules of the client; the lock of the round subscriber is    *)
(* here because it is held across calls of the bridge, and what publishing *)
(* a round does to the waits, because it may hold the lock for ever.       *)
(***************************************************************************)
EXTENDS JSBridge, Thenable, JSPubSub

CONSTANTS
    StartClient,    \* the call of startClient
    NeedClient,     \* the calls of methods of clientSingleton
    Plays,          \* of these, the calls of playTransactions
    WaitForRound,   \* of these, the calls of waitForRound
    BridgeCalls,    \* per method call: how often it calls the bridge
    FetchCalls,     \* the bridge calls of the receive loop, which have a deadline
    FetchGets,      \* how many of them handleQuorum makes
    NoOne           \* the loop is in no callback

ASSUME MethodsAssumption ==
    /\ NeedClient \subseteq Thens /\ StartClient \in Thens \ NeedClient
    /\ Plays \subseteq NeedClient /\ WaitForRound \subseteq NeedClient \ Plays
    /\ BridgeCalls \in [Thens -> Nat] /\ BridgeCalls[StartClient] = 1
    /\ \A t \in Plays : BridgeCalls[t] >= 3
    /\ \A t \in WaitForRound : BridgeCalls[t] = 0
    /\ Calls = Thens \cup FetchCalls /\ Thens \cap FetchCalls = {}
    /\ FetchGets \in Nat \ {0} /\ NoOne \notin Thens

VARIABLES
    pc,                 \* per method call: where its goroutine is
    left,               \* per method call: the bridge calls it still makes
    buffered,           \* the calls of waitForRound whose channel holds a round
    clientSingleton,    \* clientSingleton # nil
    reader,             \* the receive loop
    gets,               \* the Gets handleQuorum still makes
    current,            \* rs.current # nil
    todo,               \* the callbacks the event stream has still to call
    target              \* the call whose callback is sending

callVars == <<left, buffered, clientSingleton>>
methodVars == <<pc, callVars>>
readerVars == <<reader, gets, current, todo, target>>
vars == <<bridgeVars, crashed, thenVars, pubsubVars, methodVars, readerVars>>

Init ==
    /\ BridgeInit /\ crashed = "no" /\ ThenInit /\ PubSubInit
    /\ pc = [t \in Thens |-> "none"] /\ left = BridgeCalls
    /\ buffered = {} /\ clientSingleton = FALSE
    /\ reader = "off" /\ gets = 0 /\ current = FALSE
    /\ todo = {} /\ target = NoOne
-----------------------------------------------------------------------------
(* rs.Lock *)

\* Send subscribes: Put of the request is made with the lock held.  Publish and, once
\* there is a proof, the Get of the new tree follow.
PutsRequest(t) == t \in Plays /\ left[t] = 3
Publishes(t) == t \in Plays /\ left[t] = 2

\* handleQuorum fetches and publishes with the lock held.
LockFree ==
    /\ reader \notin {"get", "fetch", "publish", "send"}
    /\ \A t \in Thens : ~(pc[t] = "call" /\ PutsRequest(t))

\* The goroutine is at subscribe, at Current in WaitForFirstRound, or at unsubscribe.
NeedsLock(t) ==
    \/ pc[t] = "run" /\ (PutsRequest(t) \/ t \in WaitForRound)
    \/ pc[t] \in {"woken", "leave"}

\* The callback's send can complete: the call is in its select, or there is room in
\* the channel of WaitForFirstRound, which has one place.
Ready(t) == pc[t] = "wait" \/ t \in WaitForRound \ buffered
-----------------------------------------------------------------------------
(* JavaScript *)

\* Every goroutine is parked.
GoIdle ==
    /\ BridgeParked /\ telling = {} /\ arriving = {}
    /\ \A t \in Thens :
         pc[t] \in {"nil", "run", "woken", "leave"} => NeedsLock(t) /\ ~LockFree
    /\ reader \notin {"get", "publish"}
    /\ reader = "send" => ~Ready(target)
    /\ reader = "next" => queue = <<>>
    /\ reader = "handle" => ~LockFree

\* A method makes a Then and starts its goroutine.
CallMethod(t) ==
    /\ GoIdle /\ pc[t] = "none"
    /\ t \in NeedClient => clientSingleton
    /\ pc' = [pc EXCEPT ![t] = "run"]
    /\ UNCHANGED <<bridgeVars, crashed, thenVars, pubsubVars, callVars, readerVars>>

\* The same on a nil client: the goroutine is on its way to dereference it.
CallOnNil(t) ==
    /\ GoIdle /\ pc[t] = "none"
    /\ t \in NeedClient \ Plays /\ ~clientSingleton
    /\ pc' = [pc EXCEPT ![t] = "nil"]
    /\ UNCHANGED <<bridgeVars, crashed, thenVars, pubsubVars, callVars, readerVars>>

\* "no client has been started"
CallRefused(t) ==
    /\ GoIdle /\ pc[t] = "none"
    /\ t \in Plays /\ ~clientSingleton
    /\ Reject(t) /\ pc' = [pc EXCEPT ![t] = "done"]
    /\ UNCHANGED <<bridgeVars, crashed, pubsubVars, callVars, readerVars>>

CallThen(a) ==
    /\ GoIdle /\ pc[ThenOf[a]] # "none" /\ Then(a)
    /\ UNCHANGED <<bridgeVars, crashed, pubsubVars, methodVars, readerVars>>

PromiseSettles(k) ==
    /\ GoIdle /\ \E ans \in {"ok", "error"} : Settle(k, ans)
    /\ UNCHANGED <<crashed, thenVars, pubsubVars, methodVars, readerVars>>

MessageArrives ==
    /\ GoIdle /\ Message
    /\ UNCHANGED <<bridgeVars, crashed, thenVars, methodVars, readerVars>>
-----------------------------------------------------------------------------
(* The goroutines of the bridge *)

AskForPromise(k) ==
    /\ StartPromise(k)
    /\ IF k = StartClient THEN Register ELSE UNCHANGED pubsubVars
    /\ UNCHANGED <<crashed, thenVars, methodVars, readerVars>>

RunCallback(k) ==
    /\ Callback(k)
    /\ UNCHANGED <<thenVars, pubsubVars, methodVars, readerVars>>

TellAwait(a) ==
    /\ \E f \in {"resolve", "reject"} : Tell(a, f)
    /\ UNCHANGED <<bridgeVars, crashed, pubsubVars, methodVars, readerVars>>

QueueMessage ==
    /\ \E m \in arriving : QueueJS(m)
    /\ UNCHANGED <<bridgeVars, crashed, thenVars, methodVars, readerVars>>
-----------------------------------------------------------------------------
(* The goroutine of a method *)

DereferenceNil(t) ==
    /\ pc[t] = "nil"
    /\ crashed' = "nil"
    /\ UNCHANGED <<bridgeVars, thenVars, pubsubVars, methodVars, readerVars>>

\* New panics when the configuration does not make a notary group.
BadConfig ==
    /\ pc[StartClient] = "run" /\ left[StartClient] = 1
    /\ crashed' = "panic"
    /\ UNCHANGED <<bridgeVars, thenVars, pubsubVars, methodVars, readerVars>>

\* An argument does not convert or does not decode.
BadArgument(t) ==
    /\ pc[t] = "run" /\ left[t] = BridgeCalls[t] /\ t \notin WaitForRound
    /\ Reject(t) /\ pc' = [pc EXCEPT ![t] = "done"]
    /\ UNCHANGED <<bridgeVars, crashed, pubsubVars, callVars, readerVars>>

\* Send has published its request; WaitForFirstRound looks before it waits.
MustWait(t) ==
    \/ t \in Plays /\ left[t] = 1
    \/ t \in WaitForRound /\ ~current

CallBridge(t) ==
    /\ pc[t] = "run" /\ left[t] > 0 /\ ~MustWait(t)
    /\ NeedsLock(t) => LockFree
    /\ Begin(t) /\ pc' = [pc EXCEPT ![t] = "call"]
    /\ UNCHANGED <<crashed, thenVars, pubsubVars, callVars, readerVars>>

BridgeReturns(t) ==
    /\ pc[t] = "call" /\ answer[t] = "ok"
    /\ Return(t)
    /\ pc' = [pc EXCEPT ![t] = "run"] /\ left' = [left EXCEPT ![t] = @ - 1]
    /\ UNCHANGED <<thenVars, pubsubVars, buffered, clientSingleton, readerVars>>

\* Mutant of BridgeFails: the return after Reject is missing.
BridgeFailsGoesOn(t) ==
    /\ pc[t] = "call" /\ answer[t] = "error" /\ ~Publishes(t)
    /\ Return(t) /\ Reject(t)
    /\ pc' = [pc EXCEPT ![t] = "run"] /\ left' = [left EXCEPT ![t] = @ - 1]
    /\ UNCHANGED <<pubsubVars, buffered, clientSingleton, readerVars>>

\* "t.Reject(err); return"
BridgeFails(t) ==
    /\ pc[t] = "call" /\ answer[t] = "error" /\ ~Publishes(t)
    /\ Return(t) /\ Reject(t)
    /\ pc' = [pc EXCEPT ![t] = "done"]
    /\ UNCHANGED <<pubsubVars, callVars, readerVars>>

\* Publish fails, and Send is on its way to its deferred unsubscribe.
SendFails(t) ==
    /\ pc[t] = "call" /\ answer[t] = "error" /\ Publishes(t)
    /\ Return(t)
    /\ pc' = [pc EXCEPT ![t] = "leave"]
    /\ UNCHANGED <<thenVars, pubsubVars, callVars, readerVars>>

\* What a method resolves with.
Value(t) == IF t \in WaitForRound THEN "nil" ELSE "value"

\* The method resolves.  startClient has started the receive loop before.
Finish(t) ==
    /\ pc[t] = "run" /\ left[t] = 0 /\ ~MustWait(t)
    /\ NeedsLock(t) => LockFree
    /\ Resolve(t, Value(t)) /\ pc' = [pc EXCEPT ![t] = "done"]
    /\ reader' = IF t = StartClient THEN "next" ELSE reader
    /\ clientSingleton' = (clientSingleton \/ t = StartClient)
    /\ UNCHANGED <<bridgeVars, crashed, pubsubVars, left, buffered, gets, current, todo,
                   target>>

WaitForARound(t) ==
    /\ pc[t] = "run" /\ MustWait(t)
    /\ NeedsLock(t) => LockFree
    /\ pc' = [pc EXCEPT ![t] = "wait"]
    /\ UNCHANGED <<bridgeVars, crashed, thenVars, pubsubVars, callVars, readerVars>>

\* "case <-timer.C"
TimerFires(t) ==
    /\ pc[t] = "wait"
    /\ pc' = [pc EXCEPT ![t] = "leave"]
    /\ UNCHANGED <<bridgeVars, crashed, thenVars, pubsubVars, callVars, readerVars>>

\* The deferred unsubscribe needs the lock.
UnsubscribeAndReject(t) ==
    /\ pc[t] = "leave" /\ LockFree
    /\ Reject(t) /\ pc' = [pc EXCEPT ![t] = "done"]
    /\ UNCHANGED <<bridgeVars, crashed, pubsubVars, callVars, readerVars>>

FinishWait(t) ==
    /\ pc[t] = "woken" /\ t \in WaitForRound /\ LockFree
    /\ Resolve(t, Value(t)) /\ pc' = [pc EXCEPT ![t] = "done"]
    /\ UNCHANGED <<bridgeVars, crashed, pubsubVars, callVars, readerVars>>

\* PlayTransactions makes a tree of the proof's tip.
FinishSend(t) ==
    /\ pc[t] = "woken" /\ t \in Plays /\ LockFree
    /\ Begin(t) /\ pc' = [pc EXCEPT ![t] = "call"]
    /\ UNCHANGED <<crashed, thenVars, pubsubVars, callVars, readerVars>>
-----------------------------------------------------------------------------
(* The receive loop, see RoundSubscriber and ClientSend *)

ReadNext ==
    /\ reader = "next" /\ Receive
    /\ reader' = "handle"
    /\ UNCHANGED <<bridgeVars, crashed, thenVars, methodVars, gets, current, todo, target>>

NoQuorum ==
    /\ reader = "handle"
    /\ reader' = "next"
    /\ UNCHANGED <<bridgeVars, crashed, thenVars, pubsubVars, methodVars, gets, current, todo,
                   target>>

\* Bound: fewer late Gets are waiting for their promise than there are slots.
HandleQuorum ==
    /\ reader = "handle" /\ LockFree
    /\ \E k \in FetchCalls : Available(k)
    /\ reader' = "get" /\ gets' = FetchGets /\ current' = TRUE
    /\ UNCHANGED <<bridgeVars, crashed, thenVars, pubsubVars, methodVars, todo, target>>

StartGet ==
    /\ reader = "get"
    /\ Begin(CHOOSE k \in FetchCalls : Available(k))
    /\ reader' = "fetch" /\ gets' = gets - 1
    /\ UNCHANGED <<crashed, thenVars, pubsubVars, methodVars, current, todo, target>>

GetReturns(k) ==
    /\ reader = "fetch" /\ answer[k] = "ok" /\ gets # 0
    /\ Return(k)
    /\ reader' = "get"
    /\ UNCHANGED <<thenVars, pubsubVars, methodVars, gets, current, todo, target>>

GetFails(k) ==
    /\ reader = "fetch" /\ answer[k] \in {"error", "context"}
    /\ Return(k)
    /\ reader' = "next" /\ gets' = 0
    /\ UNCHANGED <<thenVars, pubsubVars, methodVars, current, todo, target>>

\* The 30 seconds of handleQuorum are over.
Deadline(k) ==
    /\ ContextDone(k)
    /\ UNCHANGED <<crashed, thenVars, pubsubVars, methodVars, readerVars>>

\* The calls of Send whose callback has not sent a proof: subscribed, whether they have
\* still to publish their request, wait for its proof, or are leaving.
Unproven ==
    {t \in Plays : \/ pc[t] \in {"run", "call"} /\ left[t] = 2
                   \/ pc[t] = "run" /\ left[t] = 1
                   \/ pc[t] \in {"wait", "leave"}}

\* The calls of waitForRound that are subscribed.
RoundSubscribers == {t \in WaitForRound : pc[t] \in {"wait", "woken", "leave"}}

\* The round is there: the event stream starts to call the callbacks.  The ones of Send
\* return at once unless the round lists their request, which a call before this one
\* may have published.
StartPublish(k) ==
    /\ reader = "fetch" /\ answer[k] = "ok" /\ gets = 0
    /\ Return(k)
    /\ reader' = "publish"
    /\ \E listed \in SUBSET Unproven : todo' = RoundSubscribers \cup listed
    /\ UNCHANGED <<thenVars, pubsubVars, methodVars, gets, current, target>>

\* The stream calls one callback after the other, each of which sends on its channel.
CallCallback(t) ==
    /\ reader = "publish" /\ t \in todo
    /\ reader' = "send" /\ target' = t /\ todo' = todo \ {t}
    /\ UNCHANGED <<bridgeVars, crashed, thenVars, pubsubVars, methodVars, gets, current>>

\* The send wakes the call, or stays in the channel of a WaitForFirstRound that is
\* leaving.  Until it completes the loop keeps the lock: it waits for a Send that has
\* still to publish its request, and for ever for one that is leaving.
Deliver(t) ==
    /\ reader = "send" /\ target = t /\ Ready(t)
    /\ IF pc[t] = "wait"
         THEN pc' = [pc EXCEPT ![t] = "woken"] /\ UNCHANGED buffered
         ELSE buffered' = buffered \cup {t} /\ UNCHANGED pc
    /\ reader' = "publish" /\ target' = NoOne
    /\ UNCHANGED <<bridgeVars, crashed, thenVars, pubsubVars, left, clientSingleton, gets,
                   current, todo>>

Published ==
    /\ reader = "publish" /\ todo = {}
    /\ reader' = "next"
    /\ UNCHANGED <<bridgeVars, crashed, thenVars, pubsubVars, methodVars, gets, current, todo,
                   target>>
-----------------------------------------------------------------------------
JavaScript ==
    \/ \E t \in Thens : CallMethod(t) \/ CallOnNil(t) \/ CallRefused(t)
    \/ \E a \in Awaits : CallThen(a)
    \/ \E k \in Calls : PromiseSettles(k)
    \/ MessageArrives

Goroutine ==
    \/ \E k \in Calls : AskForPromise(k) \/ RunCallback(k)
    \/ \E a \in Awaits : TellAwait(a)
    \/ QueueMessage \/ BadConfig
    \/ \E t \in Thens :
         \/ DereferenceNil(t) \/ BadArgument(t)
         \/ CallBridge(t) \/ BridgeReturns(t) \/ BridgeFails(t) \/ SendFails(t)
         \/ Finish(t) \/ WaitForARound(t)
         \/ UnsubscribeAndReject(t) \/ FinishWait(t) \/ FinishSend(t)
         \/ CallCallback(t) \/ Deliver(t)
    \/ ReadNext \/ NoQuorum \/ HandleQuorum \/ StartGet \/ Published
    \/ \E k \in FetchCalls : GetReturns(k) \/ GetFails(k) \/ StartPublish(k)

Timer ==
    \/ \E t \in Thens : TimerFires(t)
    \/ \E k \in FetchCalls : Deadline(k)

Next == crashed = "no" /\ (JavaScript \/ Goroutine \/ Timer)

Spec == Init /\ [][Next]_vars

\* Goroutines run, timers fire, and JavaScript settles its promises although
\* it does so only when Go is idle.
Fairness ==
    /\ WF_vars(crashed = "no" /\ Goroutine)
    /\ WF_vars(crashed = "no" /\ \E t \in Thens : TimerFires(t))
    /\ SF_vars(crashed = "no" /\ \E k \in Calls : PromiseSettles(k))

FairSpec == Spec /\ Fairness
-----------------------------------------------------------------------------
\* The variables hold what the fields and goroutines can hold.
TypeOK ==
    /\ BridgeTypeOK /\ ThenTypeOK /\ PubSubTypeOK
    /\ crashed \in {"no", "late", "deadline", "nil", "panic"}
    /\ pc \in [Thens -> {"none", "nil", "run", "call", "wait", "woken", "leave", "done"}]
    /\ \A t \in Thens : pc[t] = "call" <=> call[t] # "free"
    /\ left \in [Thens -> Nat] /\ \A t \in Thens : left[t] <= BridgeCalls[t]
    /\ buffered \subseteq WaitForRound
    /\ clientSingleton \in BOOLEAN /\ current \in BOOLEAN
    /\ reader \in {"off", "next", "handle", "get", "fetch", "publish", "send"}
    /\ gets \in 0 .. FetchGets
    /\ todo \subseteq Plays \cup WaitForRound
    /\ target \in Plays \cup WaitForRound \cup {NoOne}

\* A promise that settles when its call has given up is ignored: it never sends on the
\* channel the call has closed.
NoLateCallback == crashed # "late"

\* An await of a Then resolved with nil that calls then too late.
ForgottenNil(a) ==
    LET t == ThenOf[a] IN t \in WaitForRound /\ result[t] = "nil" /\ a \in resolveCbs[t]

\* An await that passes no function for errors is not told of one.
Unheard(a) == a \notin Rejecting /\ ThenOf[a] \in err

\* The loop sends to a call that has left its select, and keeps the lock that the call
\* needs to unsubscribe.
Wedged ==
    /\ reader = "send" /\ ~Ready(target)
    /\ pc[target] \in {"woken", "leave"}

Answered(a) == told[a] # <<>> \/ Unheard(a)

\* Every await is answered if JavaScript settles its promises, except one that asks
\* for a round after Resolve(nil), or unless the process is gone or the loop wedged.
AwaitsAnswered ==
    []<>(\/ crashed # "no" \/ Wedged
         \/ \A a \in asked : Answered(a) \/ ForgottenNil(a))

\* "so that Go can return something to js and js can `await` it" (then.go:11): every
\* await is answered, one of a Then that was resolved with nil too.
JSCanAwait ==
    []<>(crashed # "no" \/ Wedged \/ \A a \in asked : Answered(a))
=============================================================================
