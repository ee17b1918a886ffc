----------------------------- MODULE ClientSend -----------------------------
(***************************************************************************)
(* The goroutines of one SDK client that meet at the round subscriber's    *)
(* lock: the receive loop, which notifies the subscribers while it holds   *)
(* rs.Lock (gossip/client/roundsubscriber.go), the callers of Client.Send, *)
(* and the callers of Client.WaitForFirstRound (gossip/client/client.go).  *)
(*                                                                         *)
(* A caller of Send waits on an unbuffered channel, a caller of            *)
(* WaitForFirstRound on a channel of capacity one.  Both leave by          *)
(* unsubscribing, which takes rs.Lock, and then close the channel.         *)
(*                                                                         *)
(* RoundSubscriber says when a round is adopted; here a round just arrives. *)
(* Only the loop holds rs.Lock across more than one step, so the lock is   *)
(* free exactly when the loop is between two messages.                     *)
(***************************************************************************)
EXTENDS Naturals, FiniteSets

CONSTANTS
    Senders,    \* calls of Client.Send
    Waiters,    \* calls of Client.WaitForFirstRound
    Abrs,       \* add block requests
    AbrOf,      \* the request each call of Send sends; a retry sends the same one
    MaxHeight,  \* bound: the number of rounds that arrive
    NoOne       \* the loop is not in a callback

ASSUME CallersAssumption ==
    /\ Senders \cap Waiters = {}
    /\ NoOne \notin Senders \cup Waiters
    /\ AbrOf \in [Senders -> Abrs]
    /\ MaxHeight \in Nat

Callers == Senders \cup Waiters

VARIABLES
    pc,         \* where each caller is
    result,     \* what each call returns
    ctxDone,    \* the callers whose ctx is done
    closed,     \* the callers whose channel is closed
    buffered,   \* the waiters whose channel holds a round
    isDone,     \* the senders whose callback has set isDone
    sent,       \* the requests published on the transaction topic
    stream,     \* rs.stream: the callers subscribed
    current,    \* height of rs.current, 0 for nil
    loop,       \* where the receive loop is
    accepted,   \* the requests the round being handled accepts
    todo,       \* the subscribers the loop has still to call
    target      \* the caller the loop is sending to

callVars == <<pc, result>>
chanVars == <<closed, buffered>>
loopVars == <<current, loop, accepted, todo, target>>
vars == <<pc, result, ctxDone, closed, buffered, isDone, sent, stream,
          current, loop, accepted, todo, target>>

Init ==
    /\ pc = [p \in Callers |-> "start"]
    /\ result = [p \in Callers |-> "none"]
    /\ ctxDone = {} /\ closed = {} /\ buffered = {} /\ isDone = {}
    /\ sent = {} /\ stream = {}
    /\ current = 0
    /\ loop = "next"
    /\ accepted = {} /\ todo = {}
    /\ target = NoOne

LockFree == loop = "next"

\* The event stream has a lock of its own, held while it calls subscribers.
StreamFree == loop \notin {"publish", "send"}

Goto(p, from, to) ==
    /\ pc[p] = from
    /\ pc' = [pc EXCEPT ![p] = to]

Return(p, res) == result' = [result EXCEPT ![p] = res]

\* The caller's context is cancelled or runs out.  Nobody looks at it once the
\* caller has unsubscribed.
Cancel(p) ==
    /\ p \notin ctxDone /\ pc[p] \notin {"close", "done"}
    /\ ctxDone' = ctxDone \cup {p}
    /\ UNCHANGED <<callVars, chanVars, isDone, sent, stream, loopVars>>
-----------------------------------------------------------------------------
(* Client.Send *)

\* roundSubscriber.subscribe, under rs.Lock.
Subscribe(s) ==
    /\ LockFree
    /\ Goto(s, "start", "publish")
    /\ stream' = stream \cup {s}
    /\ UNCHANGED <<result, ctxDone, chanVars, isDone, sent, loopVars>>

\* hamtStore.Put fails, and Send returns before it defers the unsubscribe.
SubscribeFails(s) ==
    /\ LockFree
    /\ Goto(s, "start", "close")
    /\ Return(s, "error")
    /\ UNCHANGED <<ctxDone, chanVars, isDone, sent, stream, loopVars>>

SendWithoutWait(s) ==
    /\ Goto(s, "publish", "wait")
    /\ sent' = sent \cup {AbrOf[s]}
    /\ UNCHANGED <<result, ctxDone, chanVars, isDone, stream, loopVars>>

\* Marshal or pubsub.Publish fails.
SendFails(s) ==
    /\ Goto(s, "publish", "unsubscribe")
    /\ Return(s, "error")
    /\ UNCHANGED <<ctxDone, chanVars, isDone, sent, stream, loopVars>>

\* The select of Send: the timer fires, or (Handover) the proof arrives.  Send
\* does not look at its context here.
SendTimeout(s) ==
    /\ Goto(s, "wait", "unsubscribe")
    /\ Return(s, "ErrTimeout")
    /\ UNCHANGED <<ctxDone, chanVars, isDone, sent, stream, loopVars>>
-----------------------------------------------------------------------------
(* Client.WaitForFirstRound *)

\* Current() takes rs.RLock; a round that is already there ends the call.
CheckCurrent(w) ==
    /\ LockFree
    /\ IF current # 0
         THEN Goto(w, "start", "done") /\ Return(w, "ok")
         ELSE Goto(w, "start", "subscribe") /\ UNCHANGED result
    /\ UNCHANGED <<ctxDone, chanVars, isDone, sent, stream, loopVars>>

\* SubscribeToRounds goes to the stream directly, without rs.Lock.
SubscribeToRounds(w) ==
    /\ StreamFree
    /\ Goto(w, "subscribe", "wait")
    /\ stream' = stream \cup {w}
    /\ UNCHANGED <<result, ctxDone, chanVars, isDone, sent, loopVars>>

ReceiveRound(w) ==
    /\ w \in buffered
    /\ buffered' = buffered \ {w}
    /\ Goto(w, "wait", "unsubscribe")
    /\ Return(w, "ok")
    /\ UNCHANGED <<ctxDone, closed, isDone, sent, stream, loopVars>>

WaitTimeout(w) ==
    /\ Goto(w, "wait", "unsubscribe")
    /\ Return(w, "ErrNoRound")
    /\ UNCHANGED <<ctxDone, chanVars, isDone, sent, stream, loopVars>>

\* A done context ends the wait without an error.
WaitCancelled(w) ==
    /\ w \in ctxDone
    /\ Goto(w, "wait", "unsubscribe")
    /\ Return(w, "ok")
    /\ UNCHANGED <<ctxDone, chanVars, isDone, sent, stream, loopVars>>
-----------------------------------------------------------------------------
(* The deferred calls of both *)

\* Mutant of Unsubscribe: the stream is changed without rs.Lock.
UnsubscribeUnlocked(p) ==
    /\ Goto(p, "unsubscribe", "close")
    /\ stream' = stream \ {p}
    /\ UNCHANGED <<result, ctxDone, chanVars, isDone, sent, loopVars>>

\* roundSubscriber.unsubscribe, under rs.Lock.
Unsubscribe(p) ==
    /\ LockFree
    /\ Goto(p, "unsubscribe", "close")
    /\ stream' = stream \ {p}
    /\ UNCHANGED <<result, ctxDone, chanVars, isDone, sent, loopVars>>

Close(p) ==
    /\ Goto(p, "close", "done")
    /\ closed' = closed \cup {p}
    /\ UNCHANGED <<result, ctxDone, buffered, isDone, sent, stream, loopVars>>
-----------------------------------------------------------------------------
(* The receive loop: handleMessage takes rs.Lock and keeps it to the end *)

\* A confirmation makes a quorum: rs.current is set before anything is fetched.
\* The checkpoint of the round lists requests the group has seen.
NewRound(A) ==
    /\ loop = "next" /\ current < MaxHeight
    /\ loop' = "fetch"
    /\ current' = current + 1
    /\ accepted' = A
    /\ UNCHANGED <<callVars, ctxDone, chanVars, isDone, sent, stream, todo, target>>

\* Mutant of FetchFails: the error path keeps rs.Lock.
FetchFailsLocked ==
    /\ loop = "fetch"
    /\ loop' = "returned"
    /\ UNCHANGED <<callVars, ctxDone, chanVars, isDone, sent, stream,
                   current, accepted, todo, target>>

\* The round or its checkpoint cannot be fetched: handleQuorum returns the error.
FetchFails ==
    /\ loop = "fetch"
    /\ loop' = "next"
    /\ accepted' = {}
    /\ UNCHANGED <<callVars, ctxDone, chanVars, isDone, sent, stream,
                   current, todo, target>>

Fetched ==
    /\ loop = "fetch"
    /\ loop' = "publish"
    /\ todo' = stream
    /\ UNCHANGED <<callVars, ctxDone, chanVars, isDone, sent, stream,
                   current, accepted, target>>

\* Mutant of SkipSender: a callback that is not concerned is done as well.
SkipSenderDone(s) ==
    /\ loop = "publish" /\ s \in todo
    /\ s \in isDone \/ s \in ctxDone \/ AbrOf[s] \notin accepted
    /\ todo' = todo \ {s}
    /\ isDone' = isDone \cup {s}
    /\ UNCHANGED <<callVars, ctxDone, chanVars, sent, stream,
                   current, loop, accepted, target>>

\* The callback of roundSubscriber.subscribe returns at once: it is done, its
\* context is done, or the round does not include its request.
SkipSender(s) ==
    /\ loop = "publish" /\ s \in todo
    /\ s \in isDone \/ s \in ctxDone \/ AbrOf[s] \notin accepted
    /\ todo' = todo \ {s}
    /\ isDone' = IF s \in ctxDone THEN isDone \cup {s} ELSE isDone
    /\ UNCHANGED <<callVars, ctxDone, chanVars, sent, stream,
                   current, loop, accepted, target>>

\* Mutant of CallSender: isDone is not set.
CallSenderAgain(s) ==
    /\ loop = "publish" /\ s \in todo
    /\ s \notin isDone /\ s \notin ctxDone /\ AbrOf[s] \in accepted
    /\ todo' = todo \ {s}
    /\ loop' = "send"
    /\ target' = s
    /\ UNCHANGED <<callVars, ctxDone, chanVars, isDone, sent, stream, current, accepted>>

\* The callback builds the proof, sets isDone and starts the channel send.
CallSender(s) ==
    /\ loop = "publish" /\ s \in todo
    /\ s \notin isDone /\ s \notin ctxDone /\ AbrOf[s] \in accepted
    /\ todo' = todo \ {s}
    /\ isDone' = isDone \cup {s}
    /\ loop' = "send"
    /\ target' = s
    /\ UNCHANGED <<callVars, ctxDone, chanVars, sent, stream, current, accepted>>

\* Mutant of Handover: the send does not wait for the caller.
HandoverDropped(s) ==
    /\ loop = "send" /\ target = s
    /\ IF pc[s] = "wait" THEN Goto(s, "wait", "unsubscribe") /\ Return(s, "proof")
                         ELSE UNCHANGED callVars
    /\ loop' = "publish"
    /\ target' = NoOne
    /\ UNCHANGED <<ctxDone, chanVars, isDone, sent, stream, current, accepted, todo>>

\* The unbuffered send completes when the caller is in its select.
Handover(s) ==
    /\ loop = "send" /\ target = s
    /\ Goto(s, "wait", "unsubscribe")
    /\ Return(s, "proof")
    /\ loop' = "publish"
    /\ target' = NoOne
    /\ UNCHANGED <<ctxDone, chanVars, isDone, sent, stream, current, accepted, todo>>

\* The callback of SubscribeToRounds: it sends whatever the round is.
CallWaiter(w) ==
    /\ loop = "publish" /\ w \in todo
    /\ todo' = todo \ {w}
    /\ loop' = "send"
    /\ target' = w
    /\ UNCHANGED <<callVars, ctxDone, chanVars, isDone, sent, stream, current, accepted>>

\* The send to a channel of capacity one completes when it is empty.
Buffer(w) ==
    /\ loop = "send" /\ target = w
    /\ w \notin buffered /\ w \notin closed
    /\ buffered' = buffered \cup {w}
    /\ loop' = "publish"
    /\ target' = NoOne
    /\ UNCHANGED <<callVars, ctxDone, closed, isDone, sent, stream,
                   current, accepted, todo>>

Published ==
    /\ loop = "publish" /\ todo = {}
    /\ loop' = "next"
    /\ accepted' = {}
    /\ UNCHANGED <<callVars, ctxDone, chanVars, isDone, sent, stream,
                   current, todo, target>>
-----------------------------------------------------------------------------
Send(s) ==
    \/ Subscribe(s) \/ SubscribeFails(s)
    \/ SendWithoutWait(s) \/ SendFails(s)
    \/ SendTimeout(s)
    \/ Unsubscribe(s) \/ Close(s)

WaitForFirstRound(w) ==
    \/ CheckCurrent(w) \/ SubscribeToRounds(w)
    \/ ReceiveRound(w) \/ WaitTimeout(w) \/ WaitCancelled(w)
    \/ Unsubscribe(w) \/ Close(w)

HandleQuorum ==
    \/ FetchFails \/ Fetched \/ Published
    \/ \E s \in Senders : SkipSender(s) \/ CallSender(s) \/ Handover(s)
    \/ \E w \in Waiters : CallWaiter(w) \/ Buffer(w)

Next ==
    \/ \E p \in Callers : Cancel(p)
    \/ \E s \in Senders : Send(s)
    \/ \E w \in Waiters : WaitForFirstRound(w)
    \/ \E A \in SUBSET sent : NewRound(A)
    \/ HandleQuorum

Spec == Init /\ [][Next]_vars

\* Every goroutine that can run is scheduled, timers fire, fetches return
\* within their 30 seconds.  Nothing makes a round arrive or a context end.
Fairness ==
    /\ WF_vars(HandleQuorum)
    /\ \A s \in Senders : WF_vars(Send(s))
    /\ \A w \in Waiters : WF_vars(WaitForFirstRound(w))

FairSpec == Spec /\ Fairness
-----------------------------------------------------------------------------
PCs == {"start", "publish", "subscribe", "wait", "unsubscribe", "close", "done"}

\* The variables hold what they can hold, and the loop is in a channel send
\* exactly when it has a target.
TypeOK ==
    /\ pc \in [Callers -> PCs]
    /\ result \in [Callers -> {"none", "error", "ok", "proof", "ErrTimeout", "ErrNoRound"}]
    /\ ctxDone \subseteq Callers /\ closed \subseteq Callers
    /\ buffered \subseteq Waiters /\ isDone \subseteq Senders
    /\ sent \subseteq Abrs /\ stream \subseteq Callers
    /\ current \in 0 .. MaxHeight
    /\ loop \in {"next", "fetch", "publish", "send"}
    /\ accepted \subseteq Abrs /\ todo \subseteq Callers
    /\ target \in Callers \cup {NoOne}
    /\ loop = "send" <=> target # NoOne

\* The loop never sends on a closed channel, which would panic: a caller closes
\* its channel only after it has unsubscribed under the lock the loop holds
\* from before it looks at the subscriptions until after the last callback.
NoSendOnClosedChannel == loop = "send" => target \notin closed

\* A call of Send that has its proof is never offered another one, although a
\* later round is handled before it has unsubscribed and may list its request.
NoSecondProof == loop = "send" => result[target] # "proof"

\* A callback that will never act again has delivered its proof, is delivering
\* it, or its caller's context was done: isDone is not set for any other reason.
NoProofForgotten ==
    \A s \in isDone : s \in ctxDone \/ result[s] = "proof" \/ target = s

\* The loop is stuck in a callback whose caller has left its select.
Wedged ==
    /\ loop = "send"
    /\ \/ target \in Senders /\ pc[target] \notin {"publish", "wait"}
       \/ target \in Waiters /\ target \in buffered /\ pc[target] # "wait"

\* Nothing ends that: the caller waits for rs.Lock and the loop holds it.
WedgedForever == [][Wedged => Wedged']_vars

\* Every call of Send and WaitForFirstRound comes to its end, except when the
\* loop is wedged: no other interleaving blocks anybody for ever.
CallsReturnUnlessWedged ==
    <>((\A p \in Callers : pc[p] = "done") \/ Wedged)

\* The inductive invariant, in parts.  A caller is in the stream only between its
\* subscribe and its unsubscribe, and closes its channel after both.
Subscribed == \A p \in stream : pc[p] \in {"publish", "wait", "unsubscribe"}
ClosedAtEnd == \A p \in closed : pc[p] = "done"

\* Whom the loop has still to call, or is sending to, is in the stream; it has
\* nobody to call before it has fetched the round.
CallsSubscribed ==
    /\ todo \subseteq stream
    /\ loop \in {"next", "fetch"} => todo = {}
    /\ target # NoOne => target \in stream

\* A sender that has its proof, or is being sent one, is done as a subscriber.
ProofMeansDone ==
    /\ \A s \in Callers : result[s] = "proof" =>
         s \in isDone /\ pc[s] \in {"unsubscribe", "close", "done"}
    /\ target \in Senders => target \in isDone /\ result[target] # "proof"

Orderly == Subscribed /\ ClosedAtEnd /\ CallsSubscribed /\ ProofMeansDone

\* "continue on, people still care" (roundsubscriber.go:158): when the callback goes
\* on to send the proof, its caller has not stopped waiting for it.
PeopleStillCare ==
    [][\A s \in Senders :
         loop # "send" /\ loop' = "send" /\ target' = s => pc[s] \in {"publish", "wait"}]_vars
=============================================================================
