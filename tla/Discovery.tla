------------------------------ MODULE Discovery ------------------------------
(***************************************************************************)
(* Peer discovery of one namespace on one host (p2p/discovery.go and the   *)
(* discovery calls of p2p/p2p.go).                                         *)
(*                                                                         *)
(* StartDiscovery finds or makes the namespace's discoverer under the      *)
(* host's lock and starts it without: a start advertises, opens a search   *)
(* and only then sets started.  The peers a search finds are counted, each *)
(* by a goroutine of its own, and the count is published to the calls of   *)
(* WaitForDiscovery, which are woken by goroutines that send on a channel. *)
(*                                                                         *)
(* A peer is counted whether or not Connect succeeds, so the outcome is    *)
(* left out, and so are peer infos without an id, which are ignored.       *)
(***************************************************************************)
EXTENDS Naturals, FiniteSets

CONSTANTS
    Starts,         \* calls of StartDiscovery, and starts made by Bootstrap
    Waits,          \* calls of WaitForDiscovery
    NumOf,          \* the number each of them waits for
    Discoverers,    \* the tupeloDiscoverers the namespace may have, one after the other
    Peers,          \* the peers a search may find
    None            \* no discoverer, no call

ASSUME DiscoveryAssumption ==
    /\ NumOf \in [Waits -> Nat]
    /\ Discoverers # {} /\ None \notin Discoverers \cup Starts

VARIABLES
    discoverer,     \* h.discoverers[namespace]
    made,           \* the discoverers made so far
    started,        \* the discoverers with td.started
    cancelFunc,     \* per discoverer: the start whose context td.cancelFunc ends
    cancelled,      \* the starts whose context is done
    spc, std,       \* per start: where it is, and its discoverer
    advertising,    \* the starts with an advertise loop or a retry timer
    searching,      \* the starts whose search is open
    found,          \* per start: the peers its search has delivered
    connecting,     \* per start: the peers being connected to
    connected,      \* per discoverer: td.connected
    events,         \* the counts on their way to td.events.Publish
    wpc, wtd,       \* per wait: where it is, and its discoverer
    sends,          \* per wait: the goroutines that send on its doneChan
    result,         \* per wait: what it returns
    panicked        \* a goroutine sent on a closed channel: the process is gone

startVars == <<made, started, cancelFunc, cancelled, spc, std, advertising>>
searchVars == <<searching, found, connecting>>
waitVars == <<wpc, wtd, sends, result>>
vars == <<discoverer, startVars, searchVars, connected, events, waitVars, panicked>>

\* WithDiscoveryNamespaces makes the discoverer with the host.
Init ==
    /\ discoverer \in {CHOOSE d \in Discoverers : TRUE, None}
    /\ made = {discoverer} \ {None}
    /\ started = {} /\ cancelled = {}
    /\ cancelFunc = [d \in Discoverers |-> None]
    /\ spc = [s \in Starts |-> "start"] /\ std = [s \in Starts |-> None]
    /\ advertising = {} /\ searching = {}
    /\ found = [s \in Starts |-> {}] /\ connecting = [s \in Starts |-> {}]
    /\ connected = [d \in Discoverers |-> 0]
    /\ events = {}
    /\ wpc = [w \in Waits |-> "start"] /\ wtd = [w \in Waits |-> None]
    /\ sends = [w \in Waits |-> 0]
    /\ result = [w \in Waits |-> "none"]
    /\ panicked = FALSE
-----------------------------------------------------------------------------
(* Starting and stopping *)

\* newTupeloDiscoverer: any one that was not there before.
newTupeloDiscoverer == CHOOSE d \in Discoverers : d \notin made

\* StartDiscovery up to discoverLock.Unlock.
StartDiscovery(s) ==
    LET d == IF discoverer = None THEN newTupeloDiscoverer ELSE discoverer
    IN  /\ spc[s] = "start"
        /\ discoverer = None => Discoverers \ made # {}
        /\ discoverer' = d
        /\ made' = made \cup {d}
        /\ std' = [std EXCEPT ![s] = d]
        /\ spc' = [spc EXCEPT ![s] = "check"]
        /\ UNCHANGED <<started, cancelFunc, cancelled, advertising, searchVars,
                       connected, events, waitVars>>

\* Bootstrap starts the discoverer there is.
Bootstrap(s) ==
    /\ spc[s] = "start" /\ discoverer # None
    /\ std' = [std EXCEPT ![s] = discoverer]
    /\ spc' = [spc EXCEPT ![s] = "check"]
    /\ UNCHANGED <<discoverer, made, started, cancelFunc, cancelled, advertising,
                   searchVars, connected, events, waitVars>>

\* "if td.started { return nil }", else the new context's cancel is kept.
CheckStarted(s) ==
    /\ spc[s] = "check"
    /\ IF std[s] \in started
         THEN /\ spc' = [spc EXCEPT ![s] = "done"]
              /\ UNCHANGED cancelFunc
         ELSE /\ spc' = [spc EXCEPT ![s] = "advertise"]
              /\ cancelFunc' = [cancelFunc EXCEPT ![std[s]] = s]
    /\ UNCHANGED <<discoverer, made, started, cancelled, std, advertising,
                   searchVars, connected, events, waitVars>>

\* constantlyAdvertise leaves a loop or, with an empty table, a retry timer.
Advertise(s) ==
    /\ spc[s] = "advertise"
    /\ spc' = [spc EXCEPT ![s] = "find"]
    /\ advertising' = advertising \cup {s}
    /\ UNCHANGED <<discoverer, made, started, cancelFunc, cancelled, std,
                   searchVars, connected, events, waitVars>>

FindPeers(s) ==
    /\ spc[s] = "find"
    /\ spc' = [spc EXCEPT ![s] = "set"]
    /\ searching' = searching \cup {s}
    /\ UNCHANGED <<discoverer, made, started, cancelFunc, cancelled, std, advertising,
                   found, connecting, connected, events, waitVars>>

\* Either of them fails: start returns the error, and cancelFunc stays.
StartFails(s) ==
    /\ spc[s] \in {"advertise", "find"}
    /\ spc' = [spc EXCEPT ![s] = "done"]
    /\ UNCHANGED <<discoverer, made, started, cancelFunc, cancelled, std, advertising,
                   searchVars, connected, events, waitVars>>

SetStarted(s) ==
    /\ spc[s] = "set"
    /\ spc' = [spc EXCEPT ![s] = "done"]
    /\ started' = started \cup {std[s]}
    /\ UNCHANGED <<discoverer, made, cancelFunc, cancelled, std, advertising,
                   searchVars, connected, events, waitVars>>

\* Mutant of Stop: neither started nor cancelFunc is looked at.
StopUnchecked(d) ==
    /\ cancelled' = cancelled \cup {cancelFunc[d]}
    /\ cancelFunc' = [cancelFunc EXCEPT ![d] = None]
    /\ started' = started \ {d}

\* tupeloDiscoverer.stop, for a discoverer that is started.
Stop(d) ==
    IF d \in started /\ cancelFunc[d] # None
      THEN /\ cancelled' = cancelled \cup {cancelFunc[d]}
           /\ cancelFunc' = [cancelFunc EXCEPT ![d] = None]
           /\ started' = started \ {d}
      ELSE UNCHANGED <<started, cancelFunc, cancelled>>

\* Mutant of StopDiscovery: the stopped discoverer is kept.
StopDiscoveryKept ==
    /\ discoverer # None
    /\ Stop(discoverer)
    /\ UNCHANGED <<discoverer, made, spc, std, advertising, searchVars,
                   connected, events, waitVars>>

StopDiscovery ==
    /\ discoverer # None
    /\ Stop(discoverer)
    /\ discoverer' = None
    /\ UNCHANGED <<made, spc, std, advertising, searchVars, connected, events, waitVars>>

\* The advertise loop ends with its context, or with an error.
AdvertiseEnds(s) ==
    /\ s \in advertising
    /\ advertising' = advertising \ {s}
    /\ UNCHANGED <<discoverer, made, started, cancelFunc, cancelled, spc, std,
                   searchVars, connected, events, waitVars>>
-----------------------------------------------------------------------------
(* Counting peers *)

\* "numConnected := atomic.AddUint64(&td.connected, 1)"; the event comes later.
Count(d) ==
    /\ connected' = [connected EXCEPT ![d] = @ + 1]
    /\ events' = events \cup {[td |-> d, n |-> connected[d] + 1]}

\* handleNewPeerInfo of a peer that is not connected yet starts a goroutine.
NewPeer(s, p) ==
    /\ s \in searching /\ p \notin found[s]
    /\ found' = [found EXCEPT ![s] = @ \cup {p}]
    /\ connecting' = [connecting EXCEPT ![s] = @ \cup {p}]
    /\ UNCHANGED <<discoverer, startVars, searching, connected, events, waitVars>>

\* A peer that is connected already is counted at once.
KnownPeer(s, p) ==
    /\ s \in searching /\ p \notin found[s]
    /\ found' = [found EXCEPT ![s] = @ \cup {p}]
    /\ Count(std[s])
    /\ UNCHANGED <<discoverer, startVars, searching, connecting, waitVars>>

\* Connect has returned, with or without an error.
Connect(s, p) ==
    /\ p \in connecting[s]
    /\ connecting' = [connecting EXCEPT ![s] = @ \ {p}]
    /\ Count(std[s])
    /\ UNCHANGED <<discoverer, startVars, searching, found, waitVars>>

\* The search delivers no more peers, or its context is done.
SearchEnds(s) ==
    /\ s \in searching
    /\ searching' = searching \ {s}
    /\ UNCHANGED <<discoverer, startVars, found, connecting, connected, events, waitVars>>
-----------------------------------------------------------------------------
(* WaitForDiscovery *)

\* The waits between Subscribe and Unsubscribe.
Subscribers == {w \in Waits : wpc[w] \in {"load", "select", "close", "unsubscribe"}}

\* Mutant of Wakes: one less is enough.
WakesEarly(w, n) == n + 1 >= NumOf[w]

\* "stats.Connected >= uint64(num)"
Wakes(w, n) == n >= NumOf[w]

\* td.events.Publish calls the callbacks: each starts a goroutine or returns.
Publish(e) ==
    /\ e \in events
    /\ events' = events \ {e}
    /\ sends' = [w \in Waits |->
         IF w \in Subscribers /\ wtd[w] = e.td /\ Wakes(w, e.n)
           THEN sends[w] + 1 ELSE sends[w]]
    /\ UNCHANGED <<discoverer, startVars, searchVars, connected, wpc, wtd, result>>

WaitForDiscovery(w) ==
    /\ wpc[w] = "start"
    /\ IF discoverer = None
         THEN /\ wpc' = [wpc EXCEPT ![w] = "done"]
              /\ result' = [result EXCEPT ![w] = "missing"]
         ELSE /\ wpc' = [wpc EXCEPT ![w] = "subscribe"]
              /\ UNCHANGED result
    /\ wtd' = [wtd EXCEPT ![w] = discoverer]
    /\ UNCHANGED <<discoverer, startVars, searchVars, connected, events, sends>>

Subscribe(w) ==
    /\ wpc[w] = "subscribe"
    /\ wpc' = [wpc EXCEPT ![w] = "load"]
    /\ UNCHANGED <<discoverer, startVars, searchVars, connected, events, wtd, sends, result>>

\* Mutant of Load: only events wake, the count there already is does not.
LoadIgnored(w) ==
    /\ wpc[w] = "load"
    /\ wpc' = [wpc EXCEPT ![w] = "select"]
    /\ UNCHANGED <<discoverer, startVars, searchVars, connected, events, wtd, sends, result>>

\* "currCount := atomic.LoadUint64(&td.connected)"
Load(w) ==
    /\ wpc[w] = "load"
    /\ wpc' = [wpc EXCEPT ![w] = "select"]
    /\ sends' = [sends EXCEPT ![w] = IF Wakes(w, connected[wtd[w]]) THEN @ + 1 ELSE @]
    /\ UNCHANGED <<discoverer, startVars, searchVars, connected, events, wtd, result>>

Receive(w) ==
    /\ wpc[w] = "select" /\ sends[w] > 0
    /\ sends' = [sends EXCEPT ![w] = @ - 1]
    /\ wpc' = [wpc EXCEPT ![w] = "close"]
    /\ result' = [result EXCEPT ![w] = "ok"]
    /\ UNCHANGED <<discoverer, startVars, searchVars, connected, events, wtd>>

\* Mutant of Timeout: the select has no timer.
TimeoutNever(w) == FALSE

Timeout(w) ==
    /\ wpc[w] = "select"
    /\ wpc' = [wpc EXCEPT ![w] = "close"]
    /\ result' = [result EXCEPT ![w] = "timeout"]
    /\ UNCHANGED <<discoverer, startVars, searchVars, connected, events, wtd, sends>>

\* "close(doneChan)", then "td.events.Unsubscribe(sub)"
Close(w) ==
    /\ wpc[w] = "close"
    /\ wpc' = [wpc EXCEPT ![w] = "unsubscribe"]
    /\ UNCHANGED <<discoverer, startVars, searchVars, connected, events, wtd, sends, result>>

Unsubscribe(w) ==
    /\ wpc[w] = "unsubscribe"
    /\ wpc' = [wpc EXCEPT ![w] = "done"]
    /\ UNCHANGED <<discoverer, startVars, searchVars, connected, events, wtd, sends, result>>

\* A goroutine sends on the closed channel: the whole process panics.
SendOnClosed(w) ==
    /\ wpc[w] \in {"unsubscribe", "done"} /\ sends[w] > 0
    /\ panicked' = TRUE
    /\ UNCHANGED <<discoverer, startVars, searchVars, connected, events, waitVars>>
-----------------------------------------------------------------------------
Start(s) ==
    \/ StartDiscovery(s) \/ Bootstrap(s) \/ CheckStarted(s)
    \/ Advertise(s) \/ FindPeers(s) \/ StartFails(s) \/ SetStarted(s)

Search(s) ==
    \/ \E p \in Peers : NewPeer(s, p) \/ KnownPeer(s, p) \/ Connect(s, p)
    \/ SearchEnds(s) \/ AdvertiseEnds(s)

Wait(w) ==
    \/ WaitForDiscovery(w) \/ Subscribe(w) \/ Load(w)
    \/ Receive(w) \/ Timeout(w)
    \/ Close(w) \/ Unsubscribe(w)

Running ==
    \/ \E s \in Starts : Start(s) \/ Search(s)
    \/ StopDiscovery
    \/ \E e \in events : Publish(e)
    \/ \E w \in Waits : Wait(w)

Next ==
    /\ ~panicked
    /\ \/ Running /\ UNCHANGED panicked
       \/ \E w \in Waits : SendOnClosed(w)

Spec == Init /\ [][Next]_vars

\* A call of WaitForDiscovery is scheduled, and its timer fires.  Nothing makes
\* anybody start, stop, find or connect.
FairSpec ==
    Spec /\ \A w \in Waits : WF_vars(~panicked /\ Wait(w) /\ UNCHANGED panicked)
-----------------------------------------------------------------------------
\* The variables hold what they can hold.
TypeOK ==
    /\ made \subseteq Discoverers /\ discoverer \in made \cup {None}
    /\ started \subseteq made
    /\ cancelFunc \in [Discoverers -> Starts \cup {None}] /\ cancelled \subseteq Starts
    /\ spc \in [Starts -> {"start", "check", "advertise", "find", "set", "done"}]
    /\ std \in [Starts -> made \cup {None}]
    /\ advertising \subseteq Starts /\ searching \subseteq Starts
    /\ found \in [Starts -> SUBSET Peers] /\ connecting \in [Starts -> SUBSET Peers]
    /\ connected \in [Discoverers -> Nat]
    /\ events \subseteq [td : made, n : Nat]
    /\ wpc \in [Waits -> {"start", "subscribe", "load", "select", "close",
                          "unsubscribe", "done"}]
    /\ wtd \in [Waits -> made \cup {None}]
    /\ sends \in [Waits -> Nat]
    /\ result \in [Waits -> {"none", "ok", "timeout", "missing"}]
    /\ panicked \in BOOLEAN

\* Whoever has begun has a discoverer.
Begun ==
    /\ \A s \in Starts :
         /\ spc[s] # "start" => std[s] # None
         /\ s \in searching \/ connecting[s] # {} => spc[s] # "start"
    /\ \A w \in Waits : wpc[w] \notin {"start", "done"} => wtd[w] # None

\* No count is missed: while a call waits although its number is reached, either
\* a goroutine is there to wake it or the event that will start one is.
NoMissedCount ==
    \A w \in Waits : wpc[w] = "select" /\ connected[wtd[w]] >= NumOf[w] =>
        \/ sends[w] > 0
        \/ \E e \in events : e.td = wtd[w] /\ e.n >= NumOf[w]

\* WaitForDiscovery succeeds only when its discoverer has counted to the number.
SuccessWasCounted ==
    \A w \in Waits : result[w] = "ok" => connected[wtd[w]] >= NumOf[w]

\* A namespace whose discoverer says it is started can be stopped: its
\* cancelFunc is there and ends a context that is not done yet.
StartedCanBeStopped ==
    discoverer \in started =>
        cancelFunc[discoverer] # None /\ cancelFunc[discoverer] \notin cancelled

\* The inductive parts.  Counts on their way, and goroutines that wake a wait, stand
\* for counts that were made.
EventsWereCounted == \A e \in events : e.n <= connected[e.td]
SendsWereCounted ==
    \A w \in Waits : sends[w] > 0 \/ result[w] = "ok" =>
        wpc[w] # "start" /\ wtd[w] # None /\ connected[wtd[w]] >= NumOf[w]

\* A cancelFunc belongs to a start of that discoverer; a start whose context is done
\* is one of a discoverer that is no longer the namespace's; and a start under way
\* on the namespace's discoverer finds a cancelFunc there.
CancelFuncIsOwn ==
    \A d \in Discoverers : cancelFunc[d] # None =>
        std[cancelFunc[d]] = d /\ spc[cancelFunc[d]] \notin {"start", "check"}
CancelledIsGone ==
    \A s \in cancelled : spc[s] \notin {"start", "check"} /\ std[s] # discoverer
UnderWayHasCancelFunc ==
    \A s \in Starts : spc[s] \in {"advertise", "find", "set"} /\ std[s] = discoverer =>
        cancelFunc[discoverer] # None
Stoppable ==
    /\ CancelFuncIsOwn /\ CancelledIsGone /\ UnderWayHasCancelFunc
    /\ StartedCanBeStopped

\* Every call of WaitForDiscovery returns, unless the process panics.
WaitReturns == \A w \in Waits : (wpc[w] # "done") ~> (wpc[w] = "done" \/ panicked)
=============================================================================
