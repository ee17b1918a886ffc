---------------------------- MODULE Bootstrapper ----------------------------
(***************************************************************************)
(* How a host keeps its connections: Host.Bootstrap and WaitForBootstrap   *)
(* (p2p/p2p.go) and the Bootstrapper they start (p2p/bootstrap.go).        *)
(*                                                                         *)
(* The bootstrapper is one goroutine.  It looks at the peers the host is   *)
(* connected to and, when they are too few, dials addresses of its list in *)
(* a random order, each from a goroutine of its own, until it has          *)
(* attempted as many as it needed at the time it looked.  It waits for all *)
(* of them, bootstraps the DHT the first time, and sleeps until the next   *)
(* tick.  Meanwhile peers come and go.                                     *)
(*                                                                         *)
(* The discoverers that Host.Bootstrap starts as well are in Discovery;    *)
(* the peers they connect to are among the ones that arrive here.          *)
(***************************************************************************)
EXTENDS Naturals, FiniteSets, FiniteSetsExt

CONSTANTS
    Peers,          \* the peers there are
    Addrs,          \* the addresses a bootstrap list may name
    PeerOf,         \* the peer an address belongs to
    Lists,          \* the lists Host.Bootstrap may be called with
    Reachable,      \* the addresses that answer a dial
    DefaultMin,     \* minPeers of Host.Bootstrap: 4
    Waits,          \* calls of WaitForBootstrap
    PeerCountOf,    \* the number of peers each of them waits for
    MaxLost         \* bound: connections lost

ASSUME BootstrapAssumption ==
    /\ IsFiniteSet(Peers) /\ IsFiniteSet(Addrs)
    /\ PeerOf \in [Addrs -> Peers]
    /\ Lists \subseteq SUBSET Addrs /\ Reachable \subseteq Addrs
    /\ DefaultMin \in Nat /\ MaxLost \in Nat
    /\ PeerCountOf \in [Waits -> Nat]

VARIABLES
    bootstrapStarted,   \* h.bootstrapStarted
    bootstrapPeers,     \* b.bootstrapPeers
    ctx,                \* b.ctx: "none", "live" or "done"
    tick,               \* a tick is waiting in b.ticker.C, which holds one
    pc,                 \* the bootstrapper's goroutine
    currentPeers,       \* in bootstrap: the peers it saw when it looked
    attempted,          \* in bootstrap: the addresses it has dialled
    dials,              \* the addresses being dialled, wg's goroutines
    dhtBootStarted,     \* b.dhtBootStarted
    warned,             \* "not enough bootstrap nodes" was logged
    connected,          \* h.host.Network().Peers()
    arrived,            \* in bootstrap: the peers that came by themselves meanwhile
    lost,               \* the connections lost so far
    wait                \* per wait: where it is

loopVars == <<pc, currentPeers, attempted, warned>>
netVars == <<connected, arrived, lost>>
vars == <<bootstrapStarted, bootstrapPeers, ctx, tick, loopVars, dials,
          dhtBootStarted, netVars, wait>>

Init ==
    /\ bootstrapStarted = FALSE /\ bootstrapPeers = {} /\ ctx = "none"
    /\ tick = FALSE /\ pc = "off" /\ currentPeers = {} /\ attempted = {}
    /\ dials = {} /\ dhtBootStarted = FALSE /\ warned = FALSE
    /\ connected = {} /\ arrived = {} /\ lost = 0
    /\ wait = [w \in Waits |-> "start"]
-----------------------------------------------------------------------------
\* Mutant of minPeers: the length of the list does not matter.
minPeersDefault == DefaultMin

\* "minPeers := 4; if len(peers) < minPeers { minPeers = len(peers) }"
minPeers == Min({DefaultMin, Cardinality(bootstrapPeers)})

\* Host.Bootstrap: NewBootstrapper, Start and the flag.
Bootstrap(list) ==
    /\ ~bootstrapStarted
    /\ bootstrapStarted' = TRUE
    /\ bootstrapPeers' = list
    /\ ctx' = "live" /\ pc' = "look"
    /\ UNCHANGED <<tick, currentPeers, attempted, warned, dials, dhtBootStarted,
                   netVars, wait>>

\* Mutant of Stop: b.cancel is not compared with nil.
StopUnchecked ==
    /\ ctx' = "done"
    /\ UNCHANGED <<bootstrapStarted, bootstrapPeers, tick, loopVars, dials,
                   dhtBootStarted, netVars, wait>>

\* Stop and Close, or the end of the context given to Start.
Stop ==
    /\ ctx = "live"
    /\ ctx' = "done"
    /\ UNCHANGED <<bootstrapStarted, bootstrapPeers, tick, loopVars, dials,
                   dhtBootStarted, netVars, wait>>

\* The ticker runs until the goroutine returns and drops ticks nobody takes.
Tick ==
    /\ pc \notin {"off", "done"} /\ ~tick
    /\ tick' = TRUE
    /\ UNCHANGED <<bootstrapStarted, bootstrapPeers, ctx, loopVars, dials,
                   dhtBootStarted, netVars, wait>>

\* Mutant of TooFew: one connection less is enough.
TooFewByTwo(peers) == Cardinality(peers) + 1 < minPeers

\* "peersNeeded := b.MinPeerThreshold - len(currentPeers)", not less than 1
TooFew(peers) == Cardinality(peers) < minPeers
peersNeeded == minPeers - Cardinality(currentPeers)

\* b.Bootstrap(b.d.Peers()), up to the early return.
Look ==
    /\ pc = "look"
    /\ IF TooFew(connected)
         THEN pc' = "dial" /\ currentPeers' = connected
         ELSE pc' = "select" /\ UNCHANGED currentPeers
    /\ UNCHANGED <<bootstrapStarted, bootstrapPeers, ctx, tick, attempted, warned, dials,
                   dhtBootStarted, netVars, wait>>

\* The addresses the loop over rand.Perm can come to next: hasPID skips those
\* of the peers that were connected.
Candidates == {a \in bootstrapPeers \ attempted : PeerOf[a] \notin currentPeers}

\* Mutant of EnoughAttempted: one more than needed.
MoreThanEnough(tried) == Cardinality(tried) > peersNeeded

\* "peersAttempted == peersNeeded"
EnoughAttempted(tried) == Cardinality(tried) = peersNeeded

\* wg.Add and the goroutine that calls Connect.
Dial(a) ==
    /\ pc = "dial" /\ a \in Candidates
    /\ attempted' = attempted \cup {a} /\ dials' = dials \cup {a}
    /\ pc' = IF EnoughAttempted(attempted') THEN "join" ELSE "dial"
    /\ UNCHANGED <<bootstrapStarted, bootstrapPeers, ctx, tick, currentPeers, warned,
                   dhtBootStarted, netVars, wait>>

NotEnoughNodes ==
    /\ pc = "dial" /\ Candidates = {}
    /\ warned' = TRUE /\ pc' = "join"
    /\ UNCHANGED <<bootstrapStarted, bootstrapPeers, ctx, tick, currentPeers, attempted,
                   dials, dhtBootStarted, netVars, wait>>

\* Connect returns.  An error, ConnectionTimeout and the end of b.ctx are logged.
ConnectFails(a) ==
    /\ a \in dials
    /\ dials' = dials \ {a}
    /\ UNCHANGED <<bootstrapStarted, bootstrapPeers, ctx, tick, loopVars,
                   dhtBootStarted, netVars, wait>>

ConnectSucceeds(a) ==
    /\ a \in dials /\ (a \in Reachable \/ PeerOf[a] \in connected)
    /\ dials' = dials \ {a}
    /\ connected' = connected \cup {PeerOf[a]}
    /\ UNCHANGED <<bootstrapStarted, bootstrapPeers, ctx, tick, loopVars,
                   dhtBootStarted, arrived, lost, wait>>

\* The deferred function: wg.Wait, all dials have returned; the DHT is bootstrapped once.
Join ==
    /\ pc = "join" /\ dials = {}
    /\ dhtBootStarted' = TRUE /\ pc' = "select"
    /\ currentPeers' = {} /\ attempted' = {} /\ arrived' = {}
    /\ UNCHANGED <<bootstrapStarted, bootstrapPeers, ctx, tick, warned, dials, connected,
                   lost, wait>>

TakeTick ==
    /\ pc = "select" /\ tick
    /\ tick' = FALSE /\ pc' = "look"
    /\ UNCHANGED <<bootstrapStarted, bootstrapPeers, ctx, currentPeers, attempted, warned,
                   dials, dhtBootStarted, netVars, wait>>

\* Mutant of ContextDone: the loop only waits for ticks.
ContextNeverDone == FALSE

\* "case <-b.ctx.Done(): return"
ContextDone ==
    /\ pc = "select" /\ ctx = "done"
    /\ pc' = "done" /\ tick' = FALSE
    /\ UNCHANGED <<bootstrapStarted, bootstrapPeers, ctx, currentPeers, attempted, warned,
                   dials, dhtBootStarted, netVars, wait>>
-----------------------------------------------------------------------------
\* Inside bootstrap, with fewer peers than the threshold when it looked.
Bootstrapping == pc \in {"dial", "join"}

\* The network: a peer connects to the host, or is discovered; one is lost.
PeerArrives(p) ==
    /\ p \notin connected
    /\ connected' = connected \cup {p}
    /\ arrived' = IF Bootstrapping THEN arrived \cup {p} ELSE arrived
    /\ UNCHANGED <<bootstrapStarted, bootstrapPeers, ctx, tick, loopVars, dials,
                   dhtBootStarted, lost, wait>>

PeerLeaves(p) ==
    /\ p \in connected /\ lost < MaxLost
    /\ connected' = connected \ {p} /\ arrived' = arrived \ {p}
    /\ lost' = lost + 1
    /\ UNCHANGED <<bootstrapStarted, bootstrapPeers, ctx, tick, loopVars, dials,
                   dhtBootStarted, wait>>
-----------------------------------------------------------------------------
\* "error must call Bootstrap() before calling WaitForBootstrap"
WaitForBootstrap(w) ==
    /\ wait[w] = "start"
    /\ wait' = [wait EXCEPT ![w] = IF bootstrapStarted THEN "select" ELSE "done"]
    /\ UNCHANGED <<bootstrapStarted, bootstrapPeers, ctx, tick, loopVars, dials,
                   dhtBootStarted, netVars>>

\* A tick of its own ticker; one that finds too few peers changes nothing.
WaitSucceeds(w) ==
    /\ wait[w] = "select" /\ Cardinality(connected) >= PeerCountOf[w]
    /\ wait' = [wait EXCEPT ![w] = "done"]
    /\ UNCHANGED <<bootstrapStarted, bootstrapPeers, ctx, tick, loopVars, dials,
                   dhtBootStarted, netVars>>

\* Mutant of WaitTimesOut: the wait has no timer.
WaitTimesOutNever(w) == FALSE

\* "timeout waiting for bootstrap"
WaitTimesOut(w) ==
    /\ wait[w] = "select"
    /\ wait' = [wait EXCEPT ![w] = "done"]
    /\ UNCHANGED <<bootstrapStarted, bootstrapPeers, ctx, tick, loopVars, dials,
                   dhtBootStarted, netVars>>
-----------------------------------------------------------------------------
Loop ==
    \/ Look \/ (\E a \in Addrs : Dial(a)) \/ NotEnoughNodes
    \/ Join \/ TakeTick \/ ContextDone

Network ==
    \/ \E a \in Addrs : ConnectFails(a) \/ ConnectSucceeds(a)
    \/ \E p \in Peers : PeerArrives(p) \/ PeerLeaves(p)

Wait(w) == WaitForBootstrap(w) \/ WaitSucceeds(w) \/ WaitTimesOut(w)

Next ==
    \/ \E list \in Lists : Bootstrap(list)
    \/ Stop \/ Tick \/ Loop \/ Network
    \/ \E w \in Waits : Wait(w)

Spec == Init /\ [][Next]_vars

\* The goroutine runs and the ticker ticks.  A dial returns, within the timeout of its
\* context, and one that answers does not fail for ever.  rand.Perm does not put an
\* address last for ever, and neither does select a ready ctx.Done.  A wait that has
\* been called runs, and its timer fires.
Fairness ==
    /\ WF_vars(Loop) /\ WF_vars(Tick) /\ SF_vars(ContextDone)
    /\ \A w \in Waits : WF_vars(WaitSucceeds(w) \/ WaitTimesOut(w))
    /\ \A a \in Addrs :
         /\ WF_vars(ConnectFails(a) \/ ConnectSucceeds(a))
         /\ SF_vars(Dial(a))
         /\ a \in Reachable => SF_vars(ConnectSucceeds(a))

FairSpec == Spec /\ Fairness
-----------------------------------------------------------------------------
\* The variables hold what the Go fields can hold.
TypeOK ==
    /\ bootstrapStarted \in BOOLEAN /\ bootstrapPeers \subseteq Addrs
    /\ ctx \in {"none", "live", "done"} /\ tick \in BOOLEAN
    /\ pc \in {"off", "look", "dial", "join", "select", "done"}
    /\ pc = "off" <=> ctx = "none"
    /\ currentPeers \subseteq Peers /\ attempted \subseteq bootstrapPeers
    /\ dials \subseteq bootstrapPeers
    /\ dhtBootStarted \in BOOLEAN /\ warned \in BOOLEAN
    /\ connected \subseteq Peers /\ arrived \subseteq connected /\ lost \in 0 .. MaxLost
    /\ wait \in [Waits -> {"start", "select", "done"}]

\* The bootstrapper's own dials never take the host past the threshold: whoever else
\* comes or goes while it dials, the peers that did not come by themselves meanwhile
\* are no more than the threshold.
NeverOvershoots ==
    Bootstrapping => Cardinality(connected \ arrived) <= minPeers

\* The addresses of a list belong to different peers.
Distinct(list) == \A a, b \in list : PeerOf[a] = PeerOf[b] => a = b

\* A list of different peers never runs out: there is always an address to dial for
\* every connection that is missing, because minPeers is no more than the list has.
ListSuffices == Distinct(bootstrapPeers) => ~warned

\* Lost connections are made up for.  Unless the bootstrapper is stopped, the host has
\* again and again enough connections, or every peer of its list that answers.
PeersOf(list) == {PeerOf[a] : a \in list}
Restored ==
    \/ Cardinality(connected) >= minPeers
    \/ PeersOf(bootstrapPeers \cap Reachable) \subseteq connected

ConnectionsRestored == []<>(ctx = "done" \/ Restored)

\* Stop ends the goroutine, whatever it was doing and although ticks go on.
StopEnds == []<>(ctx = "done" => pc = "done")

\* WaitForBootstrap comes back although the peers it counts come and go between its ticks,
\* and although the list may not have as many as it asks for.
BootstrapWaitReturns == \A w \in Waits : wait[w] = "select" ~> wait[w] = "done"
=============================================================================
