# TLA+ verification of tupelo-go-sdk

This project models the core of the SDK: how a client follows the rounds of a
notary group, how it gets proofs for the blocks it sends, how trees of different
sessions stay on the chain the group has agreed on, how tokens move between
trees, how a host finds peers and keeps its connections, and how all of it runs
in a browser behind JavaScript promises. Every definition is a translation of Go
code; `PROJECT.json` ("map") names the lines.

## 1. The system

| component | state | operations | talks to |
|---|---|---|---|
| round subscriber (`gossip/client/roundsubscriber.go`) | `current`, `inflight` conflict sets, an event stream, one `RWMutex` | `start`, `handleMessage`, `handleQuorum`, `subscribe`, `unsubscribe` | pubsub (messages in), bitswap (fetches under the lock), callbacks of `Client` |
| BLS aggregation (`signatures/signature.go`, `bls/bls.go`) | none | `AggregateBLSSignatures`, `SignerCount`, `RestoreBLSPublicKey`, `Valid` | used by the subscriber and by proof verification |
| notary group (`gossip/types/notarygroup.go`) | ordered signers | `QuorumCount`, `AddSigner` | read by everybody |
| client (`gossip/client/client.go`) | the subscriber; per call a channel, a timer and a context | `Send`, `WaitForFirstRound`, `PlayTransactions`, `GetTip`, `GetLatest` | subscriber, pubsub, node store |
| add block requests (`gossip/client/processblocks.go`, `reftracking.go`) | tracked nodes of one call | `NewAddBlockRequest` | chaintree library, node store |
| rounds, checkpoints (`gossip/types/rounds.go`) | cached CIDs | `FetchCompletedRound`, `FetchCheckpoint`, `FetchHamt` | node store |
| proofs (`proof/proof.go`) | none | `Verify` | BLS |
| block validators (`gossip/types/validators.go`) | none | `IsTokenRecipient`, `GenerateHasValidProof`, `HasBurnGenerator`, `IsOwner` | run by the signers |
| token ledger, transactions (`consensus/tree_ledger.go`, `consensus/transactions.go`) | the token nodes of a tree | establish, mint, send, receive, payloads | chaintree library |
| peer discovery (`p2p/discovery.go`, `p2p/p2p.go`) | the host's discoverers; per discoverer `started`, `cancelFunc`, a count and an event stream | `StartDiscovery`, `StopDiscovery`, `WaitForDiscovery`, `start`, `stop`, `findPeers`, `waitForNumber` | libp2p, the bootstrapper |
| bootstrapper (`p2p/bootstrap.go`, `p2p/p2p.go`) | ticker, context, the dials of one round, DHT flag | `Bootstrap`, `WaitForBootstrap`, `Start`, `Stop`, `bootstrap` | libp2p, discovery |
| signed trees, ownership (`consensus/signedtree.go`, `consensus/consensus.go`) | a tree's authentications | `SignBlock`, `IsBlockSignedBy`, `Authentications`, `SetOwnership` | validators, client |
| JavaScript promises (`wasm/then/then.go`) | `result`, `err`, callbacks | `then`, `Resolve`, `Reject` | JavaScript |
| JavaScript node store, pubsub (`wasm/jsstore`, `wasm/jspubsub`) | per call a channel and two functions; per subscription a channel | `Add`, `Get`, `Remove`, `Publish`, `Subscribe`, `QueueJS`, `Next` | JavaScript, the subscriber and the client |
| JavaScript client (`wasm/main.go`, `wasm/jsclient`) | `clientSingleton` | `startClient`, `playTransactions`, `waitForRound`, `getTip`, ... | all of the above |
| configuration, tracing, test helpers | | | |

What is hard here:

* **A lock held across everything.** `handleMessage` keeps `rs.Lock` while it
  fetches for up to 30 s and while it calls every subscriber; `Send` needs that
  lock to subscribe and to leave.
* **Channels with deferred closes.** `Send` unsubscribes, then closes; the
  callback sends on an unbuffered channel.
* **Unreliable pubsub.** Confirmations are lost, repeated and reordered, and
  every repeat is aggregated again into counters of type `uint32`.
* **Check, then act.** `rs.current` is compared before the lock is taken;
  `WaitForFirstRound` looks, then subscribes.
* **Timeouts.** `Send` may report `ErrTimeout` for a request that is accepted later.
* **Handovers.** A tree may change hands while requests on it are under way.
* **Flags without a lock.** A discoverer's `started` and `cancelFunc` are set
  around network calls, by starts and stops that may overlap.
* **Snapshots.** The bootstrapper counts its peers, then dials for as long as 20 s
  while peers come and go.
* **Two schedulers.** In a browser JavaScript runs only while every goroutine is
  parked; a Go call waits for a promise which may settle after the call has given up,
  some of them with `rs.Lock` held, and JavaScript may ask a `Then` before or after
  it is answered.
* **Forks.** Fewer than a third of the signers may sign two rounds of one height.
* **Replayed payloads and wrapping sums.** A token payload is data anybody can
  present again, under an id the receiver chooses; balances and limits are `uint64`
  sums.
* **Unsigned heights.** A confirmation's signature covers the round's CID; the height
  that orders confirmations is a field of the message.

`PROJECT.json` lists these as hazards with the line where each one bites and the
properties that watch it.

## 2. Modules

| module | models |
|---|---|
| `NotaryRounds` | abstract specification: the group decides at most one round per height, a client adopts decided rounds only, at growing heights as it is told them |
| `RoundSubscriber` | clients, receive loops, aggregation, quorum, `handleQuorum` |
| `RoundSubscriberProofs` | its theorems |
| `ClientSend` | one client's goroutines: the receive loop with its callbacks, calls of `Send` and of `WaitForFirstRound` |
| `ClientSendProofs` | its theorems |
| `ChainTreeClient` | sessions that play on chain trees, ownership, proofs and their verification |
| `ChainTreeClientProofs` | its theorems |
| `TokenLedger` | token nodes of several trees and the payloads between them |
| `TokenLedgerProofs` | its theorems |
| `FoldLemmas` | what the folds of the community modules compute, for both of these |
| `Discovery` | one namespace of one host: starts, stops, searches, waits |
| `DiscoveryProofs` | its theorems |
| `Bootstrapper` | one host's bootstrapper, the peers that come and go, calls of `WaitForBootstrap` |
| `BootstrapperProofs` | its theorems |
| `JSBridge` | Go calls that wait for a JavaScript promise |
| `Thenable` | the `Then`s that JavaScript awaits |
| `JSPubSub` | a subscription whose messages come from JavaScript |
| `JSClient` | composes the last three with the methods JavaScript calls and with the receive loop |
| `JSClientProofs` | theorems about these four |
| `MC...` | constants, sets and symmetries for TLC |

### RoundSubscriber

`current`, `inflight` and `lock` are the fields of the Go struct, `checked` is the
local variable `confirmation` of a loop that has passed the unlocked checks, and
`published` records the notifications. `heard` is for the properties: whose
signatures, for which round and height, have reached the conflict sets. A signature
is its vector of signer counts. `Check` is `handleMessage` up to `rs.Lock()`; `AddFails`, `Add` and
`MakeQuorum` are what follows under the lock, up to the first fetch; `Publish` and
`FetchFails` end `handleQuorum`. `Sign` is the external group: a signer that is
not in `Faulty` signs one round per height. The topic is not a variable: any
confirmation that verifies may be received at any time, any number of times,
which includes loss, repetition and reordering. A subscriber has as many loops as
`start` was called (`Loops`); the code calls it once per client and nothing
prevents a second call, so the properties that need one loop say so.

A confirmation's `Height` is a field of the message that no signature covers and
nothing compares with the height in the round: any of `Heights` may come with any
round (`Confirmations`). The conflict sets, `IsStale`, the pruning and the order of
notifications go by that field, as in the code; `Agreement` is about the rounds' own
heights (`HeightOf`), which the signers do vouch for. So what orders a client's
rounds is what it was told: an old decided round may be adopted after a newer one when
its confirmation comes with a larger `Height`, and a confirmation with a very large
one makes all later ones stale. Neither contradicts a line of the repository; they are
in the hazard list. `PublishedInOrder`, `HeardRoundReached` and `NotaryRounds` speak
of the heights in the messages and claim no more.

### ClientSend

The lock is not a variable: only the loop holds it for more than a step, so it is
free exactly when `loop = "next"`. `pc` follows the statements of each call that
touch shared state; `Unsubscribe` and `Close` are the deferred calls in Go's
order. A callback is two steps, the decision (`SkipSender`, `CallSender`) and the
channel send (`Handover`, which needs the receiver in its select). The event
stream calls subscribers in any order. A request may be listed by more than one
round, and two calls may send the same request. `Wedged` describes a loop that
sends to a caller which has left its select.

`handleQuorum` makes a round current before it fetches it, and `WaitForFirstRound`
looks before it subscribes. After a fetch that fails, or a round in between, nobody tells
the call, which ends with `ErrNoRound`, "no current round found", although there is one.

### ChainTreeClient

A tip is the sequence of the blocks played, which is what a content address
stands for. `CompleteRound` is the external group: it accepts at most one request
per object and round, on top of the object's tip. `AdoptRound`, `Notify` and
`FetchFails` are the subscriber, with rounds skipped freely; the handover of a
proof over the channel is one step here because `ClientSend` models it in detail.
A session uses its `SignedChainTree` for one call at a time, several sessions
share an object, and sessions share clients. That a client's rounds come in the
order of the rounds' own heights is an assumption of this module: it holds while the
confirmations on the topic carry the heights of their rounds (see RoundSubscriber).
`TreeAdvances` rests on it. `NewAddBlockRequest`, `Send`,
`SendFails` and `StoreProof` are `PlayTransactions`; `GetTip`, `GetLatest` and
`GetLatestFails` are `GetLatest`. `Verify` follows `proof.Verify` test by test;
`Parts` are all proofs that can be put together from requests, rounds and
checkpoints that exist.

A block is its transactions and the key that signed it. The state of a tree is
abstracted to who owns it: `Authentications` plays the blocks of a tip one after
the other (`PlayOwnership`), beginning with the genesis key. `IsOwner` is run on
the tree a block is to be played on, by `NewAddBlockRequest`, by the group and
again by `GetLatest`. Trees are taken to have the group's validators, which
`NewAddBlockRequest` gives every tree without validators of its own. A handover
to an empty list of keys is left out.

### TokenLedger

A tree maps token names to token nodes, each with its policy, mints, sends,
receives and stored balance. The actions are the four transactions on a tree that
holds them alone (single-transaction blocks) and `MakePayload`, which is
`TokenPayloadForTransaction`. Names may be canonical or short. Sums wrap at
`MaxUint`. Nodes are content-addressed: a payload that carries a token node can be
read as a payload of every name whose node is equal (`NamesInPayload`). So
`GetTokenNameFromReceive`, which says it returns the name of the sent token, may return
that of another; `ReceivedWasSent` and `NoInflation` hold with it. The id a send
is received under is `SendTokenTransactionId` of the receiver's transaction, any of
`Ids`: it is compared with the ids received before and with nothing else, neither by
`ReceiveTokenTransaction` nor by `IsTokenRecipient`. One send can therefore be credited
more than once (`ledger_double_receive`), and `NoInflation` is stated of the tokens
whose receivers gave the ids of the sends (`ReceivedUnderSentIds`). Minting a token without a policy
node fails, which is how the code's use of `ResolveInto` is read. In Go the order
of a map is arbitrary, hence the choice over names.

### Discovery

`discoverer` is the host's map at one namespace. `StartDiscovery` is the part under
`discoverLock`; `CheckStarted`, `Advertise`, `FindPeers`, `StartFails` and
`SetStarted` are the statements of `start`, which runs without a lock, so that
starts of one discoverer overlap and `Stop` may come between any two of them. A
context is named after the start that made it. Counting a peer and publishing the
count are two steps (`Count`, `Publish`), and `sends` counts the goroutines that
`waitForNumber`'s callback has started. The count is the code's: a peer is counted
when `Connect` has returned, with or without an error, and once more by every search
that finds it.

`waitForNumber` closes its channel while such goroutines may still send on it;
`SendOnClosed` is the panic that follows, which ends the process. Nothing in the
repository says it cannot happen, so there is no run about it, but every
property is stated with it in the model. Where two starts overlap, the first one's
`cancelFunc` is overwritten and its advertising and search go on after a stop;
`StartedCanBeStopped` claims no more than that the last one can be ended.
Unsynchronised access to the map and to the two fields is taken as one step per
access; what the Go runtime makes of a concurrent map access is outside the model.

### Bootstrapper

`pc` follows the goroutine of `Start`: `Look` reads the peers once, `Dial` is one
iteration of the loop over `rand.Perm`, `Join` the deferred function, `TakeTick` and
`ContextDone` the cases of the select. `dials` are the goroutines of the wait group.
The connections (`connected`) change under the loop's feet: `PeerArrives` and
`PeerLeaves` are the network and discovery; `arrived` records who came during a
round so that `NeverOvershoots` can tell the bootstrapper's own connections from
others. `WaitForBootstrap` asks for the number of peers until it has enough or its
timer fires. A list is a set of addresses, of which two may belong to one peer; a list
that names one address twice behaves the same. With such a list `minPeers` may be
more than the list can give, each round then dials in vain and logs "not enough
bootstrap nodes": `ListSuffices` says this happens for no other list.

### JSBridge, Thenable, JSPubSub, JSClient

The semantics of the Go runtime for wasm is external, taken from how the code uses
it: an event of JavaScript (a call of a method or of `then`, a promise that settles,
a message) is handled when every goroutine is parked (`GoIdle`) and starts a
goroutine; goroutines run in any order; a function that was released ignores its
call; timers fire at any time.

A slot of `Calls` stands for one bridge call after the other. `Begin`, `StartPromise`,
`Callback`, `ContextDone` and `Return` are the statements of `Get`, `Add`, `Remove`,
`Publish` and `Subscribe`, which differ in what they convert and in that the last two
have no context. A method (`Thens`) is a `Then`, a goroutine and a number of bridge
calls: those of `playTransactions` end with the `Put` of the request, under
`rs.Lock`, the `Publish` of it, and, after the wait for its proof, the `Get` of the
new tree. The receive loop (`reader`) is reduced to what it does to the lock and to
the waits: it fetches under a deadline of 30 s, then the event stream calls one
callback after the other (`todo`), each of which sends on its call's channel
(`target`) with the lock held. A `Send` is subscribed from its `Put` on (`Unproven`),
so a round may list its request, which an earlier call may have published, before it
is in its select: the loop then waits until it is. When the `Publish` fails instead,
`Send` is on its way to its deferred unsubscribe (`SendFails`, pc `leave`), which
needs the lock. `Wedged` names the sends that never complete: to a `Send` whose timer
has fired (see `send_people_still_care`) or whose `Publish` has failed, and to a
`WaitForFirstRound` when two rounds are published between its leaving the select and
its getting the lock, because its channel holds one.

What the model shows besides its properties, without a line in the repository that
says otherwise:

* A promise that settles in the turn in which its call's context ends is a send that
  is blocked on a channel about to be closed, a panic (`crashed = "deadline"`). A
  promise that settles later is ignored, which is `NoLateCallback`.
* A method of the client that is called before `startClient` has resolved, other than
  `playTransactions`, dereferences nil in its goroutine and ends the process
  (`CallOnNil`, `DereferenceNil`).

## 3. What the runs check

| run | instance | shows |
|---|---|---|
| `round_agreement` | 2 clients with 2 loops each, 4 signers (1 faulty), 2 rounds of one height, one message height, counters up to 1 | `Agreement`: clients never act on different rounds of a height. `NoUnnoticedQuorum`: no quorum stays in a conflict set |
| `round_follow` | 1 client with 1 loop, 3 signers, a forked height and a second one, messages of either height for each of the 3 rounds, counters up to 2 | `CurrentHasQuorum`, `PublishedInOrder`, the refinement of `NotaryRounds`, and `HeardRoundReached`: once the signatures of a quorum for a height have come in, in whatever order and with whatever repeats, the client is at that height, although counters fill up and conflict sets are thrown away |
| `send_calls` | 2 calls of `Send`, 1 of `WaitForFirstRound`, 2 rounds | no send on a closed channel, no second proof, no forgotten proof, a wedged loop stays wedged, all calls return unless it is |
| `send_people_still_care` | 1 call of `Send`, 1 round | violation, see below |
| `ledger_safety` | 2 trees, 2 names, 2 ids, amounts 1 and 2, maximum 2, integers modulo 4, 7 transactions | stored balances match the history, nobody overspends, what was received was sent and no id is received twice, no inflation while receivers give the ids of the sends |
| `ledger_maximum` | 1 tree, integers modulo 4 | violation, see below |
| `ledger_double_receive` | 2 trees, 1 name, 2 ids, 5 transactions | violation, see below |
| `play_shared` | 2 sessions on 2 clients and one object that may change hands, a second object, 2 keys, 3 rounds, trees of 2 blocks | trees stay on the agreed chain and never go back; what the group accepted replays in `GetLatest`; every block is signed by an owner of its time; proofs verify, and no proof put together from parts verifies unless its object had that tip |
| `discovery_waits` | 2 starts, any number of stops, 2 discoverers, 1 peer, a wait for 2 counts | `NoMissedCount`, `SuccessWasCounted`, `StartedCanBeStopped`, and `WaitReturns`: the wait ends unless the process does |
| `bootstrap` | lists of 1 peer, of 3 peers of which 1 never answers, and of 2 addresses of 1 peer; threshold 2, 1 lost connection, 1 wait | `NeverOvershoots`, `ListSuffices`, `ConnectionsRestored`: lost connections are made up for, `StopEnds`: `Stop` ends the loop, `BootstrapWaitReturns`: `WaitForBootstrap` returns |
| `js_client` | `startClient`, `playTransactions` and `waitForRound` once each, 4 awaits, 2 of them of one `Then` and 1 that passes no function for errors, 2 messages, 2 fetches per round | `NoLateCallback`, `ToldOnce`, `MessagesInOrder`, and `AwaitsAnswered`: an await ends if JavaScript settles its promises, unless the process ended, the loop is wedged, or it asks after `Resolve(nil)` |
| `js_await_nil` | `startClient` and `waitForRound`, 1 await, 1 message | violation, see below |

Bounds. Four signers are the least with a faulty one, three the least whose quorum is
not everybody or one; two rounds of a height are a fork and a second height is what
ordering needs; in `round_follow` every round comes at every height, a round at the
height of another and a fork at a larger height included. Counters up to 2 make both a
repeated signature and an overflow happen. Two calls and a waiter are enough for
every pair of goroutines to meet at the lock, two rounds for a request to be
listed twice. Seven transactions let a tree establish, mint, send twice under
different ids and another receive one of them again, under its own id or another. Three rounds let a client
skip one; two blocks are a handover and a block of the new owner or, wrongly, of
the former one. Two starts overlap, and with one peer two searches are what makes
a count of two, one event before the last. A threshold of 2 (the code's is 4) with
three peers lets the bootstrapper dial less than its list, all of it, or in vain. Two
messages are two rounds, which is what it takes to overtake a message and to fill the
channel of a `WaitForFirstRound` that is leaving. `VerifiedWasCommitted` is evaluated
where no session is in the middle of a call and the clients have caught up
(`AtRest`): every other state leads to one of these with the same parts, by calls
that give up and rounds that are adopted. `MaxPublished`, `MaxHeight`, `MaxTxs`,
`MaxRounds`, `MaxBlocks`,
`MaxLost` and `MaxMessages` stop the counters; because a bounded system comes to
rest, deadlock is not checked, and progress is stated as liveness instead.

Fairness. `round_follow` has none: the topic may lose every message, and
`HeardRoundReached` says what has happened once messages have come in. `send_calls`
assumes that goroutines are scheduled and that timers fire, and nothing about
rounds or contexts. `discovery_waits` assumes that a call of
`WaitForDiscovery` is scheduled and its timer fires, and nothing about starts,
stops, searches or connections. `bootstrap` assumes that the goroutine runs, that the
ticker ticks, that dials return and that a call of `WaitForBootstrap` looks again until
its timer fires (weak fairness); that `rand.Perm` does not keep an
address from being dialled for ever, that a peer which answers does not fail for
ever, and that select does not pass over a ready `ctx.Done` for ever (strong
fairness, each of a random or external choice). `js_client` and `js_await_nil` assume that goroutines
run, that timers fire and that JavaScript keeps settling promises whenever Go lets
it, which is strong fairness because Go is idle only now and then.

### Disagreements with the code

* `send_people_still_care`. The callback looks at `doneCh` and goes on with the
  words "people still care". `doneCh` is the context's, and `Send`'s own timer does not
  close it: when the timer has fired before the callback runs, `Send` has left its
  select and waits in `unsubscribe` for the lock that the loop holds while the callback
  sends on a channel nobody reads. The client is stuck; `WedgedForever` shows that
  nothing ends it. `PlayTransactions` is affected in the same way.
* `ledger_double_receive`. A test is named for a double receive being invalid, and
  repeats a receive under the same id. Under another id the same send is credited
  again.
* `ledger_maximum`. `currentMintedTotal + amount` wraps, so a mint can pass the
  maximum that the tests say cannot be exceeded.
* `js_await_nil`. A `Then` is there so that JavaScript can `await` it. `waitForRound`
  resolves with nil, and nil is also how a `Then` says that it is not resolved. With a
  round already current the goroutine resolves before JavaScript calls `then`, and that
  await is never answered. `AwaitsAnswered` names this exception (`ForgottenNil`).

## 4. What is proved

TLAPS checks, for every value of the constants that satisfies the named
assumptions:

* `RoundSubscriberProofs`. `TypeCorrect`; `CurrentAlwaysHasQuorum`;
  `AgreementAlways`; `NoQuorumUnnoticed`; and, for one loop per subscriber,
  `CurrentAlwaysAdvances`, `ForwardAlways`, `HeardAlwaysReached` and `Refinement`
  (RoundSubscriber implements NotaryRounds), all of them whatever heights the messages
  carry.
  The assumptions are a finite group, fewer than a third of it faulty, and heights
  that are numbers. The inductive invariant is `Sound`: every signer an aggregate
  counts, in a conflict set, on its way there or in the current round, has signed
  that round, and a signer that is not faulty has signed one round per height.
  `Agreement` alone is not inductive: it says nothing of the aggregates that become
  the next current round. `OneDecidedPerHeight` is the counting argument: two
  quorums of `QuorumCount` members overlap in more signers than are faulty. The
  ordering properties need `Forward`, whose first part says that the check made
  before the lock still holds once it is taken, which is what one loop gives.
  `HeardAlwaysReached` needs `HeardIsHeld`: whoever was heard for a height above the
  current one is in the aggregate of that height, which a refused message does not
  change because a single signer that overflows is there already.
* `ClientSendProofs`. `TypeCorrect`, `NeverSendsOnClosedChannel`, `NeverASecondProof`,
  `NeverForgotten` and `WedgedStays`, for any number of calls and rounds. The
  inductive invariant is `Orderly`: whoever the loop still has to call or is
  sending to is subscribed, a closed channel belongs to a call that has
  unsubscribed, and a call with a proof has a callback that is done.

* `DiscoveryProofs`. `TypeCorrect`, `CountNeverMissed`, `SuccessAlwaysCounted` and
  `StartedAlwaysStoppable`, for any numbers of starts, waits, peers and discoverers;
  a wait's number is any natural number. `NoMissedCount` is inductive once every
  call that has begun has a discoverer (`Begun`). `SuccessWasCounted` needs that
  every event and every sending goroutine stands for a count that was reached
  (`EventsWereCounted`, `SendsWereCounted`). `StartedCanBeStopped` needs
  `Stoppable`: `cancelFunc` holds the context of a start of that very discoverer, a
  cancelled context belongs to a discoverer that is gone from the map, and a
  start under way has left a `cancelFunc`.

* `ChainTreeClientProofs`. `TypeCorrect`, `TreesCommitted`, `RepliesVerify`,
  `SanityChecked`, `ProofsSound`, the action property `TreesAdvance`, and `OwnersSign`,
  for any clients, sessions, objects, keys and handovers; the bounds on rounds and
  blocks are any numbers. Assumed of the constants, besides the types of the maps
  between them, is that `None` is no request. The inductive invariant `IInv` has what
  the group has agreed on (`Agreed`, `TipsGrow`: in a later round an object's tip goes
  on from its earlier one) and, per session, `Follows`: the session's tree is never
  ahead of its client's current round. That is what keeps `GetTip` from answering with
  something older than the tree, and none of the checked properties says it.
  `ProofsSound` follows from `Agreed` because `Verify` ties every part of a proof to
  the next. `OwnersSign` is about a fold: `AuthenticationsAppend` says what one more
  block does to the owners, from which the owners of a tip are those of its last
  handover, and each agreed tip grows by a block that passed `IsOwner`.
* `TokenLedgerProofs`. `TypeCorrect` (which the others rest on), `ReceivesSound`, `BooksKept` with its two parts
  `Solvency` and `BalancesRight`, and `NothingFromNothing`, for any finite set of
  trees, any tokens, ids and transactions and any width of the integers (`MaxUint`).
  Assumed is that amounts and maxima fit that width, that the burn address is no tree,
  and that `NoPolicy`, `NoToken` and short names are not confused with numbers, nodes
  and tokens. `ReceivedWasSent` needs `PayloadsSent`: every name that can be read
  from a payload leads to the send it carries in the tree it was made from, however
  the tree's nodes coincide. `NeverOverspent` and `BalanceMatchesHistory` are inductive
  together: the guard of a send is made on the stored balance, which the history bounds
  and equals modulo the width. `NoInflation` is not inductive: it follows from
  `NeverOverspent`, `ReceivedWasSent` and `OwnPolicy` (only a token's own tree mints
  it). Where receives carry the ids of sends, each has a send of its own, a pair of a
  tree and a place in its list, because no id is received twice, so that the sum over all receives is at most the sum over all sends; with
  `NeverOverspent` summed over the trees, what is left in balances is at most what was
  minted.
* `BootstrapperProofs`. `TypeCorrect`, `ListsSuffice` and `NoOvershoot`, for any finite
  sets of peers and addresses, any lists and thresholds. `NeverOvershoots` needs
  `Accounted` (every connection was there when the bootstrapper looked, was dialled
  in this round, or came by itself) and `WithinNeed` (the peers it saw and the
  addresses it has tried are no more than the threshold). `ListsSuffice` is a
  pigeonhole argument: in a list of different peers, fewer peers seen and addresses
  tried than the threshold, which is at most the list, leave one that is neither.
* `JSClientProofs`. `TypeCorrect`, `NoLateCallbacks`, `AwaitsToldOnce` and `InOrder`, for
  any number of method calls, awaits, bridge calls and messages. Each component has
  an invariant that its own actions keep, and `IInv` joins them. `BridgeInv`: functions
  are there exactly while their call is under way. `PubSubInv`: at most one message is
  on its way, which holds because JavaScript runs only when Go is idle. `ThenInv`: what
  an await is told, or is about to be told, is how its `Then` came out, which needs
  that no `Then` is settled twice. JSClient has to show that: `SettledDone`, a method's
  `Then` is settled when the method has ended and not before, and `MethodInv`, where a
  method can be with which bridge calls left. `ReaderInv` says that the receive loop
  finds a free slot whenever it goes on to fetch.

`FoldLemmas`. The library's induction theorems take an operator as a parameter, which the
provers cannot instantiate. The module states what a fold does (that its recursive
function exists, that it takes one element after the other, that it depends on the
elements only, that a fold of sums is the value of a chosen element plus the rest) about
an operation, a map and a choice that are constants of the module, and proves it by the
least counterexample. A proof module gets the lemmas for its own fold with `INSTANCE`:
`PlayOwnership` over the blocks of a tip, and the sums of the ledger.

Every inductive invariant was checked by TLC on the instance of the module's run before
it was proved.

Only model-checked: the liveness properties (`CallsReturnUnlessWedged`, `WaitReturns`,
`ConnectionsRestored`, `StopEnds`, `BootstrapWaitReturns`, `AwaitsAnswered`), because fairness and `ENABLED` are out of the prover's reach, and the
runs that expect a violation. Every invariant and action property of a passing run has
a theorem; in `RoundSubscriberProofs` the ordering properties and the refinement are
proved for one loop per subscriber, which is also what the run checks.

## 5. Not modelled

The BLS and ECDSA arithmetic, hashing, encoding and key derivation are taken as
ideal. Configuration (`config.go`, `humanconfig.go`), tracing, adapters and test
helpers carry no state of interest: they copy values and pass calls on. The set-up of
the libp2p host, its streams and bitswap are calls of libraries. `reftracking.go`
records which nodes a request reads; whether they suffice depends on what the
chaintree library reads, which is not in the repository. `HasBurnGenerator` and `Stake` look at or write one path;
the data of `SetData` is data. In `wasm/`, the conversions of values, `exit`, `Cancel`
of a subscription, which the SDK never calls, and the methods that need no client
(keys, addresses, `newEmptyTree`, token payloads) are left out: the last are a bridge
call or none followed by an answer. `newEmptyTree` panics when its store fails, which
is listed as a hazard.

## 6. Plan

1. Done: the modules of section 2, a run for each of them, and a theorem for every
   invariant and action property that a passing run checks.
2. Next: theorems that no run states yet where the invariants already give them
   (a method's `Then` is settled at most once; a started discoverer is the one in the
   map), and shorter proofs where one lemma can serve several modules.
