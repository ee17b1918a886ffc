------------------------------ MODULE JSPubSub ------------------------------
(***************************************************************************)
(* The subscription of the JavaScript pubsub: the function that Subscribe  *)
(* registers (wasm/jspubsub/jspubsub.go), QueueJS and Next (subscription.  *)
(* go).                                                                    *)
(*                                                                         *)
(* Every message starts a goroutine that sends it on an unbuffered         *)
(* channel.  The senders a channel blocks are served in the order they     *)
(* came.  Cancel is not called anywhere in the SDK and is left out.        *)
(***************************************************************************)
EXTENDS Naturals, Sequences

CONSTANTS
    MaxMessages     \* bound: messages of the topic

ASSUME MessagesAssumption == MaxMessages \in Nat

VARIABLES
    subscribed,     \* JavaScript has the function
    sent,           \* the number of messages so far, which are 1 .. sent
    arriving,       \* the messages whose goroutine has not reached the send
    queue,          \* the messages whose goroutine sends on bs.ch
    received        \* the messages Next has returned

pubsubVars == <<subscribed, sent, arriving, queue, received>>

PubSubInit ==
    /\ subscribed = FALSE /\ sent = 0 /\ arriving = {}
    /\ queue = <<>> /\ received = <<>>

\* The goroutine of Subscribe registers the function with its promise.
Register ==
    /\ subscribed' = TRUE
    /\ UNCHANGED <<sent, arriving, queue, received>>

\* JavaScript calls the function, which starts a goroutine.
Message ==
    /\ subscribed /\ sent < MaxMessages
    /\ sent' = sent + 1
    /\ arriving' = arriving \cup {sent + 1}
    /\ UNCHANGED <<subscribed, queue, received>>

\* Mutant of QueueJS: a message is dropped while another one waits.
QueueJSOrDrop(m) ==
    /\ m \in arriving
    /\ arriving' = arriving \ {m}
    /\ queue' = IF queue = <<>> THEN <<m>> ELSE queue
    /\ UNCHANGED <<subscribed, sent, received>>

\* The send on bs.ch, whether or not somebody is waiting in Next.
QueueJS(m) ==
    /\ m \in arriving
    /\ arriving' = arriving \ {m}
    /\ queue' = Append(queue, m)
    /\ UNCHANGED <<subscribed, sent, received>>

\* Next receives from the channel.
Receive ==
    /\ queue # <<>>
    /\ received' = Append(received, Head(queue))
    /\ queue' = Tail(queue)
    /\ UNCHANGED <<subscribed, sent, arriving>>

PubSubTypeOK ==
    /\ subscribed \in BOOLEAN /\ sent \in 0 .. MaxMessages
    /\ arriving \subseteq 1 .. sent
    /\ queue \in Seq(1 .. sent) /\ received \in Seq(1 .. sent)

\* No message is lost or overtaken between JavaScript and Next, although each travels
\* on a goroutine of its own and the loop may be busy for as long as a fetch takes.
MessagesInOrder ==
    LET passed == received \o queue
    IN  \/ passed = [i \in 1 .. sent |-> i]
        \/ arriving = {sent} /\ passed = [i \in 1 .. sent - 1 |-> i]
=============================================================================
