------------------------------ MODULE JSBridge ------------------------------
(***************************************************************************)
(* A Go call that waits for a JavaScript promise: Remove, Add and Get of   *)
(* the node store (wasm/jsstore/jsstore.go), Publish and Subscribe of the  *)
(* pubsub bridge (wasm/jspubsub/jspubsub.go).                              *)
(*                                                                         *)
(* The call makes an unbuffered channel and two JavaScript functions that  *)
(* send on it, asks for the promise from a goroutine of its own and waits  *)
(* for the channel or for its context.  When it returns it releases the    *)
(* functions and closes the channel, whether or not the promise has        *)
(* settled.  The runtime ignores a call of a released function.            *)
(*                                                                         *)
(* The actions here say what happens to the calls; the module that         *)
(* composes them says when the runtime lets them happen.                   *)
(***************************************************************************)
EXTENDS Naturals

CONSTANTS
    Calls           \* the calls that may be under way, each with its promise

VARIABLES
    call,           \* per call: "free", "select", or "leave" once a case was taken
    answer,         \* per call: what the case taken brought
    promise,        \* per call: how far its promise is
    open,           \* the calls whose functions are not released
    crashed         \* what ended the process, "no" while it runs

bridgeVars == <<call, answer, promise, open>>

BridgeInit ==
    /\ call = [k \in Calls |-> "free"] /\ answer = [k \in Calls |-> "none"]
    /\ promise = [k \in Calls |-> "none"]
    /\ open = {}

\* A slot stands for one call after the other, but not before its promise settled.
Available(k) == call[k] = "free" /\ promise[k] = "none"

\* The channel, js.FuncOf twice, the goroutine and the select.
Begin(k) ==
    /\ Available(k)
    /\ call' = [call EXCEPT ![k] = "select"]
    /\ promise' = [promise EXCEPT ![k] = "starting"]
    /\ open' = open \cup {k}
    /\ UNCHANGED answer

\* The goroutine asks for the promise and gives it the functions.
StartPromise(k) ==
    /\ promise[k] = "starting"
    /\ promise' = [promise EXCEPT ![k] = "pending"]
    /\ UNCHANGED <<call, answer, open>>

\* The promise settles and JavaScript calls onSuccess or onError.
Settle(k, ans) ==
    /\ promise[k] = "pending"
    /\ promise' = [promise EXCEPT ![k] = ans]
    /\ UNCHANGED <<call, answer, open>>

\* The function's send: ignored when it is released, received in the select, in the
\* way of a call that is leaving because its context is done, a panic after that.
Callback(k) ==
    /\ promise[k] \in {"ok", "error"}
    /\ promise' = [promise EXCEPT ![k] =
                     IF k \in open /\ call[k] = "leave" THEN "blocked" ELSE "none"]
    /\ IF k \in open /\ call[k] = "select"
         THEN /\ call' = [call EXCEPT ![k] = "leave"]
              /\ answer' = [answer EXCEPT ![k] = promise[k]]
         ELSE UNCHANGED <<call, answer>>
    /\ crashed' = IF k \in open /\ call[k] = "free" THEN "late" ELSE crashed
    /\ UNCHANGED open

\* Mutant of ContextDone: the call returns without an error.
ContextDoneSilently(k) ==
    /\ call[k] = "select"
    /\ call' = [call EXCEPT ![k] = "leave"]
    /\ UNCHANGED <<answer, promise, open>>

\* "case <-ctx.Done()"
ContextDone(k) ==
    /\ call[k] = "select"
    /\ call' = [call EXCEPT ![k] = "leave"]
    /\ answer' = [answer EXCEPT ![k] = "context"]
    /\ UNCHANGED <<promise, open>>

\* Mutant of Release: the functions stay.
ReleaseForgotten(k) == open

\* onSuccess.Release and onError.Release
Release(k) == open \ {k}

\* The deferred function.  Closing the channel panics a send that is blocked on it.
Return(k) ==
    /\ call[k] = "leave"
    /\ call' = [call EXCEPT ![k] = "free"]
    /\ answer' = [answer EXCEPT ![k] = "none"]
    /\ open' = Release(k)
    /\ crashed' = IF promise[k] = "blocked" THEN "deadline" ELSE crashed
    /\ UNCHANGED promise

\* No goroutine of a call can run.
BridgeParked ==
    \A k \in Calls : call[k] # "leave" /\ promise[k] \in {"none", "pending"}

BridgeTypeOK ==
    /\ call \in [Calls -> {"free", "select", "leave"}]
    /\ answer \in [Calls -> {"none", "ok", "error", "context"}]
    /\ \A k \in Calls : answer[k] # "none" <=> call[k] = "leave"
    /\ promise \in [Calls -> {"none", "starting", "pending", "ok", "error", "blocked"}]
    /\ open \subseteq Calls
=============================================================================
