------------------------------ MODULE Thenable ------------------------------
(***************************************************************************)
(* What Go gives to JavaScript to await: Then (wasm/then/then.go).         *)
(*                                                                         *)
(* JavaScript calls then with one or two functions, before or after Go     *)
(* resolves or rejects.  They are called from goroutines.  "Not resolved"  *)
(* is result == nil, so a Then resolved with nil looks unresolved.         *)
(***************************************************************************)
EXTENDS Naturals, Sequences

CONSTANTS
    Thens,          \* the Thens that Go makes
    Awaits,         \* the calls of then
    ThenOf,         \* the Then an await is about
    Rejecting       \* the awaits that pass a second function

ASSUME ThenAssumption == ThenOf \in [Awaits -> Thens] /\ Rejecting \subseteq Awaits

VARIABLES
    result,         \* per Then: t.result, "none" before Resolve, "nil" after Resolve(nil)
    err,            \* the Thens with t.err
    resolveCbs,     \* per Then: the awaits in t.resolveCbs
    errorCbs,       \* per Then: the awaits in t.errorCbs
    asked,          \* the awaits that have called then
    telling,        \* the goroutines that call an await's function
    told            \* per await: the functions of it that were called, in order

thenVars == <<result, err, resolveCbs, errorCbs, asked, telling, told>>

ThenInit ==
    /\ result = [t \in Thens |-> "none"] /\ err = {}
    /\ resolveCbs = [t \in Thens |-> {}] /\ errorCbs = [t \in Thens |-> {}]
    /\ asked = {} /\ telling = {}
    /\ told = [a \in Awaits |-> <<>>]

\* Mutant of handleJSThenCall: t.err is not looked at.
handleJSThenCallNoErr(a) ==
    LET t == ThenOf[a]
    IN  /\ IF result[t] \notin {"none", "nil"}
             THEN /\ telling' = telling \cup {<<a, "resolve">>}
                  /\ UNCHANGED <<resolveCbs, errorCbs>>
             ELSE /\ resolveCbs' = [resolveCbs EXCEPT ![t] = @ \cup {a}]
                  /\ errorCbs' = [errorCbs EXCEPT ![t] = @ \cup ({a} \cap Rejecting)]
                  /\ UNCHANGED telling

handleJSThenCall(a) ==
    LET t == ThenOf[a]
    IN  CASE result[t] \notin {"none", "nil"} ->
               /\ telling' = telling \cup {<<a, "resolve">>}
               /\ UNCHANGED <<resolveCbs, errorCbs>>
          [] result[t] \in {"none", "nil"} /\ t \in err ->
               /\ telling' = telling \cup ({<<a, "reject">>} \cap (Rejecting \X {"reject"}))
               /\ UNCHANGED <<resolveCbs, errorCbs>>
          [] OTHER ->
               /\ resolveCbs' = [resolveCbs EXCEPT ![t] = @ \cup {a}]
               /\ errorCbs' = [errorCbs EXCEPT ![t] = @ \cup ({a} \cap Rejecting)]
               /\ UNCHANGED telling

\* JavaScript calls then.
Then(a) ==
    /\ a \notin asked
    /\ asked' = asked \cup {a}
    /\ handleJSThenCall(a)
    /\ UNCHANGED <<result, err, told>>

Resolve(t, res) ==
    /\ result' = [result EXCEPT ![t] = res]
    /\ telling' = telling \cup (resolveCbs[t] \X {"resolve"})
    /\ resolveCbs' = [resolveCbs EXCEPT ![t] = {}]
    /\ UNCHANGED <<err, errorCbs, asked, told>>

Reject(t) ==
    /\ err' = err \cup {t}
    /\ telling' = telling \cup (errorCbs[t] \X {"reject"})
    /\ errorCbs' = [errorCbs EXCEPT ![t] = {}]
    /\ UNCHANGED <<result, resolveCbs, asked, told>>

\* A goroutine invokes the function.
Tell(a, f) ==
    /\ <<a, f>> \in telling
    /\ telling' = telling \ {<<a, f>>}
    /\ told' = [told EXCEPT ![a] = Append(@, f)]
    /\ UNCHANGED <<result, err, resolveCbs, errorCbs, asked>>

ThenTypeOK ==
    /\ result \in [Thens -> {"none", "nil", "value"}] /\ err \subseteq Thens
    /\ resolveCbs \in [Thens -> SUBSET asked] /\ errorCbs \in [Thens -> SUBSET asked]
    /\ asked \subseteq Awaits /\ telling \subseteq Awaits \X {"resolve", "reject"}
    /\ told \in [Awaits -> Seq({"resolve", "reject"})]

\* An await is told one thing at most, and all awaits of one Then are told the same,
\* however then, Resolve and Reject are ordered.
ToldOnce ==
    /\ \A a \in Awaits : Len(told[a]) + (IF \E f \in {"resolve", "reject"} : <<a, f>> \in telling
                                           THEN 1 ELSE 0) <= 1
    /\ \A a, b \in Awaits :
         ThenOf[a] = ThenOf[b] /\ told[a] # <<>> /\ told[b] # <<>> => told[a] = told[b]
=============================================================================
