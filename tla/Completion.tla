----------------------------- MODULE Completion -----------------------------
(***************************************************************************)
(* What the interface of an inference request promises (IInferRequest):    *)
(* every inference started runs once, then the completion callback is      *)
(* called once with its result, and then Wait tells that result.           *)
(***************************************************************************)
EXTENDS Naturals, Sequences

CONSTANTS
  Request,    \* the requests
  Callback    \* those with a completion callback

VARIABLES
  started,    \* how many inferences of a request were started
  results,    \* what came of them, in order
  called,     \* the codes its callback was called with
  told        \* what Wait told last

vars == <<started, results, called, told>>

Code == {"OK", "GENERAL_ERROR"}

Init ==
  /\ started = [q \in Request |-> 0]
  /\ results = [q \in Request |-> <<>>]
  /\ called = [q \in Request |-> <<>>]
  /\ told = [q \in Request |-> "nothing"]

Ended(q) ==
  /\ Len(results[q]) = started[q]
  /\ q \in Callback => Len(called[q]) = started[q]

StartAsync(q) ==
  /\ Ended(q)
  /\ started' = [started EXCEPT ![q] = @ + 1]
  /\ UNCHANGED <<results, called, told>>

Finish(q) ==
  /\ Len(results[q]) < started[q]
  /\ \E c \in Code : results' = [results EXCEPT ![q] = Append(@, c)]
  /\ UNCHANGED <<started, called, told>>

CompletionCallback(q) ==
  /\ q \in Callback
  /\ Len(called[q]) < Len(results[q])
  /\ called' = [called EXCEPT ![q] = Append(@, results[q][Len(@) + 1])]
  /\ UNCHANGED <<started, results, told>>

Wait(q) ==
  /\ Ended(q)
  /\ started[q] > 0
  /\ told' = [told EXCEPT ![q] = results[q][Len(results[q])]]
  /\ UNCHANGED <<started, results, called>>

Next ==
  \E q \in Request : StartAsync(q) \/ Finish(q) \/ CompletionCallback(q) \/ Wait(q)

Spec == Init /\ [][Next]_vars
=============================================================================
