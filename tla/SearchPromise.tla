--------------------------- MODULE SearchPromise ---------------------------
(***************************************************************************)
(* What the query runner promises about each search, whatever goroutines,  *)
(* channels and stores are behind it: a search is decided once, clients    *)
(* hear either that it is pending or that one outcome, and a result that   *)
(* was given up is not kept again.                                         *)
(***************************************************************************)
CONSTANT Searches

VARIABLES
  outcome,    \* "absent" until the search is decided, then "ok" or "error"
  retention,  \* "open" until decided, "kept" while clients can fetch it, "gone"
  told        \* what clients were told

vars == <<outcome, retention, told>>

Init ==
  /\ outcome   = [s \in Searches |-> "absent"]
  /\ retention = [s \in Searches |-> "open"]
  /\ told      = [s \in Searches |-> {}]

Decide(s) ==
  /\ outcome[s] = "absent"
  /\ \E o \in {"ok", "error"} : outcome' = [outcome EXCEPT ![s] = o]
  /\ \E k \in {"kept", "gone"} : retention' = [retention EXCEPT ![s] = k]
  /\ UNCHANGED told

Forget(s) ==
  /\ retention[s] = "kept"
  /\ retention' = [retention EXCEPT ![s] = "gone"]
  /\ UNCHANGED <<outcome, told>>

\* A client may be told "pending" at any time: it is the answer for unknown ids.
Speak(s, x) ==
  /\ told' = [told EXCEPT ![s] = @ \union {x}]
  /\ UNCHANGED outcome

TellPending(s)   == Speak(s, "pending") /\ UNCHANGED retention
TellCompleted(s) == retention[s] = "kept" /\ Speak(s, "completed") /\ UNCHANGED retention

\* Telling the outcome may take the result out of reach in the same step.
TellOutcome(s) ==
  /\ outcome[s] # "absent"
  /\ Speak(s, outcome[s])
  /\ \/ UNCHANGED retention
     \/ retention[s] = "kept" /\ retention' = [retention EXCEPT ![s] = "gone"]

Next ==
  \E s \in Searches :
    \/ Decide(s) \/ Forget(s)
    \/ TellPending(s) \/ TellCompleted(s) \/ TellOutcome(s)

Spec == Init /\ [][Next]_vars
=============================================================================
