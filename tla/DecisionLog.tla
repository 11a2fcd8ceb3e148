----------------------------- MODULE DecisionLog -----------------------------
(***************************************************************************)
(* What every decision workflow of the assistant (action drafts, approval  *)
(* requests, escalation requests) promises about one request: it is opened *)
(* once, it is decided at most once, a decision is final, and the audit    *)
(* trail tells exactly that story, in that order.                          *)
(***************************************************************************)
EXTENDS Sequences

CONSTANTS Requests,   \* the requests of the workflow
          Outcomes    \* the decisions a request may receive

VARIABLES outcome,    \* "none", "open" or the decision of each request
          trail       \* the audited events of each request, oldest first

vars == <<outcome, trail>>

Init == /\ outcome = [r \in Requests |-> "none"]
        /\ trail = [r \in Requests |-> <<>>]

(* The assistant opens a request. *)
Open(r) == /\ outcome[r] = "none"
           /\ outcome' = [outcome EXCEPT ![r] = "open"]
           /\ trail' = [trail EXCEPT ![r] = Append(@, "created")]

(* An open request receives its one decision. *)
Decide(r, o) == /\ outcome[r] = "open"
                /\ outcome' = [outcome EXCEPT ![r] = o]
                /\ trail' = [trail EXCEPT ![r] = Append(@, o)]

Next == \E r \in Requests : Open(r) \/ \E o \in Outcomes : Decide(r, o)

Spec == Init /\ [][Next]_vars
=============================================================================
