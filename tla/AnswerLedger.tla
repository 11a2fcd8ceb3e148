---------------------------- MODULE AnswerLedger ----------------------------
(***************************************************************************)
(* What the assistant promises about a message: it is answered at most     *)
(* once and for good, and never before everything its kind of answer       *)
(* refers to (a decision, a question, a request, a review item) is stored. *)
(***************************************************************************)
CONSTANTS Messages,
          Needed       \* the rows each answer refers to

VARIABLES answer,      \* "none", "open" or the answer of each message
          basis        \* the rows stored about each message

vars == <<answer, basis>>

Init == /\ answer = [m \in Messages |-> "none"]
        /\ basis = [m \in Messages |-> {}]

(* The assistant starts to respond. *)
Open(m) == /\ answer[m] = "none"
           /\ answer' = [answer EXCEPT ![m] = "open"]
           /\ basis' = basis

(* It stores a row the answer will refer to. *)
Ground(m, b) == /\ answer[m] = "open"
                /\ basis' = [basis EXCEPT ![m] = @ \cup {b}]
                /\ answer' = answer

(* It answers. *)
Settle(m, a) == /\ answer[m] = "open"
                /\ Needed[a] = basis[m]
                /\ answer' = [answer EXCEPT ![m] = a]
                /\ basis' = basis

Next == \E m \in Messages :
          \/ Open(m)
          \/ \E b \in UNION {Needed[a] : a \in DOMAIN Needed} : Ground(m, b)
          \/ \E a \in DOMAIN Needed : Settle(m, a)

Spec == Init /\ [][Next]_vars
=============================================================================
