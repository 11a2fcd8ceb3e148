------------------------ MODULE MCEscalationWorkflow ------------------------
(***************************************************************************)
(* Two escalations of actors with the same ids in two customers, and the   *)
(* people around them: the requester with and without authority, another   *)
(* manager, a colleague.                                                   *)
(***************************************************************************)
EXTENDS EscalationWorkflow, TLC

CONSTANTS c1, c2, e1, e2, custA, custB, org, ann, bob

Caller(customer, actor, isManager) ==
  [customer |-> customer, organization |-> org, actor |-> actor,
   manager |-> isManager]

MCSessionOf ==
  [r \in Requests |-> [customer |-> IF r = e1 THEN custA ELSE custB,
                       organization |-> org, actor |-> ann]]

Everyone == {Caller(custA, ann, TRUE), Caller(custA, ann, FALSE),
             Caller(custA, bob, TRUE), Caller(custA, bob, FALSE),
             Caller(custB, ann, TRUE)}

Symmetry == Permutations({c1, c2})

(* How the last handler of a slot answered does not matter to the next.    *)
View == <<rows, expired, aborts, call,
          [c \in Calls |-> IF pc[c] \in Resting THEN "idle" ELSE pc[c]]>>
=============================================================================
