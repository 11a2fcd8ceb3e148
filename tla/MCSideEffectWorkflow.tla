------------------------ MODULE MCSideEffectWorkflow ------------------------
(***************************************************************************)
(* Small instances of SideEffectWorkflow: one approval request and the     *)
(* people around it, and two drafts of one customer that may be confirmed  *)
(* under one key, with a caller of another customer whose actor and        *)
(* organisation have the same ids.                                         *)
(***************************************************************************)
EXTENDS SideEffectWorkflow, TLC

CONSTANTS c1, c2, k1, k2, dr, dr2, ap, t1, t2, t3, m1, m2, m3, custA, custB,
          org, ann, bob

Caller(customer, actor, isApprover, isPermitted) ==
  [customer |-> customer, organization |-> org, actor |-> actor,
   approver |-> isApprover, permitted |-> isPermitted]

MCKindOf ==
  [r \in Requests |-> IF r = ap THEN "approval_request" ELSE "action_draft"]
MCSessionOf ==
  [r \in Requests |-> [customer |-> custA, organization |-> org, actor |-> ann]]
MCMessageOf ==
  [r \in Requests |-> CASE r = dr -> m1 [] r = dr2 -> m2 [] r = ap -> m3]
MCFit == [action_draft |-> {t1}, approval_request |-> {t2, t3}]

(* The requester, who also has authority. *)
Owner == {Caller(custA, ann, TRUE, TRUE)}

(* The requester, who has lost a tool permission in one token, a           *)
(* supervisor, and a colleague without authority.                          *)
Office == {Caller(custA, ann, TRUE, TRUE), Caller(custA, ann, TRUE, FALSE),
           Caller(custA, bob, TRUE, TRUE), Caller(custA, bob, FALSE, TRUE)}

(* The requester, and the actor with the same ids of another customer.     *)
Tenants == {Caller(custA, ann, FALSE, TRUE), Caller(custB, ann, FALSE, TRUE)}

Symmetry == Permutations({c1, c2}) \cup Permutations({k1, k2})
              \cup Permutations({t2, t3}) \cup Permutations(Requests)

(* How the last handler of a slot answered does not matter to the next.    *)
View == <<db, execution, registry, expired, aborts, call,
          [c \in Calls |-> IF pc[c] \in Resting THEN "idle" ELSE pc[c]]>>
=============================================================================
