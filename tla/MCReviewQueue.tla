---------------------------- MODULE MCReviewQueue ----------------------------
(***************************************************************************)
(* One message, one submission and two reviews; three callers, of whom     *)
(* two are reviewers, one of them of another customer.                     *)
(***************************************************************************)
EXTENDS ReviewQueue

CONSTANTS m1, f1, r1, r2, user, reviewer, stranger, acme, other

MCCustomerOf == [c \in Callers |-> IF c = stranger THEN other ELSE acme]
MCAuthorOf == [m \in Messages |-> user]
=============================================================================
