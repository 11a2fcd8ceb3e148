---------------------------- MODULE MCMessageFlow ----------------------------
(***************************************************************************)
(* Two messages of one session, with the questions that lead to every      *)
(* branch and the pages that make a reference clear or not.                *)
(***************************************************************************)
EXTENDS MessageFlow

CONSTANTS s1, m1, m2, so1, so2

Page(type, id, n) == [type |-> type, id |-> id, rows |-> n, orders |-> FALSE]
Question(words, named, length) == [words |-> words, named |-> named, length |-> length]
Order(id) == [type |-> "order", id |-> id]

Nowhere == Page(NoType, NoId, 0)
OnOrder == Page("order", so1, 0)
OnList == Page("workOrder", NoId, 0)
OnRows == Page("order", so1, 2)
OnOrders == [Nowhere EXCEPT !.orders = TRUE]

ThisOne == Question({"deixis", "order"}, {}, "long")
NamedOrder == Question({"order"}, {Order(so2)}, "short")
Change(words) == Question(words \cup {"order"}, {Order(so2)}, "short")
ChangeThis == Question({"deixis", "update"}, {}, "short")
Manual == Question({"document"}, {}, "long")

MCSessionOf == [m \in Messages |-> s1]
MCStart == {Nowhere, OnOrder}

MCInputs ==
  [query : {ThisOne}, page : {Nowhere, OnOrder, OnList, OnRows}]
  \cup [query : {NamedOrder}, page : {Nowhere}]
  \cup [query : {Change({"update"}), Change({"destroy"}),
                 Change({"destroy", "urgent"})}, page : {OnOrder}]
  \cup [query : {ChangeThis}, page : {Nowhere, OnOrder, OnRows, OnOrders}]
  \cup [query : {Manual, Change({"destroy"})}, page : {OnList}]
  \cup [query : {Change({"destroy"})}, page : {OnOrders}]

(* As the seed registers them, and with the status update deactivated. *)
Seeded == [draft |-> {"orders.update"}, approval |-> {"orders.cancel"}]
MCRegistries == {Seeded, [Seeded EXCEPT !.draft = {}]}

Conflicting == [query : {Change({"destroy"})}, page : {OnOrder}]
=============================================================================
