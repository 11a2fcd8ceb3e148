----------------------------- MODULE MCGrounding -----------------------------
(***************************************************************************)
(* One message answered from documents and one answered by a tool, of two  *)
(* customers; two documents of the first, one of the second.               *)
(***************************************************************************)
EXTENDS Grounding

CONSTANTS m1, m2, alice, bob, acme, other, d1, d2, d3, old, new, status, price

MCBranchOf == [m \in Messages |-> IF m = m1 THEN "documents" ELSE "runtime"]
MCCallerOf == [m \in Messages |-> alice]
MCColumnsOf == [m \in Messages |-> {}]
MCShowsEntity == [m \in Messages |-> TRUE]
MCCustomerOf == [c \in Callers |-> IF c = alice THEN acme ELSE other]
MCOwnerOf == [d \in Documents |-> IF d = d3 THEN other ELSE acme]

Row(active, enabled, readers, text) ==
  [active |-> active, enabled |-> enabled, readers |-> readers, text |-> text]

(* Archived and its chunk edited; its chunk disabled; edited and closed to *)
(* the caller; open.                                                       *)
MCRevisions == {Row(FALSE, TRUE, Callers, new), Row(TRUE, FALSE, Callers, old),
                Row(TRUE, TRUE, {bob}, new), Row(TRUE, TRUE, Callers, new)}

Tool(active, readOnly, callers) ==
  [active |-> active, readOnly |-> readOnly, needsEntity |-> TRUE, callers |-> callers]

MCToolRevisions == {Tool(FALSE, TRUE, Callers), Tool(TRUE, FALSE, Callers),
                    Tool(TRUE, TRUE, Callers)}

MCPolicyRevisions == {[allowed |-> FALSE, callers |-> {}]}

Setting(readers, text, tools) ==
  [documents |-> [d \in Documents |-> Row(TRUE, TRUE, readers, text)],
   tool |-> tools,
   policy |-> [c \in Customers |-> [allowed |-> TRUE, callers |-> Callers]]]

(* Everything is open to the caller at the start, or nothing. *)
MCSettings == {Setting(Callers, old, Tool(TRUE, TRUE, Callers)),
               Setting({bob}, old, Tool(TRUE, TRUE, {bob}))}
=============================================================================
