---------------------------- MODULE QueryPlanning ----------------------------
(***************************************************************************)
(* From a question, the page it was asked on and the session's context to  *)
(* the way it is handled: query understanding (src/query-understanding),   *)
(* planning, the pre-runtime gate and the branches of sendMessage.  All of *)
(* it is pure: operators over what the text was found to contain.          *)
(***************************************************************************)
EXTENDS Integers

CONSTANTS Ids,           \* identifiers of orders, work orders, ...
          NoId, NoType   \* a missing entityId, a missing entityType

ASSUME NoneAssumption == NoId \notin Ids

(* toEntityType; customers, suppliers and unknown types are told apart by  *)
(* nothing here.                                                           *)
Types == {"order", "workOrder", "itemSku", "other"}

Entity == [type: Types, id: Ids]

(* What the patterns look for in the text.  "recent" is the time range     *)
(* that is not supported, without one that is; "salesOrder" is the synonym *)
(* the missing-identifier check does not know.                             *)
Words == {"deixis", "order", "salesOrder", "workOrder", "sku", "stock",
          "partner", "update", "destroy", "urgent", "document", "recent"}

(* "named" holds the identifiers written in the text.  A text is blank if  *)
(* it is empty or punctuation, long beyond twelve characters.              *)
Queries == {q \in [words: SUBSET Words, named: SUBSET Entity,
                   length: {"blank", "short", "long"}] :
              q.length = "blank" => q.words = {} /\ q.named = {}}

(* The entity of the page, the number of rows selected on it, and whether  *)
(* it is a page of the orders module.                                      *)
Pages == [type: Types \cup {NoType}, id: Ids \cup {NoId}, rows: 0..2,
          orders: BOOLEAN]

(* currentEntityType and currentEntityId of the session's context.         *)
Pointers == [type: Types \cup {NoType}, id: Ids \cup {NoId}]

-----------------------------------------------------------------------------
Says(q, w) == w \in q.words

(* A reference with both its parts. *)
Pinned(r) == r.type # NoType /\ r.id # NoId

(* extractEntityCandidates *)
Entities(q, page, ctx) ==
  q.named \cup
  CASE ~Says(q, "deixis") -> {}
    [] Says(q, "deixis") /\ Pinned(page) -> {[type |-> page.type, id |-> page.id]}
    [] Says(q, "deixis") /\ ~Pinned(page) /\ Pinned(ctx) ->
         {[type |-> ctx.type, id |-> ctx.id]}
    [] OTHER -> {}

(* Mutant of Reference: a list page falls back to the session's entity. *)
ReferenceFallsBack(q, page, ctx) ==
  CASE ~Says(q, "deixis") -> "none"
    [] Says(q, "deixis") /\ page.rows > 1 -> "multiple"
    [] OTHER -> IF Pinned(page) \/ Pinned(ctx) THEN "resolved" ELSE "unresolved"

(* resolveDeixisReferences: what "this one" refers to. *)
Reference(q, page, ctx) ==
  CASE ~Says(q, "deixis") -> "none"
    [] Says(q, "deixis") /\ page.rows > 1 -> "multiple"
    [] Says(q, "deixis") /\ page.rows <= 1 /\ Pinned(page) -> "resolved"
    [] Says(q, "deixis") /\ page.rows <= 1 /\ page.type = NoType /\ Pinned(ctx) ->
         "resolved"
    [] OTHER -> "unresolved"

(* isDocumentTaskType(inferTaskType(...)) *)
DocumentTask(q) == q.length # "blank" /\ Says(q, "document")

(* inferCandidateTools *)
Tools(q, page, ctx) ==
  LET found == {e.type : e \in Entities(q, page, ctx)}
      asked == {t \in {"order", "workOrder", "itemSku", "partner"} :
                  \/ t \in found
                  \/ t = "order" /\ (Says(q, "order") \/ Says(q, "salesOrder"))
                  \/ t = "workOrder" /\ Says(q, "workOrder")
                  \/ t = "itemSku" /\ (Says(q, "sku") \/ Says(q, "stock"))
                  \/ t = "partner" /\ Says(q, "partner")}
  IN  IF q.length = "blank" \/ Says(q, "destroy") \/ Says(q, "document") THEN {}
      ELSE IF asked = {} THEN {"general"} ELSE asked

(* firstToolName: the candidates are in the order the code tries them.     *)
FirstTool(tools) ==
  CASE "order" \in tools -> "order"
    [] "workOrder" \in tools /\ "order" \notin tools -> "workOrder"
    [] "itemSku" \in tools /\ {"order", "workOrder"} \cap tools = {} -> "itemSku"
    [] tools = {"partner"} -> "partner"
    [] OTHER -> "general"

(* selectSideEffectToolName: what a change is made with.  Only a page about *)
(* orders has tools of its own for it.                                     *)
ChangeTool == [draft |-> "orders.update", approval |-> "orders.cancel"]

AboutOrders(page) == page.orders \/ page.type = "order"

(* Mutant of SelectedTool: the module of the page is not looked at. *)
SelectedByEntity(kind, q, page, ctx) ==
  IF page.type = "order" THEN ChangeTool[kind] ELSE FirstTool(Tools(q, page, ctx))

SelectedTool(kind, q, page, ctx) ==
  IF AboutOrders(page) THEN ChangeTool[kind] ELSE FirstTool(Tools(q, page, ctx))

(* inferRiskLevel *)
Risk(q) ==
  CASE Says(q, "urgent") /\ (Says(q, "destroy") \/ Says(q, "update")) -> "critical"
    [] Says(q, "destroy") /\ ~Says(q, "urgent") -> "high"
    [] Says(q, "update") /\ ~Says(q, "destroy") /\ ~Says(q, "urgent") -> "medium"
    [] OTHER -> "low"

(* generateClarificationNeeds; every need is blocking. *)
Needs(q, page, ctx) ==
  {n \in {"unsupported_time_range", "empty_query", "multiple_candidates",
          "missing_page_context", "missing_order_identifier",
          "low_confidence_intent"} :
     CASE n = "unsupported_time_range" -> Says(q, "recent")
       [] n = "empty_query" -> q.length = "blank"
       [] n = "multiple_candidates" -> Reference(q, page, ctx) = "multiple"
       [] n = "missing_page_context" -> Reference(q, page, ctx) = "unresolved"
       [] n = "missing_order_identifier" ->
            /\ ~DocumentTask(q) /\ Says(q, "order") /\ ~Says(q, "deixis")
            /\ \A e \in Entities(q, page, ctx) : e.type # "order"
       [] n = "low_confidence_intent" ->
            ~DocumentTask(q) /\ Tools(q, page, ctx) = {} /\ q.length # "blank"}

(* scoreQueryUnderstandingConfidence, in hundredths.                       *)
Confidence(q, page, ctx) ==
  LET points == 25
        + (IF Tools(q, page, ctx) # {} THEN 20 ELSE 0)
        + (IF DocumentTask(q) THEN 35 ELSE 0)
        + (IF Entities(q, page, ctx) # {} THEN 30 ELSE 0)
        + (IF Reference(q, page, ctx) = "resolved" THEN 20 ELSE 0)
        + (IF q.length = "long" THEN 10 ELSE 0)
        - (IF Needs(q, page, ctx) # {} THEN 35 ELSE 0)
  IN  IF q.length = "blank" \/ points < 0 THEN 0
      ELSE IF points > 100 THEN 100 ELSE points

(* determinePlanningDecision *)
Clarify(q, page, ctx) ==
  Needs(q, page, ctx) # {} \/ Confidence(q, page, ctx) < 70

(* evaluatePreRuntime names the first need; these are the ones that say    *)
(* what "this one" is, when neither of the two before them is there.       *)
AsksWhichOne(needs) ==
  /\ needs \cap {"multiple_candidates", "missing_page_context"} # {}
  /\ needs \cap {"unsupported_time_range", "empty_query"} = {}

(* Mutant of Gated: the selected rows are not counted. *)
GatedById(q, page, ctx) ==
  IF Risk(q) = "low" THEN Clarify(q, page, ctx)
  ELSE AsksWhichOne(Needs(q, page, ctx)) /\ page.id = NoId

(* shouldApplyPreRuntimeClarificationGate: a plan with a side effect stops *)
(* only there, and only if the page does not show one entity.              *)
Gated(q, page, ctx) ==
  IF Risk(q) = "low" THEN Clarify(q, page, ctx)
  ELSE /\ AsksWhichOne(Needs(q, page, ctx))
       /\ (page.id = NoId \/ page.rows > 1)

(* The branches of sendMessage. *)
Route(q, page, ctx) ==
  IF Gated(q, page, ctx) THEN "clarify"
  ELSE CASE Risk(q) = "medium" -> "confirm"
         [] Risk(q) = "critical" -> "escalate"
         [] Risk(q) = "high" -> "approve"
         [] Risk(q) = "low" -> IF DocumentTask(q) THEN "documents" ELSE "runtime"
=============================================================================
