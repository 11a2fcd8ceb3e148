-------------------------- MODULE MessageFlowProofs --------------------------
(***************************************************************************)
(* Theorems about QueryPlanning and MessageFlow, for every question, page, *)
(* context, and every number of sessions, messages and crashes.            *)
(***************************************************************************)
EXTENDS MessageFlow, SequenceTheorems, FiniteSetTheorems, TLAPS

-----------------------------------------------------------------------------
(* Planning *)

LEMMA RouteOptions ==
  ASSUME NEW q, NEW page, NEW ctx
  PROVE  /\ Route(q, page, ctx) \in {"clarify", "confirm", "approve", "escalate",
                                     "documents", "runtime"}
         /\ Route(q, page, ctx) \in {"documents", "runtime"} =>
              Risk(q) = "low" /\ ~Clarify(q, page, ctx)
<1>1. Risk(q) \in {"low", "medium", "high", "critical"}
  BY DEF Risk
<1> QED BY <1>1 DEF Route, Gated

(* Without a word for a document and without an entity the score stays     *)
(* below the threshold.                                                    *)
LEMMA NothingToFind ==
  ASSUME NEW q, NEW page, NEW ctx, ~DocumentTask(q), Entities(q, page, ctx) = {}
  PROVE  Confidence(q, page, ctx) < 70
<1>1. Reference(q, page, ctx) # "resolved"
  <2>1. SUFFICES ASSUME Reference(q, page, ctx) = "resolved" PROVE FALSE
    OBVIOUS
  <2>2. Says(q, "deixis") /\ (Pinned(page) \/ Pinned(ctx))
    BY <2>1 DEF Reference
  <2> QED BY <2>2 DEF Entities
<1> QED BY <1>1 DEF Confidence

(* Retrieval and tools are used only on questions without a guess in them. *)
LEMMA RoutedAnswerable ==
  ASSUME NEW q \in Queries, NEW page, NEW ctx,
         page.rows \in 0..2,
         Route(q, page, ctx) \in {"documents", "runtime"}
  PROVE  Answerable(q, page, ctx)
<1>1. /\ Risk(q) = "low" /\ Needs(q, page, ctx) = {}
      /\ ~(Confidence(q, page, ctx) < 70)
  BY RouteOptions DEF Clarify
<1>2. /\ ~Says(q, "recent") /\ q.length # "blank"
      /\ Reference(q, page, ctx) \notin {"multiple", "unresolved"}
      /\ ~(/\ ~DocumentTask(q) /\ Says(q, "order") /\ ~Says(q, "deixis")
           /\ \A e \in Entities(q, page, ctx) : e.type # "order")
  BY <1>1 DEF Needs
<1>3. ~Says(q, "update") /\ ~Says(q, "destroy")
  BY <1>1 DEF Risk
<1>4. Says(q, "deixis") =>
        page.rows <= 1 /\ (Pinned(page) \/ (page.type = NoType /\ Pinned(ctx)))
  BY <1>2 DEF Reference
<1>5. Says(q, "order") /\ ~Says(q, "deixis") /\ ~Says(q, "document") =>
        \E e \in q.named : e.type = "order"
  BY <1>2 DEF DocumentTask, Entities
<1>6. Says(q, "document") \/ Entities(q, page, ctx) # {}
  BY <1>1, NothingToFind DEF DocumentTask
<1> QED BY <1>2, <1>3, <1>4, <1>5, <1>6 DEF Answerable, Says

(* What the weights and the threshold of the confidence come to: a question *)
(* with no open need is looked up exactly when an entity was found in it,  *)
(* or when it is a long question about a document.  A short one about a    *)
(* document is asked back although nothing in it is missing.               *)
THEOREM ThresholdMeans ==
  ASSUME NEW q \in Queries, NEW page, NEW ctx, Needs(q, page, ctx) = {}
  PROVE  ~Clarify(q, page, ctx) <=>
           \/ Entities(q, page, ctx) # {}
           \/ DocumentTask(q) /\ q.length = "long"
<1>1. q.length # "blank" /\ (DocumentTask(q) \/ Tools(q, page, ctx) # {})
  BY DEF Needs
<1>2. Reference(q, page, ctx) = "resolved" => Entities(q, page, ctx) # {}
  <2>1. Reference(q, page, ctx) = "resolved" =>
          Says(q, "deixis") /\ (Pinned(page) \/ Pinned(ctx))
    BY DEF Reference
  <2> QED BY <2>1 DEF Entities
<1>3. DocumentTask(q) => Tools(q, page, ctx) = {}
  BY DEF DocumentTask, Tools
<1>4. Clarify(q, page, ctx) <=> Confidence(q, page, ctx) < 70
  BY DEF Clarify
<1>5. CASE DocumentTask(q)
  BY <1>1, <1>2, <1>3, <1>4, <1>5 DEF Confidence
<1>6. CASE ~DocumentTask(q)
  BY <1>1, <1>2, <1>4, <1>6 DEF Confidence
<1> QED BY <1>5, <1>6
-----------------------------------------------------------------------------
(* The invariant *)

Early == {"idle", "log_received", "load", "understand", "log_understood",
          "plan", "log_planned", "respond"}
Branch == {"ask", "log_question", "request", "research", "decide", "review",
           "complete"}
Late == {"mark", "log_answer", "done"}

RequestOf == [confirmation_required |-> "draft", approval_required |-> "approval",
              escalation_required |-> "escalation"]

(* What is stored for the answer of m. *)
Has(m, question, request, decision, review) ==
  /\ rows[m].request = request /\ rows[m].decision = decision
  /\ rows[m].question <=> question
  /\ rows[m].review <=> review

HasNothing(m) == Has(m, FALSE, "none", "none", FALSE)

(* What is stored when the answer of m is about to be given. *)
HasBasis(m) ==
  Has(m, result[m] = "clarification_required",
      IF result[m] \in Waiting THEN RequestOf[result[m]] ELSE "none",
      IF result[m] \in Decided THEN result[m] ELSE "none",
      result[m] \in Reviewed)

(* A handler that has come this far has stored this much.                  *)
Stored(m) ==
  /\ pc[m] = "idle" => rows[m] = NoRows
  /\ pc[m] # "idle" => input[m] \in Inputs /\ rows[m].stored
  /\ pc[m] = "log_understood" => rows[m].understood
  /\ pc[m] = "log_planned" => rows[m].planned
  /\ pc[m] \in Early =>
       rows[m].answer = "absent" /\ result[m] = "none" /\ HasNothing(m)
  /\ pc[m] \in Branch => rows[m].answer = "pending"
  /\ pc[m] \in Late => rows[m].answer = result[m]
  /\ rows[m].answer \in Statuses => pc[m] \in Late \cup {"cut"}
  /\ pc[m] \in {"refused", "withdrawn"} => rows[m].request = "none"

(* And it is about to store the rest of what its answer refers to.         *)
Prepared(m) ==
  /\ pc[m] = "ask" => result[m] = "clarification_required" /\ HasNothing(m)
  /\ pc[m] = "log_question" =>
       result[m] = "clarification_required" /\ Has(m, TRUE, "none", "none", FALSE)
  /\ pc[m] = "request" =>
       /\ result[m] \in Waiting /\ RouteOf(m) \in DOMAIN KindOf
       /\ KindOf[RouteOf(m)] = RequestOf[result[m]] /\ HasNothing(m)
  /\ pc[m] = "research" => result[m] = "none" /\ HasNothing(m)
  /\ pc[m] = "decide" =>
       /\ result[m] \in Decided
       /\ Has(m, result[m] = "clarification_required", "none", "none", FALSE)
  /\ pc[m] = "review" =>
       result[m] \in Reviewed /\ Has(m, FALSE, "none", result[m], FALSE)
  /\ pc[m] \in {"complete"} \cup Late => result[m] \in Statuses /\ HasBasis(m)

(* Only questions routed to retrieval or a tool get an answer from there.  *)
Routed(m) ==
  /\ pc[m] = "research" \/ Researched(m) => RouteOf(m) \in {"documents", "runtime"}
  /\ rows[m].decision \in {"none", result[m]}

Reported(m) ==
  \A i \in DOMAIN trail[m] :
    LET e == trail[m][i]
    IN  /\ e = "message_received" => rows[m].stored
        /\ e = "query_understanding_completed" => rows[m].understood
        /\ e = "execution_plan_created" => rows[m].planned
        /\ e = "clarification_question_created" => rows[m].question
        /\ e = "request_created" => rows[m].request # "none"
        /\ e = "review_item_created" => rows[m].review
        /\ e \in Statuses => rows[m].answer = e /\ i = Len(trail[m])

(* The answer is reported last. *)
Silent(m) == pc[m] # "done" => \A i \in DOMAIN trail[m] : trail[m][i] \notin Statuses

Good(m) == Stored(m) /\ Prepared(m) /\ Routed(m) /\ Reported(m) /\ Silent(m)

IInv == TypeOK /\ (\A m \in Messages : Good(m)) /\ ContextExplained

-----------------------------------------------------------------------------
(* Types *)

LEMMA RowTypes ==
  ASSUME TypeOK, NEW m \in Messages, NEW row \in MessageRows,
         rows' = [rows EXCEPT ![m] = row]
  PROVE  rows' \in [Messages -> MessageRows]
BY DEF TypeOK

LEMMA GotoTypes ==
  ASSUME TypeOK, NEW m \in Messages, NEW l \in Stages \cup {"idle"} \cup Ends,
         Goto(m, l)
  PROVE  pc' \in [Messages -> Stages \cup {"idle"} \cup Ends]
BY DEF TypeOK, Goto

LEMMA LogTypes ==
  ASSUME TypeOK, NEW m \in Messages, NEW e \in Events, Logged(m, e)
  PROVE  trail' \in [Messages -> Seq(Events)]
<1>1. trail[m] \in Seq(Events)
  BY DEF TypeOK
<1>2. Append(trail[m], e) \in Seq(Events)
  BY <1>1, AppendProperties
<1> QED BY <1>2 DEF TypeOK, Logged

LEMMA SessionTypes ==
  ASSUME TypeOK, NEW s \in Sessions, Create(s) \/ AbortSession(s)
  PROVE  TypeOK'
<1>1. CASE InsertSession(s)
  BY <1>1 DEF InsertSession, TypeOK
<1>2. CASE InsertContext(s)
  <2>1. PICK page \in Start :
          context' = [context EXCEPT ![s] = [NoContext EXCEPT !.type = page.type,
                                                              !.id = page.id]]
    BY <1>2 DEF InsertContext
  <2>2. page.type \in Types \cup {NoType} /\ page.id \in Ids \cup {NoId}
    BY <2>1, InputAssumption DEF Pages
  <2>3. [NoContext EXCEPT !.type = page.type, !.id = page.id] \in Contexts
    BY <2>2 DEF NoContext, Contexts, Tasks
  <2> QED BY <1>2, <2>1, <2>3 DEF InsertContext, TypeOK
<1>3. CASE AuditSession(s)
  BY <1>3 DEF AuditSession, TypeOK
<1>4. CASE AbortSession(s)
  BY <1>4 DEF AbortSession, TypeOK
<1> QED BY <1>1, <1>2, <1>3, <1>4 DEF Create

LEMMA FirstSteps ==
  ASSUME NEW m \in Messages
  PROVE  /\ FirstStep(m) \in {"ask", "request", "research"}
         /\ FirstStep(m) = "ask" => RouteOf(m) = "clarify"
         /\ FirstStep(m) = "request" => RouteOf(m) \in {"confirm", "approve", "escalate"}
         /\ FirstStep(m) = "research" => RouteOf(m) \in {"documents", "runtime"}
         /\ RouteOf(m) \in {"clarify", "confirm", "approve", "escalate",
                            "documents", "runtime"}
BY RouteOptions DEF FirstStep, RouteOf, KindOf

LEMMA StepTypes ==
  ASSUME TypeOK, NEW m \in Messages, Stored(m), Prepared(m), Step(m) \/ Abort(m)
  PROVE  TypeOK'
<1> DEFINE Places == Stages \cup {"idle"} \cup Ends
<1>0. /\ rows[m] \in MessageRows /\ result[m] \in Statuses \cup {"none"}
      /\ aborts \in Nat
  BY DEF TypeOK
<1>1. CASE Audit(m)
  <2>1. /\ EventAt[pc[m]] \in Events /\ AfterEvent[pc[m]] \in Places
        /\ Logged(m, EventAt[pc[m]]) /\ Goto(m, AfterEvent[pc[m]])
    BY <1>1 DEF Audit, EventAt, AfterEvent, Events, Stages
  <2> QED BY <1>1, <2>1, LogTypes, GotoTypes DEF Audit, TypeOK
<1>2. CASE LoadContext(m)
  <2>1. /\ SessionOf[m] \in Sessions /\ "understand" \in Places
        /\ [type |-> context[SessionOf[m]].type,
            id |-> context[SessionOf[m]].id] \in Pointers
    BY InputAssumption DEF TypeOK, Contexts, Pointers, Stages
  <2> QED BY <1>2, <2>1, GotoTypes DEF LoadContext, TypeOK
<1>3. CASE Understand(m)
  <2>1. rows' = [rows EXCEPT ![m] = [rows[m] EXCEPT !.understood = TRUE]]
    BY <1>0, <1>3 DEF Understand, TypeOK
  <2>2. [rows[m] EXCEPT !.understood = TRUE] \in MessageRows
    BY <1>0 DEF MessageRows
  <2>3. "log_understood" \in Places
    BY DEF Stages
  <2> QED BY <1>3, <2>1, <2>2, <2>3, RowTypes, GotoTypes DEF Understand, TypeOK
<1>4. CASE Plan(m)
  <2>1. rows' = [rows EXCEPT ![m] = [rows[m] EXCEPT !.planned = TRUE]]
    BY <1>0, <1>4 DEF Plan, TypeOK
  <2>2. [rows[m] EXCEPT !.planned = TRUE] \in MessageRows
    BY <1>0 DEF MessageRows
  <2>3. "log_planned" \in Places
    BY DEF Stages
  <2> QED BY <1>4, <2>1, <2>2, <2>3, RowTypes, GotoTypes DEF Plan, TypeOK
<1>5. CASE Respond(m)
  <2>1. rows' = [rows EXCEPT ![m] = [rows[m] EXCEPT !.answer = "pending"]]
    BY <1>0, <1>5 DEF Respond, TypeOK
  <2>2. [rows[m] EXCEPT !.answer = "pending"] \in MessageRows
    BY <1>0 DEF MessageRows
  <2>3. FirstStep(m) \in Places
    BY FirstSteps DEF Stages
  <2>4. (IF RouteOf(m) \in DOMAIN StatusOf THEN StatusOf[RouteOf(m)] ELSE "none")
          \in Statuses \cup {"none"}
    BY DEF StatusOf, Statuses, Waiting, Decided
  <2> QED BY <1>5, <2>1, <2>2, <2>3, <2>4, RowTypes, GotoTypes DEF Respond, TypeOK
<1>6. CASE Ask(m)
  <2>1. rows' = [rows EXCEPT ![m] = [rows[m] EXCEPT !.question = TRUE]]
    BY <1>0, <1>6 DEF Ask, TypeOK
  <2>2. [rows[m] EXCEPT !.question = TRUE] \in MessageRows
    BY <1>0 DEF MessageRows
  <2>3. "log_question" \in Places
    BY DEF Stages
  <2> QED BY <1>6, <2>1, <2>2, <2>3, RowTypes, GotoTypes DEF Ask, TypeOK
<1>7. CASE CreateRequest(m)
  <2>1. KindOf[RouteOf(m)] \in RequestKinds
    BY <1>7 DEF CreateRequest, Prepared, KindOf, RequestKinds
  <2>2. rows' = [rows EXCEPT ![m] = [rows[m] EXCEPT !.request = KindOf[RouteOf(m)]]]
    BY <1>0, <1>7 DEF CreateRequest, TypeOK
  <2>3. [rows[m] EXCEPT !.request = KindOf[RouteOf(m)]] \in MessageRows
    BY <1>0, <2>1 DEF MessageRows
  <2>4. "complete" \in Places /\ "request_created" \in Events
    BY DEF Stages, Events
  <2>5. Logged(m, "request_created") /\ Goto(m, "complete")
    BY <1>7 DEF CreateRequest
  <2> QED BY <1>7, <2>2, <2>3, <2>4, <2>5, RowTypes, GotoTypes, LogTypes
          DEF CreateRequest, TypeOK
<1>8. CASE Research(m)
  <2>1. PICK f \in Findings(m) : result' = [result EXCEPT ![m] = f]
    BY <1>8 DEF Research
  <2>2. f \in Statuses
    BY DEF Findings, Statuses, Decided, Reviewed
  <2>3. "decide" \in Places
    BY DEF Stages
  <2> QED BY <1>8, <2>1, <2>2, <2>3, GotoTypes DEF Research, TypeOK
<1>9. CASE Decide(m)
  <2>1. result[m] \in Decided
    BY <1>9 DEF Decide, Prepared
  <2>2. rows' = [rows EXCEPT ![m] = [rows[m] EXCEPT !.decision = result[m]]]
    BY <1>0, <1>9 DEF Decide, TypeOK
  <2>3. [rows[m] EXCEPT !.decision = result[m]] \in MessageRows
    BY <1>0, <2>1 DEF MessageRows
  <2>4. AfterDecide(m) \in Places
    BY DEF AfterDecide, Stages
  <2> QED BY <1>9, <2>2, <2>3, <2>4, RowTypes, GotoTypes DEF Decide, TypeOK
<1>10. CASE CreateReview(m)
  <2>2. rows' = [rows EXCEPT ![m] = [rows[m] EXCEPT !.review = TRUE]]
    BY <1>0, <1>10 DEF CreateReview, TypeOK
  <2>3. [rows[m] EXCEPT !.review = TRUE] \in MessageRows
    BY <1>0 DEF MessageRows
  <2>4. "complete" \in Places /\ "review_item_created" \in Events
    BY DEF Stages, Events
  <2>5. Logged(m, "review_item_created") /\ Goto(m, "complete")
    BY <1>10 DEF CreateReview
  <2> QED BY <1>10, <2>2, <2>3, <2>4, <2>5, RowTypes, GotoTypes, LogTypes
          DEF CreateReview, TypeOK
<1>11. CASE Complete(m)
  <2>1. result[m] \in Statuses
    BY <1>11 DEF Complete, Prepared
  <2>2. rows' = [rows EXCEPT ![m] = [rows[m] EXCEPT !.answer = result[m]]]
    BY <1>0, <1>11 DEF Complete, TypeOK
  <2>3. [rows[m] EXCEPT !.answer = result[m]] \in MessageRows
    BY <1>0, <2>1 DEF MessageRows
  <2>4. "mark" \in Places
    BY DEF Stages
  <2> QED BY <1>11, <2>2, <2>3, <2>4, RowTypes, GotoTypes DEF Complete, TypeOK
<1>12. CASE MarkContext(m)
  <2> DEFINE s == SessionOf[m]
             ctx == context[s]
             new == Marked(m, ctx)
  <2>1. s \in Sessions /\ ctx \in Contexts /\ "log_answer" \in Places
    BY InputAssumption DEF TypeOK, Stages
  <2>2. new \in Contexts
    <3>1. input[m].page.type \in Types \cup {NoType, ctx.type}
            /\ input[m].page.id \in Ids \cup {NoId, ctx.id}
      BY <1>12, InputAssumption DEF MarkContext, Stored, InputRecord, Pages
    <3>2. TaskAfter(m) \in Tasks
      BY DEF TaskAfter, Tasks
    <3>3. /\ QuestionAfter(m, ctx.clarification) \in Messages \cup {NoMessage}
          /\ ApprovalAfter(m, ctx.approval) \in Messages \cup {NoMessage}
      BY <2>1 DEF QuestionAfter, ApprovalAfter, Contexts
    <3>4. /\ Kept(input[m].page.type, NoType, ctx.type) \in Types \cup {NoType}
          /\ Kept(input[m].page.id, NoId, ctx.id) \in Ids \cup {NoId}
      BY <2>1, <3>1 DEF Kept, Contexts
    <3> QED BY <2>1, <3>2, <3>3, <3>4 DEF Marked, Shown, Contexts
  <2>3. context' = [context EXCEPT ![s] = new]
    BY <1>12, <2>1 DEF MarkContext, TypeOK
  <2> HIDE DEF new
  <2> QED BY <1>12, <2>1, <2>2, <2>3, GotoTypes DEF MarkContext, TypeOK
<1>13. CASE AuditAnswer(m)
  <2>1. result[m] \in Events /\ "done" \in Places
    BY <1>13 DEF AuditAnswer, Prepared, Late, Events, Ends
  <2> QED BY <1>13, <2>1, LogTypes, GotoTypes DEF AuditAnswer, TypeOK
<1>14. CASE Abort(m)
  <2>1. "cut" \in Places
    BY DEF Ends
  <2> QED BY <1>0, <1>14, <2>1, GotoTypes DEF Abort, TypeOK
<1>15. CASE RefuseRequest(m) \/ LoseDocument(m)
  <2>1. "refused" \in Places /\ "withdrawn" \in Places
    BY DEF Ends
  <2> QED BY <1>15, <2>1, GotoTypes DEF RefuseRequest, LoseDocument, TypeOK
<1> QED
  BY <1>1, <1>2, <1>3, <1>4, <1>5, <1>6, <1>7, <1>8, <1>9, <1>10, <1>11, <1>12,
     <1>13, <1>14, <1>15 DEF Step

LEMMA ReceiveTypes ==
  ASSUME TypeOK, NEW m \in Messages, NEW i \in Inputs, Receive(m, i)
  PROVE  TypeOK'
<1>1. rows[m] \in MessageRows
  BY DEF TypeOK
<1>2. rows' = [rows EXCEPT ![m] = [rows[m] EXCEPT !.stored = TRUE]]
  BY <1>1 DEF Receive, TypeOK
<1>3. [rows[m] EXCEPT !.stored = TRUE] \in MessageRows
  BY <1>1 DEF MessageRows
<1>4. "log_received" \in Stages
  BY DEF Stages
<1> QED BY <1>2, <1>3, <1>4, RowTypes, GotoTypes DEF Receive, TypeOK

-----------------------------------------------------------------------------
(* A handler touches only what belongs to its message.                     *)
LEMMA OthersKept ==
  ASSUME TypeOK, NEW m \in Messages, NEW n \in Messages \ {m}, Good(n),
         Step(m) \/ Abort(m) \/ \E i \in Inputs : Receive(m, i)
  PROVE  Good(n)'
<1>1. /\ pc'[n] = pc[n] /\ input'[n] = input[n] /\ seen'[n] = seen[n]
      /\ rows'[n] = rows[n] /\ trail'[n] = trail[n] /\ result'[n] = result[n]
  BY DEF TypeOK, Step, Abort, Receive, Goto, Logged, Audit, LoadContext,
     Understand, Plan, Respond, Ask, CreateRequest, RefuseRequest, Research, LoseDocument, Decide,
     CreateReview, Complete, MarkContext, AuditAnswer
<1>2. (RouteOf(n))' = RouteOf(n)
  BY <1>1 DEF RouteOf
<1> QED BY <1>1, <1>2 DEF Good, Stored, Prepared, Routed, Reported, Silent, Has,
           HasNothing, HasBasis, Researched

(* Rows are added and never taken away, so what was reported stays so.     *)
LEMMA StillReported ==
  ASSUME NEW m \in Messages, Reported(m), Silent(m), pc[m] # "done",
         trail'[m] = trail[m],
         rows[m].stored => rows'[m].stored,
         rows[m].understood => rows'[m].understood,
         rows[m].planned => rows'[m].planned,
         rows[m].question => rows'[m].question,
         rows[m].request # "none" => rows'[m].request # "none",
         rows[m].review => rows'[m].review
  PROVE  Reported(m)' /\ Silent(m)'
BY DEF Reported, Silent

(* An event that is true of the rows is reported.                          *)
LEMMA NowReported ==
  ASSUME TypeOK, NEW m \in Messages, Reported(m), Silent(m), pc[m] # "done",
         NEW e, Logged(m, e),
         rows[m].stored => rows'[m].stored,
         rows[m].understood => rows'[m].understood,
         rows[m].planned => rows'[m].planned,
         rows[m].question => rows'[m].question,
         rows[m].request # "none" => rows'[m].request # "none",
         rows[m].review => rows'[m].review,
         e = "message_received" => rows'[m].stored,
         e = "query_understanding_completed" => rows'[m].understood,
         e = "execution_plan_created" => rows'[m].planned,
         e = "clarification_question_created" => rows'[m].question,
         e = "request_created" => rows'[m].request # "none",
         e = "review_item_created" => rows'[m].review,
         e \in Statuses => rows'[m].answer = e /\ pc'[m] = "done"
  PROVE  Reported(m)' /\ Silent(m)'
<1>1. trail[m] \in Seq(Events) /\ trail'[m] = Append(trail[m], e)
  BY DEF TypeOK, Logged
<1>2. /\ Len(trail'[m]) = Len(trail[m]) + 1 /\ Len(trail[m]) \in Nat
      /\ DOMAIN trail'[m] = 1..Len(trail'[m]) /\ DOMAIN trail[m] = 1..Len(trail[m])
      /\ trail'[m][Len(trail'[m])] = e
      /\ \A i \in DOMAIN trail[m] : trail'[m][i] = trail[m][i]
  BY <1>1
<1>3. \A i \in DOMAIN trail'[m] : i = Len(trail'[m]) \/ i \in DOMAIN trail[m]
  BY <1>2
<1>4. \A i \in DOMAIN trail[m] : trail'[m][i] \notin Statuses
  BY <1>2 DEF Silent
<1>5. Reported(m)'
  <2> SUFFICES ASSUME NEW i \in DOMAIN trail'[m]
               PROVE  LET f == trail'[m][i]
                      IN  /\ f = "message_received" => rows'[m].stored
                          /\ f = "query_understanding_completed" => rows'[m].understood
                          /\ f = "execution_plan_created" => rows'[m].planned
                          /\ f = "clarification_question_created" => rows'[m].question
                          /\ f = "request_created" => rows'[m].request # "none"
                          /\ f = "review_item_created" => rows'[m].review
                          /\ f \in Statuses => /\ rows'[m].answer = f
                                               /\ i = Len(trail'[m])
    BY DEF Reported
  <2>1. CASE i = Len(trail'[m])
    BY <2>1, <1>2
  <2>2. CASE i \in DOMAIN trail[m]
    BY <2>2, <1>2, <1>4 DEF Reported
  <2> QED BY <1>3, <2>1, <2>2
<1>6. Silent(m)'
  BY <1>2, <1>3, <1>4 DEF Silent
<1> QED BY <1>5, <1>6

LEMMA EventsAreNoStatuses ==
  {"message_received", "query_understanding_completed", "execution_plan_created",
   "clarification_question_created", "request_created", "review_item_created"}
    \cap Statuses = {}
BY DEF Statuses, Decided, Waiting, Reviewed

LEMMA ReceiveGood ==
  ASSUME TypeOK, NEW m \in Messages, Good(m), NEW i \in Inputs, Receive(m, i)
  PROVE  Good(m)'
<1>1. /\ pc[m] = "idle" /\ pc'[m] = "log_received" /\ rows[m] = NoRows
      /\ rows'[m] = [NoRows EXCEPT !.stored = TRUE]
      /\ input'[m] = i /\ trail'[m] = trail[m] /\ result'[m] = result[m]
  BY DEF TypeOK, Receive, Goto, Good, Stored
<1>2. Stored(m)'
  BY <1>1 DEF Good, Stored, Early, Branch, Late, Has, HasNothing, NoRows,
     Statuses, Decided, Waiting, Reviewed
<1>3. Prepared(m)'
  BY <1>1 DEF Prepared, Late
<1>4. Routed(m)'
  BY <1>1 DEF Good, Stored, Early, Routed, Researched, NoRows, Reviewed
<1>5. Reported(m)' /\ Silent(m)'
  BY <1>1, StillReported DEF Good, NoRows
<1> QED BY <1>2, <1>3, <1>4, <1>5 DEF Good

(* Up to the branches nothing but the rows of understanding is stored.     *)
LEMMA OpeningGood ==
  ASSUME TypeOK, NEW m \in Messages, Good(m),
         LoadContext(m) \/ Understand(m) \/ Plan(m) \/ Respond(m)
  PROVE  Good(m)'
<1>0. rows[m] \in MessageRows
  BY DEF TypeOK
<1>1. /\ pc[m] \in {"load", "understand", "plan", "respond"}
      /\ input'[m] = input[m] /\ trail'[m] = trail[m]
      /\ rows[m].answer = "absent" /\ result[m] = "none" /\ HasNothing(m)
      /\ rows[m].stored /\ input[m] \in Inputs
  BY DEF TypeOK, LoadContext, Understand, Plan, Respond, Good, Stored, Early
<1>2. CASE LoadContext(m)
  <2>1. /\ pc'[m] = "understand" /\ rows'[m] = rows[m] /\ result'[m] = "none"
    BY <1>1, <1>2 DEF TypeOK, LoadContext, Goto
  <2>2. Reported(m)' /\ Silent(m)'
    BY <1>1, <2>1, StillReported DEF Good
  <2>3. Stored(m)'
    BY <1>1, <2>1 DEF Stored, Early, Branch, Late, Has, HasNothing, Statuses,
       Decided, Waiting, Reviewed
  <2>4. Prepared(m)' /\ Routed(m)'
    BY <1>1, <2>1 DEF Prepared, Routed, Researched, Late, Has, HasNothing, Reviewed
  <2> QED BY <2>2, <2>3, <2>4 DEF Good
<1>3. CASE Understand(m)
  <2>1. /\ pc'[m] = "log_understood" /\ result'[m] = "none"
        /\ rows'[m] = [rows[m] EXCEPT !.understood = TRUE]
    BY <1>0, <1>1, <1>3 DEF TypeOK, Understand, Goto
  <2>2. /\ rows'[m].understood /\ rows'[m].stored /\ rows'[m].answer = "absent"
        /\ Has(m, FALSE, "none", "none", FALSE)' /\ rows'[m].planned = rows[m].planned
    BY <1>0, <1>1, <2>1 DEF MessageRows, Has, HasNothing
  <2>3. Reported(m)' /\ Silent(m)'
    BY <1>1, <2>2, StillReported DEF Good, Has, HasNothing
  <2> QED BY <1>1, <2>1, <2>2, <2>3
          DEF Good, Stored, Prepared, Routed, Researched, Early, Branch, Late, Has,
              HasNothing, Reviewed, Statuses, Decided, Waiting
<1>4. CASE Plan(m)
  <2>1. /\ pc'[m] = "log_planned" /\ result'[m] = "none"
        /\ rows'[m] = [rows[m] EXCEPT !.planned = TRUE]
    BY <1>0, <1>1, <1>4 DEF TypeOK, Plan, Goto
  <2>2. /\ rows'[m].planned /\ rows'[m].stored /\ rows'[m].answer = "absent"
        /\ Has(m, FALSE, "none", "none", FALSE)'
        /\ rows'[m].understood = rows[m].understood
    BY <1>0, <1>1, <2>1 DEF MessageRows, Has, HasNothing
  <2>3. Reported(m)' /\ Silent(m)'
    BY <1>1, <2>2, StillReported DEF Good, Has, HasNothing
  <2> QED BY <1>1, <2>1, <2>2, <2>3
          DEF Good, Stored, Prepared, Routed, Researched, Early, Branch, Late, Has,
              HasNothing, Reviewed, Statuses, Decided, Waiting
<1>5. CASE Respond(m)
  <2>1. /\ pc'[m] = FirstStep(m) /\ (RouteOf(m))' = RouteOf(m)
        /\ result'[m] = IF RouteOf(m) \in DOMAIN StatusOf
                        THEN StatusOf[RouteOf(m)] ELSE "none"
        /\ rows'[m] = [rows[m] EXCEPT !.answer = "pending"]
    BY <1>0, <1>1, <1>5 DEF TypeOK, Respond, Goto, RouteOf
  <2>2. /\ rows'[m].planned = rows[m].planned /\ rows'[m].stored
        /\ rows'[m].answer = "pending"
        /\ Has(m, FALSE, "none", "none", FALSE)'
        /\ rows'[m].understood = rows[m].understood
    BY <1>0, <1>1, <2>1 DEF MessageRows, Has, HasNothing
  <2>3. Reported(m)' /\ Silent(m)'
    BY <1>1, <2>2, StillReported DEF Good, Has, HasNothing
  <2>4. pc'[m] \in {"ask", "request", "research"}
    BY <2>1, FirstSteps
  <2>5. Stored(m)'
    BY <1>1, <2>2, <2>4 DEF Stored, Early, Branch, Late, Statuses, Decided, Waiting,
       Reviewed
  <2>6. Prepared(m)'
    <3>1. HasNothing(m)'
      BY <2>2 DEF HasNothing
    <3>2. CASE pc'[m] = "ask"
      <4>1. RouteOf(m) = "clarify"
        BY <2>1, <3>2, FirstSteps
      <4>2. result'[m] = "clarification_required"
        BY <2>1, <4>1 DEF StatusOf
      <4> QED BY <3>1, <3>2, <4>2 DEF Prepared, Late
    <3>3. CASE pc'[m] = "request"
      <4>1. RouteOf(m) \in {"confirm", "approve", "escalate"}
        BY <2>1, <3>3, FirstSteps
      <4> QED BY <2>1, <3>1, <3>3, <4>1
              DEF Prepared, StatusOf, KindOf, RequestOf, Late, Waiting
    <3>4. CASE pc'[m] = "research"
      BY <2>1, <3>1, <3>4, FirstSteps DEF Prepared, StatusOf, Late
    <3> QED BY <2>4, <3>2, <3>3, <3>4
  <2>7. Routed(m)'
    BY <2>1, <2>2, FirstSteps
       DEF Routed, Researched, StatusOf, Has, Reviewed
  <2> QED BY <2>3, <2>5, <2>6, <2>7 DEF Good
<1> QED BY <1>2, <1>3, <1>4, <1>5

LEMMA BranchGood ==
  ASSUME TypeOK, NEW m \in Messages, Good(m),
         Ask(m) \/ CreateRequest(m) \/ Research(m)
  PROVE  Good(m)'
<1>0. rows[m] \in MessageRows
  BY DEF TypeOK
<1>1. /\ pc[m] \in {"ask", "request", "research"}
      /\ input'[m] = input[m] /\ (RouteOf(m))' = RouteOf(m)
      /\ rows[m].answer = "pending" /\ HasNothing(m)
      /\ rows[m].stored /\ input[m] \in Inputs
  BY DEF TypeOK, Ask, CreateRequest, Research, Good, Stored, Prepared, Branch, RouteOf
<1>2. CASE Ask(m)
  <2>1. /\ pc'[m] = "log_question" /\ result'[m] = result[m]
        /\ result[m] = "clarification_required" /\ trail'[m] = trail[m]
        /\ rows'[m] = [rows[m] EXCEPT !.question = TRUE]
    BY <1>0, <1>2 DEF TypeOK, Ask, Goto, Good, Prepared
  <2>2. /\ rows'[m].stored /\ rows'[m].answer = "pending"
        /\ Has(m, TRUE, "none", "none", FALSE)'
        /\ rows'[m].understood = rows[m].understood
        /\ rows'[m].planned = rows[m].planned
    BY <1>0, <1>1, <2>1 DEF MessageRows, Has, HasNothing
  <2>3. Reported(m)' /\ Silent(m)'
    BY <1>1, <2>1, <2>2, StillReported DEF Good, Has, HasNothing
  <2>4. Stored(m)'
    BY <1>1, <2>1, <2>2 DEF Stored, Early, Branch, Late, Statuses, Decided, Waiting,
       Reviewed
  <2>5. Prepared(m)' /\ Routed(m)'
    BY <2>1, <2>2 DEF Prepared, Routed, Researched, Late, Has, Reviewed
  <2> QED BY <2>3, <2>4, <2>5 DEF Good
<1>3. CASE CreateRequest(m)
  <2> DEFINE kind == KindOf[RouteOf(m)]
  <2>1. /\ pc'[m] = "complete" /\ result'[m] = result[m]
        /\ result[m] \in Waiting /\ kind = RequestOf[result[m]]
        /\ trail'[m] = Append(trail[m], "request_created")
        /\ rows'[m] = [rows[m] EXCEPT !.request = kind]
    BY <1>0, <1>3 DEF TypeOK, CreateRequest, Goto, Logged, Good, Prepared
  <2>2. kind \in RequestKinds
    BY <2>1 DEF Waiting, RequestOf, RequestKinds
  <2> HIDE DEF kind
  <2>3. /\ rows'[m].stored /\ rows'[m].answer = "pending"
        /\ ~rows'[m].question /\ rows'[m].request = kind
        /\ rows'[m].decision = "none" /\ ~rows'[m].review
        /\ rows'[m].understood = rows[m].understood
        /\ rows'[m].planned = rows[m].planned
    BY <1>0, <1>1, <2>1, <2>2 DEF MessageRows, Has, HasNothing
  <2>4. Reported(m)' /\ Silent(m)'
    <3>1. Logged(m, "request_created") /\ kind # "none"
      BY <1>3, <2>2 DEF CreateRequest, RequestKinds
    <3> QED BY <1>1, <2>3, <3>1, EventsAreNoStatuses, NowReported
            DEF Good, Has, HasNothing
  <2>5. Stored(m)'
    BY <1>1, <2>1, <2>3 DEF Stored, Early, Branch, Late, Statuses, Decided, Waiting,
       Reviewed
  <2>6. HasBasis(m)'
    <3>1. /\ result[m] # "clarification_required" /\ result[m] \notin Decided
          /\ result[m] \notin Reviewed
      BY <2>1 DEF Waiting, Decided, Reviewed
    <3>2. /\ result'[m] \in Waiting /\ result'[m] \notin Decided \cup Reviewed
          /\ result'[m] # "clarification_required" /\ kind = RequestOf[result'[m]]
      BY <2>1, <3>1
    <3> QED BY <2>3, <3>2 DEF HasBasis, Has
  <2>7. Prepared(m)' /\ Routed(m)'
    BY <2>1, <2>3, <2>6 DEF Prepared, Routed, Researched, Late, Has, Reviewed,
       Statuses, Waiting
  <2> QED BY <2>4, <2>5, <2>7 DEF Good
<1>4. CASE Research(m)
  <2>1. PICK f \in Findings(m) : result' = [result EXCEPT ![m] = f]
    BY <1>4 DEF Research
  <2>2. f \in {"answered", "no_answer", "permission_denied"}
    BY DEF Findings
  <2>3. /\ pc'[m] = "decide" /\ result'[m] = f /\ rows'[m] = rows[m]
        /\ trail'[m] = trail[m]
    BY <1>4, <2>1 DEF TypeOK, Research, Goto
  <2>4. Reported(m)' /\ Silent(m)'
    BY <1>1, <2>3, StillReported DEF Good
  <2>5. Stored(m)'
    BY <1>1, <2>3 DEF Stored, Early, Branch, Late, Statuses, Decided, Waiting,
       Reviewed
  <2>6. Prepared(m)'
    BY <1>1, <2>2, <2>3 DEF Prepared, Late, Has, HasNothing, Decided, Reviewed
  <2>7. Routed(m)'
    BY <1>1, <1>4, <2>3 DEF Good, Routed, Research, Has, HasNothing
  <2> QED BY <2>4, <2>5, <2>6, <2>7 DEF Good
<1> QED BY <1>2, <1>3, <1>4

LEMMA DecideGood ==
  ASSUME TypeOK, NEW m \in Messages, Good(m), Decide(m) \/ CreateReview(m)
  PROVE  Good(m)'
<1>0. rows[m] \in MessageRows
  BY DEF TypeOK
<1>1. /\ pc[m] \in {"decide", "review"} /\ result'[m] = result[m]
      /\ input'[m] = input[m] /\ (RouteOf(m))' = RouteOf(m)
      /\ rows[m].answer = "pending" /\ rows[m].stored /\ input[m] \in Inputs
      /\ rows[m].request = "none" /\ result[m] \in Decided /\ ~rows[m].review
      /\ rows[m].question <=> result[m] = "clarification_required"
  BY DEF TypeOK, Decide, CreateReview, Good, Stored, Prepared, Branch, RouteOf, Has,
     Decided, Reviewed
<1>2. CASE Decide(m)
  <2>1. /\ pc'[m] = AfterDecide(m) /\ trail'[m] = trail[m]
        /\ rows'[m] = [rows[m] EXCEPT !.decision = result[m]]
    BY <1>0, <1>2 DEF TypeOK, Decide, Goto
  <2>2. /\ rows'[m].stored /\ rows'[m].answer = "pending"
        /\ Has(m, result[m] = "clarification_required", "none", result[m], FALSE)'
        /\ rows'[m].understood = rows[m].understood
        /\ rows'[m].planned = rows[m].planned /\ rows'[m].question = rows[m].question
    BY <1>0, <1>1, <2>1 DEF MessageRows, Has
  <2>3. /\ pc'[m] \in {"review", "complete"}
        /\ pc'[m] = "review" <=> result[m] \in Reviewed
    BY <2>1 DEF AfterDecide
  <2>4. Reported(m)' /\ Silent(m)'
    BY <1>1, <2>1, <2>2, StillReported DEF Good, Has
  <2>5. Stored(m)'
    BY <1>1, <2>2, <2>3 DEF Stored, Early, Branch, Late, Statuses, Decided, Waiting,
       Reviewed
  <2>6. Prepared(m)'
    <3>1. /\ result[m] \notin Waiting /\ result[m] \in Statuses
          /\ result[m] \in Reviewed => result[m] # "clarification_required"
      BY <1>1 DEF Decided, Waiting, Reviewed, Statuses
    <3>2. CASE result[m] \in Reviewed
      <4>1. pc'[m] = "review" /\ Has(m, FALSE, "none", result[m], FALSE)'
        BY <1>1, <2>2, <2>3, <3>1, <3>2 DEF Has
      <4> QED BY <1>1, <3>2, <4>1 DEF Prepared, Late
    <3>3. CASE result[m] \notin Reviewed
      <4>1. pc'[m] = "complete"
        BY <2>3, <3>3
      <4>2. HasBasis(m)'
        BY <1>1, <2>2, <3>1, <3>3 DEF HasBasis, Has
      <4> QED BY <1>1, <3>1, <4>1, <4>2 DEF Prepared, Late
    <3> QED BY <3>2, <3>3
  <2>7. Routed(m)'
    BY <1>1, <2>2, <2>3 DEF Good, Routed, Researched, Has
  <2> QED BY <2>4, <2>5, <2>6, <2>7 DEF Good
<1>3. CASE CreateReview(m)
  <2>1. /\ pc'[m] = "complete"
        /\ rows'[m] = [rows[m] EXCEPT !.review = TRUE]
        /\ result[m] \in Reviewed /\ Has(m, FALSE, "none", result[m], FALSE)
    BY <1>0, <1>3 DEF TypeOK, CreateReview, Goto, Good, Prepared
  <2>2. /\ rows'[m].stored /\ rows'[m].answer = "pending"
        /\ Has(m, FALSE, "none", result[m], TRUE)'
        /\ rows'[m].understood = rows[m].understood
        /\ rows'[m].planned = rows[m].planned
    BY <1>0, <1>1, <2>1 DEF MessageRows, Has
  <2>4. Reported(m)' /\ Silent(m)'
    BY <1>1, <1>3, <2>1, <2>2, EventsAreNoStatuses, NowReported
       DEF Good, Has, CreateReview
  <2>5. Stored(m)'
    BY <1>1, <2>1, <2>2 DEF Stored, Early, Branch, Late, Statuses, Decided, Waiting,
       Reviewed
  <2>6. Prepared(m)'
    BY <1>1, <2>1, <2>2 DEF Prepared, HasBasis, Has, Late, Decided, Waiting, Reviewed,
       Statuses
  <2>7. Routed(m)'
    BY <1>1, <2>1, <2>2 DEF Good, Routed, Researched, Has
  <2> QED BY <2>4, <2>5, <2>6, <2>7 DEF Good
<1> QED BY <1>2, <1>3

LEMMA ClosingGood ==
  ASSUME TypeOK, NEW m \in Messages, Good(m), Complete(m) \/ MarkContext(m)
  PROVE  Good(m)'
<1>0. rows[m] \in MessageRows
  BY DEF TypeOK
<1>1. /\ pc[m] \in {"complete", "mark"} /\ result'[m] = result[m]
      /\ input'[m] = input[m] /\ (RouteOf(m))' = RouteOf(m)
      /\ rows[m].stored /\ input[m] \in Inputs /\ trail'[m] = trail[m]
      /\ result[m] \in Statuses /\ HasBasis(m)
  BY DEF TypeOK, Complete, MarkContext, Good, Stored, Prepared, RouteOf, Late
<1>2. CASE Complete(m)
  <2>1. /\ pc'[m] = "mark"
        /\ rows'[m] = [rows[m] EXCEPT !.answer = result[m]]
    BY <1>0, <1>2 DEF TypeOK, Complete, Goto
  <2>2. /\ rows'[m].stored /\ rows'[m].answer = result[m]
        /\ rows'[m].understood = rows[m].understood
        /\ rows'[m].planned = rows[m].planned
        /\ rows'[m].question = rows[m].question
        /\ rows'[m].request = rows[m].request
        /\ rows'[m].decision = rows[m].decision /\ rows'[m].review = rows[m].review
    BY <1>0, <1>1, <2>1 DEF MessageRows
  <2>3. Reported(m)' /\ Silent(m)'
    BY <1>1, <2>2, StillReported DEF Good
  <2>4. HasBasis(m)'
    BY <1>1, <2>2 DEF HasBasis, Has
  <2>5. Stored(m)'
    BY <1>1, <2>1, <2>2 DEF Stored, Early, Branch, Late
  <2>6. Prepared(m)'
    BY <1>1, <2>1, <2>4 DEF Prepared, Late
  <2>7. Routed(m)'
    BY <1>1, <2>1, <2>2 DEF Good, Routed, Researched
  <2> QED BY <2>3, <2>5, <2>6, <2>7 DEF Good
<1>3. CASE MarkContext(m)
  <2>1. pc'[m] = "log_answer" /\ rows'[m] = rows[m]
    BY <1>3 DEF TypeOK, MarkContext, Goto
  <2>2. Reported(m)' /\ Silent(m)'
    BY <1>1, <2>1, StillReported DEF Good
  <2>3. HasBasis(m)'
    BY <1>1, <2>1 DEF HasBasis, Has
  <2>4. rows[m].answer = result[m]
    BY <1>3 DEF MarkContext, Good, Stored, Late
  <2> QED BY <1>1, <2>1, <2>2, <2>3, <2>4
          DEF Good, Stored, Prepared, Routed, Researched, Early, Branch, Late
<1> QED BY <1>2, <1>3

LEMMA AuditGood ==
  ASSUME TypeOK, NEW m \in Messages, Good(m), Audit(m) \/ AuditAnswer(m)
  PROVE  Good(m)'
<1>1. /\ result'[m] = result[m] /\ rows'[m] = rows[m]
      /\ input'[m] = input[m] /\ (RouteOf(m))' = RouteOf(m)
  BY DEF TypeOK, Audit, AuditAnswer, RouteOf
<1>2. Routed(m)' <=> (pc'[m] = "research" \/ Researched(m)
                        => RouteOf(m) \in {"documents", "runtime"})
                     /\ rows[m].decision \in {"none", result[m]}
  BY <1>1 DEF Routed, Researched
<1>3. CASE Audit(m)
  <2>1. /\ pc[m] \in DOMAIN EventAt /\ pc[m] # "done"
        /\ pc'[m] = AfterEvent[pc[m]] /\ Logged(m, EventAt[pc[m]])
    BY <1>3 DEF TypeOK, Audit, Goto, EventAt
  <2>2. Reported(m)' /\ Silent(m)'
    <3> DEFINE e == EventAt[pc[m]]
    <3>1. /\ e \notin Statuses /\ e # "request_created" /\ e # "review_item_created"
          /\ e = "message_received" => rows[m].stored
          /\ e = "query_understanding_completed" => rows[m].understood
          /\ e = "execution_plan_created" => rows[m].planned
          /\ e = "clarification_question_created" => rows[m].question
      BY <2>1, EventsAreNoStatuses DEF EventAt, Good, Stored, Prepared, Has
    <3>2. Logged(m, e)
      BY <2>1
    <3> HIDE DEF e
    <3> QED BY <1>1, <2>1, <3>1, <3>2, NowReported DEF Good
  <2>3. Stored(m)'
    BY <1>1, <2>1 DEF Good, Stored, EventAt, AfterEvent, Early, Branch, Late, Has,
       HasNothing
  <2>4. Prepared(m)'
    <3>1. CASE pc[m] = "log_question"
      <4>1. /\ pc'[m] = "decide" /\ result'[m] = "clarification_required"
            /\ Has(m, TRUE, "none", "none", FALSE)'
        BY <1>1, <2>1, <3>1 DEF Good, Prepared, AfterEvent, Has
      <4> QED BY <4>1 DEF Prepared, Late, Has, Decided
    <3>2. CASE pc[m] # "log_question"
      <4>1. pc'[m] \in {"load", "plan", "respond"}
        BY <2>1, <3>2 DEF AfterEvent, EventAt
      <4> QED BY <4>1 DEF Prepared, Late
    <3> QED BY <3>1, <3>2
  <2>5. Routed(m)'
    BY <1>2, <2>1 DEF Good, Routed, AfterEvent, EventAt
  <2> QED BY <2>2, <2>3, <2>4, <2>5 DEF Good
<1>4. CASE AuditAnswer(m)
  <2>1. /\ pc[m] = "log_answer" /\ pc'[m] = "done" /\ Logged(m, result[m])
        /\ result[m] \in Statuses /\ rows[m].answer = result[m] /\ HasBasis(m)
    BY <1>4 DEF TypeOK, AuditAnswer, Goto, Good, Stored, Prepared, Late
  <2>2. Reported(m)' /\ Silent(m)'
    BY <1>1, <2>1, NowReported, EventsAreNoStatuses DEF Good
  <2>3. HasBasis(m)'
    BY <1>1, <2>1 DEF HasBasis, Has
  <2> QED BY <1>1, <1>2, <2>1, <2>2, <2>3
          DEF Good, Stored, Prepared, Routed, Researched, Early, Branch, Late
<1> QED BY <1>3, <1>4

LEMMA AbortGood ==
  ASSUME TypeOK, NEW m \in Messages, Good(m),
         Abort(m) \/ RefuseRequest(m) \/ LoseDocument(m)
  PROVE  Good(m)'
<1>1. /\ result'[m] = result[m] /\ rows'[m] = rows[m] /\ trail'[m] = trail[m]
      /\ input'[m] = input[m] /\ (RouteOf(m))' = RouteOf(m)
      /\ pc[m] \in Stages
  BY DEF TypeOK, Abort, RefuseRequest, LoseDocument, RouteOf, Stages
<1>2. /\ pc[m] # "done" /\ pc[m] # "idle"
      /\ \/ pc'[m] = "cut"
         \/ /\ pc'[m] \in {"refused", "withdrawn"} /\ rows[m].answer = "pending"
            /\ rows[m].request = "none"
  <2>1. pc[m] # "done" /\ pc[m] # "idle"
    BY <1>1 DEF Stages
  <2>2. CASE Abort(m)
    BY <2>1, <2>2 DEF TypeOK, Abort, Goto
  <2>3. CASE RefuseRequest(m) \/ LoseDocument(m)
    BY <2>1, <2>3 DEF TypeOK, RefuseRequest, LoseDocument, Goto, Good, Stored,
       Branch, Prepared, HasNothing, Has
  <2> QED BY <2>2, <2>3
<1>3. Reported(m)' /\ Silent(m)'
  BY <1>1, <1>2, StillReported DEF Good
<1>4. "pending" \notin Statuses
  BY DEF Statuses, Decided, Waiting, Reviewed
<1> QED BY <1>1, <1>2, <1>3, <1>4
        DEF Good, Stored, Prepared, Routed, Researched, Early, Branch, Late

-----------------------------------------------------------------------------
(* The context *)

(* The rows of an answered message do not change.                          *)
LEMMA AnsweredKept ==
  ASSUME TypeOK, NEW m \in Messages, Good(m),
         Step(m) \/ Abort(m) \/ \E i \in Inputs : Receive(m, i),
         NEW n \in Messages, rows[n].answer \in Statuses
  PROVE  rows'[n] = rows[n]
<1>1. CASE n # m
  BY <1>1 DEF TypeOK, Step, Abort, Receive, Audit, LoadContext, Understand, Plan,
     Respond, Ask, CreateRequest, RefuseRequest, Research, LoseDocument, Decide, CreateReview, Complete,
     MarkContext, AuditAnswer
<1>2. CASE n = m
  <2>1. pc[m] \in {"mark", "log_answer", "done", "cut"}
    BY <1>2 DEF Good, Stored, Late
  <2>2. MarkContext(m) \/ AuditAnswer(m) \/ Abort(m) \/ Audit(m)
    BY <2>1 DEF Step, Receive, LoadContext, Understand, Plan, Respond, Ask,
       CreateRequest, RefuseRequest, Research, LoseDocument, Decide, CreateReview, Complete
  <2> QED BY <1>2, <2>2 DEF MarkContext, AuditAnswer, Abort, Audit
<1> QED BY <1>1, <1>2

Explained(s) ==
  LET c == context[s]
  IN  /\ c.approval # NoMessage =>
           /\ SessionOf[c.approval] = s
           /\ rows[c.approval].request = "approval"
           /\ rows[c.approval].answer = "approval_required"
      /\ c.clarification # NoMessage => SessionOf[c.clarification] = s
      /\ c.task = "waiting_approval" => c.approval # NoMessage
      /\ CASE c.task = "waiting_clarification" ->
                /\ c.clarification # NoMessage
                /\ rows[c.clarification].question
                /\ rows[c.clarification].answer = "clarification_required"
           [] c.task = "waiting_escalation" ->
                /\ c.clarification # NoMessage
                /\ rows[c.clarification].request = "escalation"
                /\ rows[c.clarification].answer = "escalation_required"
           [] OTHER -> c.clarification = NoMessage

LEMMA ExplainedInEverySession ==
  ContextExplained <=> \A s \in Sessions : Explained(s)
BY DEF ContextExplained, Explained

LEMMA StillExplained ==
  ASSUME TypeOK, NEW s \in Sessions, Explained(s), context'[s] = context[s],
         \A n \in Messages : rows[n].answer \in Statuses => rows'[n] = rows[n]
  PROVE  Explained(s)'
<1> DEFINE c == context[s]
<1>1. /\ c.approval \in Messages \cup {NoMessage}
      /\ c.clarification \in Messages \cup {NoMessage}
  BY DEF TypeOK, Contexts
<1>2. {"approval_required", "clarification_required", "escalation_required"}
        \subseteq Statuses
  BY DEF Statuses, Waiting, Decided
<1>3. c.approval # NoMessage => rows'[c.approval] = rows[c.approval]
  BY <1>1, <1>2 DEF Explained
<1>4. c.task \in {"waiting_clarification", "waiting_escalation"} =>
        rows'[c.clarification] = rows[c.clarification]
  BY <1>1, <1>2 DEF Explained
<1> QED BY <1>3, <1>4 DEF Explained

LEMMA SessionExplained ==
  ASSUME TypeOK, ContextExplained, NEW s \in Sessions, Create(s) \/ AbortSession(s)
  PROVE  ContextExplained'
<1>1. rows' = rows /\ \A t \in Sessions \ {s} : context'[t] = context[t]
  BY DEF TypeOK, Create, InsertSession, InsertContext, AuditSession, AbortSession
<1>2. ASSUME NEW t \in Sessions PROVE Explained(t)'
  <2>1. CASE context'[t] = context[t]
    BY <1>1, <2>1, StillExplained, ExplainedInEverySession
  <2>2. CASE t = s /\ InsertContext(s)
    <3>1. /\ context'[s].task = "idle" /\ context'[s].approval = NoMessage
          /\ context'[s].clarification = NoMessage
      BY <2>2 DEF InsertContext, TypeOK, NoContext
    <3> QED BY <2>2, <3>1 DEF Explained
  <2> QED BY <1>1, <2>1, <2>2 DEF Create, InsertSession, AuditSession, AbortSession
<1> QED BY <1>2, ExplainedInEverySession DEF ContextExplained, Explained

(* What is looked up has no open question. *)
LEMMA NothingAsked ==
  ASSUME NEW m \in Messages, Routed(m), Researched(m)
  PROVE  /\ ~Clarify(input[m].query, input[m].page, seen[m])
         /\ Needs(input[m].query, input[m].page, seen[m]) = {}
<1>1. ~Clarify(input[m].query, input[m].page, seen[m])
  BY RouteOptions DEF Routed, RouteOf
<1> QED BY <1>1 DEF Clarify

LEMMA MarkExplained ==
  ASSUME TypeOK, NEW m \in Messages, Good(m), ContextExplained, MarkContext(m)
  PROVE  ContextExplained'
<1> DEFINE s == SessionOf[m]
           old == context[s]
<1>0. s \in Sessions /\ old \in Contexts
  BY InputAssumption DEF TypeOK
<1>1. /\ rows' = rows /\ \A t \in Sessions \ {s} : context'[t] = context[t]
      /\ context'[s] = Marked(m, old)
  BY <1>0 DEF TypeOK, MarkContext
<1>2. /\ result[m] \in Statuses /\ HasBasis(m) /\ rows[m].answer = result[m]
      /\ m # NoMessage /\ Routed(m)
  BY NullAssumption DEF MarkContext, Good, Stored, Prepared, Late
<1>3. /\ Marked(m, old).task = TaskAfter(m)
      /\ Marked(m, old).clarification = QuestionAfter(m, old.clarification)
      /\ Marked(m, old).approval = ApprovalAfter(m, old.approval)
  BY <1>0 DEF Marked, Shown, Contexts
<1>4. Explained(s)
  BY <1>0, ExplainedInEverySession
<1>5. Explained(s)'
  <2> DEFINE c == context'[s]
  <2>1. /\ c.task = TaskAfter(m)
        /\ c.clarification = QuestionAfter(m, old.clarification)
        /\ c.approval = ApprovalAfter(m, old.approval)
    BY <1>1, <1>3
  <2>2. CASE result[m] = "clarification_required"
    <3>1. /\ c.task = "waiting_clarification" /\ c.clarification = m
          /\ c.approval = NoMessage /\ rows'[m].question
          /\ rows'[m].answer = "clarification_required"
      BY <1>1, <1>2, <2>1, <2>2
         DEF TaskAfter, QuestionAfter, ApprovalAfter, HasBasis, Has
    <3> QED BY <1>2, <3>1 DEF Explained
  <2>3. CASE result[m] = "confirmation_required"
    <3>1. /\ c.task = "waiting_confirmation" /\ c.clarification = NoMessage
          /\ c.approval = old.approval
      BY <2>1, <2>3
         DEF TaskAfter, QuestionAfter, ApprovalAfter, Researched, Reviewed
    <3> QED BY <1>1, <1>4, <3>1 DEF Explained
  <2>4. CASE result[m] = "approval_required"
    <3>1. /\ c.task = "waiting_approval" /\ c.clarification = NoMessage
          /\ c.approval = m
      BY <2>1, <2>4
         DEF TaskAfter, QuestionAfter, ApprovalAfter, Researched, Reviewed
    <3>2. rows'[m].request = "approval" /\ rows'[m].answer = "approval_required"
      BY <1>1, <1>2, <2>4 DEF HasBasis, Has, Waiting, RequestOf
    <3> QED BY <1>2, <3>1, <3>2 DEF Explained
  <2>5. CASE result[m] = "escalation_required"
    <3>1. /\ c.task = "waiting_escalation" /\ c.clarification = m
          /\ c.approval = NoMessage
      BY <2>1, <2>5 DEF TaskAfter, QuestionAfter, ApprovalAfter
    <3>2. rows'[m].request = "escalation" /\ rows'[m].answer = "escalation_required"
      BY <1>1, <1>2, <2>5 DEF HasBasis, Has, Waiting, RequestOf
    <3> QED BY <1>2, <3>1, <3>2 DEF Explained
  <2>6. CASE result[m] \in {"answered"} \cup Reviewed
    <3>1. /\ ~Clarify(input[m].query, input[m].page, seen[m])
          /\ Needs(input[m].query, input[m].page, seen[m]) = {}
      BY <1>2, <2>6, NothingAsked DEF Researched
    <3>2. /\ c.task = "completed" /\ c.clarification = NoMessage
          /\ c.approval = old.approval
      BY <2>1, <2>6, <3>1 DEF TaskAfter, QuestionAfter, ApprovalAfter, Reviewed
    <3> QED BY <1>1, <1>4, <3>2 DEF Explained
  <2> QED BY <1>2, <2>2, <2>3, <2>4, <2>5, <2>6
          DEF Statuses, Waiting, Decided
<1>6. ASSUME NEW t \in Sessions PROVE Explained(t)'
  BY <1>1, <1>5, StillExplained, ExplainedInEverySession
<1> QED BY <1>6 DEF ContextExplained, Explained

LEMMA MessageExplained ==
  ASSUME TypeOK, NEW m \in Messages, Good(m), ContextExplained,
         Step(m) \/ Abort(m) \/ \E i \in Inputs : Receive(m, i)
  PROVE  ContextExplained'
<1>1. CASE MarkContext(m)
  BY <1>1, MarkExplained
<1>2. CASE ~MarkContext(m)
  <2>1. context' = context
    BY <1>2 DEF Step, Abort, Receive, Audit, LoadContext, Understand, Plan,
       Respond, Ask, CreateRequest, RefuseRequest, Research, LoseDocument, Decide, CreateReview, Complete,
       AuditAnswer
  <2>2. ASSUME NEW s \in Sessions PROVE Explained(s)'
    BY <2>1, StillExplained, AnsweredKept, ExplainedInEverySession
  <2> QED BY <2>2 DEF ContextExplained, Explained
<1> QED BY <1>1, <1>2

-----------------------------------------------------------------------------
(* The theorems *)

LEMMA Initially ==
  ASSUME Init
  PROVE  IInv
<1>1. NoRows \in MessageRows /\ NoContext \in Contexts
  BY DEF NoRows, MessageRows, NoContext, Contexts, Tasks
<1>2. TypeOK
  BY <1>1 DEF Init, TypeOK, Pointers
<1>3. ASSUME NEW m \in Messages PROVE Good(m)
  <2>1. /\ pc[m] = "idle" /\ rows[m] = NoRows /\ trail[m] = <<>>
        /\ result[m] = "none"
    BY DEF Init
  <2> QED BY <2>1 DEF Good, Stored, Prepared, Routed, Reported, Silent, Researched,
             Early, Branch, Late, Has, HasNothing, NoRows, Statuses, Decided,
             Waiting, Reviewed
<1>4. ContextExplained
  BY DEF Init, ContextExplained, NoContext
<1> QED BY <1>2, <1>3, <1>4 DEF IInv

LEMMA Inductive ==
  ASSUME IInv, [Next]_vars
  PROVE  IInv'
<1>1. CASE \E s \in Sessions : Create(s) \/ AbortSession(s)
  <2>1. PICK s \in Sessions : Create(s) \/ AbortSession(s)
    BY <1>1
  <2>2. TypeOK' /\ ContextExplained'
    BY <2>1, SessionTypes, SessionExplained DEF IInv
  <2>3. UNCHANGED <<input, seen, rows, trail, pc, result>>
    BY <2>1 DEF Create, InsertSession, InsertContext, AuditSession, AbortSession
  <2>4. ASSUME NEW m \in Messages PROVE Good(m)'
    BY <2>3 DEF IInv, Good, Stored, Prepared, Routed, Reported, Silent, Researched,
       Has, HasNothing, HasBasis, RouteOf
  <2> QED BY <2>2, <2>4 DEF IInv
<1>2. ASSUME NEW m \in Messages,
             Step(m) \/ Abort(m) \/ \E i \in Inputs : Receive(m, i)
      PROVE  IInv'
  <2>1. TypeOK /\ Good(m) /\ Stored(m) /\ Prepared(m) /\ ContextExplained
    BY DEF IInv, Good
  <2>2. TypeOK'
    BY <1>2, <2>1, StepTypes, ReceiveTypes
  <2>3. Good(m)'
    BY <1>2, <2>1, ReceiveGood, OpeningGood, BranchGood, DecideGood, ClosingGood,
       AuditGood, AbortGood DEF Step
  <2>4. ASSUME NEW n \in Messages \ {m} PROVE Good(n)'
    BY <1>2, <2>1, OthersKept DEF IInv
  <2>5. ContextExplained'
    BY <1>2, <2>1, MessageExplained
  <2> QED BY <2>2, <2>3, <2>4, <2>5 DEF IInv
<1>3. CASE UNCHANGED vars
  BY <1>3 DEF vars, IInv, TypeOK, ContextExplained, Good, Stored, Prepared, Routed,
     Reported, Silent, Researched, Has, HasNothing, HasBasis, RouteOf
<1> QED BY <1>1, <1>2, <1>3 DEF Next

LEMMA Invariant == Spec => []IInv
<1>1. Init => IInv
  BY Initially
<1>2. IInv /\ [Next]_vars => IInv'
  BY Inductive
<1> QED BY <1>1, <1>2, PTL DEF Spec

(* Every variable keeps its type. *)
THEOREM TypesKept == Spec => []TypeOK
<1>1. IInv => TypeOK
  BY DEF IInv
<1> QED BY <1>1, Invariant, PTL

(* What the context of a session waits for exists, is of that session, and *)
(* has been said, however many flows overwrite it.                         *)
THEOREM Explanation == Spec => []ContextExplained
<1>1. IInv => ContextExplained
  BY DEF IInv
<1> QED BY <1>1, Invariant, PTL

(* Retrieval and tools are used only on questions with nothing to guess,   *)
(* whatever the question, the page and the context.                        *)
THEOREM NothingGuessed == Spec => []NoGuess
<1>1. ASSUME IInv PROVE NoGuess
  <2> SUFFICES ASSUME NEW m \in Messages,
                      pc[m] = "research"
                        \/ rows[m].decision \in {"answered"} \cup Reviewed
               PROVE  Answerable(input[m].query, input[m].page, seen[m])
    BY DEF NoGuess
  <2>1. Stored(m) /\ Routed(m)
    BY <1>1 DEF IInv, Good
  <2>2. RouteOf(m) \in {"documents", "runtime"}
    BY <2>1 DEF Routed, Researched, Reviewed
  <2>3. pc[m] # "idle"
    BY <2>1 DEF Stored, NoRows, Reviewed
  <2>4. input[m].query \in Queries /\ input[m].page.rows \in 0..2
    BY <2>1, <2>3, InputAssumption DEF Stored, InputRecord, Pages
  <2> QED BY <2>2, <2>4, RoutedAnswerable DEF RouteOf
<1>2. IInv => NoGuess
  BY <1>1
<1> QED BY <1>2, Invariant, PTL

(* No event reports what is not stored. *)
THEOREM AuditAfterRows == Spec => []AuditNeverAhead
<1>1. IInv => AuditNeverAhead
  BY DEF IInv, Good, Reported, AuditNeverAhead
<1> QED BY <1>1, Invariant, PTL

-----------------------------------------------------------------------------
(* Refinement of AnswerLedger *)

(* A statement that writes a row of m moves the ledger at m only.          *)
LEMMA LedgerMoves ==
  ASSUME NEW m \in Messages,
         \A n \in Messages \ {m} : rows'[n] = rows[n]
  PROVE  /\ [n \in Messages |-> AnswerOf(rows'[n])] =
              [[n \in Messages |-> AnswerOf(rows[n])]
                 EXCEPT ![m] = AnswerOf(rows'[m])]
         /\ [n \in Messages |-> BasisOf(rows'[n])] =
              [[n \in Messages |-> BasisOf(rows[n])]
                 EXCEPT ![m] = BasisOf(rows'[m])]
OBVIOUS

LEMMA LedgerStutters ==
  ASSUME NEW m \in Messages,
         \A n \in Messages \ {m} : rows'[n] = rows[n],
         AnswerOf(rows'[m]) = AnswerOf(rows[m]), BasisOf(rows'[m]) = BasisOf(rows[m])
  PROVE  UNCHANGED Ledger!vars
BY DEF Ledger!vars

LEMMA LedgerOpens ==
  ASSUME NEW m \in Messages,
         \A n \in Messages \ {m} : rows'[n] = rows[n],
         AnswerOf(rows[m]) = "none", AnswerOf(rows'[m]) = "open",
         BasisOf(rows'[m]) = BasisOf(rows[m])
  PROVE  Ledger!Next
<1>1. Ledger!Open(m)
  BY LedgerMoves DEF Ledger!Open
<1> QED BY <1>1 DEF Ledger!Next

LEMMA LedgerGrounds ==
  ASSUME NEW m \in Messages, NEW b \in {"question", "decision", "review"} \cup RequestKinds,
         \A n \in Messages \ {m} : rows'[n] = rows[n],
         AnswerOf(rows[m]) = "open", AnswerOf(rows'[m]) = "open",
         BasisOf(rows'[m]) = BasisOf(rows[m]) \cup {b}
  PROVE  Ledger!Next
<1>1. Ledger!Ground(m, b)
  BY LedgerMoves DEF Ledger!Ground
<1>2. b \in UNION {Needed[a] : a \in DOMAIN Needed}
  BY DEF Needed, RequestKinds
<1> QED BY <1>1, <1>2 DEF Ledger!Next

LEMMA LedgerSettles ==
  ASSUME NEW m \in Messages, NEW a \in Statuses,
         \A n \in Messages \ {m} : rows'[n] = rows[n],
         AnswerOf(rows[m]) = "open", AnswerOf(rows'[m]) = a,
         BasisOf(rows'[m]) = BasisOf(rows[m]), Needed[a] = BasisOf(rows[m])
  PROVE  Ledger!Next
<1>1. a \in DOMAIN Needed
  BY DEF Needed, Statuses, Waiting, Decided, Reviewed
<1>2. Ledger!Settle(m, a)
  BY LedgerMoves DEF Ledger!Settle
<1> QED BY <1>1, <1>2 DEF Ledger!Next

(* When a message is answered its basis is complete, and no more than that. *)
LEMMA BasisComplete ==
  ASSUME NEW m \in Messages, result[m] \in Statuses, HasBasis(m)
  PROVE  Needed[result[m]] = BasisOf(rows[m])
<1>1. CASE result[m] = "clarification_required"
  BY <1>1 DEF Needed, BasisOf, HasBasis, Has, Waiting, Decided, Reviewed, RequestKinds
<1>2. CASE result[m] = "answered"
  BY <1>2 DEF Needed, BasisOf, HasBasis, Has, Waiting, Decided, Reviewed, RequestKinds
<1>3. CASE result[m] \in Reviewed
  BY <1>3 DEF Needed, BasisOf, HasBasis, Has, Waiting, Decided, Reviewed, RequestKinds
<1>4. CASE result[m] \in Waiting
  BY <1>4 DEF Needed, BasisOf, HasBasis, Has, Waiting, Decided, Reviewed,
     RequestKinds, RequestOf
<1> QED BY <1>1, <1>2, <1>3, <1>4 DEF Statuses, Decided

LEMMA StepRefines ==
  ASSUME TypeOK, NEW m \in Messages, Good(m),
         Step(m) \/ Abort(m) \/ \E i \in Inputs : Receive(m, i)
  PROVE  [Ledger!Next]_(Ledger!vars)
<1>0. /\ rows[m] \in MessageRows
      /\ \A n \in Messages \ {m} : rows'[n] = rows[n]
  BY DEF TypeOK, Step, Abort, Receive, Audit, LoadContext, Understand, Plan,
     Respond, Ask, CreateRequest, RefuseRequest, Research, LoseDocument, Decide, CreateReview, Complete,
     MarkContext, AuditAnswer
<1>1. CASE \/ \E i \in Inputs : Receive(m, i)
           \/ Understand(m) \/ Plan(m)
  <2>1. /\ rows'[m].answer = rows[m].answer /\ rows'[m].question = rows[m].question
        /\ rows'[m].request = rows[m].request /\ rows'[m].review = rows[m].review
        /\ rows'[m].decision = rows[m].decision
    BY <1>0, <1>1 DEF TypeOK, MessageRows, Receive, Understand, Plan
  <2> QED BY <1>0, <2>1, LedgerStutters DEF AnswerOf, BasisOf
<1>2. CASE \/ Audit(m) \/ LoadContext(m) \/ Research(m) \/ MarkContext(m)
           \/ AuditAnswer(m) \/ Abort(m) \/ RefuseRequest(m) \/ LoseDocument(m)
  <2>1. rows'[m] = rows[m]
    BY <1>2 DEF Audit, LoadContext, Research, MarkContext, AuditAnswer, Abort,
       RefuseRequest, LoseDocument
  <2> QED BY <1>0, <2>1, LedgerStutters
<1>3. CASE Respond(m)
  <2>1. rows[m].answer = "absent"
    BY <1>3 DEF Respond, Good, Stored, Early
  <2>2. /\ rows'[m].answer = "pending" /\ rows'[m].question = rows[m].question
        /\ rows'[m].request = rows[m].request /\ rows'[m].review = rows[m].review
        /\ rows'[m].decision = rows[m].decision
    BY <1>0, <1>3 DEF TypeOK, MessageRows, Respond
  <2> QED BY <1>0, <2>1, <2>2, LedgerOpens DEF AnswerOf, BasisOf
<1>4. CASE Ask(m) \/ CreateRequest(m) \/ Decide(m) \/ CreateReview(m)
  <2>1. rows[m].answer = "pending" /\ Prepared(m)
    BY <1>4 DEF Ask, CreateRequest, Decide, CreateReview, Good, Stored, Branch
  <2>2. CASE Ask(m)
    <3>1. /\ rows'[m].answer = "pending" /\ rows'[m].question = TRUE
          /\ rows'[m].request = rows[m].request /\ rows'[m].review = rows[m].review
          /\ rows'[m].decision = rows[m].decision
      BY <1>0, <2>1, <2>2 DEF TypeOK, MessageRows, Ask
    <3>2. BasisOf(rows'[m]) = BasisOf(rows[m]) \cup {"question"}
      BY <3>1 DEF BasisOf, RequestKinds
    <3> QED BY <1>0, <2>1, <3>1, <3>2, LedgerGrounds DEF AnswerOf
  <2>3. CASE CreateRequest(m)
    <3> DEFINE kind == KindOf[RouteOf(m)]
    <3>1. kind \in RequestKinds /\ HasNothing(m)
      BY <2>1, <2>3 DEF CreateRequest, Prepared, KindOf, RequestKinds
    <3>2. /\ rows'[m].answer = "pending" /\ rows'[m].question = rows[m].question
          /\ rows'[m].request = kind /\ rows'[m].review = rows[m].review
          /\ rows'[m].decision = rows[m].decision
      BY <1>0, <2>1, <2>3 DEF TypeOK, MessageRows, CreateRequest
    <3> HIDE DEF kind
    <3>3. BasisOf(rows'[m]) = BasisOf(rows[m]) \cup {kind}
      BY <3>1, <3>2 DEF BasisOf, RequestKinds, HasNothing, Has
    <3> QED BY <1>0, <2>1, <3>1, <3>2, <3>3, LedgerGrounds DEF AnswerOf
  <2>4. CASE Decide(m)
    <3>1. result[m] # "none"
      BY <2>1, <2>4 DEF Decide, Prepared, Decided, Reviewed
    <3>2. /\ rows'[m].answer = "pending" /\ rows'[m].question = rows[m].question
          /\ rows'[m].request = rows[m].request /\ rows'[m].review = rows[m].review
          /\ rows'[m].decision = result[m]
      BY <1>0, <2>1, <2>4 DEF TypeOK, MessageRows, Decide
    <3>3. BasisOf(rows'[m]) = BasisOf(rows[m]) \cup {"decision"}
      BY <3>1, <3>2 DEF BasisOf, RequestKinds
    <3> QED BY <1>0, <2>1, <3>2, <3>3, LedgerGrounds DEF AnswerOf
  <2>5. CASE CreateReview(m)
    <3>1. /\ rows'[m].answer = "pending" /\ rows'[m].question = rows[m].question
          /\ rows'[m].request = rows[m].request /\ rows'[m].review = TRUE
          /\ rows'[m].decision = rows[m].decision
      BY <1>0, <2>1, <2>5 DEF TypeOK, MessageRows, CreateReview
    <3>2. BasisOf(rows'[m]) = BasisOf(rows[m]) \cup {"review"}
      BY <3>1 DEF BasisOf, RequestKinds
    <3> QED BY <1>0, <2>1, <3>1, <3>2, LedgerGrounds DEF AnswerOf
  <2> QED BY <1>4, <2>2, <2>3, <2>4, <2>5
<1>5. CASE Complete(m)
  <2>1. /\ rows[m].answer = "pending" /\ result[m] \in Statuses /\ HasBasis(m)
    BY <1>5 DEF Complete, Good, Stored, Prepared, Branch
  <2>2. /\ rows'[m].answer = result[m] /\ rows'[m].question = rows[m].question
        /\ rows'[m].request = rows[m].request /\ rows'[m].review = rows[m].review
        /\ rows'[m].decision = rows[m].decision
    BY <1>0, <1>5 DEF TypeOK, MessageRows, Complete
  <2>3. AnswerOf(rows[m]) = "open" /\ AnswerOf(rows'[m]) = result[m]
    BY <2>1, <2>2 DEF AnswerOf, Statuses, Waiting, Decided, Reviewed
  <2>4. BasisOf(rows'[m]) = BasisOf(rows[m])
    BY <2>2 DEF BasisOf
  <2>5. Ledger!Next
    BY <1>0, <2>1, <2>3, <2>4, BasisComplete, LedgerSettles
  <2> QED BY <2>5
<1> QED BY <1>1, <1>2, <1>3, <1>4, <1>5 DEF Step

(* MessageFlow implements AnswerLedger. *)
THEOREM Refinement == Spec => ImplementsAnswerLedger
<1>1. Init => Ledger!Init
  BY DEF Init, Ledger!Init, AnswerOf, BasisOf, NoRows, RequestKinds
<1>2. ASSUME IInv, [Next]_vars PROVE [Ledger!Next]_(Ledger!vars)
  <2>1. CASE \E s \in Sessions : Create(s) \/ AbortSession(s)
    <3>1. rows' = rows
      BY <2>1 DEF Create, InsertSession, InsertContext, AuditSession, AbortSession
    <3> QED BY <3>1 DEF Ledger!vars
  <2>2. CASE UNCHANGED vars
    BY <2>2 DEF vars, Ledger!vars
  <2> QED BY <1>2, <2>1, <2>2, StepRefines DEF Next, IInv
<1>3. IInv /\ [Next]_vars => [Ledger!Next]_(Ledger!vars)
  BY <1>2
<1> QED BY <1>1, <1>3, Invariant, PTL DEF Spec, ImplementsAnswerLedger, Ledger!Spec

-----------------------------------------------------------------------------
(* Requests *)

(* Whatever is routed to a request was commanded.                          *)
LEMMA RoutedCommanded ==
  ASSUME NEW q \in Queries, NEW page, NEW ctx,
         page.rows \in 0..2,
         Route(q, page, ctx) \in DOMAIN KindOf
  PROVE  /\ Commanded(q, page, ctx, KindOf[Route(q, page, ctx)])
         /\ Commanded(q, page, ctx, "none")
<1>1. /\ ~Gated(q, page, ctx) /\ Risk(q) # "low"
      /\ Route(q, page, ctx) = "confirm" => Risk(q) = "medium"
  <2>1. Route(q, page, ctx) \in {"confirm", "approve", "escalate"}
    BY DEF KindOf
  <2>2. Risk(q) \in {"low", "medium", "high", "critical"}
    BY DEF Risk
  <2> QED BY <2>1, <2>2 DEF Route
<1>2. Says(q, "update") \/ Says(q, "destroy")
  BY <1>1 DEF Risk
<1>3. q.length # "blank"
  BY <1>2 DEF Queries, Says
<1>4. KindOf[Route(q, page, ctx)] = "draft" => ~Says(q, "destroy") /\ ~Says(q, "urgent")
  <2>1. KindOf[Route(q, page, ctx)] = "draft" => Route(q, page, ctx) = "confirm"
    BY DEF KindOf
  <2> QED BY <1>1, <2>1 DEF Risk
<1>5. ASSUME Says(q, "deixis"), ~Says(q, "recent")
      PROVE  /\ page.rows <= 1
             /\ page.id # NoId \/ (page.type = NoType /\ Pinned(ctx))
  <2>1. "unsupported_time_range" \notin Needs(q, page, ctx)
        /\ "empty_query" \notin Needs(q, page, ctx)
    BY <1>3, <1>5 DEF Needs
  <2>2. CASE page.id # NoId /\ ~(page.rows > 1)
    BY <2>2
  <2>3. CASE Reference(q, page, ctx) \notin {"multiple", "unresolved"}
    BY <1>5, <2>3 DEF Reference, Pinned
  <2>4. ~AsksWhichOne(Needs(q, page, ctx)) =>
          Reference(q, page, ctx) \notin {"multiple", "unresolved"}
    <3>1. Reference(q, page, ctx) = "multiple" =>
            "multiple_candidates" \in Needs(q, page, ctx)
      BY DEF Needs
    <3>2. Reference(q, page, ctx) = "unresolved" =>
            "missing_page_context" \in Needs(q, page, ctx)
      BY DEF Needs
    <3> QED BY <2>1, <3>1, <3>2 DEF AsksWhichOne
  <2> QED BY <1>1, <2>2, <2>3, <2>4 DEF Gated
<1> QED BY <1>2, <1>4, <1>5 DEF Commanded, Says

(* A request is the one its message is routed to. *)
Requested(m) ==
  rows[m].request # "none" =>
    RouteOf(m) \in DOMAIN KindOf /\ rows[m].request = KindOf[RouteOf(m)]

RequestInv == \A m \in Messages : Requested(m)

LEMMA RequestStep ==
  ASSUME IInv, RequestInv, [Next]_vars
  PROVE  RequestInv'
<1>1. ASSUME NEW m \in Messages,
             Step(m) \/ Abort(m) \/ \E i \in Inputs : Receive(m, i)
      PROVE  Requested(m)'
  <2>1. /\ TypeOK /\ rows[m] \in MessageRows /\ Stored(m) /\ Prepared(m) /\ Requested(m)
    BY DEF IInv, Good, TypeOK, RequestInv
  <2>2. CASE LoadContext(m) \/ \E i \in Inputs : Receive(m, i)
    <3>1. rows[m].request = "none"
      BY <2>1, <2>2 DEF LoadContext, Receive, Stored, Early, HasNothing, Has
    <3>2. rows'[m].request = rows[m].request
      BY <2>1, <2>2 DEF LoadContext, Receive, TypeOK, MessageRows
    <3> QED BY <3>1, <3>2 DEF Requested
  <2>3. CASE CreateRequest(m)
    <3>1. rows'[m].request = KindOf[RouteOf(m)] /\ RouteOf(m)' = RouteOf(m)
      BY <2>1, <2>3 DEF CreateRequest, TypeOK, MessageRows, RouteOf
    <3>2. RouteOf(m) \in DOMAIN KindOf
      BY <2>1, <2>3 DEF CreateRequest, Prepared
    <3> QED BY <3>1, <3>2 DEF Requested
  <2>4. CASE \/ Understand(m) \/ Plan(m) \/ Respond(m) \/ Ask(m) \/ Decide(m)
             \/ CreateReview(m) \/ Complete(m)
    <3>1. rows'[m].request = rows[m].request /\ UNCHANGED <<input, seen>>
      BY <2>1, <2>4 DEF Understand, Plan, Respond, Ask, Decide, CreateReview, Complete,
         TypeOK, MessageRows
    <3> QED BY <2>1, <3>1 DEF Requested, RouteOf
  <2>5. CASE \/ Audit(m) \/ Research(m) \/ MarkContext(m) \/ AuditAnswer(m) \/ Abort(m)
             \/ RefuseRequest(m) \/ LoseDocument(m)
    BY <2>1, <2>5 DEF Audit, Research, MarkContext, AuditAnswer, Abort, Requested, RouteOf,
       RefuseRequest, LoseDocument
  <2> QED BY <1>1, <2>2, <2>3, <2>4, <2>5 DEF Step
<1>2. ASSUME NEW m \in Messages,
             Step(m) \/ Abort(m) \/ \E i \in Inputs : Receive(m, i),
             NEW n \in Messages \ {m}
      PROVE  Requested(n)'
  <2>1. rows'[n] = rows[n] /\ input'[n] = input[n] /\ seen'[n] = seen[n]
    BY <1>2 DEF IInv, TypeOK, Step, Abort, Receive, Audit, LoadContext, Understand, Plan,
       Respond, Ask, CreateRequest, RefuseRequest, Research, LoseDocument, Decide, CreateReview, Complete,
       MarkContext, AuditAnswer
  <2> QED BY <2>1 DEF RequestInv, Requested, RouteOf
<1>3. CASE UNCHANGED <<rows, input, seen>>
  BY <1>3 DEF RequestInv, Requested, RouteOf
<1>4. (\E s \in Sessions : Create(s) \/ AbortSession(s)) => UNCHANGED <<rows, input, seen>>
  BY DEF Create, InsertSession, InsertContext, AuditSession, AbortSession
<1> QED BY <1>1, <1>2, <1>3, <1>4 DEF Next, vars, RequestInv

(* No request is made that nobody commanded, no draft for what destroys or *)
(* is urgent, and none about one of several things.                        *)
THEOREM NothingChangedBlindly == Spec => []NoBlindRequest
<1>1. Init => RequestInv
  BY DEF Init, RequestInv, Requested, NoRows
<1>2. IInv /\ RequestInv /\ [Next]_vars => RequestInv'
  BY RequestStep
<1>3. ASSUME IInv, RequestInv PROVE NoBlindRequest
  <2> SUFFICES ASSUME NEW m \in Messages, pc[m] = "request" \/ rows[m].request # "none"
               PROVE  Commanded(input[m].query, input[m].page, seen[m], rows[m].request)
    BY DEF NoBlindRequest
  <2>1. Stored(m) /\ Prepared(m) /\ Requested(m)
    BY <1>3 DEF IInv, Good, RequestInv
  <2>2. pc[m] # "idle"
    BY <2>1 DEF Stored, NoRows
  <2>3. input[m].query \in Queries /\ input[m].page.rows \in 0..2
    BY <2>1, <2>2, InputAssumption DEF Stored, InputRecord, Pages
  <2>4. RouteOf(m) \in DOMAIN KindOf /\ rows[m].request \in {"none", KindOf[RouteOf(m)]}
    BY <2>1 DEF Prepared, Requested, HasNothing, Has
  <2> QED BY <2>3, <2>4, RoutedCommanded DEF RouteOf
<1>4. IInv /\ RequestInv => NoBlindRequest
  BY <1>3
<1> QED BY <1>1, <1>2, <1>4, Initially, Inductive, PTL DEF Spec

-----------------------------------------------------------------------------
(* Stranded messages *)

LEMMA AtMostOneMore ==
  ASSUME NEW S, NEW T, NEW x, IsFiniteSet(S), T \subseteq S \cup {x}
  PROVE  IsFiniteSet(T) /\ Cardinality(T) <= Cardinality(S) + 1
<1>1. /\ IsFiniteSet(S \cup {x}) /\ Cardinality(S) \in Nat
      /\ Cardinality(S \cup {x}) \in {Cardinality(S), Cardinality(S) + 1}
  BY FS_AddElement, FS_CardinalityType
<1>2. IsFiniteSet(T) /\ Cardinality(T) <= Cardinality(S \cup {x})
  BY <1>1, FS_Subset
<1>3. Cardinality(T) \in Nat
  BY <1>2, FS_CardinalityType
<1> QED BY <1>1, <1>2, <1>3

(* A call that ended without an answer and without a crash ended in one of *)
(* the two ways known.                                                     *)
LeftOpenInv == \A m \in Messages : pc[m] \in {"refused", "withdrawn"} => LeftOpen(m)

LEMMA RefusedForWantOfATool ==
  ASSUME NEW m \in Messages, Prepared(m), RefuseRequest(m)
  PROVE  NoToolForIt(m)
<1> DEFINE kind == KindOf[RouteOf(m)]
<1>1. PICK registry \in Registries : ~Suits(registry, m)
  BY DEF RefuseRequest
<1>2. RouteOf(m) \in {"confirm", "approve", "escalate"} /\ rows[m].request = "none"
  BY DEF RefuseRequest, Prepared, HasNothing, Has, KindOf
<1>3. RouteOf(m) \in {"confirm", "approve"}
  BY <1>1, <1>2 DEF Suits, KindOf
<1>4. AboutOrders(input[m].page) => ChangeTool[kind] \notin registry[kind]
  BY <1>1 DEF Suits, SelectedTool
<1> QED BY <1>2, <1>3, <1>4 DEF NoToolForIt

LEMMA EndsStay ==
  ASSUME IInv, LeftOpenInv, [Next]_vars
  PROVE  LeftOpenInv'
<1>1. ASSUME NEW m \in Messages,
             Step(m) \/ Abort(m) \/ \E i \in Inputs : Receive(m, i)
      PROVE  pc'[m] \in {"refused", "withdrawn"} => LeftOpen(m)'
  <2>1. CASE RefuseRequest(m) \/ LoseDocument(m)
    <3>1. UNCHANGED <<rows, input, seen>> /\ RouteOf(m)' = RouteOf(m)
      BY <2>1 DEF RefuseRequest, LoseDocument, RouteOf
    <3>2. CASE RefuseRequest(m)
      <4>1. NoToolForIt(m)
        BY <3>2, RefusedForWantOfATool DEF IInv, Good
      <4>2. NoToolForIt(m)'
        BY <3>1, <4>1 DEF NoToolForIt
      <4>3. pc'[m] = "refused"
        BY <3>2 DEF RefuseRequest, Goto, IInv, TypeOK
      <4> QED BY <4>2, <4>3 DEF LeftOpen
    <3>3. CASE LoseDocument(m)
      BY <3>1, <3>3 DEF LoseDocument, LeftOpen, Goto, IInv, TypeOK
    <3> QED BY <2>1, <3>2, <3>3
  <2>2. CASE ~RefuseRequest(m) /\ ~LoseDocument(m)
    <3>1. /\ FirstStep(m) \notin {"refused", "withdrawn"}
          /\ AfterDecide(m) \notin {"refused", "withdrawn"}
      BY FirstSteps DEF AfterDecide
    <3>2. pc[m] \in DOMAIN EventAt => AfterEvent[pc[m]] \notin {"refused", "withdrawn"}
      BY DEF EventAt, AfterEvent
    <3> QED BY <1>1, <2>2, <3>1, <3>2
            DEF Goto, IInv, TypeOK, Step, Abort, Receive, Audit, LoadContext, Understand,
                Plan, Respond, Ask, CreateRequest, Research, Decide, CreateReview,
                Complete, MarkContext, AuditAnswer
  <2> QED BY <2>1, <2>2
<1>2. ASSUME NEW m \in Messages,
             Step(m) \/ Abort(m) \/ \E i \in Inputs : Receive(m, i),
             NEW n \in Messages \ {m}, pc'[n] \in {"refused", "withdrawn"}
      PROVE  LeftOpen(n)'
  <2>1. /\ pc'[n] = pc[n] /\ rows'[n] = rows[n] /\ input'[n] = input[n]
        /\ seen'[n] = seen[n]
    BY <1>2 DEF IInv, TypeOK, Step, Abort, Receive, Goto, Audit, LoadContext, Understand,
       Plan, Respond, Ask, CreateRequest, RefuseRequest, Research, LoseDocument, Decide,
       CreateReview, Complete, MarkContext, AuditAnswer
  <2>2. LeftOpen(n)
    BY <1>2, <2>1 DEF LeftOpenInv
  <2> QED BY <2>1, <2>2 DEF LeftOpen, NoToolForIt, RouteOf
<1>3. CASE UNCHANGED <<rows, input, seen, pc>>
  BY <1>3 DEF LeftOpenInv, LeftOpen, NoToolForIt, RouteOf
<1>4. (\E s \in Sessions : Create(s) \/ AbortSession(s)) =>
        UNCHANGED <<rows, input, seen, pc>>
  BY DEF Create, InsertSession, InsertContext, AuditSession, AbortSession
<1> QED BY <1>1, <1>2, <1>3, <1>4 DEF Next, vars, LeftOpenInv

(* The messages that only a crash explains. *)
CutShort == {m \in Stranded : ~LeftOpen(m)}

StrandedInv == IsFiniteSet(CutShort) /\ StrandedByCrash

(* A handler that is not at work and has stored its message has answered   *)
(* it, ended in one of the two ways known, or was cut: a step that is not  *)
(* an Abort adds no message of the last kind.                              *)
LEMMA NewlyStranded ==
  ASSUME IInv, LeftOpenInv, [Next]_vars, NEW n \in Messages, n \in CutShort'
  PROVE  n \in CutShort \/ Abort(n)
<1>1. /\ Stored(n)' /\ Prepared(n)' /\ pc'[n] \in Stages \cup {"idle"} \cup Ends
  BY Inductive DEF IInv, Good, TypeOK
<1>2. pc'[n] = "cut"
  <2>1. pc'[n] \in {"refused", "withdrawn"} => LeftOpen(n)'
    BY EndsStay DEF LeftOpenInv
  <2>2. pc'[n] \notin {"refused", "withdrawn"}
    BY <2>1 DEF CutShort
  <2> QED BY <1>1, <2>2 DEF CutShort, Stranded, Stored, Prepared, NoRows, Late, Ends
<1>3. ASSUME NEW m \in Messages,
             Step(m) \/ Abort(m) \/ \E i \in Inputs : Receive(m, i)
      PROVE  n \in CutShort \/ Abort(n)
  <2>1. CASE n # m
    <3>1. pc'[n] = pc[n] /\ rows'[n] = rows[n]
      BY <1>3, <2>1 DEF Goto, IInv, TypeOK, Step, Abort, Receive, Audit, LoadContext,
         Understand, Plan, Respond, Ask, CreateRequest, RefuseRequest, Research,
         LoseDocument, Decide, CreateReview, Complete, MarkContext, AuditAnswer
    <3> QED BY <1>2, <3>1 DEF CutShort, Stranded, LeftOpen
  <2>2. ASSUME ~Abort(m) PROVE pc'[m] # "cut"
    <3>1. FirstStep(m) # "cut" /\ AfterDecide(m) # "cut"
      BY FirstSteps DEF AfterDecide
    <3>2. pc[m] \in DOMAIN EventAt => AfterEvent[pc[m]] # "cut"
      BY DEF EventAt, AfterEvent
    <3> QED BY <1>3, <2>2, <3>1, <3>2
         DEF Goto, IInv, TypeOK, Step, Receive, Audit, LoadContext,
       Understand, Plan, Respond, Ask, CreateRequest, RefuseRequest, Research,
       LoseDocument, Decide, CreateReview, Complete, MarkContext, AuditAnswer
  <2> QED BY <1>2, <2>1, <2>2
<1>4. CASE UNCHANGED <<rows, pc>>
  BY <1>2, <1>4 DEF CutShort, Stranded, LeftOpen
<1>5. (\E s \in Sessions : Create(s) \/ AbortSession(s)) => UNCHANGED <<rows, pc>>
  BY DEF Create, InsertSession, InsertContext, AuditSession, AbortSession
<1> QED BY <1>3, <1>4, <1>5 DEF Next, vars

LEMMA StrandedStep ==
  ASSUME IInv, LeftOpenInv, StrandedInv, [Next]_vars
  PROVE  StrandedInv'
<1>1. /\ aborts \in Nat /\ Cardinality(CutShort) \in Nat
      /\ aborts' = aborts \/ aborts' = aborts + 1
      /\ Cardinality(CutShort) <= aborts
  <2>1. aborts' = aborts \/ aborts' = aborts + 1
    BY DEF Next, Step, Create, InsertSession, InsertContext, AuditSession, AbortSession,
       Abort, Receive, Audit, LoadContext, Understand, Plan, Respond, Ask, CreateRequest,
       RefuseRequest, Research, LoseDocument, Decide, CreateReview, Complete,
       MarkContext, AuditAnswer, vars
  <2> QED BY <2>1, FS_CardinalityType
          DEF IInv, TypeOK, StrandedInv, StrandedByCrash, CutShort
<1>2. SUFFICES IsFiniteSet(CutShort') /\ Cardinality(CutShort') <= aborts'
  BY DEF StrandedInv, StrandedByCrash, CutShort
<1>3. CASE CutShort' \subseteq CutShort
  <2>1. IsFiniteSet(CutShort') /\ Cardinality(CutShort') <= Cardinality(CutShort)
    BY <1>3, FS_Subset DEF StrandedInv
  <2>2. Cardinality(CutShort') \in Nat
    BY <2>1, FS_CardinalityType
  <2> QED BY <1>1, <2>1, <2>2
<1>4. CASE ~(CutShort' \subseteq CutShort)
  <2>1. PICK m \in Messages : Abort(m)
    BY <1>4, NewlyStranded DEF CutShort, Stranded
  <2>2. \A n \in Messages : Abort(n) => n = m
    <3>1. ASSUME NEW n \in Messages, Abort(n), n # m PROVE FALSE
      <4>1. pc[n] \in Stages /\ pc'[n] = "cut" /\ pc'[n] = pc[n]
        BY <2>1, <3>1 DEF Abort, Goto, IInv, TypeOK
      <4> QED BY <4>1 DEF Stages
    <3> QED BY <3>1
  <2>3. CutShort' \subseteq CutShort \cup {m}
    BY <2>2, NewlyStranded DEF CutShort, Stranded
  <2>4. IsFiniteSet(CutShort') /\ Cardinality(CutShort') <= Cardinality(CutShort) + 1
    BY <2>3, AtMostOneMore DEF StrandedInv
  <2>5. Cardinality(CutShort') \in Nat
    BY <2>4, FS_CardinalityType
  <2>6. aborts' = aborts + 1
    BY <2>1 DEF Abort
  <2> QED BY <1>1, <2>4, <2>5, <2>6
<1> QED BY <1>3, <1>4

(* A message that no handler will answer any more asked for a change that  *)
(* has no tool, on a page about orders for want of the orders tool itself; *)
(* or lost a document; or was cut by a crash, one each.                    *)
THEOREM StrandingIsCounted == Spec => []StrandedByCrash
<1>1. ASSUME Init PROVE StrandedInv /\ LeftOpenInv
  <2>1. Stranded = {} /\ CutShort = {}
    BY <1>1 DEF Init, Stranded, CutShort, NoRows
  <2>2. LeftOpenInv
    BY <1>1 DEF Init, LeftOpenInv
  <2> QED BY <1>1, <2>1, <2>2, FS_EmptySet DEF Init, StrandedInv, StrandedByCrash
<1>2. Init => StrandedInv /\ LeftOpenInv
  BY <1>1
<1>3. IInv /\ StrandedInv /\ LeftOpenInv /\ [Next]_vars => StrandedInv' /\ LeftOpenInv'
  BY StrandedStep, EndsStay
<1>4. StrandedInv => StrandedByCrash
  BY DEF StrandedInv
<1> QED BY <1>2, <1>3, <1>4, Initially, Inductive, PTL DEF Spec
=============================================================================
