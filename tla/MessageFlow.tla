----------------------------- MODULE MessageFlow -----------------------------
(***************************************************************************)
(* A session is opened, messages are sent to it, and each is handled by    *)
(* one sendMessage call, several at the same time:                         *)
(* src/assistant/message, session, context, planning, answer.              *)
(*                                                                         *)
(* sendMessage is a chain of statements with no transaction around it.  An *)
(* action is one statement, or one transaction of a service it calls, with *)
(* the synchronous code around it.  Research stands for the retrieval or   *)
(* the read-only tool call, which Grounding models in detail; the creation *)
(* of a request stands for the transactions of the workflow modules.       *)
(***************************************************************************)
EXTENDS QueryPlanning, Sequences, FiniteSets

CONSTANTS
  Sessions,
  Messages,     \* a user message with the assistant's response to it
  SessionOf,    \* the session a message is sent to
  Inputs,       \* bound: the questions asked, each with its page
  Start,        \* bound: the pages sessions are opened on
  Registries,   \* bound: the tools whose latest active definition suits a
                \* draft and an approval, as they may be found when read
  MaxAborts,    \* bound: calls cut short by a crash or a database error
  NoMessage, NoInput

InputRecord == [query: Queries, page: Pages]

ASSUME InputAssumption == /\ SessionOf \in [Messages -> Sessions]
                          /\ Inputs \subseteq InputRecord
                          /\ Start \subseteq Pages

ASSUME BoundAssumption == MaxAborts \in Nat

ToolNames == {"orders.update", "orders.cancel", "order", "workOrder", "itemSku",
              "partner", "general"}

ASSUME RegistryAssumption ==
  Registries # {} /\ Registries \subseteq [{"draft", "approval"} -> SUBSET ToolNames]

ASSUME NullAssumption == NoMessage \notin Messages /\ NoInput \notin InputRecord

VARIABLES
  session,      \* how far the creation of each session has come
  context,      \* the AssistantContextState row of each session
  input,        \* content and pageContext of the user message
  seen,         \* the context the handler of a message has read
  rows,         \* what is stored about each message
  trail,        \* audit events of each message, oldest first
  pc,           \* the next statement of each handler
  result,       \* the answer decision a handler is about to write
  aborts

vars == <<session, context, input, seen, rows, trail, pc, result, aborts>>

Tasks == {"idle", "completed", "waiting_clarification", "waiting_confirmation",
          "waiting_approval", "waiting_escalation"}

(* pendingClarification names the message whose question or escalation is  *)
(* awaited, pendingApprovalRequestId the message whose plan is.            *)
Contexts == [type: Types \cup {NoType}, id: Ids \cup {NoId}, task: Tasks,
             clarification: Messages \cup {NoMessage},
             approval: Messages \cup {NoMessage}]

NoContext == [type |-> NoType, id |-> NoId, task |-> "idle",
              clarification |-> NoMessage, approval |-> NoMessage]

RequestKinds == {"draft", "approval", "escalation"}

Waiting == {"confirmation_required", "approval_required", "escalation_required"}
Reviewed == {"no_answer", "permission_denied"}
Decided == {"answered", "clarification_required"} \cup Reviewed
Statuses == Decided \cup Waiting

(* "answer" is the assistant's message: pending has the placeholder.       *)
MessageRows == [stored: BOOLEAN, understood: BOOLEAN, planned: BOOLEAN,
                answer: {"absent", "pending"} \cup Statuses,
                question: BOOLEAN, request: RequestKinds \cup {"none"},
                decision: Decided \cup {"none"}, review: BOOLEAN]

NoRows == [stored |-> FALSE, understood |-> FALSE, planned |-> FALSE,
           answer |-> "absent", question |-> FALSE, request |-> "none",
           decision |-> "none", review |-> FALSE]

Events == {"message_received", "query_understanding_completed",
           "execution_plan_created", "clarification_question_created",
           "request_created", "review_item_created"} \cup Statuses

Stages == {"log_received", "load", "understand", "log_understood", "plan",
           "log_planned", "respond", "ask", "log_question", "request",
           "research", "decide", "review", "complete", "mark", "log_answer"}

Ends == {"done", "refused", "withdrawn", "cut"}

-----------------------------------------------------------------------------
RouteOf(m) == Route(input[m].query, input[m].page, seen[m])

(* What each branch waits for. *)
StatusOf == [clarify |-> "clarification_required",
             confirm |-> "confirmation_required",
             approve |-> "approval_required",
             escalate |-> "escalation_required"]

KindOf == [confirm |-> "draft", approve |-> "approval", escalate |-> "escalation"]

(* The first statement of each branch. *)
FirstStep(m) == CASE RouteOf(m) = "clarify" -> "ask"
                  [] RouteOf(m) \in DOMAIN KindOf -> "request"
                  [] OTHER -> "research"

(* Mutant of AfterDecide: the review item is created last. *)
ReviewLater(m) == "complete"

(* Mutant of AfterDecide: the audit event is written with the decision. *)
AuditOnDecision(m) == "log_answer"

(* Refusals are handed to a reviewer before the message is completed. *)
AfterDecide(m) == IF result[m] \in Reviewed THEN "review" ELSE "complete"

Goto(m, l) == pc' = [pc EXCEPT ![m] = l]

Logged(m, e) == trail' = [trail EXCEPT ![m] = Append(@, e)]

(* A column given as undefined keeps its value. *)
Kept(new, none, old) == IF new = none THEN old ELSE new

-----------------------------------------------------------------------------
(* createSession: three statements; the id is returned after the third.    *)

InsertSession(s) ==
  /\ session[s] = "absent"
  /\ session' = [session EXCEPT ![s] = "inserted"]
  /\ UNCHANGED <<context, input, seen, rows, trail, pc, result, aborts>>

InsertContext(s) ==
  /\ session[s] = "inserted"
  /\ \E page \in Start :
       context' = [context EXCEPT ![s] = [NoContext EXCEPT !.type = page.type,
                                                           !.id = page.id]]
  /\ session' = [session EXCEPT ![s] = "initialised"]
  /\ UNCHANGED <<input, seen, rows, trail, pc, result, aborts>>

AuditSession(s) ==
  /\ session[s] = "initialised"
  /\ session' = [session EXCEPT ![s] = "known"]
  /\ UNCHANGED <<context, input, seen, rows, trail, pc, result, aborts>>

-----------------------------------------------------------------------------
(* sendMessage up to its branches *)

(* getVisibleSession, createUserMessage. *)
Receive(m, i) ==
  /\ pc[m] = "idle"
  /\ session[SessionOf[m]] = "known"
  /\ input' = [input EXCEPT ![m] = i]
  /\ rows' = [rows EXCEPT ![m].stored = TRUE]
  /\ Goto(m, "log_received")
  /\ UNCHANGED <<session, context, seen, trail, result, aborts>>

(* loadLatest; the assertions and joins around it read nothing that moves. *)
LoadContext(m) ==
  /\ pc[m] = "load"
  /\ seen' = [seen EXCEPT ![m] = [type |-> context[SessionOf[m]].type,
                                  id |-> context[SessionOf[m]].id]]
  /\ Goto(m, "understand")
  /\ UNCHANGED <<session, context, input, rows, trail, result, aborts>>

(* understandAndPersist: the row, an upsert per message. *)
Understand(m) ==
  /\ pc[m] = "understand"
  /\ rows' = [rows EXCEPT ![m].understood = TRUE]
  /\ Goto(m, "log_understood")
  /\ UNCHANGED <<session, context, input, seen, trail, result, aborts>>

Plan(m) ==
  /\ pc[m] = "plan"
  /\ rows' = [rows EXCEPT ![m].planned = TRUE]
  /\ Goto(m, "log_planned")
  /\ UNCHANGED <<session, context, input, seen, trail, result, aborts>>

(* createPendingAssistantMessage, and the choice of the branch. *)
Respond(m) ==
  /\ pc[m] = "respond"
  /\ rows' = [rows EXCEPT ![m].answer = "pending"]
  /\ result' = [result EXCEPT ![m] = IF RouteOf(m) \in DOMAIN StatusOf
                                     THEN StatusOf[RouteOf(m)] ELSE "none"]
  /\ Goto(m, FirstStep(m))
  /\ UNCHANGED <<session, context, input, seen, trail, aborts>>

-----------------------------------------------------------------------------
(* The branches *)

(* ClarificationQuestionService.create *)
Ask(m) ==
  /\ pc[m] = "ask"
  /\ rows' = [rows EXCEPT ![m].question = TRUE]
  /\ Goto(m, "log_question")
  /\ UNCHANGED <<session, context, input, seen, trail, result, aborts>>

(* resolveSelectedSideEffectTool: what is asked of the latest definition   *)
(* of the selected tool; an escalation has no tool.                        *)
Suits(registry, m) ==
  LET kind == KindOf[RouteOf(m)]
  IN  kind # "escalation" =>
        SelectedTool(kind, input[m].query, input[m].page, seen[m]) \in registry[kind]

(* createForMediumRisk, createForHighRisk, createForCriticalRisk: the row  *)
(* and its audit event in one transaction.                                 *)
CreateRequest(m) ==
  /\ pc[m] = "request"
  /\ \E registry \in Registries : Suits(registry, m)
  /\ rows' = [rows EXCEPT ![m].request = KindOf[RouteOf(m)]]
  /\ Logged(m, "request_created")
  /\ Goto(m, "complete")
  /\ UNCHANGED <<session, context, input, seen, result, aborts>>

(* ForbiddenException: nothing in sendMessage catches it.                  *)
RefuseRequest(m) ==
  /\ pc[m] = "request"
  /\ \E registry \in Registries : ~Suits(registry, m)
  /\ Goto(m, "refused")
  /\ UNCHANGED <<session, context, input, seen, rows, trail, result, aborts>>

(* Mutant of Findings: a failed tool call gets a status of its own. *)
FindingsOfTool(m) == {"answered", "no_answer", "tool_failed"}

(* Retrieval answers or finds nothing; a tool may also be denied.          *)
Findings(m) == {"answered", "no_answer"}
               \cup (IF RouteOf(m) = "runtime" THEN {"permission_denied"} ELSE {})

(* Mutant of Research: a failed retrieval or tool call is not caught. *)
ResearchUncaught(m) ==
  /\ pc[m] = "research"
  /\ \E f \in Findings(m) :
       /\ result' = [result EXCEPT ![m] = f]
       /\ Goto(m, IF f = "no_answer" THEN "cut" ELSE "decide")
  /\ UNCHANGED <<session, context, input, seen, rows, trail, aborts>>

(* runDocumentRetrieval in its try, or the read-only runtime; then the     *)
(* gates.                                                                  *)
Research(m) ==
  /\ pc[m] = "research"
  /\ \E f \in Findings(m) : result' = [result EXCEPT ![m] = f]
  /\ Goto(m, "decide")
  /\ UNCHANGED <<session, context, input, seen, rows, trail, aborts>>

(* attachDocumentChunkEvidence, outside the try: a document that was found *)
(* is gone or not active any more when it is attached.                     *)
LoseDocument(m) ==
  /\ pc[m] = "research"
  /\ RouteOf(m) = "documents"
  /\ Goto(m, "withdrawn")
  /\ UNCHANGED <<session, context, input, seen, rows, trail, result, aborts>>

(* decide, recordSafeDecision: the grounding check and the decision that   *)
(* refers to it; nothing reads the first without the second.               *)
Decide(m) ==
  /\ pc[m] = "decide"
  /\ rows' = [rows EXCEPT ![m].decision = result[m]]
  /\ Goto(m, AfterDecide(m))
  /\ UNCHANGED <<session, context, input, seen, trail, result, aborts>>

(* createFromAssistantOutcome: row and audit event in one transaction.     *)
CreateReview(m) ==
  /\ pc[m] = "review"
  /\ rows' = [rows EXCEPT ![m].review = TRUE]
  /\ Logged(m, "review_item_created")
  /\ Goto(m, "complete")
  /\ UNCHANGED <<session, context, input, seen, result, aborts>>

(* completeAssistantMessage *)
Complete(m) ==
  /\ pc[m] = "complete"
  /\ rows' = [rows EXCEPT ![m].answer = result[m]]
  /\ Goto(m, "mark")
  /\ UNCHANGED <<session, context, input, seen, trail, result, aborts>>

(* The page's entity, where the page gives one.                            *)
Shown(ctx, page) == [ctx EXCEPT !.type = Kept(page.type, NoType, @),
                                !.id = Kept(page.id, NoId, @)]

Researched(m) == result[m] \in {"answered"} \cup Reviewed

(* The three columns the five writers set: markWaitingClarification,       *)
(* -Confirmation, -Approval, -Escalation and updateAfterMessageFlow.       *)

TaskAfter(m) ==
  CASE result[m] = "clarification_required" -> "waiting_clarification"
    [] result[m] = "confirmation_required" -> "waiting_confirmation"
    [] result[m] = "approval_required" -> "waiting_approval"
    [] result[m] = "escalation_required" -> "waiting_escalation"
    [] OTHER -> IF Clarify(input[m].query, input[m].page, seen[m])
                THEN "waiting_clarification" ELSE "completed"

(* Mutant of QuestionAfter: a confirmation leaves the question pending. *)
QuestionKept(m, old) ==
  CASE result[m] \in {"clarification_required", "escalation_required"} -> m
    [] result[m] = "confirmation_required" -> old
    [] OTHER -> NoMessage

QuestionAfter(m, old) ==
  IF \/ result[m] \in {"clarification_required", "escalation_required"}
     \/ Researched(m) /\ Needs(input[m].query, input[m].page, seen[m]) # {}
  THEN m ELSE NoMessage

(* Two of the writers leave the pending approval as it is. *)
ApprovalAfter(m, old) ==
  CASE result[m] = "approval_required" -> m
    [] result[m] \in {"clarification_required", "escalation_required"} -> NoMessage
    [] OTHER -> old

Marked(m, ctx) == [Shown(ctx, input[m].page) EXCEPT
                     !.task = TaskAfter(m),
                     !.clarification = QuestionAfter(m, @),
                     !.approval = ApprovalAfter(m, @)]

(* updateOrCreate: whatever the row has become, its columns are set.  The  *)
(* branch that creates a row is out of reach, because a session is known   *)
(* to its client only after its row is there.                              *)
MarkContext(m) ==
  /\ pc[m] = "mark"
  /\ context' = [context EXCEPT ![SessionOf[m]] = Marked(m, @)]
  /\ Goto(m, "log_answer")
  /\ UNCHANGED <<session, input, seen, rows, trail, result, aborts>>

-----------------------------------------------------------------------------
(* The statements that only append an audit event, and what follows them.  *)
EventAt == [log_received |-> "message_received",
            log_understood |-> "query_understanding_completed",
            log_planned |-> "execution_plan_created",
            log_question |-> "clarification_question_created"]

AfterEvent == [log_received |-> "load", log_understood |-> "plan",
               log_planned |-> "respond", log_question |-> "decide"]

Audit(m) ==
  /\ pc[m] \in DOMAIN EventAt
  /\ Logged(m, EventAt[pc[m]])
  /\ Goto(m, AfterEvent[pc[m]])
  /\ UNCHANGED <<session, context, input, seen, rows, result, aborts>>

(* answer_generated, with its decision. *)
AuditAnswer(m) ==
  /\ pc[m] = "log_answer"
  /\ Logged(m, result[m])
  /\ Goto(m, "done")
  /\ UNCHANGED <<session, context, input, seen, rows, result, aborts>>

(* The process stops, the database refuses or a service throws.            *)
Abort(m) ==
  /\ pc[m] \in Stages
  /\ aborts < MaxAborts
  /\ aborts' = aborts + 1
  /\ Goto(m, "cut")
  /\ UNCHANGED <<session, context, input, seen, rows, trail, result>>

(* The client never learns the id of the session. *)
AbortSession(s) ==
  /\ session[s] \in {"inserted", "initialised"}
  /\ aborts < MaxAborts
  /\ aborts' = aborts + 1
  /\ session' = [session EXCEPT ![s] = "lost"]
  /\ UNCHANGED <<context, input, seen, rows, trail, pc, result>>

-----------------------------------------------------------------------------
Init == /\ session = [s \in Sessions |-> "absent"]
        /\ context = [s \in Sessions |-> NoContext]
        /\ input = [m \in Messages |-> NoInput]
        /\ seen = [m \in Messages |-> [type |-> NoType, id |-> NoId]]
        /\ rows = [m \in Messages |-> NoRows]
        /\ trail = [m \in Messages |-> <<>>]
        /\ pc = [m \in Messages |-> "idle"]
        /\ result = [m \in Messages |-> "none"]
        /\ aborts = 0

(* The steps of a handler that has started. *)
Step(m) == \/ Audit(m) \/ LoadContext(m) \/ Understand(m) \/ Plan(m)
           \/ Respond(m) \/ Ask(m) \/ CreateRequest(m) \/ RefuseRequest(m)
           \/ Research(m) \/ LoseDocument(m) \/ Decide(m) \/ CreateReview(m) \/ Complete(m) \/ MarkContext(m)
           \/ AuditAnswer(m)

Create(s) == InsertSession(s) \/ InsertContext(s) \/ AuditSession(s)

Next == \/ \E s \in Sessions : Create(s) \/ AbortSession(s)
        \/ \E m \in Messages : \/ Step(m) \/ Abort(m)
                               \/ \E i \in Inputs : Receive(m, i)

Spec == Init /\ [][Next]_vars

(* The event loop resumes every started handler.                           *)
FairSpec == Spec /\ \A m \in Messages : WF_vars(Step(m))

-----------------------------------------------------------------------------
(* Every variable has its type. *)
TypeOK ==
  /\ session \in [Sessions -> {"absent", "inserted", "initialised", "known", "lost"}]
  /\ context \in [Sessions -> Contexts]
  /\ input \in [Messages -> Inputs \cup {NoInput}]
  /\ seen \in [Messages -> Pointers]
  /\ rows \in [Messages -> MessageRows]
  /\ trail \in [Messages -> Seq(Events)]
  /\ pc \in [Messages -> Stages \cup {"idle"} \cup Ends]
  /\ result \in [Messages -> Statuses \cup {"none"}]
  /\ aborts \in Nat

(* The context never runs ahead of what it points at: a session that waits *)
(* for an approval, an escalation or a clarification points at a message   *)
(* of its own that has the request or the question and has been answered   *)
(* with it, and one that does not wait has no open question, however the   *)
(* flows of the session overwrite each other and wherever they are cut.    *)
ContextExplained ==
  \A s \in Sessions :
    LET c == context[s]
    IN  /\ c.approval # NoMessage =>
             /\ SessionOf[c.approval] = s
             /\ rows[c.approval].request = "approval"
             /\ rows[c.approval].answer = "approval_required"
        /\ c.clarification # NoMessage => SessionOf[c.clarification] = s
        /\ c.task = "waiting_approval" => c.approval # NoMessage
        /\ CASE c.task = "waiting_clarification" ->
                  /\ c.clarification # NoMessage
                  /\ rows[c.clarification].question
                  /\ rows[c.clarification].answer = "clarification_required"
             [] c.task = "waiting_escalation" ->
                  /\ c.clarification # NoMessage
                  /\ rows[c.clarification].request = "escalation"
                  /\ rows[c.clarification].answer = "escalation_required"
             [] OTHER -> c.clarification = NoMessage

(* Nothing is looked up on a guess.  When retrieval or a tool is used, the *)
(* question has no side effect, "this one" was one entity shown by the     *)
(* page or left by the session, an order was identified, and there is an   *)
(* entity or a document to look for.  The thresholds of the confidence     *)
(* score and the precedence of the needs make this so; no code states it.  *)
Answerable(q, page, ctx) ==
  /\ q.length # "blank"
  /\ {"update", "destroy", "recent"} \cap q.words = {}
  /\ Says(q, "deixis") =>
       page.rows <= 1 /\ (Pinned(page) \/ (page.type = NoType /\ Pinned(ctx)))
  /\ Says(q, "order") /\ ~Says(q, "deixis") /\ ~Says(q, "document") =>
       \E e \in q.named : e.type = "order"
  /\ Says(q, "document") \/ Entities(q, page, ctx) # {}

NoGuess ==
  \A m \in Messages :
    pc[m] = "research" \/ rows[m].decision \in {"answered"} \cup Reviewed =>
      Answerable(input[m].query, input[m].page, seen[m])

(* Nothing is changed on a guess either.  A request exists only for a      *)
(* question that commands a change; what destroys or is urgent never       *)
(* becomes a draft its requester may confirm alone; and "this one" was one *)
(* thing, which the page showed or the session remembered, unless an       *)
(* unsupported time range hid the doubt from the gate.  The gate and the   *)
(* risk are computed apart and meet only in the branches of sendMessage.   *)
Commanded(q, page, ctx, kind) ==
  /\ {"update", "destroy"} \cap q.words # {}
  /\ kind = "draft" => {"destroy", "urgent"} \cap q.words = {}
  /\ Says(q, "deixis") /\ ~Says(q, "recent") =>
       /\ page.rows <= 1
       /\ page.id # NoId \/ (page.type = NoType /\ Pinned(ctx))

NoBlindRequest ==
  \A m \in Messages :
    pc[m] = "request" \/ rows[m].request # "none" =>
      Commanded(input[m].query, input[m].page, seen[m], rows[m].request)

(* The audit trail is never ahead of the rows, and the answer it reports   *)
(* is the answer of the message (the order of the statements of            *)
(* sendMessage and of the services it calls, none of them in one           *)
(* transaction).                                                           *)
AuditNeverAhead ==
  \A m \in Messages : \A i \in DOMAIN trail[m] :
    LET e == trail[m][i]
    IN  /\ e = "message_received" => rows[m].stored
        /\ e = "query_understanding_completed" => rows[m].understood
        /\ e = "execution_plan_created" => rows[m].planned
        /\ e = "clarification_question_created" => rows[m].question
        /\ e = "request_created" => rows[m].request # "none"
        /\ e = "review_item_created" => rows[m].review
        /\ e \in Statuses => rows[m].answer = e /\ i = Len(trail[m])

(* The messages that were stored and that no handler will answer any more. *)
Stranded == {m \in Messages : /\ rows[m].stored /\ rows[m].answer \notin Statuses
                              /\ pc[m] \notin Stages}

(* The two ways a call is known to end before its message is answered: the *)
(* change asked for has no tool that suits it, which on a page about       *)
(* orders takes a registry without the tool for such changes; or a found   *)
(* document was withdrawn before it was attached.                          *)
NoToolForIt(m) ==
  /\ RouteOf(m) \in {"confirm", "approve"} /\ rows[m].request = "none"
  /\ AboutOrders(input[m].page) =>
       \E registry \in Registries :
         LET kind == KindOf[RouteOf(m)] IN ChangeTool[kind] \notin registry[kind]

LeftOpen(m) == \/ pc[m] = "refused" /\ NoToolForIt(m)
               \/ pc[m] = "withdrawn" /\ RouteOf(m) = "documents"

(* A message left pending for ever is explained by its own question and    *)
(* page, or was cut by a crash, one each: no other branch of sendMessage,  *)
(* no failed retrieval, no denied tool and no other flow of the session    *)
(* ends a call before its message is answered.                             *)
StrandedByCrash == Cardinality({m \in Stranded : ~LeftOpen(m)}) <= aborts

(* Every message that was stored is answered, unless its own call is cut   *)
(* short or ends in one of the two ways known: a retrieval that fails or a *)
(* tool that is denied is an answer.                                       *)
EveryMessageSettles ==
  \A m \in Messages :
    rows[m].stored ~> \/ rows[m].answer \in Statuses
                      \/ pc[m] = "cut" /\ aborts > 0
                      \/ LeftOpen(m)

-----------------------------------------------------------------------------
(* What each answer refers to. *)
Needed == [answered |-> {"decision"},
           no_answer |-> {"decision", "review"},
           permission_denied |-> {"decision", "review"},
           clarification_required |-> {"question", "decision"},
           confirmation_required |-> {"draft"},
           approval_required |-> {"approval"},
           escalation_required |-> {"escalation"}]

AnswerOf(r) == CASE r.answer = "absent" -> "none"
                 [] r.answer = "pending" -> "open"
                 [] OTHER -> r.answer

BasisOf(r) == {b \in {"question", "decision", "review"} \cup RequestKinds :
                 \/ b = "question" /\ r.question
                 \/ b = "decision" /\ r.decision # "none"
                 \/ b = "review" /\ r.review
                 \/ b \in RequestKinds /\ r.request = b}

Ledger == INSTANCE AnswerLedger WITH
            answer <- [m \in Messages |-> AnswerOf(rows[m])],
            basis <- [m \in Messages |-> BasisOf(rows[m])]

(* A message is answered at most once, for good, and only with everything  *)
(* its answer refers to already stored, and nothing else: a confirmation   *)
(* has its one draft, a refusal its decision and its review item (the      *)
(* order of the statements in every branch of sendMessage).                *)
ImplementsAnswerLedger == Ledger!Spec

(* spec.md: conflicting candidates are clarified, not guessed.  The request *)
(* or the tool call is about the entity of the page, whatever the question *)
(* names (payloadSummary, actionSummary and toolInput of a message).       *)
ActsOnNamedEntity ==
  \A m \in Messages :
    (pc[m] \in {"request", "research"} /\ RouteOf(m) # "documents"
     /\ input[m].query.named # {} /\ input[m].page.id # NoId) =>
      \E e \in Entities(input[m].query, input[m].page, seen[m]) :
        e.id = input[m].page.id
=============================================================================
