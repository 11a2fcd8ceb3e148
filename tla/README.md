# Verification of the internal AI assistant core

TLA+ models of the assistant backend in `src/src`, the TLC runs that check them
on small instances, and TLAPS proofs of their main properties for every value
of the constants.

The backend is a NestJS service over PostgreSQL (Prisma). Every request carries
a verified token (customer, organization, actor, roles, permission scopes) and
every query is restricted to the caller's customer. A message goes through
query understanding, planning, retrieval and read-only tools to a grounded
answer, a clarification or a refusal. A plan with a side effect becomes, by
risk, an **action draft** (confirmed by its requester) or an **approval
request** (decided by an approver); both run their side effect through one
**execution guard**. Several processes may serve the same database; there are
no locks, only transactions, compare-and-set updates and unique constraints.

## 1. Inventory

| Component (`src/src/...`) | State | Operations | Hard behaviour | What makes it correct |
|---|---|---|---|---|
| Action drafts (`approvals/action-draft.service.ts`) | `ActionDraft` rows | create, confirm, cancel | confirm and cancel race; retry after a crash | decided at most once; trail and status agree; executed means a tool call of its own |
| Approval requests (`approvals/approval-request.service.ts`) | `ApprovalRequest` rows | create, approve, reject, cancel | several approvers race; expiry during a call | as above; only an actor with authority decides |
| Execution guard (`approvals/side-effect-execution-guard.service.ts`, contract resolver) | `ToolCall` rows with an idempotency key | execute | same key from two calls, crash around the connector, replay, tool re-registered in between | one connector call per key; nothing runs unchecked; audit never ahead |
| Escalations (`approvals/escalation-request.service.ts`) | `EscalationRequest` rows | create, resolve, cancel | resolve and cancel race; audit refuses a manager who does not own the session | decided at most once, trail agrees |
| Message flow (`assistant/message/`) | `AssistantMessage` rows, audit events | sendMessage (planning to answer, seven exits) | not one transaction: a failure strands drafts, context and messages, and so does a change that no tool suits; concurrent messages of a session | answered once, with everything the answer refers to; audit never ahead of rows |
| Session and context (`assistant/session/`, `assistant/context/`) | `AssistantSession`, `AssistantContextState` | create, load, five writers after a flow (close exists but no controller calls it) | two flows overwrite one context row; pending ids kept or cleared by different writers | the context never points at a question or request that is not there |
| Query understanding, planning (`query-understanding/`, `assistant/planning/`) | `QueryUnderstandingResult`, `ExecutionPlan` | understand, plan | thresholds and precedence; a reference resolved through page or context | nothing is looked up on a guess |
| Answer decision (`assistant/answer/`) | `GroundingCheck`, `AnswerDecision`, `ClarificationQuestion` | gates, decide, ask | precedence of the gates | no grounded answer without evidence |
| Read-only runtime (`assistant/runtime/`) | `ToolCall` rows without key | resolve, check, start, complete, fail, block | definition or policy changed in between | only permitted calls; a row ends in the state that was answered |
| Retrieval and evidence (`retrieval/`, `evidence/`) | `RetrievalRun`, `RetrievalCandidate`, `EvidenceRef` rows | retrieve, attach, mark | document archived, edited or re-scoped between the two, or between the two queries of one read | what is attached is the caller's customer's and was readable by the caller |
| Feedback and review (`feedback/`) | `FeedbackEvent`, `ReviewItem` rows | submit, create from an outcome, resolve, dismiss | feedback during the flow, two reviewers, a lock whose holder dies | feedback tells the answer and is heard; one reviewer closes |
| Tool registry, policy, precheck (`tools/`, `permissions/`) | `ToolDefinition`, `CustomerToolPolicy` | resolve | operators change rows during a call | latest active definition, allowed and permitted |
| Audit writer (`audit/`) | `AuditEvent` rows | append, append in a workflow transaction | refuses a caller who does not own the session | - |
| History (`assistant/history/`) | none | list by cursor | messages appended while paging | no message lost or repeated |
| LLM, identity, connectors, observability, configuration | none of their own | - | remote calls, pure I/O | - |

Interactions: `sendMessage` calls query understanding and planning, then one of
clarification, the three workflow services, retrieval or the read-only runtime,
then the decision, the review queue, the message and the context row. It
creates drafts, approval requests and escalations; their controllers call the
workflow services; `confirm` and `approve` call the
guard, the guard calls tool registry, tool policy, precheck and connector; every
workflow writes its audit event in the transaction of its status change. All
components meet in the database only.

## 2. What is modelled

### Side effects

`SideEffectWorkflow` models action drafts, approval requests and the guard.

| Variables | Code |
|---|---|
| `status`, `reqKey`, `approver`, `contract`, `expired` | columns of `ActionDraft` and `ApprovalRequest` |
| `journal` | the decision audit events of a request, in order |
| `toolCalls` | `ToolCall` rows with a key, unique per (customer, key) |
| `toolEvents` | execution audit events (denied, skipped duplicate, executed, failed) |
| `tool`, `policy` | latest `ToolDefinition` per tool, `CustomerToolPolicy` per customer |
| `pc`, `call` | a request being handled: where it is, what it has read |
| `sent`, `applied` | ghosts: connector invocations per key, effects that took place |

A call is one HTTP request (or the part of `sendMessage` that creates a
record). Handlers interleave at every `await`, so an action is one statement,
one transaction or one connector call with the code up to the next `await`:

| Action | Code |
|---|---|
| `StartCreate`, `ResolveContract`, `InsertRequest` | `createForMediumRisk`, `createForHighRisk`: ownership, contract resolver, row and audit event in one transaction |
| `StartDecision`, `Load` | `confirm`, `approve`, `reject`, `cancel` up to the guard: authority, visible row, replay, status and expiry |
| `CheckParents`, `ResolveTool`, `ResolvePolicy`, `LookupKey` | the gates of `guard.execute`, each with its audited refusal |
| `Reserve`, `CallConnector`, `RecordOutcome`, `AuditOutcome` | the reservation of the key, the effect, the row update, the execution audit |
| `Finalize`, `RollBack` | the decision transaction: compare-and-set, unique key, audit event that requires session ownership |
| `Abort` | the process stops, the database refuses or the connector throws, at any `await` |
| `Expire`, `ChangeTool`, `ChangePolicy` | time passing; operators changing the registry and the policies |

Abstractions. Payloads, names, previews and wording are left out. Permission
scopes and roles are the two facts the code derives from them (`approver`,
`permitted`). A contract stands for a `ToolDefinition` row with the gates and
schemas compared by `validateToolContract`; `Fit` is the set a kind of request
accepts. The host application is part of the organization. Reads of columns
that never change (parents) are merged into the neighbouring step. `expired`
only goes from false to true. The permission precheck's own denial event is
folded into "denied". Operators' changes have no code of their own in the service (the rows are
upserted by `scripts/seed.ts` and by hand), so they may happen at any moment.

### Escalations

`EscalationWorkflow` models escalation requests in the same style: `status` and
`assignee` (`summary.assignedActorId`) are the row, `trail` its workflow audit
events with the customer, actor and assignee filed in them, `call` what a
handler has read. A critical plan is handed to a person and has no side effect,
so there is no key and no guard.

| Action | Code |
|---|---|
| `StartCreate`, `CheckParents`, `InsertRequest` | `createForCriticalRisk`: ownership of session and messages, then row and audit event in one transaction |
| `StartDecision`, `Load` | `resolve`, `cancel` up to their transaction: visible row and session, authority, open and fresh |
| `Commit`, `RollBack` | the transaction: compare-and-set, the summary read earlier written back, audit event that requires session ownership |
| `Abort`, `Expire` | as above; expiry is never written to the row, although the enumeration has a value for it |

The two workflows share no row and no code that writes, so they are not
composed; what they have in common is the abstract log they implement.

### Messages

`QueryPlanning` has no state: it translates the pure functions from a text, the
page it was asked on and the session's context to a branch of `sendMessage`:
`Entities`, `Reference` (deixis), `Tools`, `Risk`, `Needs`, `Confidence` (in
hundredths), `Clarify`, `Gated`, `Route`, and `SelectedTool`, the tool a change
is asked of. A text is the set of things the
patterns find in it, the identifiers it names and whether it is blank, short or
long; wording, tokens and candidate lists are left out.

`MessageFlow` models the life of sessions and messages up to the answer. State:
`session` (how far its creation has come), `context` (`AssistantContextState`
with its pointers), `rows` (what is stored about a message), `trail` (its audit
events), and per handler `pc`, `seen` (the context it has read), `input` and
`result`.

| Action | Code |
|---|---|
| `InsertSession`, `InsertContext`, `AuditSession` | the three statements of `createSession`; a crash between them loses the session |
| `Receive`, `LoadContext`, `Understand`, `Plan`, `Respond` | `sendMessage` up to its branches; `Respond` stores the pending assistant message and takes the branch |
| `Ask`, `CreateRequest`, `Research` | clarification question; draft, approval or escalation (row and audit event in one transaction); retrieval or runtime with the gates, as a choice of outcome |
| `RefuseRequest`, `LoseDocument` | the two exceptions `sendMessage` does not catch: the contract resolver's, when the selected tool does not suit the request in the registry as it is, and the evidence service's, when a found document is gone |
| `Decide`, `CreateReview`, `Complete` | grounding check and decision, review item of a refusal, completion of the message |
| `MarkContext` | the five writers of the context row over `updateOrCreate`: `Shown`, `TaskAfter`, `QuestionAfter`, `ApprovalAfter` |
| `Audit`, `AuditAnswer` | the statements that append an audit event alone |
| `Abort`, `AbortSession` | the process stops, the database refuses or a service throws, between any two statements |

`Grounding` opens up `Research` for the two low-risk branches. State:
`documents`, `tool`, `policy`, with two ghosts: the rows that tool and policies
have had (`past`) and, per message, the rows each document has had since the
retrieval (`since`); and per message its `run`, `evidence`, `toolCall`, `grounding`, `decision`,
`review`, `answer`.

| Action | Code |
|---|---|
| `Retrieve`, `CheckCandidate`, `CheckRest` | `runDocumentRetrieval` in the try of `sendMessage`: the authorized query, then for each candidate two queries, to documents and chunks, in either order |
| `RecordRun`, `RecordCandidate`, `AuditRun`, `RetrievalFails` | the run, each candidate and the audit, a statement each; whatever is thrown on the way becomes an answer, and what is stored by then stays |
| `ReadDocument`, `ReadRest`, `AttachDocument`, `MarkEvidence` | `attachDocumentChunkEvidence` per candidate, outside the try: the status of the document and the text of the chunk by two queries in either order, then the row; at the end the ids in the run |
| `ResolveTool`, `CheckPolicy`, `BlockCall` | definition, then policy, permissions, operation and input; every refusal is a blocked tool call |
| `StartCall`, `Connect`, `FinishCall`, `FailCall`, `AttachRecord` | the tool call around the connector, the columns the page shows, the evidence and the detector of conflicts |
| `Ground`, `Decide`, `CreateReview`, `Complete` | what both branches end with |
| `ChangeDocument`, `ChangeTool`, `ChangePolicy` | operators; no code of the service writes these rows, so it may happen at any moment |

A document stands for one chunk, who may read it for the set of callers its
visibility, organizations and scopes admit, and the score for a choice of
candidates. A row and its audit event, which nobody reads in between, are one
step.

`ReviewQueue` models feedback and review items next to the steps of
`sendMessage` that feedback can observe: `item`, `trail`, the `lock` of an
item's row, `feedback` rows and what a submission has read (`draft`).

| Action | Code |
|---|---|
| `Open`, `StartToolCall`, `AttachEvidence`, `ReviewOutcome`, `Complete` | the message as feedback sees it; items of refusals are created before the message is completed |
| `StartFeedback`, `ReadContext`, `InsertFeedback` | `submitFeedback`: three reads outside the transaction (message, tool calls, evidence), of which the first and the last may refuse, then event, audit event and item in one |
| `StartReview`, `FindItem`, `LockItem`, `CloseItem` | resolve and dismiss: the controller's role check, the visible item, the conditional update that waits for the row, the rest of the transaction |
| `Abort` | a crash or database error, with the transaction undone and the row released |

These three modules share the rows of a message but not their steps, so each
keeps what its properties need. That they agree is stated by the abstract
specifications: `Research` promises in `MessageFlow` what `Grounding` is shown
to deliver, an answer of the same `AnswerLedger`.

### Abstract specifications

* `DecisionLog`: a request is opened once and decided at most once, for good,
  and its trail says exactly that. `SideEffectWorkflow` implements it with
  `outcome <- OutcomeOf[status]`, `trail <- journal`, `EscalationWorkflow` with
  the events of its trail, `ReviewQueue` with its items.
* `KeyedOnce`: inside a customer a key is reserved by one request for good and
  the connector is invoked at most once under it. `SideEffectWorkflow`
  implements it with the holder of a key read from `toolCalls`.
* `AnswerLedger`: a message is answered at most once, for good, and its answer
  refers to exactly the rows stored for it. `MessageFlow` implements it with
  questions, requests, decisions and review items, `Grounding` with evidence,
  failed or blocked tool calls, decisions and review items.

## 3. Properties and runs

| Run | Instance | Properties |
|---|---|---|
| `approvals` | one approval request, two calls, two keys, a requester, a requester who lost a permission, a supervisor, a colleague; expiry; one registry or policy change | `JournalAgrees`, `ConnectorGated`, `ImplementsDecisionLog`, `OkMeansDone`, `RetryIsHeard` |
| `drafts` | two drafts, two calls, one key, a caller of another customer with the same ids; expiry; one crash | `TypeOK`, `KeySentOnce`, `DecidedHasToolCall`, `AuditNeverAhead`, `EveryHalfDoneIsACrash`, `ImplementsKeyedOnce`, `RetryIsHeard` |
| `recovery` | one draft, two calls, one key, two crashes, fairness | `AppliedGetsRecorded` |
| `escalations` | two escalations of actors with the same ids in two customers, two calls; the requester with and without authority, another manager, a colleague, a manager of the other customer; expiry; one crash | `TypeOK`, `TrailTellsStory`, `DecidedWithAuthority`, `RepliesAreTrue`, `ImplementsDecisionLog` |
| `messages` | one session, two messages, fifteen questions with their pages (nothing shown, an order, a list without an entity, selected rows, the orders list) that take every branch; the seeded registry, or one whose orders tool for drafts is deactivated; one crash; fairness | `TypeOK`, `ContextExplained`, `NoGuess`, `NoBlindRequest`, `AuditNeverAhead`, `StrandedByCrash`, `ImplementsAnswerLedger`, `EveryMessageSettles` |
| `grounding` | a message for each of the two branches, three documents of two customers; one change by operators, one retrieval error, one crash; fairness | `TypeOK`, `QuotesWhatWasReadable`, `CallsWerePermitted`, `GroundedAnswers`, `OpenByCrash`, `ImplementsAnswerLedger`, `EveryMessageAnswered` |
| `reviews` | one message, from documents or by a tool, with up to two evidence references, one submission by its author or another, two review calls by a reviewer, a reviewer of another customer or someone who is none; one crash; fairness | `TypeOK`, `ClosedByOne`, `FeedbackTellsTheAnswer`, `AnsweredIsHeard`, `ImplementsDecisionLog`, `LostToAnother`, `EveryReviewSettles` |
| `refusal_race`, `failed_effect`, `two_keys`, `supervisor`, `other_entity` | the smallest instances that show a divergence from the documents | see section 6 |

* `JournalAgrees`: trail and status tell one story in spite of races, roll-backs
  and crashes. It needs both the compare-and-set and the shared transaction.
* `ConnectorGated`: at the moment of the side effect everything the gates
  checked still holds for this request, although operators changed the registry
  in between, and a replay never gets there.
* `KeySentOnce`, `ImplementsKeyedOnce`: one connector call per key.
* `DecidedHasToolCall`: a key reserved by one request never finalises another.
* `AuditNeverAhead`: the execution audit is backed by rows, and a row marked
  executed by an effect.
* `OkMeansDone`: a caller who is told "ok" finds the request as asked and, for an
  execution, a tool call of that request under the key it sent. It could fail
  for a replay, which is answered from what was read before the guard ran.
* `EveryHalfDoneIsACrash`: a tool call left in progress, or an effect on a
  request still open, with no handler at work on it, takes a crash, and one
  crash leaves at most one. Expiry during the guard would be another way there
  if the decision transaction looked at it again; it does not.
* `RetryIsHeard`: an effect that took place and is not on record can be recorded
  by a retry with its key; the row, key or status of another call never stands
  in its way. The three ways to be refused all the same are spelled out: expiry
  before the request is read, a change of the registry, and a lookup so early
  that the reservation was still missing. `approvals` has the second of them,
  `drafts` the crash.
* `AppliedGetsRecorded`: after a crash between the effect and the decision
  transaction, the retry with the same key finalises.
* `TrailTellsStory`: row, assignee and trail of an escalation agree and every
  event is filed under the customer and actor of its session, although resolve
  and cancel write back a summary they read before.
* `DecidedWithAuthority`: a step that decides an escalation belongs to a call
  that saw it open and was entitled to that decision.
* `RepliesAreTrue`: "ok" on an escalation means done and filed under the
  caller's name; "conflict" means expired or a decision on record, also for the
  one who saw it open and came second; an error without a crash means that the
  caller does not own the session, and then nothing was changed.
* `ContextExplained`: five writers with different ideas of which columns to
  clear overwrite one row from concurrent flows, and still a session that waits
  points at a message of its own that has the question or request and was
  answered with it. The writers run after the message is completed; that order
  is what the property rests on.
* `NoGuess`: what reaches retrieval or a tool has no side effect, a reference
  that stands for one entity, an identified order and something to look for.
  No line of the code says so: it follows from the weights of the confidence
  score, its threshold and the order of the clarification needs.
* `NoBlindRequest`: the same for changes. A draft, approval request or
  escalation comes only from a text that commands a change, a draft never from
  a destructive or urgent one, and a reference in it stood for one thing. Risk
  and gates are computed apart and meet only in the branches of `sendMessage`.
  Its exception is real, see section 6.
* `AuditNeverAhead` (of `MessageFlow`), `ImplementsAnswerLedger`: no audit event
  without its row, no answer without what it refers to and with nothing else,
  at every point a crash can leave behind.
* `CallsWerePermitted`: tenancy and permission of what is called, while
  operators change the rows between the reads. It speaks of the rows as they
  have been, because the code reads each once.
* `QuotesWhatWasReadable`: what is quoted belongs to the caller's customer, the
  caller could read it when it was retrieved or later, and the words were those
  of an enabled chunk since. It says exactly what the code keeps: a document
  that has not changed since is quoted as the caller could read it, but one
  that has may be quoted in words the caller could not read any more, or that
  were never active, because neither the readers nor status and text together
  are read again (section 6).
* `GroundedAnswers`: the run, the evidence, the tool call and the answer agree.
* `LostToAnother`: "not found" after an item was found means that somebody
  else's close is committed, not that it was tried.
* `StrandedByCrash`, `OpenByCrash`: the messages that no handler will answer any
  more, but for the exceptions the code has, are at most as many as the crashes;
  no other branch, failed retrieval, denied tool or concurrent flow strands one.
  The exceptions: a change asked for away from an orders page, whose selected
  tool is a read-only one; one asked for on an orders page while the orders tool
  is not registered for it; and a found document that is withdrawn before it is
  attached. They are the safety halves of `EveryMessageSettles` and
  `EveryMessageAnswered`.
* `ClosedByOne`, `FeedbackTellsTheAnswer`: the reviewer who is told "ok" is the
  one who closed the item; feedback has the decision with all its evidence, or
  the placeholder of a pending message. The order of its three reads makes it
  so: with evidence first it could have an answer without its evidence.
* `AnsweredIsHeard`: evidence whose tool call was not yet there when the calls
  were read is refused as not found. That can happen to feedback on a pending
  message, never once the answer has been read: the message must be the first
  read, and the call and its evidence come before the answer in `sendMessage`.
* `EveryMessageSettles`, `EveryMessageAnswered`, `EveryReviewSettles`: a started
  call comes to its answer unless its own call is cut short or meets one of the
  exceptions just named. A reviewer who comes second is told so and does not try
  for ever.

**Bounds.** `Calls` (2): every race here is between two handlers, since all
conflicts are on one row or one key; slots are reused, so any number of calls
happens in sequence, which covers retries. `Keys`: 2 where different keys
matter, 1 where requests compete for it. `MaxChanges` = 1: a step between two
reads is enough to make the first stale. `MaxAborts`: 0 where crashes are not the
question, 1 or 2 otherwise (a crash and a crash of the retry). `Expiring`: the
requests whose expiry passes. Messages,
documents and reviewers are two or three because every conflict is between two
handlers on one context row, one document or one item; a submission is one,
because submissions meet only at the message. The revisions of `MCGrounding`
are one for each way a document can change under a reader: archived with its
chunk edited, chunk disabled, closed to the caller and edited, edited. One
change suffices for words that were never active: the chunk is read after it and
the document before. The pages show no columns, so the columns are the default. The questions of
`MCMessageFlow` were chosen for the branches they take; the proofs of `NoGuess`
and `NoBlindRequest` cover all questions there are. The proofs below remove these bounds for all safety
properties.

**Reductions.** Requests of a run that are of one kind, keys, calls and two
contracts are interchangeable, so they are declared symmetric in the safety
runs (messages are only ever compared through their requests; in `escalations`
only the calls are). The view
forgets how the last handler of a resting slot answered: no guard reads it.
Runs with a liveness property use neither. Deadlock is checked in the workflow
runs; in `messages`, `grounding`, `reviews` and `other_entity` every call is
made once, so the system stops when all of them are handled.

**Fairness.** `FairSpec` has weak fairness of every handler's own steps (a
started handler is resumed by the event loop, each of its steps stays enabled
until taken) and strong fairness of `Retry`: a client whose decision was not
acknowledged sends it again with its key; strong, because the slots may be busy
in between. It assumes no fairness of crashes, and the run has no expiry and no
registry change, under which the code refuses the retry (see hazards). The
`FairSpec` of `MessageFlow`, `Grounding` and `ReviewQueue` is weak fairness of
the steps of every handler that has started: the event loop resumes it, the mock
connector answers inside the process, and the database lets a transaction go on
whose row is free. Nothing assumes that a message is sent, an operator changes
a row or a crash happens.

## 4. Proofs

For every set of calls, requests, customers, actors, keys and contracts, and
every number of crashes and registry changes. The assumptions are
`ShapeAssumption` and `InputAssumption` (types of the parameters; a message
belongs to one request, because `sendMessage` creates a message and at most one
request for it, which `MessageFlow` shows), `BoundAssumption`, `NullAssumption`
and `NoneAssumption` (a missing value is none of the values). The invariant is built in layers:

| Module | Invariant | Theorems |
|---|---|---|
| `SideEffectWorkflowProofs` | `TypeInv`: types, and which fields of a call record each stage has filled in; `JournalInv`: a creator is alone with an absent request; a handler past its checks saw an open one | `TypeCorrect`, `JournalCorrect`, `DecisionLogImplemented` |
| `SideEffectWorkflowKeys` | `RowInv`: what a handler knows at each stage (authority, customer, ownership, contract, whether it has a row of its own); one row per key | `DecidedIsBacked`, `EveryExecutionGated` |
| `SideEffectWorkflowOnce` | `Ledger`: a slot is sent under after it was reserved, by one handler; `AuditInv`: the row of a handler is in progress until it records | `KeySentAtMostOnce`, `KeyedOnceImplemented`, `AuditIsBacked` |
| `SideEffectWorkflowSettled` | `GripInv`: what a handler about to reply has in hand (`Grip`) and what rows agree on (`Shelf`); `HalfDoneInv`: `RefusedMeansDecided`, `EveryHalfDoneIsACrash`; `RetryInv`: `Untampered` (without a registry change every request is bound to the tool as it is), `AppliedBacked` | `OkIsTrue`, `HalfDoneByCrash`, `RetriesAreHeard` |
| `EscalationWorkflowProofs` | `TypeInv`; `Inv`: what an escalation handler knows (`Knows`), `OneCreator`, `TrailTellsStory`; `CreatesInv` | `EscalationTypes`, `EscalationTrailCorrect`, `EscalationAuthority`, `EscalationReplies`, `EscalationLogImplemented` |
| `MessageFlowProofs` | `IInv`: per message `Stored` (which rows each statement finds), `Prepared`, `Routed` (branch and result agree), `Reported` (trail), `Silent`; `ContextExplained`; `RequestInv` (a request is of the kind its question leads to); `StrandedInv` (an ended call explains itself by its question and page) | `TypesKept`, `Explanation`, `NothingGuessed`, `NothingChangedBlindly`, `AuditAfterRows`, `StrandingIsCounted`, `Refinement`, `ThresholdMeans` |
| `GroundingProofs` | `IInv`: `Shapes`; per message `Answering`, `Branching`, `Reading` (documents), `Calling` (tool), `Concluded` (what the outcome refers to); `LossInv`, `GivenUpInv` | `Types`, `Quotes`, `Calls`, `Grounded`, `OpenMessagesCounted`, `Refinement` |
| `ReviewQueueProofs` | `IInv`: `Reviewing` (who holds a row and what it saw), `Founding` (a final answer has its call and evidence), `Drafting` (`Known` of each submission: what it has read), `ClosedByOne`, `FeedbackTellsTheAnswer`, `AnsweredIsHeard` | `Types`, `OneReviewerCloses`, `FeedbackIsTrue`, `AnswersAreHeard`, `LoserHasAWinner`, `Refinement` |

Why strengthening is needed: `JournalAgrees` alone does not say that the status
a handler saw was open, so `Finalize` could append a second decision;
`DecidedHasToolCall` needs to know that a handler about to finalise has a row of
its own, which follows for a replay from the earlier decision and for a skipped
duplicate from the comparison of messages; `KeySentOnce` needs that two handlers
past the reservation never share a slot; `TrailTellsStory` needs that a handler
before its transaction read an unassigned escalation, or a cancel could write
back an assignee. `ContextExplained` needs that a handler about to mark the
context has completed its message with the request or question of its branch;
`NoGuess` needs the arithmetic of the score as lemmas on `QueryPlanning`;
`QuotesWhatWasReadable` needs that a candidate held in memory was readable in
some row since the retrieval, which survives every later change, and `GroundedAnswers` that
what is selected is what has been attached together with what is still to be
attached; `ClosedByOne` needs that the holder of a row saw it open and that
nobody else writes it meanwhile; `AnsweredIsHeard` that an answer, once final,
keeps the call it rests on, and that a submission which has read one has read
the call after it.

The counting theorems (`EveryHalfDoneIsACrash`, `StrandedByCrash`,
`OpenByCrash`) compare the cardinality of a set with the number of crashes. Each
is inductive only with the finiteness of the set and an argument per step: a
step other than a crash adds nothing to it, a crash adds at most the one element
of the call it cuts short. That a step adds nothing is where the work is: for a
half-done execution, that a handler refused by its decision transaction finds
the request decided by another (`RefusedMeansDecided`), which needs that
freshness is not asked again; for a message, that every exit of a handler leaves
an answer behind or is one of the two exceptions, whose cause is still there to
see in the message's question, page and context; for a document, that a loss, once it has happened, is for good.
`OkMeansDone` needs to know of every handler about to reply which tool call it
has found, made or replayed, and that a decided request keeps its key.
`RetryIsHeard` goes through the stages at which a handler can be refused: the
lookup finds the row of the effect (`AppliedBacked`, and one row per key), a
refusing gate has seen a change (`Untampered`), and a refused transaction finds
the request decided, so it was not open.

The steps are proved one action (or group of actions that disturb the same
parts) at a time. What the others leave alone is stated once per module and
cited from there: `NextCases` and `Footprint` in `SideEffectWorkflowProofs` (who
writes which part of the database), `Footprint` in `GroundingProofs`, then
`QuietStep`, `KnowKept` and `SettledKept` for what a handler knows. So
hardly any leaf has to expand the whole next-state relation.

Only model-checked: `AppliedGetsRecorded`, `EveryMessageSettles`,
`EveryMessageAnswered` and `EveryReviewSettles`, because liveness under fairness
and `ENABLED` are out of this prover's reach. What is proved of the two about
messages is their safety half, named above: nothing but a crash and the stated
exceptions can keep them from holding. For the first, `RetryIsHeard`, the retry after that crash is
not refused but for the three reasons stated, of which expiry and registry
changes are the two that its run leaves out. Every other property of a passing
run is a theorem. Induction over data is out of reach too, but none of the models
needs it: they use no recursive definition. The violations are counterexamples
on instances.

## 5. Modules

| Module | Role |
|---|---|
| `SideEffectWorkflow` | specification, properties, refinement mappings; operators marked as mutants are broken variants of the definition that follows, used to check that each property can fail |
| `EscalationWorkflow` | the same for escalations |
| `QueryPlanning` | operators: from a question to a branch |
| `MessageFlow`, `Grounding`, `ReviewQueue` | specifications, properties, refinement mappings |
| `DecisionLog`, `KeyedOnce`, `AnswerLedger` | abstract specifications |
| `MCSideEffectWorkflow`, `MCEscalationWorkflow`, `MCMessageFlow`, `MCGrounding`, `MCReviewQueue` and `*.cfg` | instances |
| `SideEffectWorkflowProofs`, `...Keys`, `...Once`, `...Settled`, `EscalationWorkflowProofs`, `MessageFlowProofs`, `GroundingProofs`, `ReviewQueueProofs` | theorems |

## 6. Divergences found

Shown by a run; the quotes are from `specs/001-internal-assistant-core/design.md`
unless another file is named.

* `refusal_race`: the guard runs before the transaction that would notice a
  concurrent cancel or reject, so the effect may take place after the refusal
  (lines 302, 324).
* `failed_effect`: a draft whose connector call failed becomes executed; no code
  writes `failed` (line 320).
* `two_keys`: idempotency is per key, so two confirms of one draft with different
  keys both take effect (line 756).
* `supervisor`: an approver who is not the requester passes the approval checks
  and gets 404 from the guard, which looks for a session of the approver
  (lines 298, 310). Escalations have the same shape: a manager who is not the
  requester passes every check of resolve and cancel and gets 500, because the
  audit writer looks for a session of the manager; `escalations` shows that the
  decision is undone with its audit event.
* `other_entity`: a request that names one order on the page of another is
  about the order of the page and asks nothing, although `spec.md:238` (FR-043)
  requires a clarification when candidate entities conflict, and the gates
  expect a need `entity_conflict` that nothing produces.

Met while modelling, without a run of their own:

* A selected document that is archived before it is attached makes
  `sendMessage` throw outside its try: the message keeps its placeholder.
* A change asked for away from an orders page strands its message every time,
  without a crash: `selectSideEffectToolName` falls back to the first candidate
  tool or `mock.general.lookup` (`side-effect-tool-contract.resolver.ts:82-102`),
  the resolver refuses these as no side-effect tools (lines 48 to 63), and
  `sendMessage`, which stored the pending message at line 90, does not catch it
  at line 186 or 310. `specs/001` `spec.md:212` (FR-018) asks for a reply with a
  feasible next step when a tool or the retrieval fails. The run `messages` has
  the case; `StrandedByCrash` and `EveryMessageSettles` name it as an exception.
* A document closed to the caller between retrieval and attachment is still
  attached, in the words it has by then, because the attachment does not read
  who may read it; and since it reads status and text by two queries
  (`evidence-ref.service.ts:204-211`), words that were never active can be
  attached as well. `specs/002` `spec.md:193` (FR-018) asks that every evidence
  reference be traceable to the customer's authorized source, which such words
  are not. The run `grounding` reaches both; `QuotesWhatWasReadable` states what
  holds of an evidence reference and is weaker than FR-018 for this reason.
* A retrieval that fails after its run is stored leaves the run with selected
  candidates, while the answer says that retrieval was unavailable.
* Feedback on a message that is still pending can be answered 404, when the tool
  is called between its reads of calls and evidence.
* Type and id of the context's entity are merged column by column, so a page
  that has only a type leaves a pair that no page ever showed.
* A reference resolved through the context passes the gates, but the runtime
  takes the entity from the page alone and answers that permission is missing.
  A change asked for in the same way is refused by the contract resolver, or on
  the orders list becomes a request that names no entity.
* A command with an unsupported time range ("delete this one of last week") is
  not gated although several rows are selected or the reference is unclear: the
  gate reports the first blocking need, the time range
  (`no-answer-gate.service.ts:34`), and for a risky command only reasons about
  references count (`assistant-message.service.ts:1066`), so the doubt behind it
  is never asked about. `spec.md:238` (FR-043) asks for a clarification in
  either case. `NoBlindRequest` makes exactly this exception.
* `pendingApprovalRequestId` outlives the decision of the request.
* A submission of feedback sent twice becomes two events and two items.

## 7. Not modelled

* History: reads only; a page by cursor over rows ordered by creation time,
  whose ties the database orders.
* `closeVisibleSession`: no controller calls it, so a closed session is not a
  state the service gets into.
* Tokenizer, patterns and prompt texts: string processing without state. What
  it finds in a text is the input of `QueryPlanning`.
* LLM provider: the flow builds its answers from the evidence and calls no
  model. Token verification: cryptography. Observability, health,
  configuration, fixtures, response events: I/O and data.
* Lists and lookups of every service: they read only.

Of the roughly 69,600 implementation lines about 57,000 are the generated Prisma
client (`src/src/generated/prisma`), which has no logic of this program, so the
share of lines behind a definition is small even though every service that
changes state is modelled.
