------------------------- MODULE SideEffectWorkflow -------------------------
(***************************************************************************)
(* Action drafts (medium risk, confirmed by their requester) and approval  *)
(* requests (high risk, decided by an approver), with the guard that runs  *)
(* their side effect: src/approvals/action-draft.service.ts,               *)
(* approval-request.service.ts, side-effect-execution-guard.service.ts and *)
(* side-effect-tool-contract.resolver.ts.                                  *)
(*                                                                         *)
(* A call is one HTTP request being handled (or, for "create", the part of *)
(* a message being handled that creates the record).  Handlers run         *)
(* concurrently and interleave at every await: each action below is one    *)
(* database statement, one database transaction or one connector call,     *)
(* together with the synchronous code up to the next await.  Consecutive   *)
(* reads of rows the program never changes are one step.                   *)
(***************************************************************************)
EXTENDS Naturals, Sequences, FiniteSets

CONSTANTS
  Calls,        \* slots for the requests being handled at the same time
  Requests,     \* action drafts and approval requests
  Customers, Organizations, Actors,
  Keys,         \* idempotency keys
  Contracts,    \* registered tool definitions (one row per tool version,
                \* with the risk, gates and schemas that go with it)
  Messages,     \* assistant messages
  KindOf,       \* the table a request lives in
  SessionOf,    \* customer, organization and actor of the request's session
  MessageOf,    \* the assistant message a request was created for
  Scopes,       \* verified caller identities
  Fit,          \* the contracts a workflow accepts for its kind of request
  Expiring,     \* bound: the requests whose expiresAt passes
  MaxChanges,   \* bound: changes of the tool registry and of tool policies
  MaxAborts,    \* bound: calls cut short by a crash or a database error
  NoKey, NoActor, NoContract, NoCall

Kinds == {"action_draft", "approval_request"}

Sessions == [customer: Customers, organization: Organizations, actor: Actors]

(* The caller's token.  "approver" is hasApprovalAuthority; "permitted"    *)
(* says the roles and permission scopes satisfy the tool and its policy.   *)
CallerScopes == [customer: Customers, organization: Organizations,
                 actor: Actors, approver: BOOLEAN, permitted: BOOLEAN]

(* sendMessage creates a new assistant message and at most one request for *)
(* it, so a message belongs to one request.                                *)
ASSUME ShapeAssumption ==
  /\ KindOf \in [Requests -> Kinds]
  /\ SessionOf \in [Requests -> Sessions]
  /\ MessageOf \in [Requests -> Messages]
  /\ \A r1, r2 \in Requests : MessageOf[r1] = MessageOf[r2] => r1 = r2
  /\ Scopes \subseteq CallerScopes
  /\ Fit \in [Kinds -> SUBSET Contracts]

ASSUME BoundAssumption == MaxChanges \in Nat /\ MaxAborts \in Nat

ASSUME NullAssumption == /\ NoKey \notin Keys
                         /\ NoActor \notin Actors
                         /\ NoContract \notin Contracts
                         /\ NoCall \notin Requests

VARIABLES
  status,       \* status column of each request
  reqKey,       \* idempotencyKey column of each request
  approver,     \* approverActorId column (approval requests)
  contract,     \* tool contract persisted with the request
  expired,      \* whether expiresAt has passed
  journal,      \* decision audit events of each request, oldest first
  toolCalls,    \* rows of the ToolCall table with an idempotency key
  toolEvents,   \* execution audit events of each request
  tool,         \* latest registered definition of the tool of each kind
  policy,       \* tool definitions enabled by each customer's policy
  sent,         \* ghost: connector invocations per (customer, key)
  applied,      \* ghost: <<request, key>> whose side effect took place
  pc, call,     \* where each call stands, and what it remembers
  changes, aborts

db == <<status, reqKey, approver, contract, journal>>
execution == <<toolCalls, toolEvents, sent, applied>>
registry == <<tool, policy, changes>>
vars == <<status, reqKey, approver, contract, expired, journal, toolCalls,
          toolEvents, tool, policy, sent, applied, pc, call, changes, aborts>>

Slots == Customers \X Keys

DraftStatuses == {"waiting_confirmation", "executed", "cancelled"}
ApprovalStatuses == {"pending", "approved", "rejected", "cancelled"}
Statuses == {"absent"} \cup DraftStatuses \cup ApprovalStatuses
OpenStatuses == {"waiting_confirmation", "pending"}

InitialStatus == [action_draft |-> "waiting_confirmation",
                  approval_request |-> "pending"]

Decisions == {"confirm", "approve", "reject", "cancel"}
Executing == {"confirm", "approve"}
OpsOf == [action_draft |-> {"confirm", "cancel"},
          approval_request |-> {"approve", "reject", "cancel"}]

(* The status a decision writes and the audit event it appends. *)
Target == [confirm |-> "executed", approve |-> "approved",
           reject |-> "rejected", cancel |-> "cancelled"]
EventOfExecution == [confirm |-> "executed", approve |-> "approved",
                     reject |-> "rejected", cancel |-> "cancelled"]  \* mutant
EventOf == [confirm |-> "confirmed", approve |-> "approved",
            reject |-> "rejected", cancel |-> "cancelled"]
Events == {"created", "confirmed", "approved", "rejected", "cancelled"}

RowStates == {"in_progress", "executed", "failed"}
Rows == [customer: Customers, key: Keys, request: Requests,
         contract: Contracts, state: RowStates]
ToolEvents == {"denied", "skipped_duplicate", "executed", "failed"}

Replies == {"ok", "conflict", "forbidden", "not_found", "error"}
Resting == {"idle"} \cup Replies
Running == {"resolve", "insert", "load", "guard", "tool", "policy", "lookup",
            "reserve", "connector", "record", "audit", "finalize"}

CallRecord == [op: Decisions \cup {"create"}, request: Requests,
               key: Keys \cup {NoKey}, scope: Scopes, seen: Statuses,
               replay: BOOLEAN, contract: Contracts \cup {NoContract},
               outcome: {"none", "succeeded", "failed"}]

-----------------------------------------------------------------------------
(* What a handler knows *)

RequestOf(c) == call[c].request
ScopeOf(c) == call[c].scope
OpOf(c) == call[c].op
SlotOf(c) == <<ScopeOf(c).customer, call[c].key>>

(* Mutant of OwnsSession: the query forgets customerId. *)
OwnsSessionAnywhere(s, r) == /\ s.organization = SessionOf[r].organization
                             /\ s.actor = SessionOf[r].actor

(* The session lookup of loadVisibleDraft, assertCustomerParents and the   *)
(* workflow audit writer: the caller owns the session of the request.      *)
OwnsSession(s, r) == /\ s.customer = SessionOf[r].customer
                     /\ s.organization = SessionOf[r].organization
                     /\ s.actor = SessionOf[r].actor

(* loadVisibleDraft and loadVisibleRequest.  canCancel repeats the actor   *)
(* part of the latter.                                                     *)
VisibleTo(s, r) ==
  \/ KindOf[r] = "action_draft" /\ OwnsSession(s, r)
  \/ /\ KindOf[r] = "approval_request"
     /\ s.customer = SessionOf[r].customer
     /\ s.organization = SessionOf[r].organization
     /\ \/ s.actor \in {SessionOf[r].actor, approver[r]}
        \/ s.approver

(* ensureActorCanApprove. *)
Entitled(c) == OpOf(c) \in {"approve", "reject"} => ScopeOf(c).approver

(* ensureDraftIsFresh and ensurePendingAndFresh with the status sets they  *)
(* guard; cancelling a draft checks its status only.                       *)
Decidable(c) ==
  LET r == RequestOf(c)
  IN  /\ status[r] \in OpenStatuses
      /\ ~expired[r] \/ (OpOf(c) = "cancel" /\ KindOf[r] = "action_draft")

(* The request already carries the outcome this call asks for. *)
AlreadyDone(c) == /\ OpOf(c) \in Executing
                  /\ status[RequestOf(c)] = Target[OpOf(c)]

(* Mutant of SameKey: a replay under any key is safe. *)
AnyKey(c) == call[c].key # NoKey

SameKey(c) == call[c].key # NoKey /\ call[c].key = reqKey[RequestOf(c)]

(* toolCall.findFirst({ customerId, idempotencyKey }) *)
RowsAt(x) == {t \in toolCalls : t.customer = x[1] /\ t.key = x[2]}

(* Another request of the same table and customer holds the key (the       *)
(* unique constraint on customerId, idempotencyKey).                       *)
KeyTaken(r, k) == \E q \in Requests \ {r} :
                    /\ KindOf[q] = KindOf[r]
                    /\ SessionOf[q].customer = SessionOf[r].customer
                    /\ reqKey[q] = k

Goto(c, l) == pc' = [pc EXCEPT ![c] = l]

(* The handler answers and its call is over. *)
Reply(c, a) == /\ pc' = [pc EXCEPT ![c] = a]
               /\ call' = [call EXCEPT ![c] = NoCall]

(* The guard returned normally: a replay answers, a decision goes on to    *)
(* record itself.  The execution status in the result is not looked at.    *)
AfterGuard(c) ==
  \/ call[c].replay /\ Reply(c, "ok")
  \/ ~call[c].replay /\ Goto(c, "finalize") /\ UNCHANGED call

(* A denied execution is audited before the guard throws: recordDenied, or *)
(* the permission precheck's own event, which is folded into it.           *)
Deny(c, a) ==
  /\ toolEvents' = [toolEvents EXCEPT ![RequestOf(c)] = @ \cup {"denied"}]
  /\ Reply(c, a)

-----------------------------------------------------------------------------
(* Creation: createForMediumRisk, createForHighRisk *)

StartCreate(c, r, s) ==
  /\ pc[c] \in Resting
  /\ status[r] = "absent"
  /\ \A d \in Calls : pc[d] \in {"resolve", "insert"} => RequestOf(d) # r
  /\ call' = [call EXCEPT ![c] =
       [op |-> "create", request |-> r, key |-> NoKey, scope |-> s,
        seen |-> "absent", replay |-> FALSE, contract |-> NoContract,
        outcome |-> "none"]]
  /\ Goto(c, "resolve")
  /\ UNCHANGED <<db, execution, registry, expired, aborts>>

(* Parents, then the registered definition the request will be bound to. *)
ResolveContract(c) ==
  LET r == RequestOf(c)
      latest == tool[KindOf[r]]
      usable == latest.active /\ latest.contract \in Fit[KindOf[r]]
  IN  /\ pc[c] = "resolve"
      /\ \/ ~OwnsSession(ScopeOf(c), r) /\ Reply(c, "not_found")
         \/ OwnsSession(ScopeOf(c), r) /\ ~usable /\ Reply(c, "forbidden")
         \/ /\ OwnsSession(ScopeOf(c), r) /\ usable
            /\ call' = [call EXCEPT ![c].contract = latest.contract]
            /\ Goto(c, "insert")
      /\ UNCHANGED <<db, execution, registry, expired, aborts>>

(* The row and its "created" audit event, in one transaction. *)
InsertRequest(c) ==
  LET r == RequestOf(c)
  IN  /\ pc[c] = "insert"
      /\ status' = [status EXCEPT ![r] = InitialStatus[KindOf[r]]]
      /\ contract' = [contract EXCEPT ![r] = call[c].contract]
      /\ journal' = [journal EXCEPT ![r] = Append(@, "created")]
      /\ Reply(c, "ok")
      /\ UNCHANGED <<reqKey, approver, execution, registry, expired, aborts>>

-----------------------------------------------------------------------------
(* Decisions: confirm, approve, reject and cancel up to the guard *)

StartDecision(c, op, r, k, s) ==
  /\ pc[c] \in Resting
  /\ status[r] # "absent"
  /\ op \in OpsOf[KindOf[r]]
  /\ op \notin Executing => k = NoKey
  /\ call' = [call EXCEPT ![c] =
       [op |-> op, request |-> r, key |-> k, scope |-> s, seen |-> "absent",
        replay |-> FALSE, contract |-> NoContract, outcome |-> "none"]]
  /\ Goto(c, "load")
  /\ UNCHANGED <<db, execution, registry, expired, aborts>>

(* Read the request and decide, from what was read, whether to go on. *)
Load(c) ==
  LET r == RequestOf(c)
      admitted == Entitled(c) /\ VisibleTo(ScopeOf(c), r)
      seen(replay) == [call EXCEPT ![c].seen = status[r], ![c].replay = replay]
  IN  /\ pc[c] = "load"
      /\ \/ ~Entitled(c) /\ Reply(c, "forbidden")
         \/ Entitled(c) /\ ~VisibleTo(ScopeOf(c), r) /\ Reply(c, "not_found")
         \/ /\ admitted /\ AlreadyDone(c) /\ SameKey(c)
            /\ call' = seen(TRUE) /\ Goto(c, "guard")
         \/ /\ admitted
            /\ IF AlreadyDone(c) THEN ~SameKey(c) ELSE ~Decidable(c)
            /\ Reply(c, "conflict")
         \/ /\ admitted /\ ~AlreadyDone(c) /\ Decidable(c)
            /\ call' = seen(FALSE)
            /\ Goto(c, IF OpOf(c) \in Executing THEN "guard" ELSE "finalize")
      /\ UNCHANGED <<db, execution, registry, expired, aborts>>

-----------------------------------------------------------------------------
(* SideEffectExecutionGuardService.execute *)

(* assertCustomerParents, then the key must be there. *)
CheckParents(c) ==
  /\ pc[c] = "guard"
  /\ \/ /\ ~OwnsSession(ScopeOf(c), RequestOf(c))
        /\ Reply(c, "not_found") /\ UNCHANGED toolEvents
     \/ /\ OwnsSession(ScopeOf(c), RequestOf(c)) /\ call[c].key = NoKey
        /\ Deny(c, "conflict")
     \/ /\ OwnsSession(ScopeOf(c), RequestOf(c)) /\ call[c].key # NoKey
        /\ Goto(c, "tool") /\ UNCHANGED <<call, toolEvents>>
  /\ UNCHANGED <<db, toolCalls, sent, applied, registry, expired, aborts>>

(* The latest registered definition of the tool must be active. *)
ResolveTool(c) ==
  LET latest == tool[KindOf[RequestOf(c)]]
  IN  /\ pc[c] = "tool"
      /\ \/ ~latest.active /\ Deny(c, "forbidden")
         \/ /\ latest.active
            /\ call' = [call EXCEPT ![c].contract = latest.contract]
            /\ Goto(c, "policy") /\ UNCHANGED toolEvents
      /\ UNCHANGED <<db, toolCalls, sent, applied, registry, expired, aborts>>

(* The customer's policy for that definition, validateToolContract against *)
(* the contract persisted with the request, and the permission precheck.   *)
ContractFits(c) == call[c].contract \in Fit[KindOf[RequestOf(c)]]  \* mutant
ContractMatches(c) == /\ call[c].contract = contract[RequestOf(c)]
                      /\ call[c].contract \in Fit[KindOf[RequestOf(c)]]

ResolvePolicy(c) ==
  LET allowed == /\ call[c].contract \in policy[ScopeOf(c).customer]
                 /\ ContractMatches(c)
                 /\ ScopeOf(c).permitted
  IN  /\ pc[c] = "policy"
      /\ \/ ~allowed /\ Deny(c, "forbidden")
         \/ allowed /\ Goto(c, "lookup") /\ UNCHANGED <<call, toolEvents>>
      /\ UNCHANGED <<db, toolCalls, sent, applied, registry, expired, aborts>>

(* Mutants of Foreign: the message is not compared, or a call that has not *)
(* finished is refused.                                                    *)
NeverForeign(c) == FALSE
UnfinishedIsForeign(c) ==
  \E t \in RowsAt(SlotOf(c)) : \/ t.state = "in_progress"
                               \/ MessageOf[t.request] # MessageOf[RequestOf(c)]

(* The row belongs to another message. *)
Foreign(c) ==
  \E t \in RowsAt(SlotOf(c)) : MessageOf[t.request] # MessageOf[RequestOf(c)]

(* A row with the key: a replay if it belongs to the same message,         *)
(* whatever became of its execution.                                       *)
LookupKey(c) ==
  LET found == RowsAt(SlotOf(c))
  IN  /\ pc[c] = "lookup"
      /\ \/ found = {} /\ Goto(c, "reserve") /\ UNCHANGED <<call, toolEvents>>
         \/ Foreign(c) /\ Reply(c, "not_found") /\ UNCHANGED toolEvents
         \/ /\ found # {} /\ ~Foreign(c)
            /\ toolEvents' = [toolEvents EXCEPT
                                ![RequestOf(c)] = @ \cup {"skipped_duplicate"}]
            /\ AfterGuard(c)
      /\ UNCHANGED <<db, toolCalls, sent, applied, registry, expired, aborts>>

(* Mutant of Reserve: no unique constraint. *)
ReserveUnchecked(c) ==
  /\ pc[c] = "reserve"
  /\ toolCalls' = toolCalls \cup
       {[customer |-> ScopeOf(c).customer, key |-> call[c].key,
         request |-> RequestOf(c), contract |-> call[c].contract,
         state |-> "in_progress"]}
  /\ Goto(c, "connector")
  /\ UNCHANGED <<db, toolEvents, sent, applied, call, registry, expired, aborts>>

(* toolCall.create, under the unique constraint on customerId and key. *)
Reserve(c) ==
  /\ pc[c] = "reserve"
  /\ \/ /\ RowsAt(SlotOf(c)) # {}
        /\ Reply(c, "error") /\ UNCHANGED toolCalls
     \/ /\ RowsAt(SlotOf(c)) = {}
        /\ toolCalls' = toolCalls \cup
             {[customer |-> ScopeOf(c).customer, key |-> call[c].key,
               request |-> RequestOf(c), contract |-> call[c].contract,
               state |-> "in_progress"]}
        /\ Goto(c, "connector") /\ UNCHANGED call
  /\ UNCHANGED <<db, toolEvents, sent, applied, registry, expired, aborts>>

(* The side effect takes place outside the database, or it does not. *)
CallConnector(c) ==
  /\ pc[c] = "connector"
  /\ sent' = [sent EXCEPT ![SlotOf(c)] = @ + 1]
  /\ \E outcome \in {"succeeded", "failed"} :
       /\ call' = [call EXCEPT ![c].outcome = outcome]
       /\ applied' = IF outcome = "succeeded"
                     THEN applied \cup {<<RequestOf(c), call[c].key>>}
                     ELSE applied
  /\ Goto(c, "record")
  /\ UNCHANGED <<db, toolCalls, toolEvents, registry, expired, aborts>>

AlwaysExecuted == [succeeded |-> "executed", failed |-> "executed"]  \* mutant
ResultState == [succeeded |-> "executed", failed |-> "failed"]

(* Mutant of RecordOutcome: a failed execution gives its key back. *)
RecordOrRelease(c) ==
  /\ pc[c] = "record"
  /\ toolCalls' = IF call[c].outcome = "failed"
                  THEN toolCalls \ RowsAt(SlotOf(c))
                  ELSE {IF t \in RowsAt(SlotOf(c))
                        THEN [t EXCEPT !.state = "executed"] ELSE t : t \in toolCalls}
  /\ Goto(c, "audit")
  /\ UNCHANGED <<db, toolEvents, sent, applied, call, registry, expired, aborts>>

(* toolCall.update of the row this call created. *)
RecordOutcome(c) ==
  /\ pc[c] = "record"
  /\ toolCalls' = {IF t \in RowsAt(SlotOf(c))
                   THEN [t EXCEPT !.state = ResultState[call[c].outcome]]
                   ELSE t : t \in toolCalls}
  /\ Goto(c, "audit")
  /\ UNCHANGED <<db, toolEvents, sent, applied, call, registry, expired, aborts>>

(* recordExecuted, recordFailed. *)
AuditOutcome(c) ==
  /\ pc[c] = "audit"
  /\ toolEvents' = [toolEvents EXCEPT
                      ![RequestOf(c)] = @ \cup {ResultState[call[c].outcome]}]
  /\ AfterGuard(c)
  /\ UNCHANGED <<db, toolCalls, sent, applied, registry, expired, aborts>>

-----------------------------------------------------------------------------
(* The decision transaction: compare-and-set on the status that was read,  *)
(* the columns that go with it, and the audit event, which requires the    *)
(* caller to own the session.  Any failure rolls the whole of it back.     *)

(* Mutants of CanCommit: the update is by id alone, or the expiry is       *)
(* checked once more inside the transaction.                               *)
CanCommitBlindly(c) == OwnsSession(ScopeOf(c), RequestOf(c))
CanCommitIfFresh(c) == /\ status[RequestOf(c)] = call[c].seen
                       /\ ~expired[RequestOf(c)]
                       /\ OwnsSession(ScopeOf(c), RequestOf(c))

CanCommit(c) ==
  LET r == RequestOf(c)
  IN  /\ status[r] = call[c].seen
      /\ OpOf(c) \in Executing => ~KeyTaken(r, call[c].key)
      /\ OwnsSession(ScopeOf(c), r)

(* Mutant of Finalize: the audit event is written after the transaction.   *)
FinalizeThenAudit(c) ==
  LET r == RequestOf(c)
  IN  /\ pc[c] = "finalize"
      /\ status[r] = call[c].seen
      /\ status' = [status EXCEPT ![r] = Target[OpOf(c)]]
      /\ journal' = IF OwnsSession(ScopeOf(c), r)
                    THEN [journal EXCEPT ![r] = Append(@, EventOf[OpOf(c)])]
                    ELSE journal
      /\ Reply(c, "ok")
      /\ UNCHANGED <<reqKey, approver, contract, execution, registry, expired,
                     aborts>>

Finalize(c) ==
  LET r == RequestOf(c)
  IN  /\ pc[c] = "finalize"
      /\ CanCommit(c)
      /\ status' = [status EXCEPT ![r] = Target[OpOf(c)]]
      /\ reqKey' = [reqKey EXCEPT ![r] =
                      IF OpOf(c) \in Executing THEN call[c].key ELSE @]
      /\ approver' = [approver EXCEPT ![r] =
                        IF OpOf(c) \in {"approve", "reject"}
                        THEN ScopeOf(c).actor ELSE @]
      /\ journal' = [journal EXCEPT ![r] = Append(@, EventOf[OpOf(c)])]
      /\ Reply(c, "ok")
      /\ UNCHANGED <<contract, execution, registry, expired, aborts>>

RollBack(c) ==
  LET stale == status[RequestOf(c)] # call[c].seen
  IN  /\ pc[c] = "finalize"
      /\ ~CanCommit(c)
      /\ Reply(c, IF stale THEN "conflict" ELSE "error")
      /\ UNCHANGED <<db, execution, registry, expired, aborts>>

-----------------------------------------------------------------------------
(* Around the handlers *)

(* The process stops, the database refuses, or the connector throws: the   *)
(* handler never resumes and what it wrote stays.                          *)
Abort(c) ==
  /\ pc[c] \in Running
  /\ aborts < MaxAborts
  /\ aborts' = aborts + 1
  /\ Reply(c, "error")
  /\ UNCHANGED <<db, execution, registry, expired>>

Expire(r) ==
  /\ r \in Expiring
  /\ status[r] # "absent"
  /\ ~expired[r]
  /\ expired' = [expired EXCEPT ![r] = TRUE]
  /\ UNCHANGED <<db, execution, registry, pc, call, aborts>>

(* Operators register another version of a tool or deactivate it. *)
ChangeTool(kind, t, active) ==
  /\ changes < MaxChanges
  /\ tool[kind] # [contract |-> t, active |-> active]
  /\ tool' = [tool EXCEPT ![kind] = [contract |-> t, active |-> active]]
  /\ changes' = changes + 1
  /\ UNCHANGED <<db, execution, policy, expired, pc, call, aborts>>

(* Operators enable or disable a tool definition for a customer. *)
ChangePolicy(customer, t) ==
  /\ changes < MaxChanges
  /\ policy' = [policy EXCEPT ![customer] = IF t \in @ THEN @ \ {t} ELSE @ \cup {t}]
  /\ changes' = changes + 1
  /\ UNCHANGED <<db, execution, tool, expired, pc, call, aborts>>

-----------------------------------------------------------------------------
Init ==
  /\ status = [r \in Requests |-> "absent"]
  /\ reqKey = [r \in Requests |-> NoKey]
  /\ approver = [r \in Requests |-> NoActor]
  /\ contract = [r \in Requests |-> NoContract]
  /\ expired = [r \in Requests |-> FALSE]
  /\ journal = [r \in Requests |-> <<>>]
  /\ toolCalls = {}
  /\ toolEvents = [r \in Requests |-> {}]
  /\ tool \in [Kinds -> [contract: Contracts, active: {TRUE}]]
  /\ \A kind \in Kinds : tool[kind].contract \in Fit[kind]
  /\ policy = [customer \in Customers |-> Contracts]
  /\ sent = [x \in Slots |-> 0]
  /\ applied = {}
  /\ pc = [c \in Calls |-> "idle"]
  /\ call = [c \in Calls |-> NoCall]
  /\ changes = 0
  /\ aborts = 0

(* What a handler does by itself once it has started. *)
Step(c) ==
  \/ ResolveContract(c) \/ InsertRequest(c)
  \/ Load(c)
  \/ CheckParents(c) \/ ResolveTool(c) \/ ResolvePolicy(c) \/ LookupKey(c)
  \/ Reserve(c) \/ CallConnector(c) \/ RecordOutcome(c) \/ AuditOutcome(c)
  \/ Finalize(c) \/ RollBack(c)

Next ==
  \/ \E c \in Calls : Step(c) \/ Abort(c)
  \/ \E c \in Calls, r \in Requests, s \in Scopes : StartCreate(c, r, s)
  \/ \E c \in Calls, op \in Decisions, r \in Requests, k \in Keys \cup {NoKey},
        s \in Scopes : StartDecision(c, op, r, k, s)
  \/ \E r \in Requests : Expire(r)
  \/ \E kind \in Kinds, t \in Contracts, active \in BOOLEAN :
        ChangeTool(kind, t, active)
  \/ \E customer \in Customers, t \in Contracts : ChangePolicy(customer, t)

Spec == Init /\ [][Next]_vars

-----------------------------------------------------------------------------
(* Safety *)

DecidedStatuses == {"executed", "approved", "rejected", "cancelled"}

(* How a status reads in the abstract decision log. *)
OutcomeOf == [absent |-> "none", waiting_confirmation |-> "open",
              pending |-> "open", executed |-> "confirmed",
              approved |-> "approved", rejected |-> "rejected",
              cancelled |-> "cancelled"]

(* Every variable has its type, and a running handler has its record.      *)
TypeOK ==
  /\ status \in [Requests -> Statuses]
  /\ reqKey \in [Requests -> Keys \cup {NoKey}]
  /\ approver \in [Requests -> Actors \cup {NoActor}]
  /\ contract \in [Requests -> Contracts \cup {NoContract}]
  /\ expired \in [Requests -> BOOLEAN]
  /\ journal \in [Requests -> Seq(Events)]
  /\ toolCalls \subseteq Rows
  /\ toolEvents \in [Requests -> SUBSET ToolEvents]
  /\ tool \in [Kinds -> [contract: Contracts, active: BOOLEAN]]
  /\ policy \in [Customers -> SUBSET Contracts]
  /\ sent \in [Slots -> Nat]
  /\ applied \subseteq Requests \X Keys
  /\ pc \in [Calls -> Resting \cup Running]
  /\ call \in [Calls -> CallRecord \cup {NoCall}]
  /\ \A c \in Calls : pc[c] \in Running => call[c] \in CallRecord
  /\ changes \in Nat
  /\ aborts \in Nat

(* The audit trail of a request and its status column tell one story: it   *)
(* was created, and decided at most once, by the decision the column       *)
(* shows.  confirm, approve, reject and cancel may race and may be cut     *)
(* short; the compare-and-set in transition() and the shared transaction   *)
(* keep the two together.                                                  *)
JournalAgrees ==
  \A r \in Requests :
    journal[r] = IF status[r] = "absent" THEN <<>>
                 ELSE IF status[r] \in OpenStatuses THEN <<"created">>
                 ELSE <<"created", OutcomeOf[status[r]]>>

(* Inside a customer the connector is invoked at most once under a key,    *)
(* whatever calls race, are retried or are cut short (guard.execute and    *)
(* the unique constraint of the ToolCall table).                           *)
KeySentOnce == \A x \in Slots : sent[x] <= 1

(* An executed draft or approved request points, through its key, to the   *)
(* tool call that was made for this very request in its own customer: a    *)
(* key reserved by one request never lets another one be finalised.        *)
DecidedHasToolCall ==
  \A r \in Requests : status[r] \in {"executed", "approved"} =>
    \E t \in toolCalls : /\ t.customer = SessionOf[r].customer
                         /\ t.key = reqKey[r]
                         /\ t.request = r

(* When the connector is invoked, the handler still holds what the gates   *)
(* checked: the request had been seen open (so a replay never runs the     *)
(* effect again), the caller owns the session, may decide, is permitted,   *)
(* and the tool is the one the request was created with, although          *)
(* operators may re-register tools at any time.                            *)
ConnectorGated ==
  \A c \in Calls : pc[c] = "connector" =>
    LET r == RequestOf(c)
    IN  /\ OpOf(c) \in Executing /\ ~call[c].replay
        /\ call[c].seen \in OpenStatuses
        /\ OwnsSession(ScopeOf(c), r) /\ ScopeOf(c).permitted
        /\ KindOf[r] = "approval_request" => ScopeOf(c).approver
        /\ call[c].contract = contract[r]

(* The execution audit never runs ahead of the database: an "executed" or  *)
(* "failed" event has a tool call in that state, a tool call marked        *)
(* executed had its effect, and a skipped duplicate had an original.       *)
AuditNeverAhead ==
  /\ \A r \in Requests :
       /\ \A e \in {"executed", "failed"} \cap toolEvents[r] :
            \E t \in toolCalls : t.request = r /\ t.state = e
       /\ "skipped_duplicate" \in toolEvents[r] =>
            \E t \in toolCalls : t.request = r
  /\ \A t \in toolCalls : t.state = "executed" => <<t.request, t.key>> \in applied

(* A handler at one of these stages carries this request and key. *)
Carried(x, stages) ==
  \E c \in Calls : pc[c] \in stages /\ RequestOf(c) = x[1] /\ call[c].key = x[2]

(* An execution that stopped half way and that no handler will take        *)
(* further by itself: a tool call still "in progress" whose handler is     *)
(* gone, or an effect that took place for a request that is still open.    *)
LeftInProgress(x) ==
  /\ \E t \in toolCalls : t.request = x[1] /\ t.key = x[2] /\ t.state = "in_progress"
  /\ ~Carried(x, {"connector", "record"})

LeftUnrecorded(x) ==
  /\ x \in applied /\ status[x[1]] \in OpenStatuses
  /\ ~Carried(x, {"record", "audit", "finalize"})

HalfDone == {x \in Requests \X Keys : LeftInProgress(x) \/ LeftUnrecorded(x)}

(* Whatever calls race, whatever expires meanwhile and whatever tools are  *)
(* re-registered, nothing but a crash leaves an execution half done, and   *)
(* one crash leaves at most one: once the connector has answered, the      *)
(* decision transaction of the same call cannot be refused while the       *)
(* request is open (guard.execute and transition() in the services).       *)
EveryHalfDoneIsACrash == Cardinality(HalfDone) <= aborts

(* A caller who is answered "ok" finds what was asked for: the request in  *)
(* the status of the decision and, for an execution, its own key on the    *)
(* request and a tool call under that key, be it the first answer or one   *)
(* replayed from what load() saw before the guard ran.                     *)
OkMeansDone ==
  [][\A c \in Calls : pc[c] \in Running /\ pc'[c] = "ok" =>
       LET r == RequestOf(c)
       IN  /\ OpOf(c) = "create" => status'[r] = InitialStatus[KindOf[r]]
           /\ OpOf(c) # "create" => status'[r] = Target[OpOf(c)]
           /\ OpOf(c) \in Executing =>
                /\ reqKey'[r] = call[c].key
                /\ \E t \in toolCalls' : /\ t.customer = SessionOf[r].customer
                                         /\ t.key = call[c].key
                                         /\ t.request = r]_vars

(* An effect that took place and is not on record yet, because the first   *)
(* call is still under way or was cut short, can be recorded by whoever    *)
(* owns the session, may decide and sends the decision again with its key: *)
(* he is refused only if the request expires before it is read, if an      *)
(* operator has changed the tools or the policies, or if he came so early  *)
(* that the lookup missed the reservation (load, guard.execute and         *)
(* transition(): no row, key or status of another request stands in his    *)
(* way).                                                                   *)
RetryIsHeard ==
  [][\A c \in Calls :
       LET r == RequestOf(c)
       IN  /\ pc[c] \in Running /\ OpOf(c) \in Executing
           /\ <<r, call[c].key>> \in applied /\ status[r] \in OpenStatuses
           /\ OwnsSession(ScopeOf(c), r) /\ Entitled(c) /\ ScopeOf(c).permitted
           /\ pc'[c] \in Replies \ {"ok"} /\ aborts' = aborts
           => \/ pc[c] = "load" /\ expired[r]
              \/ pc[c] \in {"tool", "policy"} /\ changes > 0
              \/ pc[c] = "reserve"]_vars

-----------------------------------------------------------------------------
(* Refinement *)

(* A decision workflow as the abstract log sees it. *)
Log == INSTANCE DecisionLog WITH
         Outcomes <- {"confirmed", "approved", "rejected", "cancelled"},
         outcome <- [r \in Requests |-> OutcomeOf[status[r]]],
         trail <- journal

(* Drafts and approval requests are opened once and decided at most once,  *)
(* a decision is final, and the trail follows (transition(), the           *)
(* $transaction blocks of both services).                                  *)
ImplementsDecisionLog == Log!Spec

(* The tool-call table as a reservation of keys. *)
Holder(x) == IF RowsAt(x) = {} THEN NoCall
             ELSE (CHOOSE t \in RowsAt(x) : TRUE).request

Once == INSTANCE KeyedOnce WITH
          Free <- NoCall,
          holder <- [x \in Slots |-> Holder(x)],
          sends <- sent

(* guard.execute reserves a key for one request for good and invokes the   *)
(* connector at most once, after the reservation.                          *)
ImplementsKeyedOnce == Once!Spec

-----------------------------------------------------------------------------
(* Recovery *)

(* The requester, entitled and permitted, sends the decision again with    *)
(* the key under which the connector was reached.                          *)
Retry(r, k) ==
  /\ sent[<<SessionOf[r].customer, k>>] > 0
  /\ \E c \in Calls, s \in Scopes, op \in Executing :
       /\ OwnsSession(s, r) /\ s.approver /\ s.permitted
       /\ StartDecision(c, op, r, k, s)

(* A started handler is resumed by the event loop; a client whose decision *)
(* was not acknowledged keeps retrying.                                    *)
FairSpec == /\ Spec
            /\ \A c \in Calls : WF_vars(Step(c))
            /\ \A r \in Requests, k \in Keys : SF_vars(Retry(r, k))

(* An effect that took place is eventually on record as a decision, even   *)
(* if the first call was cut short between the connector and the decision  *)
(* transaction: the replay path of the guard lets the retry finalise.      *)
AppliedGetsRecorded ==
  \A r \in Requests :
    (\E k \in Keys : <<r, k>> \in applied) ~> status[r] \in DecidedStatuses

-----------------------------------------------------------------------------
(* What the design document claims and the code does not do *)

(* design.md: after a cancellation (rejection) the side-effect tool must   *)
(* not be executed.  guard.execute runs before the transaction that would  *)
(* notice the race.                                                        *)
NoEffectAfterRefusal ==
  [][\A r \in Requests : status[r] \in {"cancelled", "rejected"} =>
       \A k \in Keys : <<r, k>> \in applied' => <<r, k>> \in applied]_vars

(* design.md: a confirmed draft becomes executed or failed.  confirm()     *)
(* ignores the execution status the guard returns.                         *)
ExecutedMeansApplied ==
  \A r \in Requests : status[r] = "executed" =>
    \E k \in Keys : <<r, k>> \in applied

(* design.md: one operation has one actual effect however often it is      *)
(* submitted.  Calls racing under two keys both pass the status check.     *)
OperationRunsOnce ==
  \A r \in Requests, k1, k2 \in Keys :
    <<r, k1>> \in applied /\ <<r, k2>> \in applied => k1 = k2

(* design.md: an actor with approval authority decides approval requests.  *)
(* The guard looks for a session of the caller, which only the requester   *)
(* has, and answers not found.                                             *)
ApproverIsServed ==
  [][\A c \in Calls :
       /\ pc[c] = "guard" /\ OpOf(c) = "approve"
       /\ ScopeOf(c).approver /\ VisibleTo(ScopeOf(c), RequestOf(c))
       => pc'[c] # "not_found"]_vars
=============================================================================
