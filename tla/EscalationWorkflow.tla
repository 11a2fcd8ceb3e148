------------------------- MODULE EscalationWorkflow -------------------------
(***************************************************************************)
(* Escalation requests: a critical-risk plan is handed to a person, who    *)
(* resolves it outside the system, or it is cancelled                      *)
(* (src/approvals/escalation-request.service.ts).                          *)
(*                                                                         *)
(* A call is one HTTP request being handled, or the part of a message      *)
(* being handled that creates an escalation.  An action is one statement   *)
(* or one transaction with the synchronous code around it; consecutive     *)
(* reads of rows and columns that never change are one step.               *)
(***************************************************************************)
EXTENDS Naturals, Sequences

CONSTANTS
  Calls,        \* slots for the requests being handled at the same time
  Requests,     \* escalation requests
  Customers, Organizations, Actors,
  SessionOf,    \* customer, organization and actor of the request's session
  Scopes,       \* verified caller identities
  Expiring,     \* bound: the requests whose expiresAt passes
  MaxAborts,    \* bound: calls cut short by a crash or a database error
  NoActor, NoCall

Sessions == [customer: Customers, organization: Organizations, actor: Actors]

(* The caller's token.  "manager" is hasEscalationManageAuthority.         *)
CallerScopes == [customer: Customers, organization: Organizations,
                 actor: Actors, manager: BOOLEAN]

ASSUME ShapeAssumption == /\ SessionOf \in [Requests -> Sessions]
                          /\ Scopes \subseteq CallerScopes

ASSUME BoundAssumption == MaxAborts \in Nat

ASSUME NullAssumption == NoActor \notin Actors

VARIABLES
  status,       \* status column of each escalation
  assignee,     \* summary.assignedActorId
  expired,      \* whether summary.expiresAt has passed
  trail,        \* workflow audit events of each escalation, oldest first
  pc, call,     \* where each call stands, and what it remembers
  aborts

rows == <<status, assignee, trail>>
vars == <<status, assignee, expired, trail, pc, call, aborts>>

(* The enumeration also has "expired", which no code writes.               *)
Statuses == {"absent", "open", "resolved", "cancelled"}

Decisions == {"resolve", "cancel"}

(* Mutant of Target: the literal of the approval workflow. *)
TargetOfApproval == [resolve |-> "approved", cancel |-> "cancelled"]
Target == [resolve |-> "resolved", cancel |-> "cancelled"]

AuditEvents == [event: {"created", "resolved", "cancelled"},
                customer: Customers, actor: Actors,
                assignee: Actors \cup {NoActor}]

Replies == {"ok", "conflict", "forbidden", "not_found", "error"}
Resting == {"idle"} \cup Replies
Running == {"parents", "insert", "load", "commit"}

(* "seen" and "assigned" are what the handler read of the row.             *)
CallRecord == [op: Decisions \cup {"create"}, request: Requests,
               scope: Scopes, seen: Statuses,
               assigned: Actors \cup {NoActor}]

-----------------------------------------------------------------------------
RequestOf(c) == call[c].request
ScopeOf(c) == call[c].scope
OpOf(c) == call[c].op

(* Mutant of OwnsSession: the query forgets customerId. *)
OwnsSessionAnywhere(s, r) == /\ s.organization = SessionOf[r].organization
                             /\ s.actor = SessionOf[r].actor

(* The session lookup of assertCustomerWorkflowCreateParents and of the    *)
(* workflow audit writer: the caller's own session.                        *)
OwnsSession(s, r) == /\ s.customer = SessionOf[r].customer
                     /\ s.organization = SessionOf[r].organization
                     /\ s.actor = SessionOf[r].actor

(* loadVisibleRequest: the session of the requester is in the caller's     *)
(* customer and organization, and isEscalationVisibleToActor.              *)
VisibleTo(s, r) == /\ s.customer = SessionOf[r].customer
                   /\ s.organization = SessionOf[r].organization
                   /\ \/ s.actor \in {SessionOf[r].actor, assignee[r]}
                      \/ s.manager

(* Mutant of Entitled: whoever sees an escalation manages it. *)
EntitledIfVisible(c) == OpOf(c) \in Decisions

(* ensureActorCanManageEscalation, canCancelEscalation. *)
Entitled(c) == \/ ScopeOf(c).manager
               \/ /\ OpOf(c) = "cancel"
                  /\ ScopeOf(c).actor = SessionOf[RequestOf(c)].actor

(* ensureOpenAndFresh *)
OpenAndFresh(r) == status[r] = "open" /\ ~expired[r]

Goto(c, l) == pc' = [pc EXCEPT ![c] = l]

Reply(c, a) == /\ pc' = [pc EXCEPT ![c] = a]
               /\ call' = [call EXCEPT ![c] = NoCall]

(* appendAudit: the event carries the caller and the assignee of the row.  *)
Audited(c, event, assigned) ==
  [trail EXCEPT ![RequestOf(c)] =
     Append(@, [event |-> event, customer |-> ScopeOf(c).customer,
                actor |-> ScopeOf(c).actor, assignee |-> assigned])]

-----------------------------------------------------------------------------
(* createForCriticalRisk *)

StartCreate(c, r, s) ==
  /\ pc[c] \in Resting
  /\ status[r] = "absent"
  /\ \A d \in Calls : pc[d] \in {"parents", "insert"} => RequestOf(d) # r
  /\ call' = [call EXCEPT ![c] =
       [op |-> "create", request |-> r, scope |-> s, seen |-> "absent",
        assigned |-> NoActor]]
  /\ Goto(c, "parents")
  /\ UNCHANGED <<rows, expired, aborts>>

CheckParents(c) ==
  LET owned == OwnsSession(ScopeOf(c), RequestOf(c))
  IN  /\ pc[c] = "parents"
      /\ \/ ~owned /\ Reply(c, "not_found")
         \/ owned /\ Goto(c, "insert") /\ UNCHANGED call
      /\ UNCHANGED <<rows, expired, aborts>>

(* The row and its "created" audit event, in one transaction. *)
InsertRequest(c) ==
  /\ pc[c] = "insert"
  /\ status' = [status EXCEPT ![RequestOf(c)] = "open"]
  /\ assignee' = [assignee EXCEPT ![RequestOf(c)] = NoActor]
  /\ trail' = Audited(c, "created", NoActor)
  /\ Reply(c, "ok")
  /\ UNCHANGED <<expired, aborts>>

-----------------------------------------------------------------------------
(* resolve, cancel *)

StartDecision(c, op, r, s) ==
  /\ pc[c] \in Resting
  /\ status[r] # "absent"
  /\ call' = [call EXCEPT ![c] =
       [op |-> op, request |-> r, scope |-> s, seen |-> "absent",
        assigned |-> NoActor]]
  /\ Goto(c, "load")
  /\ UNCHANGED <<rows, expired, aborts>>

(* Read the row and the session; visibility, then authority, then status. *)
Load(c) ==
  LET r == RequestOf(c)
      visible == VisibleTo(ScopeOf(c), r)
  IN  /\ pc[c] = "load"
      /\ \/ ~visible /\ Reply(c, "not_found")
         \/ visible /\ ~Entitled(c) /\ Reply(c, "forbidden")
         \/ visible /\ Entitled(c) /\ ~OpenAndFresh(r) /\ Reply(c, "conflict")
         \/ /\ visible /\ Entitled(c) /\ OpenAndFresh(r)
            /\ call' = [call EXCEPT ![c].seen = status[r],
                                    ![c].assigned = assignee[r]]
            /\ Goto(c, "commit")
      /\ UNCHANGED <<rows, expired, aborts>>

(* Mutant of StillAsSeen: the update is by id alone. *)
UpdatedById(c) == status[RequestOf(c)] # "absent"

(* transition(): the compare-and-set on the status that was read. *)
StillAsSeen(c) == status[RequestOf(c)] = call[c].seen

(* The summary that is written back: what was read, with the caller as the *)
(* assignee if the call resolves.                                          *)
NextAssignee(c) == IF OpOf(c) = "resolve" THEN ScopeOf(c).actor
                   ELSE call[c].assigned

(* Mutant of Commit: the audit event is left out of the transaction. *)
CommitThenAudit(c) ==
  LET r == RequestOf(c)
  IN  /\ pc[c] = "commit"
      /\ StillAsSeen(c)
      /\ status' = [status EXCEPT ![r] = Target[OpOf(c)]]
      /\ assignee' = [assignee EXCEPT ![r] = NextAssignee(c)]
      /\ IF OwnsSession(ScopeOf(c), r)
         THEN /\ trail' = Audited(c, Target[OpOf(c)], NextAssignee(c))
              /\ Reply(c, "ok")
         ELSE trail' = trail /\ Reply(c, "error")
      /\ UNCHANGED <<expired, aborts>>

(* The decision transaction: the row and the audit event, which requires   *)
(* the caller to own the session.                                          *)
Commit(c) ==
  LET r == RequestOf(c)
  IN  /\ pc[c] = "commit"
      /\ StillAsSeen(c) /\ OwnsSession(ScopeOf(c), r)
      /\ status' = [status EXCEPT ![r] = Target[OpOf(c)]]
      /\ assignee' = [assignee EXCEPT ![r] = NextAssignee(c)]
      /\ trail' = Audited(c, Target[OpOf(c)], NextAssignee(c))
      /\ Reply(c, "ok")
      /\ UNCHANGED <<expired, aborts>>

(* Mutant of RollBack: whatever fails in the transaction is a conflict. *)
RollBackAsConflict(c) ==
  /\ pc[c] = "commit"
  /\ ~StillAsSeen(c) \/ ~OwnsSession(ScopeOf(c), RequestOf(c))
  /\ Reply(c, "conflict")
  /\ UNCHANGED <<rows, expired, aborts>>

(* The update found another status, or the audit writer found no session   *)
(* of the caller and threw: nothing of the transaction stays.              *)
RollBack(c) ==
  /\ pc[c] = "commit"
  /\ \/ ~StillAsSeen(c) /\ Reply(c, "conflict")
     \/ /\ StillAsSeen(c) /\ ~OwnsSession(ScopeOf(c), RequestOf(c))
        /\ Reply(c, "error")
  /\ UNCHANGED <<rows, expired, aborts>>

-----------------------------------------------------------------------------
(* The process stops or the database refuses, at any await. *)
Abort(c) ==
  /\ pc[c] \in Running
  /\ aborts < MaxAborts
  /\ aborts' = aborts + 1
  /\ Reply(c, "error")
  /\ UNCHANGED <<rows, expired>>

Expire(r) ==
  /\ r \in Expiring
  /\ status[r] # "absent"
  /\ ~expired[r]
  /\ expired' = [expired EXCEPT ![r] = TRUE]
  /\ UNCHANGED <<rows, pc, call, aborts>>

Init == /\ status = [r \in Requests |-> "absent"]
        /\ assignee = [r \in Requests |-> NoActor]
        /\ expired = [r \in Requests |-> FALSE]
        /\ trail = [r \in Requests |-> <<>>]
        /\ pc = [c \in Calls |-> "idle"]
        /\ call = [c \in Calls |-> NoCall]
        /\ aborts = 0

Next ==
  \/ \E c \in Calls : \/ CheckParents(c) \/ InsertRequest(c) \/ Load(c)
                      \/ Commit(c) \/ RollBack(c) \/ Abort(c)
  \/ \E c \in Calls, r \in Requests, s \in Scopes : StartCreate(c, r, s)
  \/ \E c \in Calls, op \in Decisions, r \in Requests, s \in Scopes :
        StartDecision(c, op, r, s)
  \/ \E r \in Requests : Expire(r)

Spec == Init /\ [][Next]_vars

-----------------------------------------------------------------------------
(* Every variable has its type, and a running handler has its record.      *)
TypeOK ==
  /\ status \in [Requests -> Statuses]
  /\ assignee \in [Requests -> Actors \cup {NoActor}]
  /\ expired \in [Requests -> BOOLEAN]
  /\ trail \in [Requests -> Seq(AuditEvents)]
  /\ pc \in [Calls -> Resting \cup Running]
  /\ call \in [Calls -> CallRecord \cup {NoCall}]
  /\ \A c \in Calls : pc[c] \in Running => call[c] \in CallRecord
  /\ aborts \in Nat

(* An event of the customer and actor that own the escalation's session.   *)
OwnEvent(r, event, assigned) ==
  [event |-> event, customer |-> SessionOf[r].customer,
   actor |-> SessionOf[r].actor, assignee |-> assigned]

(* Row and trail tell one story: the trail has the creation and at most    *)
(* one decision, that of the status column, with the assignee of the row,  *)
(* and every event is filed under the customer and actor that own the      *)
(* session.  resolve and cancel write back the summary they read earlier;  *)
(* the compare-and-set keeps a cancel from erasing the assignee of a       *)
(* concurrent resolve, and the shared transaction keeps the manager whom   *)
(* the audit writer refuses from leaving a status without its event.       *)
TrailTellsStory ==
  \A r \in Requests :
    /\ trail[r] = CASE status[r] = "absent" -> <<>>
                    [] status[r] = "open" -> <<OwnEvent(r, "created", NoActor)>>
                    [] OTHER -> <<OwnEvent(r, "created", NoActor),
                                  OwnEvent(r, status[r], assignee[r])>>
    /\ assignee[r] = IF status[r] = "resolved" THEN SessionOf[r].actor
                     ELSE NoActor

(* Only a call that has seen the escalation open and comes from a manager  *)
(* resolves it, and only a manager or the requester cancels it, however    *)
(* the calls of others interleave (resolve, cancel).                       *)
DecidedWithAuthority ==
  [][\A r \in Requests :
       status[r] # status'[r] /\ status'[r] \in {"resolved", "cancelled"} =>
         \E c \in Calls :
           /\ pc[c] = "commit" /\ RequestOf(c) = r /\ call[c].seen = "open"
           /\ \/ ScopeOf(c).manager
              \/ /\ status'[r] = "cancelled"
                 /\ ScopeOf(c).actor = SessionOf[r].actor]_vars

(* What a caller is told is so.  After "ok" the escalation is as asked, and *)
(* an event under the caller's own name says so; a "conflict" means that   *)
(* it has expired or that somebody's decision is on record, also for the   *)
(* one who saw it open and came second; and an error without a crash means *)
(* that the caller does not own the session, never that a decision was     *)
(* lost (the replies of createForCriticalRisk, resolve, cancel).           *)
RepliesAreTrue ==
  [][\A c \in Calls : pc[c] \in Running /\ pc'[c] \in Replies =>
       LET r == RequestOf(c)
           asked == IF OpOf(c) = "create" THEN "open" ELSE Target[OpOf(c)]
       IN  /\ pc'[c] = "ok" =>
                /\ status'[r] = asked
                /\ \E i \in DOMAIN trail'[r] :
                     /\ trail'[r][i].actor = ScopeOf(c).actor
                     /\ trail'[r][i].event =
                          IF OpOf(c) = "create" THEN "created" ELSE asked
           /\ pc'[c] = "conflict" =>
                \/ expired[r]
                \/ \E i \in DOMAIN trail[r] : trail[r][i].event = status[r]
           /\ pc'[c] = "error" /\ aborts' = aborts =>
                /\ ~OwnsSession(ScopeOf(c), r)
                /\ status[r] = "open" /\ UNCHANGED rows]_vars

(* The workflow as the abstract log sees it. *)
OutcomeOf(s) == IF s = "absent" THEN "none" ELSE s
EventsOf(t) == [i \in DOMAIN t |-> t[i].event]

Log == INSTANCE DecisionLog WITH
         Outcomes <- {"resolved", "cancelled"},
         outcome <- [r \in Requests |-> OutcomeOf(status[r])],
         trail <- [r \in Requests |-> EventsOf(trail[r])]

(* An escalation is opened once and decided at most once, a decision is    *)
(* final, and the trail follows (transition() and the $transaction blocks  *)
(* of createForCriticalRisk, resolve and cancel).                          *)
ImplementsDecisionLog == Log!Spec
=============================================================================
