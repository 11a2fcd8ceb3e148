------------------------------ MODULE Grounding ------------------------------
(***************************************************************************)
(* How a message with a low-risk plan gets its answer: document retrieval  *)
(* or one read-only tool call, the evidence, the gates, the decision, the  *)
(* review item (src/assistant/message, runtime, answer, src/retrieval,     *)
(* src/evidence, src/tools, src/permissions).                              *)
(*                                                                         *)
(* Meanwhile others archive, re-scope and edit the documents and change    *)
(* the tool and its policies; the service itself never writes them.  An    *)
(* action is one statement; consecutive statements on rows that only the   *)
(* handler itself reads (a row and its audit event) are one step.          *)
(***************************************************************************)
EXTENDS Naturals, FiniteSets

CONSTANTS
  Messages,
  BranchOf,       \* "documents" or "runtime", as the plan says
  CallerOf,       \* the caller (organization, actor, scopes) of a message
  ColumnsOf,      \* the columns its page shows
  ShowsEntity,    \* whether its page shows an entity
  Callers, Customers,
  CustomerOf,     \* the customer of a caller
  Documents,      \* knowledge documents; a document stands for one chunk
  OwnerOf,        \* the customer of a document
  Texts,          \* what a chunk may say
  Fields,         \* fields of a connector's records
  DefaultField,   \* the field kept when the page shows no column
  Settings,       \* bound: what the documents, tool and policies are at the start
  Revisions,      \* bound: the rows a document is changed to
  ToolRevisions,  \* bound: the rows the tool definition is changed to
  PolicyRevisions,\* bound: the rows a tool policy is changed to
  MaxChanges,     \* bound: changes by others
  MaxErrors,      \* bound: errors of the database during retrieval
  MaxAborts       \* bound: calls cut short by a crash or an error elsewhere

(* What of a document and its chunk decides who may read it: the status    *)
(* of the one, enabled of the other, and the callers that visibility,      *)
(* organizations and required scopes admit; the text is the chunk's.       *)
DocumentRows == [active: BOOLEAN, enabled: BOOLEAN,
                 readers: SUBSET Callers, text: Texts]

(* The latest definition: isActive, operation read without side effect,    *)
(* inputSchema requiring entityId, callers with its required permissions.  *)
ToolRows == [active: BOOLEAN, readOnly: BOOLEAN, needsEntity: BOOLEAN,
             callers: SUBSET Callers]

(* CustomerToolPolicy: enabled, and callers with its roles and scopes.     *)
PolicyRows == [allowed: BOOLEAN, callers: SUBSET Callers]

ASSUME ShapeAssumption ==
  /\ BranchOf \in [Messages -> {"documents", "runtime"}]
  /\ CallerOf \in [Messages -> Callers]
  /\ ColumnsOf \in [Messages -> SUBSET Fields]
  /\ ShowsEntity \in [Messages -> BOOLEAN]
  /\ CustomerOf \in [Callers -> Customers]
  /\ OwnerOf \in [Documents -> Customers]
  /\ Settings \subseteq [documents: [Documents -> DocumentRows],
                         tool: ToolRows, policy: [Customers -> PolicyRows]]
  /\ Revisions \subseteq DocumentRows
  /\ ToolRevisions \subseteq ToolRows
  /\ PolicyRevisions \subseteq PolicyRows
  /\ Texts # {} /\ DefaultField \in Fields

ASSUME BoundAssumption == MaxChanges \in Nat /\ MaxErrors \in Nat /\ MaxAborts \in Nat

VARIABLES
  documents, tool, policy,   \* what others change
  past,         \* ghost: the rows the tool and the policies have had
  since,        \* ghost: the rows of each document since a message's retrieval
  answer,       \* answerDecision and noAnswerReason of each message
  run,          \* its RetrievalRun with the selected candidates
  evidence,     \* its EvidenceRefs
  toolCall,     \* its ToolCall
  grounding,    \* its GroundingCheck
  decision,     \* its AnswerDecision
  review,       \* whether a review item was created for it
  pc, held,     \* where its handler stands, and what it remembers
  changes, errors, aborts

others == <<documents, tool, policy, past, since, changes>>
stored == <<answer, run, evidence, toolCall, grounding, decision, review>>
faults == <<errors, aborts>>
vars == <<others, stored, pc, held, faults>>

(* The reasons for no answer; "unavailable" is retrieval_unavailable.      *)
Reasons == {"no_evidence", "unavailable", "tool_failure", "permission_denied",
            "evidence_conflict"}
Outcomes == Reasons \cup {"answered"}

Limit == 2   \* the limit sendMessage gives the retrieval

DocumentEvidence == [document: Documents, text: Texts]
RecordEvidence == [fields: SUBSET Fields]

Runs == [stored: BOOLEAN, selected: SUBSET Documents, marked: SUBSET Documents]

CallStates == {"none", "in_progress", "executed", "failed", "blocked"}
ToolCalls == [state: CallStates, output: SUBSET Fields]

(* Of the stages of a read, one is for the query to the documents and one  *)
(* for the query to the chunks, where the other has been served.           *)
Retrieving == {"retrieve", "check", "check_documents", "check_chunks",
               "record", "candidates"}
Stages == Retrieving \cup
          {"read", "read_documents", "read_chunks", "attach", "mark",
           "resolve", "policy", "block", "start", "connect", "finish", "fail",
           "attach_record", "ground", "decide", "review", "complete"}

(* What a handler has read: the tool row; the candidates to be recorded,   *)
(* those to be checked, those selected and still to be attached; the       *)
(* document being read and its text; the fields of the record and those    *)
(* that disagree with themselves; and what it has concluded.               *)
Held == [tool: ToolRows, found: SUBSET Documents, unchecked: SUBSET Documents,
         next: SUBSET Documents, reading: SUBSET Documents,
         text: Texts, record: SUBSET Fields, clash: SUBSET Fields,
         outcome: Outcomes]

-----------------------------------------------------------------------------
CustomerOfMessage(m) == CustomerOf[CallerOf[m]]

Servable(row) == row.active /\ row.enabled

(* The second query, to the table not yet read, finds no row. *)
Missing(m, d) ==
  IF pc[m] \in {"check_documents", "read_documents"} THEN ~documents[d].active
                                                    ELSE ~documents[d].enabled

(* Mutant of Authorized: the query forgets the customer. *)
AuthorizedAnywhere(m) ==
  {d \in Documents : Servable(documents[d]) /\ CallerOf[m] \in documents[d].readers}

(* The WHERE clause of the provider. *)
Authorized(m) == {d \in Documents : /\ OwnerOf[d] = CustomerOfMessage(m)
                                    /\ Servable(documents[d])
                                    /\ CallerOf[m] \in documents[d].readers}

Goto(m, l) == pc' = [pc EXCEPT ![m] = l]

NothingHeld(t) == [tool |-> t, found |-> {}, unchecked |-> {}, next |-> {},
                   reading |-> {}, text |-> CHOOSE x \in Texts : TRUE,
                   record |-> {}, clash |-> {}, outcome |-> "no_evidence"]

(* The handler leaves its branch with a conclusion and the conflicts.      *)
Conclude(m, o) ==
  /\ held' = [held EXCEPT ![m] = [NothingHeld(held[m].tool) EXCEPT
                                    !.clash = held[m].clash, !.outcome = o]]
  /\ Goto(m, "ground")

(* The handler has ended, and what it remembered is gone.                  *)
End(m, l) == /\ held' = [held EXCEPT ![m] = NothingHeld(held[m].tool)]
             /\ Goto(m, l)

(* The pending assistant message is stored, and the branch chosen. *)
Begin(m) ==
  /\ pc[m] = "idle"
  /\ answer' = [answer EXCEPT ![m] = "open"]
  /\ Goto(m, IF BranchOf[m] = "documents" THEN "retrieve" ELSE "resolve")
  /\ UNCHANGED <<others, run, evidence, toolCall, grounding, decision, review,
                 held, faults>>

-----------------------------------------------------------------------------
(* The document branch *)

(* The query, then scoring, threshold and limit: any of the readable       *)
(* chunks may match, and any of those well enough.                         *)
Retrieve(m) ==
  /\ pc[m] = "retrieve"
  /\ \E found \in SUBSET Authorized(m) :
       /\ Cardinality(found) <= Limit
       /\ \E selected \in SUBSET found :
            held' = [held EXCEPT ![m].found = found, ![m].unchecked = found,
                                 ![m].next = selected]
       /\ Goto(m, IF found = {} THEN "record" ELSE "check")
  /\ since' = [since EXCEPT ![m] = [d \in Documents |-> {documents[d]}]]
  /\ UNCHANGED <<documents, tool, policy, past, changes, stored, faults>>

(* assertCandidateParents, one candidate after the other.  Promise.all     *)
(* sends a query to each table, and either may be served first; what is    *)
(* thrown when a row is missing is caught by sendMessage.                  *)
CheckCandidate(m) ==
  /\ pc[m] = "check"
  /\ \E d \in held[m].unchecked :
       \/ /\ held' = [held EXCEPT ![m].unchecked = @ \ {d}, ![m].reading = {d}]
          /\ \/ documents[d].active /\ Goto(m, "check_chunks")
             \/ documents[d].enabled /\ Goto(m, "check_documents")
       \/ ~Servable(documents[d]) /\ Conclude(m, "unavailable")
  /\ UNCHANGED <<others, stored, faults>>

CheckRest(m) ==
  /\ pc[m] \in {"check_documents", "check_chunks"}
  /\ \E d \in held[m].reading :
       IF Missing(m, d) THEN Conclude(m, "unavailable")
       ELSE /\ held' = [held EXCEPT ![m].reading = {}]
            /\ Goto(m, IF held[m].unchecked = {} THEN "record" ELSE "check")
  /\ UNCHANGED <<others, stored, faults>>

RecordRun(m) ==
  /\ pc[m] = "record"
  /\ run' = [run EXCEPT ![m].stored = TRUE]
  /\ Goto(m, "candidates")
  /\ UNCHANGED <<others, answer, evidence, toolCall, grounding, decision, review,
                 held, faults>>

RecordCandidate(m) ==
  /\ pc[m] = "candidates"
  /\ \E d \in held[m].found :
       /\ run' = [run EXCEPT ![m].selected = @ \cup ({d} \cap held[m].next)]
       /\ held' = [held EXCEPT ![m].found = @ \ {d}]
  /\ UNCHANGED <<others, answer, evidence, toolCall, grounding, decision, review,
                 pc, faults>>

(* The audit events of the run; only then has it succeeded.                *)
AuditRun(m) ==
  /\ pc[m] = "candidates" /\ held[m].found = {}
  /\ \/ held[m].next = {} /\ Conclude(m, "no_evidence")
     \/ held[m].next # {} /\ Goto(m, "read") /\ UNCHANGED held
  /\ UNCHANGED <<others, stored, faults>>

(* Mutant of RetrievalFails: what the retrieval throws is not caught. *)
RetrievalThrows(m) ==
  /\ pc[m] \in Retrieving
  /\ errors < MaxErrors
  /\ errors' = errors + 1
  /\ End(m, "failed")
  /\ UNCHANGED <<others, stored, aborts>>

(* Any other error of the retrieval is caught as well, and what is stored  *)
(* of its run by then stays.                                               *)
RetrievalFails(m) ==
  /\ pc[m] \in Retrieving
  /\ errors < MaxErrors
  /\ errors' = errors + 1
  /\ Conclude(m, "unavailable")
  /\ UNCHANGED <<others, stored, aborts>>

(* attachDocumentChunkEvidence reads the document and the chunk again, by  *)
(* two queries in either order, but not who may read them; outside the     *)
(* try, so what it throws ends the call and the message stays open.        *)
ReadDocument(m) ==
  /\ pc[m] = "read"
  /\ \E d \in held[m].next :
       \/ /\ documents[d].active
          /\ held' = [held EXCEPT ![m].next = @ \ {d}, ![m].reading = {d}]
          /\ Goto(m, "read_chunks")
       \/ /\ documents[d].enabled
          /\ held' = [held EXCEPT ![m].next = @ \ {d}, ![m].reading = {d},
                                  ![m].text = documents[d].text]
          /\ Goto(m, "read_documents")
       \/ ~Servable(documents[d]) /\ End(m, "failed")
  /\ UNCHANGED <<others, stored, faults>>

ReadRest(m) ==
  /\ pc[m] \in {"read_documents", "read_chunks"}
  /\ \E d \in held[m].reading :
       IF Missing(m, d) THEN End(m, "failed")
       ELSE /\ held' = IF pc[m] = "read_documents" THEN held
                       ELSE [held EXCEPT ![m].text = documents[d].text]
            /\ Goto(m, "attach")
  /\ UNCHANGED <<others, stored, faults>>

AttachDocument(m) ==
  /\ pc[m] = "attach"
  /\ evidence' = [evidence EXCEPT ![m] = @ \cup
       {[document |-> d, text |-> held[m].text] : d \in held[m].reading}]
  /\ held' = [held EXCEPT ![m].reading = {}]
  /\ Goto(m, IF held[m].next = {} THEN "mark" ELSE "read")
  /\ UNCHANGED <<others, answer, run, toolCall, grounding, decision, review, faults>>

(* markSelectedEvidence, then the verdict of decide on the evidence.       *)
MarkEvidence(m) ==
  /\ pc[m] = "mark"
  /\ run' = [run EXCEPT ![m].marked = {e.document : e \in evidence[m]}]
  /\ Conclude(m, IF evidence[m] = {} THEN "no_evidence" ELSE "answered")
  /\ UNCHANGED <<others, answer, evidence, toolCall, grounding, decision,
                 review, faults>>

-----------------------------------------------------------------------------
(* The runtime branch *)

(* findLatestTool *)
ResolveTool(m) ==
  /\ pc[m] = "resolve"
  /\ held' = [held EXCEPT ![m].tool = tool]
  /\ Goto(m, IF tool.active THEN "policy" ELSE "block")
  /\ UNCHANGED <<others, stored, faults>>

(* Mutant of Permitted: the scopes are not compared. *)
PermittedToAll(m, t, p) ==
  p.allowed /\ t.readOnly /\ (t.needsEntity => ShowsEntity[m])

(* checkResolvedCustomerTool, isExecutableReadOnly and validateInput on    *)
(* the tool row read before and the policy row.                            *)
Permitted(m, t, p) ==
  /\ p.allowed
  /\ CallerOf[m] \in t.callers \cap p.callers
  /\ t.readOnly
  /\ t.needsEntity => ShowsEntity[m]

CheckPolicy(m) ==
  /\ pc[m] = "policy"
  /\ Goto(m, IF Permitted(m, held[m].tool, policy[CustomerOfMessage(m)])
             THEN "start" ELSE "block")
  /\ UNCHANGED <<others, stored, held, faults>>

(* blockToolCall, after the audit event of the denial.                     *)
BlockCall(m) ==
  /\ pc[m] = "block"
  /\ toolCall' = [toolCall EXCEPT ![m].state = "blocked"]
  /\ Conclude(m, "permission_denied")
  /\ UNCHANGED <<others, answer, run, evidence, grounding, decision, review, faults>>

StartCall(m) ==
  /\ pc[m] = "start"
  /\ toolCall' = [toolCall EXCEPT ![m].state = "in_progress"]
  /\ Goto(m, "connect")
  /\ UNCHANGED <<others, answer, run, evidence, grounding, decision, review,
                 held, faults>>

(* The connector: a record, fields of which may hold values that disagree, *)
(* or a failure.                                                           *)
Connect(m) ==
  /\ pc[m] = "connect"
  /\ \/ /\ \E record \in SUBSET Fields : \E clash \in SUBSET record :
             held' = [held EXCEPT ![m].record = record, ![m].clash = clash]
        /\ Goto(m, "finish")
     \/ Goto(m, "fail") /\ UNCHANGED held
  /\ UNCHANGED <<others, stored, faults>>

(* Mutant of Sanitized: the whole record is kept. *)
Unsanitized(m) == held[m].record

(* getVisibleColumns *)
VisibleColumns(m) == IF ColumnsOf[m] = {} THEN {DefaultField} ELSE ColumnsOf[m]

(* minimizeForLlmInput: only the columns the page shows. *)
Sanitized(m) == held[m].record \cap VisibleColumns(m)

(* completeToolCall; without fields there is nothing to attach.            *)
FinishCall(m) ==
  /\ pc[m] = "finish"
  /\ toolCall' = [toolCall EXCEPT ![m] = [state |-> "executed",
                                          output |-> Sanitized(m)]]
  /\ \/ Sanitized(m) = {} /\ Conclude(m, "no_evidence")
     \/ Sanitized(m) # {} /\ Goto(m, "attach_record") /\ UNCHANGED held
  /\ UNCHANGED <<others, answer, run, evidence, grounding, decision, review, faults>>

(* Mutant of FailCall: the status of the connector becomes the status of   *)
(* the call.                                                               *)
FailCallAsReported(m) ==
  /\ pc[m] = "fail"
  /\ toolCall' = [toolCall EXCEPT ![m].state = "timeout"]
  /\ Conclude(m, "tool_failure")
  /\ UNCHANGED <<others, answer, run, evidence, grounding, decision, review, faults>>

FailCall(m) ==
  /\ pc[m] = "fail"
  /\ toolCall' = [toolCall EXCEPT ![m].state = "failed"]
  /\ Conclude(m, "tool_failure")
  /\ UNCHANGED <<others, answer, run, evidence, grounding, decision, review, faults>>

(* attachStructuredRecordEvidence, then the detector of conflicts.         *)
AttachRecord(m) ==
  /\ pc[m] = "attach_record"
  /\ evidence' = [evidence EXCEPT ![m] = {[fields |-> toolCall[m].output]}]
  /\ Conclude(m, IF held[m].clash \cap toolCall[m].output = {}
                 THEN "answered" ELSE "evidence_conflict")
  /\ UNCHANGED <<others, answer, run, toolCall, grounding, decision, review, faults>>

-----------------------------------------------------------------------------
(* What both branches end with *)

(* decide and recordSafeDecision store the check before the decision.      *)
Ground(m) ==
  /\ pc[m] = "ground"
  /\ grounding' = [grounding EXCEPT ![m] = IF held[m].outcome = "answered"
                                           THEN "covered" ELSE "uncovered"]
  /\ Goto(m, "decide")
  /\ UNCHANGED <<others, answer, run, evidence, toolCall, decision, review,
                 held, faults>>

(* Mutant of Decide: only a tool that failed or was denied is reviewed. *)
DecideUnreviewed(m) ==
  /\ pc[m] = "decide"
  /\ decision' = [decision EXCEPT ![m] = held[m].outcome]
  /\ Goto(m, IF held[m].outcome \in {"tool_failure", "permission_denied"}
             THEN "review" ELSE "complete")
  /\ UNCHANGED <<others, answer, run, evidence, toolCall, grounding, review,
                 held, faults>>

Decide(m) ==
  /\ pc[m] = "decide"
  /\ decision' = [decision EXCEPT ![m] = held[m].outcome]
  /\ Goto(m, IF held[m].outcome = "answered" THEN "complete" ELSE "review")
  /\ UNCHANGED <<others, answer, run, evidence, toolCall, grounding, review,
                 held, faults>>

CreateReview(m) ==
  /\ pc[m] = "review"
  /\ review' = [review EXCEPT ![m] = TRUE]
  /\ Goto(m, "complete")
  /\ UNCHANGED <<others, answer, run, evidence, toolCall, grounding, decision,
                 held, faults>>

Complete(m) ==
  /\ pc[m] = "complete"
  /\ answer' = [answer EXCEPT ![m] = held[m].outcome]
  /\ Goto(m, "done")
  /\ UNCHANGED <<others, run, evidence, toolCall, grounding, decision, review,
                 held, faults>>

(* The process stops, or an error anywhere but in the retrieval.           *)
Abort(m) ==
  /\ pc[m] \in Stages
  /\ aborts < MaxAborts
  /\ aborts' = aborts + 1
  /\ End(m, "cut")
  /\ UNCHANGED <<others, stored, errors>>

-----------------------------------------------------------------------------
(* What others do to the documents, the tool and its policies.             *)
ChangeDocument(d) ==
  /\ changes < MaxChanges
  /\ changes' = changes + 1
  /\ \E row \in Revisions :
       /\ documents' = [documents EXCEPT ![d] = row]
       /\ since' = [m \in Messages |-> [since[m] EXCEPT ![d] = @ \cup {row}]]
  /\ UNCHANGED <<tool, policy, past, stored, pc, held, faults>>

ChangeTool ==
  /\ changes < MaxChanges
  /\ changes' = changes + 1
  /\ \E row \in ToolRevisions :
       /\ tool' = row
       /\ past' = [past EXCEPT !.tools = @ \cup {row}]
  /\ UNCHANGED <<documents, since, policy, stored, pc, held, faults>>

ChangePolicy(c) ==
  /\ changes < MaxChanges
  /\ changes' = changes + 1
  /\ \E row \in PolicyRevisions :
       /\ policy' = [policy EXCEPT ![c] = row]
       /\ past' = [past EXCEPT !.policies[c] = @ \cup {row}]
  /\ UNCHANGED <<documents, since, tool, stored, pc, held, faults>>

-----------------------------------------------------------------------------
Init ==
  /\ \E s \in Settings :
       documents = s.documents /\ tool = s.tool /\ policy = s.policy
  /\ past = [tools |-> {tool}, policies |-> [c \in Customers |-> {policy[c]}]]
  /\ since = [m \in Messages |-> [d \in Documents |-> {documents[d]}]]
  /\ answer = [m \in Messages |-> "none"]
  /\ run = [m \in Messages |-> [stored |-> FALSE, selected |-> {}, marked |-> {}]]
  /\ evidence = [m \in Messages |-> {}]
  /\ toolCall = [m \in Messages |-> [state |-> "none", output |-> {}]]
  /\ grounding = [m \in Messages |-> "none"]
  /\ decision = [m \in Messages |-> "none"]
  /\ review = [m \in Messages |-> FALSE]
  /\ pc = [m \in Messages |-> "idle"]
  /\ held = [m \in Messages |-> NothingHeld(tool)]
  /\ changes = 0 /\ errors = 0 /\ aborts = 0

(* The steps of a handler that has started. *)
Step(m) == \/ Retrieve(m) \/ CheckCandidate(m) \/ CheckRest(m)
           \/ RecordRun(m) \/ RecordCandidate(m) \/ AuditRun(m)
           \/ ReadDocument(m) \/ ReadRest(m) \/ AttachDocument(m) \/ MarkEvidence(m)
           \/ ResolveTool(m) \/ CheckPolicy(m) \/ BlockCall(m) \/ StartCall(m)
           \/ Connect(m) \/ FinishCall(m) \/ FailCall(m) \/ AttachRecord(m)
           \/ Ground(m) \/ Decide(m) \/ CreateReview(m) \/ Complete(m)

Next == \/ \E m \in Messages : Begin(m) \/ Step(m) \/ RetrievalFails(m) \/ Abort(m)
        \/ \E d \in Documents : ChangeDocument(d)
        \/ ChangeTool
        \/ \E c \in Customers : ChangePolicy(c)

Spec == Init /\ [][Next]_vars

(* The event loop resumes every started handler, and the connector answers *)
(* (it is a mock inside the process).                                      *)
FairSpec == Spec /\ \A m \in Messages : WF_vars(Step(m))

-----------------------------------------------------------------------------
(* Every variable has its type. *)
TypeOK ==
  /\ documents \in [Documents -> DocumentRows]
  /\ tool \in ToolRows
  /\ policy \in [Customers -> PolicyRows]
  /\ \A m \in Messages, d \in Documents : documents[d] \in since[m][d]
  /\ answer \in [Messages -> Outcomes \cup {"none", "open"}]
  /\ run \in [Messages -> Runs]
  /\ \A m \in Messages : evidence[m] \subseteq
       IF BranchOf[m] = "documents" THEN DocumentEvidence ELSE RecordEvidence
  /\ toolCall \in [Messages -> ToolCalls]
  /\ grounding \in [Messages -> {"none", "covered", "uncovered"}]
  /\ decision \in [Messages -> Outcomes \cup {"none"}]
  /\ review \in [Messages -> BOOLEAN]
  /\ pc \in [Messages -> Stages \cup {"idle", "done", "failed", "cut"}]
  /\ held \in [Messages -> Held]
  /\ changes \in Nat /\ errors \in Nat /\ aborts \in Nat

(* Whatever changes while a message is handled, a document is quoted only  *)
(* if its customer is the caller's and the caller could read it when it    *)
(* was retrieved or later, and the words are ones its chunk has had since, *)
(* while it was enabled.  So a document nobody has changed since is quoted *)
(* as the caller could read it.  Nothing more holds: who may read it is    *)
(* not read again, and its status not together with its text.              *)
QuotesWhatWasReadable ==
  \A m \in Messages : BranchOf[m] = "documents" =>
    \A e \in evidence[m] :
      LET rows == since[m][e.document]
      IN  /\ OwnerOf[e.document] = CustomerOfMessage(m)
          /\ \E r \in rows : Servable(r) /\ CallerOf[m] \in r.readers
          /\ \E r \in rows : r.enabled /\ r.text = e.text

(* A tool is called only if its definition has been active, without side   *)
(* effect and open to the caller, with the input it requires, and the      *)
(* policy of the caller's customer has allowed it to the caller.           *)
CallsWerePermitted ==
  \A m \in Messages : toolCall[m].state \in {"in_progress", "executed", "failed"} =>
    /\ \E t \in past.tools : /\ t.active /\ t.readOnly
                             /\ CallerOf[m] \in t.callers
                             /\ t.needsEntity => ShowsEntity[m]
    /\ \E p \in past.policies[CustomerOfMessage(m)] :
         p.allowed /\ CallerOf[m] \in p.callers

(* A message is answered from its evidence and nothing else: every         *)
(* selected document is attached and marked in the run, or the one tool    *)
(* call was executed and its record, without a field the page does not     *)
(* show and without one that disagrees, is attached.                       *)
GroundedAnswers ==
  \A m \in Messages : answer[m] = "answered" =>
    /\ grounding[m] = "covered" /\ decision[m] = "answered"
    /\ evidence[m] # {}
    /\ IF BranchOf[m] = "documents"
       THEN LET quoted == {e.document : e \in evidence[m]}
            IN  /\ run[m] = [stored |-> TRUE, selected |-> quoted, marked |-> quoted]
                /\ Cardinality(evidence[m]) = Cardinality(quoted)
       ELSE /\ toolCall[m].state = "executed"
            /\ evidence[m] = {[fields |-> toolCall[m].output]}
            /\ toolCall[m].output \subseteq VisibleColumns(m) \ held[m].clash

(* Withdrawn since the retrieval for m. *)
Vanished(m, d) == \E r \in since[m][d] : ~Servable(r)

(* Every message is answered, or refused with a reason, unless the call is *)
(* cut short or a document that retrieval selected is archived or disabled *)
(* before it is attached: the one case that leaves a message open although *)
(* nothing has failed.                                                     *)
EveryMessageAnswered ==
  \A m \in Messages :
    answer[m] = "open" ~> \/ answer[m] \in Outcomes
                          \/ pc[m] = "cut" /\ aborts > 0
                          \/ pc[m] = "failed" /\ \E d \in run[m].selected : Vanished(m, d)

(* Retrieval selected a document for m, which was then withdrawn before it *)
(* could be attached.                                                      *)
LostDocument(m) ==
  \E d \in run[m].selected :
    /\ Vanished(m, d) /\ \A e \in evidence[m] : e.document # d
    /\ \E r \in since[m][d] : Servable(r) /\ CallerOf[m] \in r.readers

(* The messages no handler will answer any more, without a lost document.  *)
GivenUp == {m \in Messages : /\ answer[m] = "open" /\ pc[m] \notin Stages
                             /\ ~LostDocument(m)}

(* Only a crash leaves a message open for good, and one crash leaves at    *)
(* most one: no error of the retrieval, no refusal of the tool, no failure *)
(* of the connector and no change by others does so, with one exception:   *)
(* a selected document is archived or disabled before it is attached.      *)
OpenByCrash == Cardinality(GivenUp) <= aborts

-----------------------------------------------------------------------------
(* What each outcome refers to. *)
Needed == [answered |-> {"evidence", "decision"},
           evidence_conflict |-> {"evidence", "decision", "review"},
           no_evidence |-> {"decision", "review"},
           unavailable |-> {"decision", "review"},
           tool_failure |-> {"failure", "decision", "review"},
           permission_denied |-> {"denial", "decision", "review"}]

BasisOf(m) == {b \in {"evidence", "failure", "denial", "decision", "review"} :
                 \/ b = "evidence" /\ evidence[m] # {}
                 \/ b = "failure" /\ toolCall[m].state = "failed"
                 \/ b = "denial" /\ toolCall[m].state = "blocked"
                 \/ b = "decision" /\ decision[m] # "none"
                 \/ b = "review" /\ review[m]}

Ledger == INSTANCE AnswerLedger WITH basis <- [m \in Messages |-> BasisOf(m)]

(* A refusal, too, is grounded: a conflict has its evidence, a failure or  *)
(* a denial its tool call, each its review item, and no outcome has more   *)
(* than it refers to.                                                      *)
ImplementsAnswerLedger == Ledger!Spec
=============================================================================
