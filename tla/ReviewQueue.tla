----------------------------- MODULE ReviewQueue -----------------------------
(***************************************************************************)
(* Answers the assistant refused and feedback of its users become review   *)
(* items, which reviewers resolve or dismiss (src/feedback).               *)
(*                                                                         *)
(* Open, StartToolCall, AttachEvidence, ReviewOutcome and Complete are the *)
(* steps of sendMessage that feedback can observe; MessageFlow and         *)
(* Grounding have them all.  An action is one statement, or one transaction if all its    *)
(* rows are new.  The closing transaction is two: it holds the row lock of *)
(* its update (read committed) until it commits.                           *)
(***************************************************************************)
EXTENDS Naturals, Sequences, FiniteSets

CONSTANTS
  Messages,
  Feedbacks,    \* submissions, each with its FeedbackEvent
  Reviews,      \* calls of resolve or dismiss
  Callers, CustomerOf,
  Reviewers,    \* callers with role admin or scope assistant:review
  AuthorOf,     \* who sent a message: the actor of its session
  MaxRefs,      \* bound: evidence references of a message
  MaxAborts,    \* bound: calls cut short by a crash or a database error
  NoReview

(* An item has exactly one source: an answer decision (here its message)   *)
(* or a feedback event.                                                    *)
Sources == Messages \cup Feedbacks

ASSUME ShapeAssumption == /\ Reviewers \subseteq Callers
                          /\ AuthorOf \in [Messages -> Callers]
                          /\ Messages # {} /\ Callers # {}
                          /\ Messages \cap Feedbacks = {}
                          /\ Feedbacks \cap Reviews = {}
                          /\ NoReview \notin Reviews

ASSUME BoundAssumption == MaxRefs \in Nat /\ MaxAborts \in Nat

VARIABLES
  message,      \* how far each message is, its tool call and evidence
  draft,        \* what a submission has read
  feedback,     \* the FeedbackEvents
  item,         \* status of the review item of each source
  trail,        \* audit events of each item, oldest first
  lock,         \* the review call whose transaction holds the item's row
  pc,           \* where submissions and review calls stand
  review,       \* what a review call asks for
  aborts

vars == <<message, draft, feedback, item, trail, lock, pc, review, aborts>>

Answers == {"answered", "no_answer", "permission_denied", "other"}

(* How a message will end.  "other" stands for the answers without tool    *)
(* call, evidence and review item (a question, a request); "tool" for an   *)
(* answer of the runtime, whose evidence is at most the tool's output.     *)
Endings == {e \in [answer: Answers, tool: BOOLEAN, refs: 0..MaxRefs, reviewed: BOOLEAN] :
              /\ e.reviewed <=> (e.answer \in {"no_answer", "permission_denied"})
              /\ e.answer = "answered" => e.refs > 0
              /\ e.answer = "permission_denied" => e.tool /\ e.refs = 0
              /\ e.answer = "other" => ~e.tool /\ e.refs = 0
              /\ e.tool => e.refs <= 1}

MessageRows == [stage: {"absent", "pending", "final"}, call: BOOLEAN,
                refs: 0..MaxRefs, ending: Endings]

(* "actionable": rating negative, or an intent that asks for correction.   *)
FeedbackRows == [message: Messages, author: Callers, actionable: BOOLEAN,
                 decision: Answers, call: BOOLEAN, refs: 0..MaxRefs]

Closings == {"resolved", "dismissed"}
ReviewRows == [source: Sources, caller: Callers, closing: Closings]

Replies == {"ok", "not_found", "forbidden", "error"}
Submitting == {"message", "calls", "evidence", "insert"}
Closing == {"find", "update", "commit"}

-----------------------------------------------------------------------------
MessageOf(s) == IF s \in Messages THEN s ELSE feedback[s].message

CustomerOfItem(s) == CustomerOf[AuthorOf[MessageOf(s)]]

Goto(c, l) == pc' = [pc EXCEPT ![c] = l]

(* The answerDecision column: a pending message has the placeholder.       *)
DecisionOf(m) == IF message[m].stage = "final" THEN message[m].ending.answer
                 ELSE "no_answer"

(* Mutant of CreateItem: a status that reviewers do not close. *)
CreateInReview(s) == /\ item' = [item EXCEPT ![s] = "in_review"]
                     /\ trail' = [trail EXCEPT ![s] = Append(@, "created")]

(* The item and its audit event, in the caller's transaction.              *)
CreateItem(s) == /\ item' = [item EXCEPT ![s] = "open"]
                 /\ trail' = [trail EXCEPT ![s] = Append(@, "created")]

-----------------------------------------------------------------------------
(* sendMessage *)

Open(m, e) ==
  /\ message[m].stage = "absent"
  /\ message' = [message EXCEPT ![m].stage = "pending", ![m].ending = e]
  /\ UNCHANGED <<draft, feedback, item, trail, lock, pc, review, aborts>>

(* The row of a call that is started or blocked. *)
StartToolCall(m) ==
  /\ message[m].stage = "pending"
  /\ message[m].ending.tool /\ ~message[m].call
  /\ message' = [message EXCEPT ![m].call = TRUE]
  /\ UNCHANGED <<draft, feedback, item, trail, lock, pc, review, aborts>>

AttachEvidence(m) ==
  /\ message[m].stage = "pending"
  /\ message[m].ending.tool => message[m].call
  /\ message[m].refs < message[m].ending.refs
  /\ item[m] = "none"
  /\ message' = [message EXCEPT ![m].refs = @ + 1]
  /\ UNCHANGED <<draft, feedback, item, trail, lock, pc, review, aborts>>

(* All that the answer rests on is stored. *)
Founded(m) == /\ message[m].call = message[m].ending.tool
              /\ message[m].refs = message[m].ending.refs

(* createFromAssistantOutcome *)
ReviewOutcome(m) ==
  /\ message[m].stage = "pending" /\ Founded(m)
  /\ message[m].ending.reviewed /\ item[m] = "none"
  /\ CreateItem(m)
  /\ UNCHANGED <<message, draft, feedback, lock, pc, review, aborts>>

Complete(m) ==
  /\ message[m].stage = "pending" /\ Founded(m)
  /\ message[m].ending.reviewed => item[m] # "none"
  /\ message' = [message EXCEPT ![m].stage = "final"]
  /\ UNCHANGED <<draft, feedback, item, trail, lock, pc, review, aborts>>

-----------------------------------------------------------------------------
(* submitFeedback *)

StartFeedback(f, m, caller, actionable) ==
  /\ pc[f] = "idle"
  /\ draft' = [draft EXCEPT ![f] = [message |-> m, author |-> caller,
                                    actionable |-> actionable, call |-> FALSE,
                                    decision |-> "no_answer", refs |-> 0]]
  /\ Goto(f, "message")
  /\ UNCHANGED <<message, feedback, item, trail, lock, review, aborts>>

(* Mutant of Noted: the evidence is read first and the message last. *)
NotedBackwards(f) ==
  LET m == draft[f].message
  IN  [draft EXCEPT ![f] =
         CASE pc[f] = "message"  -> [@ EXCEPT !.refs = message[m].refs]
           [] pc[f] = "calls"    -> [@ EXCEPT !.call = message[m].call]
           [] pc[f] = "evidence" -> [@ EXCEPT !.decision = DecisionOf(m)]]

(* Mutant of Noted: the tool calls are read before the message. *)
NotedCallsFirst(f) ==
  LET m == draft[f].message
  IN  [draft EXCEPT ![f] =
         CASE pc[f] = "message"  -> [@ EXCEPT !.call = message[m].call]
           [] pc[f] = "calls"    -> [@ EXCEPT !.decision = DecisionOf(m)]
           [] pc[f] = "evidence" -> [@ EXCEPT !.refs = message[m].refs]]

(* What each of the three statements reads. *)
Noted(f) ==
  LET m == draft[f].message
  IN  [draft EXCEPT ![f] =
         CASE pc[f] = "message"  -> [@ EXCEPT !.decision = DecisionOf(m)]
           [] pc[f] = "calls"    -> [@ EXCEPT !.call = message[m].call]
           [] pc[f] = "evidence" -> [@ EXCEPT !.refs = message[m].refs]]

(* The message must be there, as a message of the caller's session with a  *)
(* decision; the placeholder is one.  Evidence of a tool whose call was    *)
(* not there when the calls were read is refused as well.                  *)
Found(f) ==
  LET m == draft[f].message
  IN  /\ message[m].stage # "absent" /\ AuthorOf[m] = draft[f].author
      /\ pc[f] = "evidence" /\ message[m].ending.tool /\ message[m].refs > 0
           => draft[f].call

AfterRead == [message |-> "calls", calls |-> "evidence", evidence |-> "insert"]

(* validateContext *)
ReadContext(f) ==
  /\ pc[f] \in DOMAIN AfterRead
  /\ \/ Found(f) /\ draft' = Noted(f) /\ Goto(f, AfterRead[pc[f]])
     \/ ~Found(f) /\ UNCHANGED draft /\ Goto(f, "not_found")
  /\ UNCHANGED <<message, feedback, item, trail, lock, review, aborts>>

(* The event, its audit event, createFromFeedback: one transaction of rows *)
(* that are all new; no item can be open for an event that is just created.*)
InsertFeedback(f) ==
  /\ pc[f] = "insert"
  /\ feedback' = [feedback EXCEPT ![f] = draft[f]]
  /\ \/ draft[f].actionable /\ CreateItem(f)
     \/ ~draft[f].actionable /\ UNCHANGED <<item, trail>>
  /\ Goto(f, "ok")
  /\ UNCHANGED <<message, draft, lock, review, aborts>>

-----------------------------------------------------------------------------
(* markResolved, markDismissed *)

(* The controller lets reviewers pass. *)
StartReview(r, asked) ==
  /\ pc[r] = "idle"
  /\ review' = [review EXCEPT ![r] = asked]
  /\ Goto(r, IF asked.caller \in Reviewers THEN "find" ELSE "forbidden")
  /\ UNCHANGED <<message, draft, feedback, item, trail, lock, aborts>>

(* findFirst by customer and id, hasValidSource. *)
Visible(r) == LET s == review[r].source
              IN  item[s] # "none" /\ CustomerOfItem(s) = CustomerOf[review[r].caller]

FindItem(r) ==
  /\ pc[r] = "find"
  /\ Goto(r, IF Visible(r) THEN "update" ELSE "not_found")
  /\ UNCHANGED <<message, draft, feedback, item, trail, lock, review, aborts>>

(* Mutant of StillOpen: the update is by id alone. *)
UpdatedById(s) == item[s] # "none"

StillOpen(s) == item[s] = "open"

(* Mutant of LockItem: whoever finds the row locked is sent away at once.  *)
LockItemNoWait(r) ==
  LET s == review[r].source
  IN  /\ pc[r] = "update"
      /\ \/ /\ StillOpen(s) /\ lock[s] = NoReview
            /\ lock' = [lock EXCEPT ![s] = r]
            /\ Goto(r, "commit")
         \/ /\ ~StillOpen(s) \/ lock[s] # NoReview
            /\ Goto(r, "not_found")
            /\ UNCHANGED lock
      /\ UNCHANGED <<message, draft, feedback, item, trail, review, aborts>>

(* Mutant of LockItem: whoever comes second tries again instead of giving  *)
(* up.                                                                     *)
LockItemRetry(r) ==
  LET s == review[r].source
  IN  /\ pc[r] = "update"
      /\ lock[s] = NoReview
      /\ \/ /\ StillOpen(s)
            /\ lock' = [lock EXCEPT ![s] = r]
            /\ Goto(r, "commit")
         \/ ~StillOpen(s) /\ Goto(r, "find") /\ UNCHANGED lock
      /\ UNCHANGED <<message, draft, feedback, item, trail, review, aborts>>

(* updateMany waits for the row, then looks at the status again.           *)
LockItem(r) ==
  LET s == review[r].source
  IN  /\ pc[r] = "update"
      /\ lock[s] = NoReview
      /\ \/ /\ StillOpen(s)
            /\ lock' = [lock EXCEPT ![s] = r]
            /\ Goto(r, "commit")
         \/ ~StillOpen(s) /\ Goto(r, "not_found") /\ UNCHANGED lock
      /\ UNCHANGED <<message, draft, feedback, item, trail, review, aborts>>

(* Mutant of CloseItem: the audit event is lost. *)
CloseUnaudited(r) ==
  LET s == review[r].source
  IN  /\ pc[r] = "commit"
      /\ item' = [item EXCEPT ![s] = review[r].closing]
      /\ lock' = [lock EXCEPT ![s] = NoReview]
      /\ Goto(r, "ok")
      /\ UNCHANGED <<message, draft, feedback, trail, review, aborts>>

(* The rest of the transaction: read again, audit event, commit.           *)
CloseItem(r) ==
  LET s == review[r].source
  IN  /\ pc[r] = "commit"
      /\ item' = [item EXCEPT ![s] = review[r].closing]
      /\ trail' = [trail EXCEPT ![s] = Append(@, review[r].closing)]
      /\ lock' = [lock EXCEPT ![s] = NoReview]
      /\ Goto(r, "ok")
      /\ UNCHANGED <<message, draft, feedback, review, aborts>>

(* The process stops or the database refuses; its transaction is undone.   *)
Abort(c) ==
  /\ pc[c] \in Submitting \cup Closing
  /\ aborts < MaxAborts
  /\ aborts' = aborts + 1
  /\ lock' = [s \in Sources |-> IF lock[s] = c THEN NoReview ELSE lock[s]]
  /\ Goto(c, "error")
  /\ UNCHANGED <<message, draft, feedback, item, trail, review>>

-----------------------------------------------------------------------------
SomeMessage == CHOOSE m \in Messages : TRUE
SomeCaller == CHOOSE c \in Callers : TRUE

NoFeedback == [message |-> SomeMessage, author |-> SomeCaller,
               actionable |-> FALSE, call |-> FALSE, decision |-> "no_answer",
               refs |-> 0]

Init ==
  /\ message = [m \in Messages |->
       [stage |-> "absent", call |-> FALSE, refs |-> 0,
        ending |-> [answer |-> "other", tool |-> FALSE, refs |-> 0, reviewed |-> FALSE]]]
  /\ draft = [f \in Feedbacks |-> NoFeedback]
  /\ feedback = [f \in Feedbacks |-> NoFeedback]
  /\ item = [s \in Sources |-> "none"]
  /\ trail = [s \in Sources |-> <<>>]
  /\ lock = [s \in Sources |-> NoReview]
  /\ pc = [c \in Feedbacks \cup Reviews |-> "idle"]
  /\ review = [r \in Reviews |-> [source |-> SomeMessage, caller |-> SomeCaller,
                                  closing |-> "resolved"]]
  /\ aborts = 0

SendMessage(m) == \/ \E e \in Endings : Open(m, e)
                  \/ StartToolCall(m) \/ AttachEvidence(m)
                  \/ ReviewOutcome(m) \/ Complete(m)

FeedbackStep(f) == ReadContext(f) \/ InsertFeedback(f)

ReviewStep(r) == FindItem(r) \/ LockItem(r) \/ CloseItem(r)

Next ==
  \/ \E m \in Messages : SendMessage(m)
  \/ \E f \in Feedbacks : \/ FeedbackStep(f) \/ Abort(f)
                          \/ \E m \in Messages, c \in Callers, a \in BOOLEAN :
                               StartFeedback(f, m, c, a)
  \/ \E r \in Reviews : \/ ReviewStep(r) \/ Abort(r)
                        \/ \E asked \in ReviewRows : StartReview(r, asked)

Spec == Init /\ [][Next]_vars

(* The event loop resumes every started call, and the database a           *)
(* transaction whose row is free.                                          *)
FairSpec == Spec /\ \A r \in Reviews : WF_vars(ReviewStep(r))

-----------------------------------------------------------------------------
(* Every variable has its type. *)
TypeOK ==
  /\ message \in [Messages -> MessageRows]
  /\ draft \in [Feedbacks -> FeedbackRows]
  /\ feedback \in [Feedbacks -> FeedbackRows]
  /\ item \in [Sources -> {"none", "open"} \cup Closings]
  /\ trail \in [Sources -> Seq({"created"} \cup Closings)]
  /\ lock \in [Sources -> Reviews \cup {NoReview}]
  /\ pc \in [Feedbacks \cup Reviews -> Submitting \cup Closing \cup Replies \cup {"idle"}]
  /\ review \in [Reviews -> ReviewRows]
  /\ aborts \in Nat

(* An item is closed by exactly one reviewer, of its own customer, who is  *)
(* told so; whoever comes second is not (the conditional update of         *)
(* transitionReviewItem, waiting for the row of a concurrent one).         *)
ClosedByOne ==
  \A s \in Sources :
    LET served == {r \in Reviews : review[r].source = s /\ pc[r] = "ok"}
    IN  IF item[s] \in Closings
        THEN \E r \in served :
               /\ served = {r}
               /\ review[r].closing = item[s]
               /\ review[r].caller \in Reviewers
               /\ CustomerOf[review[r].caller] = CustomerOfItem(s)
        ELSE served = {}

(* Feedback that was accepted is about an answer its author was given: the *)
(* decision is the one of the message, with its tool call and all its      *)
(* evidence, unless it was given while the message was pending, and then   *)
(* it says no_answer (validateContext reads the message first).            *)
(* Whatever is actionable has its item, and nothing else has.              *)
FeedbackTellsTheAnswer ==
  \A f \in Feedbacks :
    LET m == feedback[f].message
    IN  IF pc[f] = "ok"
        THEN /\ AuthorOf[m] = feedback[f].author
             /\ feedback[f].decision # "no_answer" =>
                  /\ message[m].stage = "final"
                  /\ feedback[f].decision = message[m].ending.answer
                  /\ feedback[f].call = message[m].call
                  /\ feedback[f].refs = message[m].refs
             /\ feedback[f].actionable = (item[f] # "none")
        ELSE item[f] = "none"

(* Feedback on an answer is heard: a submission that has read a decision   *)
(* other than no_answer, the placeholder's, is never refused as unknown,   *)
(* however the message's tool call and evidence came in between its reads. *)
(* Only who asks while the message is pending can be refused for evidence  *)
(* whose call he has read too early to see (validateContext).              *)
AnsweredIsHeard ==
  \A f \in Feedbacks : pc[f] = "not_found" => draft[f].decision = "no_answer"

(* Whoever has found an item and then loses it has lost it to another      *)
(* reviewer, who has closed it and was told so: never to one whose         *)
(* transaction may still be undone, and never to nobody.                   *)
LostToAnother ==
  [][\A r \in Reviews : pc[r] = "update" /\ pc'[r] = "not_found" =>
       \E q \in Reviews \ {r} : /\ pc[q] = "ok"
                                /\ review[q].source = review[r].source
                                /\ review[q].closing = item[review[r].source]]_vars

(* Every call of resolve or dismiss gets its reply, also one that waits    *)
(* for the row of another whose process stops.                             *)
EveryReviewSettles == \A r \in Reviews : pc[r] \in Closing ~> pc[r] \in Replies

Log == INSTANCE DecisionLog WITH Requests <- Sources, Outcomes <- Closings,
                                 outcome <- item

(* A review item is opened once and closed at most once, for good, and its *)
(* audit trail says so.                                                    *)
ImplementsDecisionLog == Log!Spec
=============================================================================
