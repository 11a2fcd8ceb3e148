-------------------------- MODULE ReviewQueueProofs --------------------------
(***************************************************************************)
(* Theorems about ReviewQueue, for every number of messages, submissions,  *)
(* reviews, callers and crashes.                                           *)
(***************************************************************************)
EXTENDS ReviewQueue, SequenceTheorems, TLAPS

(* A review that has come past a check still satisfies it, and the row of  *)
(* an item is locked by the review that is about to close it.              *)
Reviewing ==
  /\ \A r \in Reviews :
       /\ pc[r] \in Closing => review[r].caller \in Reviewers
       /\ pc[r] \in {"update", "commit"} => Visible(r)
       /\ pc[r] = "commit" => /\ item[review[r].source] = "open"
                              /\ lock[review[r].source] = r
  /\ \A s \in Sources : lock[s] # NoReview =>
       pc[lock[s]] = "commit" /\ review[lock[s]].source = s

(* What a submission has read is the answer, or the placeholder.           *)
Informed(f) ==
  LET m == draft[f].message
  IN  /\ AuthorOf[m] = draft[f].author
      /\ draft[f].decision # "no_answer" =>
           /\ message[m].stage = "final"
           /\ draft[f].decision = message[m].ending.answer

Known(f) ==
  /\ pc[f] = "message" => draft[f].decision = "no_answer"
  /\ pc[f] \in {"calls", "evidence", "insert"} => Informed(f)
  /\ pc[f] \in {"evidence", "insert"} /\ draft[f].decision # "no_answer" =>
       draft[f].call = message[draft[f].message].call
  /\ pc[f] = "insert" /\ draft[f].decision # "no_answer" =>
       draft[f].refs = message[draft[f].message].refs

Drafting == \A f \in Feedbacks : Known(f)

(* A final answer rests on what it should. *)
Founding == \A m \in Messages : message[m].stage = "final" => Founded(m)

IInv == /\ TypeOK /\ Reviewing /\ ClosedByOne /\ Founding
        /\ Drafting /\ FeedbackTellsTheAnswer /\ AnsweredIsHeard

-----------------------------------------------------------------------------
(* Types *)

LEMMA Disjoint ==
  /\ Feedbacks \cap Reviews = {} /\ Messages \cap Feedbacks = {}
  /\ NoReview \notin Reviews
  /\ Messages \subseteq Sources /\ Feedbacks \subseteq Sources
BY ShapeAssumption DEF Sources

LEMMA MessageTypes ==
  ASSUME TypeOK, NEW m \in Messages, SendMessage(m)
  PROVE  TypeOK'
<1>1. /\ message[m] \in MessageRows /\ message[m].ending \in Endings
      /\ message[m].refs \in 0..MaxRefs /\ message[m].call \in BOOLEAN
  BY DEF TypeOK, MessageRows
<1>2. message[m].ending.refs \in 0..MaxRefs
  BY <1>1 DEF Endings
<1>3. CASE \E e \in Endings : Open(m, e)
  <2>1. PICK e \in Endings : Open(m, e)
    BY <1>3
  <2>2. message' = [message EXCEPT ![m] = [message[m] EXCEPT !.stage = "pending",
                                                             !.ending = e]]
    BY <1>1, <2>1 DEF Open, TypeOK
  <2>3. [message[m] EXCEPT !.stage = "pending", !.ending = e] \in MessageRows
    BY <1>1, <2>1 DEF MessageRows
  <2> QED BY <2>1, <2>2, <2>3 DEF Open, TypeOK
<1>4. CASE AttachEvidence(m)
  <2>1. message[m].refs + 1 \in 0..MaxRefs
    BY <1>1, <1>2, <1>4, BoundAssumption DEF AttachEvidence
  <2> QED BY <1>1, <1>4, <2>1 DEF AttachEvidence, TypeOK, MessageRows
<1>5. CASE ReviewOutcome(m)
  BY <1>5, Disjoint DEF ReviewOutcome, CreateItem, TypeOK
<1>6. CASE Complete(m)
  BY <1>1, <1>6 DEF Complete, TypeOK, MessageRows
<1>7. CASE StartToolCall(m)
  BY <1>1, <1>7 DEF StartToolCall, TypeOK, MessageRows
<1> QED BY <1>3, <1>4, <1>5, <1>6, <1>7 DEF SendMessage

(* The three statements of a submission, one by one. *)
LEMMA Reads ==
  ASSUME NEW f \in Feedbacks, draft \in [Feedbacks -> FeedbackRows]
  PROVE  LET m == draft[f].message
         IN  /\ pc[f] = "message" =>
                  /\ Noted(f) = [draft EXCEPT ![f] = [draft[f] EXCEPT !.decision = DecisionOf(m)]]
                  /\ AfterRead[pc[f]] = "calls"
             /\ pc[f] = "calls" =>
                  /\ Noted(f) = [draft EXCEPT ![f] = [draft[f] EXCEPT !.call = message[m].call]]
                  /\ AfterRead[pc[f]] = "evidence"
             /\ pc[f] = "evidence" =>
                  /\ Noted(f) = [draft EXCEPT ![f] = [draft[f] EXCEPT !.refs = message[m].refs]]
                  /\ AfterRead[pc[f]] = "insert"
<1>1. CASE pc[f] = "message"
  BY <1>1 DEF Noted, AfterRead
<1>2. CASE pc[f] = "calls"
  BY <1>2 DEF Noted, AfterRead
<1>3. CASE pc[f] = "evidence"
  BY <1>3 DEF Noted, AfterRead
<1> QED BY <1>1, <1>2, <1>3

LEMMA FeedbackTypes ==
  ASSUME TypeOK, NEW f \in Feedbacks,
         \/ FeedbackStep(f)
         \/ \E m \in Messages, c \in Callers, a \in BOOLEAN : StartFeedback(f, m, c, a)
  PROVE  TypeOK'
<1>1. draft[f] \in FeedbackRows /\ draft[f].message \in Messages
  BY DEF TypeOK, FeedbackRows
<1>2. ASSUME NEW m \in Messages, NEW c \in Callers, NEW a \in BOOLEAN,
             StartFeedback(f, m, c, a)
      PROVE  TypeOK'
  BY <1>2, BoundAssumption
     DEF StartFeedback, Goto, TypeOK, FeedbackRows, Answers, Submitting
<1>3. CASE ReadContext(f)
  <2>1. DecisionOf(draft[f].message) \in Answers
    BY <1>1 DEF DecisionOf, TypeOK, MessageRows, Endings, Answers
  <2>2. /\ message[draft[f].message].refs \in 0..MaxRefs
        /\ message[draft[f].message].call \in BOOLEAN
    BY <1>1 DEF TypeOK, MessageRows
  <2>3. /\ [draft[f] EXCEPT !.decision = DecisionOf(draft[f].message)] \in FeedbackRows
        /\ [draft[f] EXCEPT !.call = message[draft[f].message].call] \in FeedbackRows
        /\ [draft[f] EXCEPT !.refs = message[draft[f].message].refs] \in FeedbackRows
    BY <1>1, <2>1, <2>2 DEF FeedbackRows
  <2>4. draft' = draft \/ draft' = Noted(f)
    BY <1>3 DEF ReadContext
  <2>5. draft' \in [Feedbacks -> FeedbackRows]
    <3>1. pc[f] \in {"message", "calls", "evidence"} /\ draft \in [Feedbacks -> FeedbackRows]
      BY <1>3 DEF ReadContext, AfterRead, TypeOK
    <3>2. \E row \in FeedbackRows : Noted(f) = [draft EXCEPT ![f] = row]
      BY <2>3, <3>1, Reads
    <3> QED BY <2>4, <3>1, <3>2
  <2>6. AfterRead[pc[f]] \in Submitting
    BY <1>3 DEF ReadContext, AfterRead, Submitting
  <2> QED BY <1>3, <2>5, <2>6 DEF ReadContext, Goto, TypeOK, Replies
<1>4. CASE InsertFeedback(f)
  <2>1. /\ item' \in [Sources -> {"none", "open"} \cup Closings]
        /\ trail' \in [Sources -> Seq({"created"} \cup Closings)]
    <3>1. f \in Sources /\ Append(trail[f], "created") \in Seq({"created"} \cup Closings)
      BY Disjoint DEF TypeOK
    <3>2. CASE CreateItem(f)
      BY <3>1, <3>2 DEF CreateItem, TypeOK
    <3> QED BY <1>4, <3>2 DEF InsertFeedback, TypeOK
  <2>2. feedback' \in [Feedbacks -> FeedbackRows]
    BY <1>1, <1>4 DEF InsertFeedback, TypeOK
  <2> QED BY <1>4, <2>1, <2>2 DEF InsertFeedback, Goto, TypeOK, Replies
<1> QED BY <1>2, <1>3, <1>4 DEF FeedbackStep

LEMMA ReviewTypes ==
  ASSUME TypeOK, NEW r \in Reviews,
         ReviewStep(r) \/ \E asked \in ReviewRows : StartReview(r, asked)
  PROVE  TypeOK'
<1>1. review[r] \in ReviewRows /\ review[r].source \in Sources
      /\ review[r].closing \in Closings
  BY DEF TypeOK, ReviewRows
<1>2. CASE \E asked \in ReviewRows : StartReview(r, asked)
  BY <1>2 DEF StartReview, Goto, TypeOK, Closing, Replies
<1>3. CASE FindItem(r)
  BY <1>3 DEF FindItem, Goto, TypeOK, Closing, Replies
<1>4. CASE LockItem(r)
  <2>1. lock' \in [Sources -> Reviews \cup {NoReview}]
    BY <1>1, <1>4 DEF LockItem, TypeOK
  <2> QED BY <1>4, <2>1 DEF LockItem, Goto, TypeOK, Closing, Replies
<1>5. CASE CloseItem(r)
  BY <1>1, <1>5 DEF CloseItem, Goto, TypeOK, Closing, Replies
<1> QED BY <1>2, <1>3, <1>4, <1>5 DEF ReviewStep

LEMMA AbortTypes ==
  ASSUME TypeOK, NEW c \in Feedbacks \cup Reviews, Abort(c)
  PROVE  TypeOK'
BY DEF Abort, Goto, TypeOK, Replies

-----------------------------------------------------------------------------
(* The steps of a message *)

(* What a message step leaves as it is. *)
LEMMA MessageInvariant ==
  ASSUME IInv, NEW m \in Messages, SendMessage(m)
  PROVE  IInv'
<1>1. TypeOK'
  BY MessageTypes DEF IInv
<1>2. /\ UNCHANGED <<draft, feedback, lock, pc, review>>
      /\ \A s \in Sources : item'[s] = item[s] \/ (s = m /\ item[s] = "none" /\ item'[s] = "open")
      /\ \A n \in Messages : message[n].stage = "final" => message'[n] = message[n]
  BY Disjoint DEF IInv, TypeOK, SendMessage, Open, StartToolCall, AttachEvidence,
                  ReviewOutcome, Complete, CreateItem
<1>3. \A s \in Sources : CustomerOfItem(s)' = CustomerOfItem(s)
  BY <1>2 DEF CustomerOfItem, MessageOf
<1>4. \A r \in Reviews : review[r].source \in Sources
  BY DEF IInv, TypeOK, ReviewRows
<1>5. Reviewing'
  BY <1>2, <1>3, <1>4, Disjoint DEF IInv, Reviewing, Visible
<1>6. ClosedByOne'
  <2> SUFFICES ASSUME NEW s \in Sources
               PROVE  LET served == {r \in Reviews : review[r].source = s /\ pc[r] = "ok"}
                      IN  IF item'[s] \in Closings
                          THEN \E r \in served :
                                 /\ served = {r}
                                 /\ review[r].closing = item'[s]
                                 /\ review[r].caller \in Reviewers
                                 /\ CustomerOf[review[r].caller] = CustomerOfItem(s)'
                          ELSE served = {}
    BY <1>2 DEF ClosedByOne
  <2>1. item'[s] = item[s] \/ (item[s] \notin Closings /\ item'[s] \notin Closings)
    BY <1>2 DEF Closings
  <2> QED BY <2>1, <1>3 DEF IInv, ClosedByOne
<1>7. \A f \in Feedbacks : draft[f].message \in Messages /\ feedback[f].message \in Messages
  BY DEF IInv, TypeOK, FeedbackRows
<1>8. Drafting'
  BY <1>2, <1>7, Disjoint DEF IInv, Drafting, Known, Informed
<1>9. FeedbackTellsTheAnswer'
  <2>1. \A f \in Feedbacks : item'[f] = item[f]
    BY <1>2, Disjoint
  <2> QED BY <1>2, <1>7, <2>1, Disjoint DEF IInv, FeedbackTellsTheAnswer
<1>10. Founding'
  <2>1. message[m] \in MessageRows
    BY DEF IInv, TypeOK
  <2>2. ASSUME NEW n \in Messages, message'[n].stage = "final" PROVE Founded(n)'
    <3>1. CASE message[n].stage = "final"
      BY <1>2, <2>2, <3>1 DEF IInv, Founding, Founded
    <3>2. CASE message[n].stage # "final"
      <4>1. n = m /\ Complete(m)
        BY <2>1, <2>2, <3>2 DEF IInv, TypeOK, MessageRows, SendMessage, Open,
             StartToolCall, AttachEvidence, ReviewOutcome, Complete
      <4> QED BY <2>1, <4>1 DEF IInv, TypeOK, MessageRows, Complete, Founded
    <3> QED BY <3>1, <3>2
  <2> QED BY <2>2 DEF Founding
<1>11. AnsweredIsHeard'
  BY <1>2 DEF IInv, AnsweredIsHeard
<1> QED BY <1>1, <1>5, <1>6, <1>8, <1>9, <1>10, <1>11 DEF IInv

-----------------------------------------------------------------------------
(* The steps of a submission *)

(* Reviews and submissions do not share a place in pc. *)
LEMMA PlacesApart ==
  ASSUME TypeOK, NEW c \in Feedbacks \cup Reviews, NEW l, Goto(c, l)
  PROVE  /\ pc'[c] = l
         /\ \A d \in Feedbacks \cup Reviews : d # c => pc'[d] = pc[d]
         /\ c \in Feedbacks => \A r \in Reviews : pc'[r] = pc[r]
         /\ c \in Reviews => \A f \in Feedbacks : pc'[f] = pc[f]
BY Disjoint DEF Goto, TypeOK

(* A submission reads for itself. *)
LEMMA OneDraft ==
  ASSUME Drafting, NEW f \in Feedbacks, Known(f)', message' = message,
         \A g \in Feedbacks : g # f => pc'[g] = pc[g] /\ draft'[g] = draft[g]
  PROVE  Drafting'
<1> SUFFICES ASSUME NEW g \in Feedbacks, g # f PROVE Known(g)'
  BY DEF Drafting
<1>1. pc'[g] = pc[g] /\ draft'[g] = draft[g] /\ Known(g)
  BY DEF Drafting
<1> QED BY <1>1 DEF Known, Informed

LEMMA FeedbackInvariant ==
  ASSUME IInv, NEW f \in Feedbacks,
         \/ FeedbackStep(f)
         \/ \E m \in Messages, c \in Callers, a \in BOOLEAN : StartFeedback(f, m, c, a)
  PROVE  IInv'
<1>1. TypeOK'
  BY FeedbackTypes DEF IInv
<1>2. /\ TypeOK /\ Reviewing /\ ClosedByOne /\ Founding
      /\ Drafting /\ FeedbackTellsTheAnswer /\ AnsweredIsHeard
  BY DEF IInv
<1>3. /\ UNCHANGED <<message, lock, review>>
      /\ \A r \in Reviews : pc'[r] = pc[r]
      /\ \A g \in Feedbacks : g # f => /\ pc'[g] = pc[g]
                                       /\ draft'[g] = draft[g]
      /\ pc[f] # "ok"
  <2>1. \A g \in Feedbacks : g # f => Noted(f)[g] = draft[g]
    BY <1>2 DEF TypeOK, Noted
  <2>2. CASE ReadContext(f)
    BY <1>2, <2>1, <2>2, PlacesApart DEF ReadContext, AfterRead
  <2>3. CASE InsertFeedback(f)
    BY <1>2, <2>3, PlacesApart DEF InsertFeedback
  <2>4. CASE \E m \in Messages, c \in Callers, a \in BOOLEAN : StartFeedback(f, m, c, a)
    BY <1>2, <2>4, PlacesApart DEF TypeOK, StartFeedback
  <2> QED BY <2>2, <2>3, <2>4 DEF FeedbackStep
<1>4. item[f] = "none"
  BY <1>2, <1>3 DEF FeedbackTellsTheAnswer
<1>5. /\ \A s \in Sources : s # f => item'[s] = item[s]
      /\ item'[f] \in {"none", "open"}
      /\ \A g \in Feedbacks : g # f => feedback'[g] = feedback[g]
  BY <1>2, <1>4, Disjoint
     DEF TypeOK, FeedbackStep, ReadContext, InsertFeedback, StartFeedback, CreateItem
<1>6. \A s \in Sources : item[s] # "none" =>
        s # f /\ item'[s] = item[s] /\ CustomerOfItem(s)' = CustomerOfItem(s)
  BY <1>3, <1>4, <1>5 DEF CustomerOfItem, MessageOf, Sources
<1>7. \A r \in Reviews : review[r].source \in Sources
  BY <1>2 DEF TypeOK, ReviewRows
<1>8. Reviewing'
  <2>1. ASSUME NEW r \in Reviews, pc[r] \in {"update", "commit"}
        PROVE  Visible(r)' /\ item'[review[r].source] = item[review[r].source]
    BY <1>2, <1>3, <1>6, <1>7, <2>1 DEF Reviewing, Visible
  <2>2. \A s \in Sources : lock[s] # NoReview => lock[s] \in Reviews
    BY <1>2 DEF TypeOK
  <2> QED BY <1>2, <1>3, <2>1, <2>2 DEF Reviewing
<1>9. ClosedByOne'
  <2> SUFFICES ASSUME NEW s \in Sources
               PROVE  LET served == {r \in Reviews : review[r].source = s /\ pc'[r] = "ok"}
                      IN  IF item'[s] \in Closings
                          THEN \E r \in served :
                                 /\ served = {r}
                                 /\ review[r].closing = item'[s]
                                 /\ review[r].caller \in Reviewers
                                 /\ CustomerOf[review[r].caller] = CustomerOfItem(s)'
                          ELSE served = {}
    BY <1>3 DEF ClosedByOne
  <2>1. {r \in Reviews : review[r].source = s /\ pc'[r] = "ok"}
          = {r \in Reviews : review[r].source = s /\ pc[r] = "ok"}
    BY <1>3
  <2>2. CASE item[s] \in Closings
    <3>1. item'[s] = item[s] /\ CustomerOfItem(s)' = CustomerOfItem(s)
      BY <1>6, <2>2 DEF Closings
    <3> QED BY <1>2, <2>1, <2>2, <3>1 DEF ClosedByOne
  <2>3. CASE item[s] \notin Closings
    <3>1. item'[s] \notin Closings
      BY <1>4, <1>5, <2>3 DEF Closings
    <3> QED BY <1>2, <2>1, <2>3, <3>1 DEF ClosedByOne
  <2> QED BY <2>2, <2>3
<1>10. draft[f] \in FeedbackRows /\ draft[f].message \in Messages
  BY <1>2 DEF TypeOK, FeedbackRows
<1>14. Founding'
  BY <1>2, <1>3 DEF Founding, Founded
<1>11. CASE ReadContext(f)
  <2> DEFINE m == draft[f].message
  <2>1. /\ pc[f] \in {"message", "calls", "evidence"}
        /\ feedback' = feedback /\ item' = item
        /\ \/ Found(f) /\ draft' = Noted(f) /\ pc'[f] = AfterRead[pc[f]]
           \/ ~Found(f) /\ draft' = draft /\ pc'[f] = "not_found"
    BY <1>2, <1>11, PlacesApart DEF ReadContext, AfterRead
  <2>2. FeedbackTellsTheAnswer'
    <3>1. pc'[f] # "ok"
      BY <2>1 DEF AfterRead
    <3> QED BY <1>2, <1>3, <1>5, <2>1, <3>1 DEF FeedbackTellsTheAnswer
  <2>3. CASE ~Found(f)
    <3>1. draft' = draft /\ pc'[f] = "not_found"
      BY <2>1, <2>3
    <3>2. ASSUME draft[f].decision # "no_answer" PROVE FALSE
      <4>1. /\ pc[f] \in {"calls", "evidence"} /\ Informed(f)
            /\ pc[f] = "evidence" => draft[f].call = message[m].call
        BY <1>2, <2>1, <3>2 DEF Drafting, Known
      <4>2. message[m].stage = "final" /\ AuthorOf[m] = draft[f].author
        BY <3>2, <4>1 DEF Informed
      <4>3. message[m].call = message[m].ending.tool
        BY <1>2, <1>10, <4>2 DEF Founding, Founded
      <4> QED BY <2>3, <4>1, <4>2, <4>3 DEF Found
    <3>3. AnsweredIsHeard'
      BY <1>2, <1>3, <3>1, <3>2 DEF AnsweredIsHeard
    <3>4. Drafting'
      BY <1>2, <1>3, <3>1 DEF Drafting, Known, Informed
    <3> QED BY <1>1, <1>8, <1>9, <1>14, <2>2, <3>3, <3>4 DEF IInv
  <2>4. CASE Found(f)
    <3>1. /\ draft' = Noted(f) /\ pc'[f] = AfterRead[pc[f]]
          /\ message[m].stage # "absent" /\ AuthorOf[m] = draft[f].author
      BY <2>1, <2>4 DEF Found
    <3>2. AnsweredIsHeard'
      <4>1. pc'[f] # "not_found"
        BY <2>1, <3>1 DEF AfterRead
      <4> QED BY <1>2, <1>3, <4>1 DEF AnsweredIsHeard
    <3>3. CASE pc[f] = "message"
      <4>1. /\ pc'[f] = "calls"
            /\ draft'[f] = [draft[f] EXCEPT !.decision = DecisionOf(m)]
        BY <1>2, <3>1, <3>3, Reads DEF TypeOK
      <4>2. /\ draft'[f].message = m /\ draft'[f].author = draft[f].author
            /\ draft'[f].decision = DecisionOf(m)
        BY <1>10, <4>1 DEF FeedbackRows
      <4>3. Informed(f)'
        BY <1>3, <3>1, <4>2 DEF Informed, DecisionOf
      <4>4. Known(f)'
        BY <4>1, <4>3 DEF Known
      <4>5. Drafting'
        BY <1>2, <1>3, <4>4, OneDraft
      <4> QED BY <1>1, <1>8, <1>9, <1>14, <2>2, <3>2, <4>5 DEF IInv
    <3>4. CASE pc[f] = "calls"
      <4>1. /\ pc'[f] = "evidence"
            /\ draft'[f] = [draft[f] EXCEPT !.call = message[m].call]
        BY <1>2, <3>1, <3>4, Reads DEF TypeOK
      <4>2. /\ draft'[f].message = m /\ draft'[f].author = draft[f].author
            /\ draft'[f].decision = draft[f].decision
            /\ draft'[f].call = message[m].call
        BY <1>10, <4>1 DEF FeedbackRows
      <4>3. Informed(f)'
        BY <1>2, <1>3, <3>4, <4>2 DEF Drafting, Known, Informed
      <4>4. Known(f)'
        BY <1>3, <4>1, <4>2, <4>3 DEF Known
      <4>5. Drafting'
        BY <1>2, <1>3, <4>4, OneDraft
      <4> QED BY <1>1, <1>8, <1>9, <1>14, <2>2, <3>2, <4>5 DEF IInv
    <3>5. CASE pc[f] = "evidence"
      <4>1. /\ pc'[f] = "insert"
            /\ draft'[f] = [draft[f] EXCEPT !.refs = message[m].refs]
        BY <1>2, <3>1, <3>5, Reads DEF TypeOK
      <4>2. /\ draft'[f].message = m /\ draft'[f].author = draft[f].author
            /\ draft'[f].decision = draft[f].decision
            /\ draft'[f].call = draft[f].call
            /\ draft'[f].refs = message[m].refs
        BY <1>10, <4>1 DEF FeedbackRows
      <4>3. Informed(f)'
        BY <1>2, <1>3, <3>5, <4>2 DEF Drafting, Known, Informed
      <4>4. draft[f].decision # "no_answer" => draft[f].call = message[m].call
        BY <1>2, <3>5 DEF Drafting, Known
      <4>5. Known(f)'
        BY <1>3, <4>1, <4>2, <4>3, <4>4 DEF Known
      <4>6. Drafting'
        BY <1>2, <1>3, <4>5, OneDraft
      <4> QED BY <1>1, <1>8, <1>9, <1>14, <2>2, <3>2, <4>6 DEF IInv
    <3> QED BY <2>1, <3>3, <3>4, <3>5
  <2> QED BY <2>3, <2>4
<1>12. CASE InsertFeedback(f)
  <2>1. /\ pc[f] = "insert" /\ pc'[f] = "ok"
        /\ feedback'[f] = draft[f] /\ draft' = draft
        /\ item'[f] = IF draft[f].actionable THEN "open" ELSE "none"
    BY <1>2, <1>4, <1>12, PlacesApart, Disjoint
       DEF InsertFeedback, CreateItem, TypeOK, FeedbackRows
  <2>2. Drafting'
    BY <1>2, <1>3, <2>1 DEF Drafting, Known, Informed
  <2>3. draft[f].actionable \in BOOLEAN
    BY <1>10 DEF FeedbackRows
  <2>4. FeedbackTellsTheAnswer'
    <3> SUFFICES ASSUME NEW g \in Feedbacks
                 PROVE  LET m == feedback'[g].message
                        IN  IF pc'[g] = "ok"
                            THEN /\ AuthorOf[m] = feedback'[g].author
                                 /\ feedback'[g].decision # "no_answer" =>
                                      /\ message[m].stage = "final"
                                      /\ feedback'[g].decision = message[m].ending.answer
                                      /\ feedback'[g].call = message[m].call
                                      /\ feedback'[g].refs = message[m].refs
                                 /\ feedback'[g].actionable = (item'[g] # "none")
                            ELSE item'[g] = "none"
      BY <1>3 DEF FeedbackTellsTheAnswer
    <3>1. CASE g # f
      BY <1>2, <1>3, <1>5, <3>1, Disjoint DEF FeedbackTellsTheAnswer
    <3>2. CASE g = f
      <4>1. draft[f].actionable = (item'[f] # "none")
        BY <2>1, <2>3
      <4> QED BY <1>2, <2>1, <3>2, <4>1 DEF Drafting, Known, Informed
    <3> QED BY <3>1, <3>2
  <2>5. AnsweredIsHeard'
    BY <1>2, <1>3, <2>1 DEF AnsweredIsHeard
  <2> QED BY <1>1, <1>8, <1>9, <1>14, <2>2, <2>4, <2>5 DEF IInv
<1>13. CASE \E m \in Messages, c \in Callers, a \in BOOLEAN : StartFeedback(f, m, c, a)
  <2>1. /\ pc'[f] = "message" /\ feedback' = feedback /\ item' = item
        /\ draft'[f].decision = "no_answer"
    BY <1>2, <1>13, PlacesApart DEF StartFeedback, TypeOK
  <2>2. Drafting'
    BY <1>2, <1>3, <2>1 DEF Drafting, Known, Informed
  <2>3. FeedbackTellsTheAnswer' /\ AnsweredIsHeard'
    BY <1>2, <1>3, <1>5, <2>1 DEF FeedbackTellsTheAnswer, AnsweredIsHeard
  <2> QED BY <1>1, <1>8, <1>9, <1>14, <2>2, <2>3 DEF IInv
<1> QED BY <1>11, <1>12, <1>13 DEF FeedbackStep

-----------------------------------------------------------------------------
(* The steps of a review *)

LEMMA ReviewInvariant ==
  ASSUME IInv, NEW r \in Reviews,
         ReviewStep(r) \/ \E asked \in ReviewRows : StartReview(r, asked)
  PROVE  IInv'
<1>1. TypeOK'
  BY ReviewTypes DEF IInv
<1>2. /\ TypeOK /\ Reviewing /\ ClosedByOne /\ Founding
      /\ Drafting /\ FeedbackTellsTheAnswer /\ AnsweredIsHeard
  BY DEF IInv
<1>3. /\ UNCHANGED <<message, draft, feedback>>
      /\ \A f \in Feedbacks : pc'[f] = pc[f]
      /\ \A q \in Reviews : q # r => pc'[q] = pc[q] /\ review'[q] = review[q]
      /\ pc[r] # "ok"
  BY <1>2, PlacesApart
     DEF TypeOK, ReviewStep, FindItem, LockItem, CloseItem, StartReview
<1>4. Drafting' /\ Founding' /\ AnsweredIsHeard'
  BY <1>2, <1>3 DEF Drafting, Known, Informed, Founding, Founded, AnsweredIsHeard
<1>5. \A s \in Sources : CustomerOfItem(s)' = CustomerOfItem(s)
  BY <1>3 DEF CustomerOfItem, MessageOf
<1>6. \A q \in Reviews : review[q].source \in Sources /\ review[q] \in ReviewRows
  BY <1>2 DEF TypeOK, ReviewRows
<1> DEFINE s == review[r].source
(* While the call has not closed the item, the queue stays as it is. *)
<1>7. ASSUME item' = item, pc'[r] # "ok", Reviewing' PROVE IInv'
  <2>1. FeedbackTellsTheAnswer'
    BY <1>2, <1>3, <1>7 DEF FeedbackTellsTheAnswer
  <2>2. ClosedByOne'
    <3> SUFFICES ASSUME NEW x \in Sources
                 PROVE  LET served == {q \in Reviews : review'[q].source = x /\ pc'[q] = "ok"}
                        IN  IF item[x] \in Closings
                            THEN \E q \in served :
                                   /\ served = {q}
                                   /\ review'[q].closing = item[x]
                                   /\ review'[q].caller \in Reviewers
                                   /\ CustomerOf[review'[q].caller] = CustomerOfItem(x)
                            ELSE served = {}
      BY <1>5, <1>7 DEF ClosedByOne
    <3>1. {q \in Reviews : review'[q].source = x /\ pc'[q] = "ok"}
            = {q \in Reviews : review[q].source = x /\ pc[q] = "ok"}
      BY <1>3, <1>7
    <3>2. \A q \in {p \in Reviews : review[p].source = x /\ pc[p] = "ok"} :
            review'[q] = review[q]
      BY <1>3
    <3> QED BY <1>2, <3>1, <3>2 DEF ClosedByOne
  <2> QED BY <1>1, <1>2, <1>4, <1>7, <2>1, <2>2 DEF IInv
<1>8. CASE \E asked \in ReviewRows : StartReview(r, asked)
  <2>1. PICK asked \in ReviewRows : StartReview(r, asked)
    BY <1>8
  <2>2. /\ pc[r] = "idle" /\ item' = item /\ lock' = lock
        /\ review'[r] = asked
        /\ pc'[r] = IF asked.caller \in Reviewers THEN "find" ELSE "forbidden"
    BY <1>2, <2>1, PlacesApart DEF StartReview, TypeOK
  <2>3. \A x \in Sources : lock[x] # r
    BY <1>2, <2>2, Disjoint DEF Reviewing
  <2>4. Reviewing'
    <3>1. \A q \in Reviews : q # r /\ pc[q] \in {"update", "commit"} => Visible(q)'
      BY <1>2, <1>3, <1>5, <1>6, <2>2 DEF Reviewing, Visible
    <3>2. \A x \in Sources : lock[x] # NoReview => lock[x] \in Reviews
      BY <1>2 DEF TypeOK
    <3> QED BY <1>2, <1>3, <2>2, <2>3, <3>1, <3>2 DEF Reviewing, Closing
  <2> QED BY <1>7, <2>2, <2>4
<1>9. CASE FindItem(r)
  <2>1. /\ pc[r] = "find" /\ UNCHANGED <<item, lock, review>>
        /\ pc'[r] = IF Visible(r) THEN "update" ELSE "not_found"
    BY <1>2, <1>9, PlacesApart DEF FindItem
  <2>2. \A q \in Reviews : Visible(q)' = Visible(q)
    BY <1>5, <1>6, <2>1 DEF Visible
  <2>3. \A x \in Sources : lock[x] # NoReview => lock[x] \in Reviews /\ lock[x] # r
    BY <1>2, <2>1 DEF Reviewing, TypeOK
  <2>4. Reviewing'
    BY <1>2, <1>3, <2>1, <2>2, <2>3 DEF Reviewing, Closing
  <2> QED BY <1>7, <2>1, <2>4
<1>10. CASE LockItem(r)
  <2>1. /\ pc[r] = "update" /\ UNCHANGED <<item, review>>
        /\ lock[s] = NoReview
        /\ \/ item[s] = "open" /\ lock' = [lock EXCEPT ![s] = r] /\ pc'[r] = "commit"
           \/ lock' = lock /\ pc'[r] = "not_found"
    BY <1>2, <1>10, PlacesApart DEF LockItem, StillOpen
  <2>2. \A q \in Reviews : Visible(q)' = Visible(q)
    BY <1>5, <1>6, <2>1 DEF Visible
  <2>3. \A x \in Sources : lock[x] # NoReview => lock[x] \in Reviews /\ lock[x] # r /\ x # s
    BY <1>2, <2>1 DEF Reviewing, TypeOK
  <2>4. /\ \A x \in Sources : x # s => lock'[x] = lock[x]
        /\ lock'[s] = IF pc'[r] = "commit" THEN r ELSE NoReview
    BY <1>2, <1>6, <2>1 DEF TypeOK
  <2>5. \A q \in Reviews : pc[q] = "commit" => review[q].source # s
    BY <1>2, <2>1, Disjoint DEF Reviewing
  <2>6. Reviewing'
    BY <1>2, <1>3, <1>6, <2>1, <2>2, <2>3, <2>4, <2>5 DEF Reviewing, Closing
  <2> QED BY <1>7, <2>1, <2>6
<1>11. CASE CloseItem(r)
  <2>1. /\ pc[r] = "commit" /\ pc'[r] = "ok" /\ review' = review
        /\ item' = [item EXCEPT ![s] = review[r].closing]
        /\ lock' = [lock EXCEPT ![s] = NoReview]
    BY <1>2, <1>11, PlacesApart DEF CloseItem
  <2>2. item[s] = "open" /\ lock[s] = r /\ Visible(r) /\ review[r].caller \in Reviewers
    BY <1>2, <2>1 DEF Reviewing, Closing
  <2>3. /\ \A x \in Sources : x # s => item'[x] = item[x] /\ lock'[x] = lock[x]
        /\ item'[s] = review[r].closing /\ lock'[s] = NoReview
        /\ review[r].closing \in Closings
    BY <1>2, <1>6, <2>1 DEF TypeOK, ReviewRows
  <2>4. \A q \in Reviews : q # r /\ pc[q] = "commit" => review[q].source # s
    BY <1>2, <2>2 DEF Reviewing
  <2>5. Reviewing'
    <3>1. \A x \in Sources : lock'[x] # NoReview => x # s /\ lock[x] \in Reviews /\ lock[x] # r
      BY <1>2, <2>3 DEF TypeOK, Reviewing
    <3>2. \A q \in Reviews : Visible(q) => Visible(q)'
      BY <1>5, <1>6, <2>1, <2>3 DEF Visible, Closings
    <3> QED BY <1>2, <1>3, <1>6, <2>1, <2>3, <2>4, <3>1, <3>2 DEF Reviewing, Closing
  <2>6. FeedbackTellsTheAnswer'
    <3>1. \A f \in Feedbacks : (item'[f] = "none") = (item[f] = "none")
      BY <2>2, <2>3, Disjoint DEF Closings
    <3> QED BY <1>2, <1>3, <3>1 DEF FeedbackTellsTheAnswer
  <2>7. ClosedByOne'
    <3> SUFFICES ASSUME NEW x \in Sources
                 PROVE  LET served == {q \in Reviews : review[q].source = x /\ pc'[q] = "ok"}
                        IN  IF item'[x] \in Closings
                            THEN \E q \in served :
                                   /\ served = {q}
                                   /\ review[q].closing = item'[x]
                                   /\ review[q].caller \in Reviewers
                                   /\ CustomerOf[review[q].caller] = CustomerOfItem(x)
                            ELSE served = {}
      BY <1>5, <2>1 DEF ClosedByOne
    <3>1. CASE x # s
      <4>1. {q \in Reviews : review[q].source = x /\ pc'[q] = "ok"}
              = {q \in Reviews : review[q].source = x /\ pc[q] = "ok"}
        BY <1>3, <3>1
      <4> QED BY <1>2, <2>3, <3>1, <4>1 DEF ClosedByOne
    <3>2. CASE x = s
      <4>1. {q \in Reviews : review[q].source = x /\ pc[q] = "ok"} = {}
        BY <1>2, <2>2, <3>2 DEF ClosedByOne, Closings
      <4>2. {q \in Reviews : review[q].source = x /\ pc'[q] = "ok"} = {r}
        BY <1>3, <2>1, <3>2, <4>1
      <4>3. CustomerOf[review[r].caller] = CustomerOfItem(x)
        BY <2>2, <3>2 DEF Visible
      <4> QED BY <2>2, <2>3, <3>2, <4>2, <4>3
    <3> QED BY <3>1, <3>2
  <2> QED BY <1>1, <1>4, <2>5, <2>6, <2>7 DEF IInv
<1> QED BY <1>8, <1>9, <1>10, <1>11 DEF ReviewStep

(* A call that is cut short gives back its row. *)
LEMMA AbortInvariant ==
  ASSUME IInv, NEW c \in Feedbacks \cup Reviews, Abort(c)
  PROVE  IInv'
<1>1. TypeOK'
  BY AbortTypes DEF IInv
<1>2. /\ TypeOK /\ Reviewing /\ ClosedByOne /\ Founding
      /\ Drafting /\ FeedbackTellsTheAnswer /\ AnsweredIsHeard
  BY DEF IInv
<1>3. /\ UNCHANGED <<message, draft, feedback, item, trail, review>>
      /\ pc[c] \in Submitting \cup Closing /\ pc'[c] = "error"
      /\ \A d \in Feedbacks \cup Reviews : d # c => pc'[d] = pc[d]
      /\ lock' = [s \in Sources |-> IF lock[s] = c THEN NoReview ELSE lock[s]]
  BY <1>2, PlacesApart DEF Abort
<1>4. \A d \in Feedbacks \cup Reviews : (pc'[d] = "ok") = (pc[d] = "ok")
  BY <1>3 DEF Submitting, Closing
<1>5. \A s \in Sources : CustomerOfItem(s)' = CustomerOfItem(s)
  BY <1>3 DEF CustomerOfItem, MessageOf
<1>6. \A q \in Reviews : review[q].source \in Sources
  BY <1>2 DEF TypeOK, ReviewRows
<1>7. Reviewing'
  <2>1. \A q \in Reviews : Visible(q)' = Visible(q)
    BY <1>3, <1>5, <1>6 DEF Visible
  <2>2. \A s \in Sources : lock[s] # NoReview => lock[s] \in Reviews
    BY <1>2 DEF TypeOK
  <2>3. \A s \in Sources : /\ lock'[s] = IF lock[s] = c THEN NoReview ELSE lock[s]
    BY <1>3
  <2>4. \A q \in Reviews : pc'[q] \in Closing => q # c /\ pc'[q] = pc[q]
    BY <1>3 DEF Closing
  <2>5. \A q \in Reviews :
          /\ pc'[q] \in Closing => review[q].caller \in Reviewers
          /\ pc'[q] \in {"update", "commit"} => Visible(q)
          /\ pc'[q] = "commit" => /\ item[review[q].source] = "open"
                                  /\ lock'[review[q].source] = q
    BY <1>2, <1>6, <2>3, <2>4 DEF Reviewing, Closing
  <2>6. \A s \in Sources : lock'[s] # NoReview =>
          pc'[lock'[s]] = "commit" /\ review[lock'[s]].source = s
    BY <1>2, <1>3, <2>2, <2>3 DEF Reviewing
  <2> QED BY <1>3, <2>1, <2>5, <2>6 DEF Reviewing
<1>8. ClosedByOne'
  <2>1. \A s \in Sources : {q \in Reviews : review[q].source = s /\ pc'[q] = "ok"}
                             = {q \in Reviews : review[q].source = s /\ pc[q] = "ok"}
    BY <1>4
  <2> QED BY <1>2, <1>3, <1>5, <2>1 DEF ClosedByOne
<1>9. Drafting' /\ Founding' /\ AnsweredIsHeard'
  BY <1>2, <1>3 DEF Drafting, Known, Informed, Founding, Founded, AnsweredIsHeard
<1>10. FeedbackTellsTheAnswer'
  BY <1>2, <1>3, <1>4 DEF FeedbackTellsTheAnswer
<1> QED BY <1>1, <1>7, <1>8, <1>9, <1>10 DEF IInv

-----------------------------------------------------------------------------
LEMMA InitInvariant == Init => IInv
<1> SUFFICES ASSUME Init PROVE IInv
  OBVIOUS
<1>1. SomeMessage \in Messages /\ SomeCaller \in Callers
  BY ShapeAssumption DEF SomeMessage, SomeCaller
<1>2. [stage |-> "absent", call |-> FALSE, refs |-> 0,
       ending |-> [answer |-> "other", tool |-> FALSE, refs |-> 0, reviewed |-> FALSE]]
        \in MessageRows
  <2> DEFINE e == [answer |-> "other", tool |-> FALSE, refs |-> 0, reviewed |-> FALSE]
  <2>1. 0 \in 0..MaxRefs
    BY BoundAssumption
  <2>2. e \in [answer: Answers, tool: BOOLEAN, refs: 0..MaxRefs, reviewed: BOOLEAN]
    BY <2>1 DEF Answers
  <2>3. e.reviewed <=> (e.answer \in {"no_answer", "permission_denied"})
    <3>1. e.answer \notin {"no_answer", "permission_denied"} /\ e.reviewed = FALSE
      OBVIOUS
    <3> QED BY <3>1
  <2>4. e \in Endings
    BY <2>2, <2>3 DEF Endings
  <2> QED BY <2>1, <2>4 DEF MessageRows
<1>3. NoFeedback \in FeedbackRows
  BY <1>1, BoundAssumption DEF NoFeedback, FeedbackRows, Answers
<1>4. TypeOK
  BY <1>1, <1>2, <1>3 DEF Init, TypeOK, ReviewRows, Sources, Closings
<1>5. /\ Reviewing /\ ClosedByOne /\ Founding
      /\ Drafting /\ FeedbackTellsTheAnswer /\ AnsweredIsHeard
  BY Disjoint DEF Init, Reviewing, ClosedByOne, Founding, Drafting, Known,
                  FeedbackTellsTheAnswer, AnsweredIsHeard, Closing, Closings
<1> QED BY <1>4, <1>5 DEF IInv

LEMMA StepInvariant == IInv /\ [Next]_vars => IInv'
<1> SUFFICES ASSUME IInv, [Next]_vars PROVE IInv'
  OBVIOUS
<1>1. ASSUME UNCHANGED vars PROVE IInv'
  <2>1. TypeOK'
    BY <1>1 DEF IInv, vars, TypeOK
  <2>2. Reviewing'
    BY <1>1 DEF IInv, vars, Reviewing, Visible, CustomerOfItem, MessageOf
  <2>3. ClosedByOne'
    BY <1>1 DEF IInv, vars, ClosedByOne, CustomerOfItem, MessageOf
  <2>4. Founding' /\ Drafting' /\ FeedbackTellsTheAnswer' /\ AnsweredIsHeard'
    BY <1>1 DEF IInv, vars, Founding, Founded, Drafting, Known, Informed,
                FeedbackTellsTheAnswer, AnsweredIsHeard
  <2> QED BY <2>1, <2>2, <2>3, <2>4 DEF IInv
<1> QED BY <1>1, MessageInvariant, FeedbackInvariant, ReviewInvariant, AbortInvariant
        DEF Next

LEMMA Invariant == Spec => []IInv
BY InitInvariant, StepInvariant, PTL DEF Spec

(* Every variable has its type, for every number of everything.            *)
THEOREM Types == Spec => []TypeOK
<1>1. IInv => TypeOK
  BY DEF IInv
<1> QED BY <1>1, Invariant, PTL

(* However many reviewers race for an item, one closes it and only that    *)
(* one is told so (transitionReviewItem).                                  *)
THEOREM OneReviewerCloses == Spec => []ClosedByOne
<1>1. IInv => ClosedByOne
  BY DEF IInv
<1> QED BY <1>1, Invariant, PTL

(* Accepted feedback is about the answer and all its evidence, or was      *)
(* given on the placeholder (submitFeedback reads the message first).      *)
THEOREM FeedbackIsTrue == Spec => []FeedbackTellsTheAnswer
<1>1. IInv => FeedbackTellsTheAnswer
  BY DEF IInv
<1> QED BY <1>1, Invariant, PTL

(* However the reads of a submission and the steps of its message          *)
(* interleave, feedback on an answer is not refused as unknown: every      *)
(* message, call and evidence of an answer is there before it is final     *)
(* (validateContext against sendMessage).                                  *)
THEOREM AnswersAreHeard == Spec => []AnsweredIsHeard
<1>1. IInv => AnsweredIsHeard
  BY DEF IInv
<1> QED BY <1>1, Invariant, PTL

-----------------------------------------------------------------------------
(* Losing *)

(* A review that stands at its update moves only by itself. *)
LEMMA UpdateMoves ==
  ASSUME TypeOK, [Next]_vars, NEW r \in Reviews,
         pc[r] = "update", pc'[r] = "not_found"
  PROVE  LockItem(r) /\ ~StillOpen(review[r].source)
<1>1. ASSUME NEW c \in Feedbacks \cup Reviews, NEW l, Goto(c, l), l # "not_found" \/ c # r
      PROVE  FALSE
  <2>1. pc'[r] = IF c = r THEN l ELSE pc[r]
    BY <1>1 DEF Goto, TypeOK
  <2> QED BY <1>1, <2>1
<1>2. ASSUME UNCHANGED pc PROVE FALSE
  BY <1>2
<1>3. ASSUME NEW m \in Messages, SendMessage(m) PROVE FALSE
  BY <1>2, <1>3 DEF SendMessage, Open, StartToolCall, AttachEvidence, ReviewOutcome, Complete
<1>4. ASSUME NEW f \in Feedbacks,
             \/ FeedbackStep(f) \/ Abort(f)
             \/ \E m \in Messages, c \in Callers, a \in BOOLEAN : StartFeedback(f, m, c, a)
      PROVE  FALSE
  <2>1. f # r
    BY Disjoint
  <2> QED BY <1>1, <1>4, <2>1
          DEF FeedbackStep, ReadContext, InsertFeedback, Abort, StartFeedback
<1>5. ASSUME NEW q \in Reviews,
             \/ ReviewStep(q) \/ Abort(q) \/ \E asked \in ReviewRows : StartReview(q, asked)
      PROVE  LockItem(r) /\ ~StillOpen(review[r].source)
  <2>1. CASE Abort(q) \/ CloseItem(q) \/ \E asked \in ReviewRows : StartReview(q, asked)
    BY <1>1, <2>1 DEF Abort, CloseItem, StartReview
  <2>2. CASE FindItem(q)
    <3>1. q # r
      BY <2>2 DEF FindItem
    <3> QED BY <1>1, <2>2, <3>1 DEF FindItem
  <2>3. CASE LockItem(q)
    <3>1. q = r
      BY <1>1, <2>3 DEF LockItem
    <3>2. ASSUME StillOpen(review[r].source) PROVE FALSE
      BY <1>1, <2>3, <3>1, <3>2 DEF LockItem
    <3> QED BY <2>3, <3>1, <3>2
  <2> QED BY <1>5, <2>1, <2>2, <2>3 DEF ReviewStep
<1> QED BY <1>2, <1>3, <1>4, <1>5 DEF Next, vars

(* Whoever loses an item loses it to a reviewer who has closed it.         *)
THEOREM LoserHasAWinner == Spec => LostToAnother
<1> DEFINE Won == \A r \in Reviews : pc[r] = "update" /\ pc'[r] = "not_found" =>
             \E q \in Reviews \ {r} : /\ pc[q] = "ok"
                                      /\ review[q].source = review[r].source
                                      /\ review[q].closing = item[review[r].source]
<1>1. ASSUME IInv, [Next]_vars PROVE Won
  <2> SUFFICES ASSUME NEW r \in Reviews, pc[r] = "update", pc'[r] = "not_found"
               PROVE  \E q \in Reviews \ {r} : /\ pc[q] = "ok"
                                               /\ review[q].source = review[r].source
                                               /\ review[q].closing = item[review[r].source]
    OBVIOUS
  <2> DEFINE s == review[r].source
  <2>1. s \in Sources /\ Visible(r) /\ ~StillOpen(s)
    BY <1>1, UpdateMoves DEF IInv, TypeOK, ReviewRows, Reviewing
  <2>2. item[s] \in Closings
    BY <1>1, <2>1 DEF IInv, TypeOK, Visible, StillOpen
  <2>3. PICK q \in {x \in Reviews : review[x].source = s /\ pc[x] = "ok"} :
          review[q].closing = item[s]
    BY <1>1, <2>1, <2>2 DEF IInv, ClosedByOne
  <2> QED BY <2>3
<1>2. IInv /\ [Next]_vars => [Won]_vars
  BY <1>1
<1> QED BY <1>2, InitInvariant, StepInvariant, PTL DEF Spec, LostToAnother

-----------------------------------------------------------------------------
(* Refinement *)

LEMMA InitRefines == Init => Log!Init
BY DEF Init, Log!Init

LEMMA StepRefines == IInv /\ [Next]_vars => [Log!Next]_(Log!vars)
<1> SUFFICES ASSUME IInv, [Next]_vars PROVE [Log!Next]_(Log!vars)
  OBVIOUS
<1>1. ASSUME NEW s \in Sources, item[s] = "none", CreateItem(s)
      PROVE  Log!Next
  BY <1>1 DEF CreateItem, Log!Next, Log!Open
<1>2. ASSUME UNCHANGED <<item, trail>> PROVE UNCHANGED Log!vars
  BY <1>2 DEF Log!vars
<1>3. ASSUME NEW m \in Messages, SendMessage(m) PROVE [Log!Next]_(Log!vars)
  <2>1. CASE ReviewOutcome(m)
    BY <1>1, <2>1, Disjoint DEF ReviewOutcome
  <2> QED BY <1>2, <1>3, <2>1 DEF SendMessage, Open, StartToolCall, AttachEvidence, Complete
<1>4. ASSUME NEW f \in Feedbacks, FeedbackStep(f) PROVE [Log!Next]_(Log!vars)
  <2>1. CASE ReadContext(f)
    BY <1>2, <2>1 DEF ReadContext
  <2>2. CASE InsertFeedback(f)
    <3>1. item[f] = "none"
      BY <2>2 DEF IInv, FeedbackTellsTheAnswer, InsertFeedback
    <3> QED BY <1>1, <1>2, <2>2, <3>1, Disjoint DEF InsertFeedback
  <2> QED BY <1>4, <2>1, <2>2 DEF FeedbackStep
<1>5. ASSUME NEW r \in Reviews, ReviewStep(r) PROVE [Log!Next]_(Log!vars)
  <2>1. CASE FindItem(r) \/ LockItem(r)
    BY <1>2, <2>1 DEF FindItem, LockItem
  <2>2. CASE CloseItem(r)
    <3>1. /\ review[r].source \in Sources /\ review[r].closing \in Closings
          /\ item[review[r].source] = "open"
      BY <2>2 DEF IInv, TypeOK, ReviewRows, Reviewing, CloseItem
    <3>2. Log!Decide(review[r].source, review[r].closing)
      BY <2>2, <3>1 DEF CloseItem, Log!Decide
    <3> QED BY <3>1, <3>2 DEF Log!Next
  <2> QED BY <1>5, <2>1, <2>2 DEF ReviewStep
<1>6. ASSUME NEW r \in Reviews, NEW asked \in ReviewRows, StartReview(r, asked)
      PROVE  UNCHANGED <<item, trail>>
  BY <1>6 DEF StartReview
<1>7. ASSUME NEW f \in Feedbacks, NEW m \in Messages, NEW c \in Callers,
             NEW a \in BOOLEAN, StartFeedback(f, m, c, a)
      PROVE  UNCHANGED <<item, trail>>
  BY <1>7 DEF StartFeedback
<1>8. ASSUME NEW c, Abort(c) PROVE UNCHANGED <<item, trail>>
  BY <1>8 DEF Abort
<1> QED BY <1>2, <1>3, <1>4, <1>5, <1>6, <1>7, <1>8 DEF Next, vars

(* A review item is opened once, closed at most once and for good, and the *)
(* audit trail tells exactly that.                                         *)
THEOREM Refinement == Spec => ImplementsDecisionLog
BY InitRefines, StepRefines, Invariant, PTL DEF Spec, Log!Spec, ImplementsDecisionLog
=============================================================================
