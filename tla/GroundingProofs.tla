--------------------------- MODULE GroundingProofs ---------------------------
(***************************************************************************)
(* Theorems about Grounding, for every number of messages, documents,      *)
(* customers, callers, changes by others and failures.                     *)
(***************************************************************************)
EXTENDS Grounding, FiniteSetTheorems, TLAPS

DocumentStages == Retrieving \cup {"read", "read_documents", "read_chunks", "attach",
                                  "mark"}
ToolStages == {"resolve", "policy", "block", "start", "connect", "finish", "fail",
               "attach_record"}
Ending == {"ground", "decide", "review", "complete", "done"}

Called == {"in_progress", "executed", "failed"}

(* What TypeOK leaves open. *)
Shapes ==
  /\ evidence \in [Messages -> SUBSET (DocumentEvidence \cup RecordEvidence)]
  /\ past \in [tools: SUBSET ToolRows, policies: [Customers -> SUBSET PolicyRows]]
  /\ since \in [Messages -> [Documents -> SUBSET DocumentRows]]
  /\ tool \in past.tools
  /\ \A c \in Customers : policy[c] \in past.policies[c]

(* Since the retrieval for m its caller could read d, and its chunk said x *)
(* while it was enabled.                                                   *)
Readable(m, d) ==
  /\ OwnerOf[d] = CustomerOfMessage(m)
  /\ \E r \in since[m][d] : Servable(r) /\ CallerOf[m] \in r.readers

Said(m, d, x) == \E r \in since[m][d] : r.enabled /\ r.text = x

(* The tool and the policy once allowed the call of m. *)
Allowed(m) ==
  /\ \E t \in past.tools : /\ t.active /\ t.readOnly
                           /\ CallerOf[m] \in t.callers
                           /\ t.needsEntity => ShowsEntity[m]
  /\ \E p \in past.policies[CustomerOfMessage(m)] :
       p.allowed /\ CallerOf[m] \in p.callers

(* A message is open from the first statement to the last. *)
Answering(m) ==
  /\ pc[m] = "idle" => answer[m] = "none"
  /\ pc[m] \in Stages => answer[m] = "open"
  /\ pc[m] = "done" => answer[m] = held[m].outcome
  /\ answer[m] \in Outcomes => pc[m] = "done"

(* What is not stored before its statement. *)
Branching(m) ==
  /\ pc[m] \in DocumentStages => BranchOf[m] = "documents"
  /\ pc[m] \in ToolStages => BranchOf[m] = "runtime"
  /\ pc[m] \in {"idle", "ground", "decide"} \cup DocumentStages \cup ToolStages =>
       decision[m] = "none"
  /\ pc[m] \in {"idle", "ground", "decide", "review"} \cup DocumentStages
                 \cup ToolStages => ~review[m]
  /\ pc[m] \in {"idle"} \cup Retrieving \cup ToolStages => evidence[m] = {}
  /\ pc[m] \in {"idle", "resolve", "policy", "block", "start"} \cup DocumentStages =>
       toolCall[m].state = "none"

Quoted(m) == {e.document : e \in evidence[m]}

(* The candidates recorded so far are selected as the handler holds them.  *)
Recording(m) ==
  /\ pc[m] \in {"idle", "retrieve"} => run[m].selected = {} /\ held[m].reading = {}
  /\ pc[m] \in Retrieving \ {"retrieve"} =>
       run[m].selected = held[m].next \ held[m].found
  /\ pc[m] \in {"candidates", "read", "read_documents", "read_chunks", "attach", "mark"} =>
       run[m].stored

(* One piece of evidence for each document, none but of readable documents *)
(* and with what they said; the rest of the selection is still held.       *)
Reading(m) ==
  /\ \A d \in held[m].unchecked \cup held[m].next \cup held[m].reading : Readable(m, d)
  /\ pc[m] \in {"read_documents", "attach"} =>
       \A d \in held[m].reading : Said(m, d, held[m].text)
  /\ BranchOf[m] = "documents" =>
       /\ \A e \in evidence[m] : Readable(m, e.document) /\ Said(m, e.document, e.text)
       /\ IsFiniteSet(evidence[m]) /\ IsFiniteSet(Quoted(m))
       /\ Cardinality(evidence[m]) = Cardinality(Quoted(m))
  /\ pc[m] = "read" =>
       /\ run[m].selected = Quoted(m) \cup held[m].next
       /\ Quoted(m) \cap held[m].next = {} /\ held[m].next # {}
  /\ pc[m] \in {"read_documents", "read_chunks", "attach"} =>
       \E d \in Documents :
         /\ held[m].reading = {d} /\ d \notin Quoted(m) \cup held[m].next
         /\ run[m].selected = Quoted(m) \cup held[m].next \cup {d}
         /\ Quoted(m) \cap held[m].next = {}
  /\ pc[m] = "mark" => run[m].selected = Quoted(m) /\ evidence[m] # {}

(* A check that was passed held of the rows of its moment. *)
Calling(m) ==
  /\ held[m].tool \in past.tools
  /\ pc[m] = "policy" => held[m].tool.active
  /\ pc[m] \in {"start", "connect", "finish", "fail"}
       \/ toolCall[m].state \in Called => Allowed(m)
  /\ pc[m] \in {"connect", "finish", "fail"} => toolCall[m].state = "in_progress"
  /\ pc[m] = "attach_record" =>
       /\ toolCall[m].state = "executed"
       /\ toolCall[m].output \subseteq VisibleColumns(m)

FromEvidence(m) ==
  /\ evidence[m] # {}
  /\ BranchOf[m] = "documents" =>
       run[m] = [stored |-> TRUE, selected |-> Quoted(m), marked |-> Quoted(m)]
  /\ BranchOf[m] = "runtime" =>
       /\ toolCall[m].state = "executed"
       /\ evidence[m] = {[fields |-> toolCall[m].output]}
       /\ toolCall[m].output \subseteq VisibleColumns(m) \ held[m].clash

(* What a conclusion refers to is stored, in the order of the statements.  *)
Concluded(m) ==
  LET o == held[m].outcome
  IN  /\ pc[m] \in Ending =>
           /\ evidence[m] # {} <=> o \in {"answered", "evidence_conflict"}
           /\ toolCall[m].state = "failed" <=> o = "tool_failure"
           /\ toolCall[m].state = "blocked" <=> o = "permission_denied"
           /\ o = "answered" => FromEvidence(m)
      /\ pc[m] \in {"decide", "review", "complete", "done"} =>
           grounding[m] = IF o = "answered" THEN "covered" ELSE "uncovered"
      /\ pc[m] \in {"review", "complete", "done"} => decision[m] = o
      /\ pc[m] = "review" => o # "answered"
      /\ pc[m] \in {"complete", "done"} => (review[m] <=> o # "answered")

Good(m) == /\ Answering(m) /\ Branching(m) /\ Recording(m) /\ Reading(m)
           /\ Calling(m) /\ Concluded(m)

IInv == TypeOK /\ Shapes /\ \A m \in Messages : Good(m)

-----------------------------------------------------------------------------
(* Types *)

Places == Stages \cup {"idle", "done", "failed", "cut"}

LEMMA GotoTypes ==
  ASSUME TypeOK, NEW m \in Messages, NEW l \in Places, Goto(m, l)
  PROVE  /\ pc' \in [Messages -> Places] /\ pc'[m] = l
         /\ \A n \in Messages \ {m} : pc'[n] = pc[n]
BY DEF TypeOK, Goto, Places

LEMMA NothingHeldFacts ==
  ASSUME NEW t \in ToolRows
  PROVE  /\ NothingHeld(t) \in Held /\ NothingHeld(t).tool = t
         /\ NothingHeld(t).found = {} /\ NothingHeld(t).unchecked = {}
         /\ NothingHeld(t).next = {} /\ NothingHeld(t).reading = {}
<1>1. (CHOOSE x \in Texts : TRUE) \in Texts
  BY ShapeAssumption
<1> QED BY <1>1 DEF NothingHeld, Held, Outcomes, Reasons

LEMMA ConcludeFacts ==
  ASSUME TypeOK, NEW m \in Messages, NEW o \in Outcomes, Conclude(m, o)
  PROVE  /\ held' \in [Messages -> Held] /\ pc' \in [Messages -> Places]
         /\ pc'[m] = "ground" /\ held'[m].outcome = o
         /\ held'[m].tool = held[m].tool /\ held'[m].clash = held[m].clash
         /\ held'[m].unchecked = {} /\ held'[m].next = {} /\ held'[m].reading = {}
         /\ \A n \in Messages \ {m} : held'[n] = held[n] /\ pc'[n] = pc[n]
<1> DEFINE none == NothingHeld(held[m].tool)
           new == [none EXCEPT !.clash = held[m].clash, !.outcome = o]
<1>1. held[m] \in Held /\ held[m].tool \in ToolRows /\ held[m].clash \in SUBSET Fields
  BY DEF TypeOK, Held
<1>2. /\ none \in Held /\ none.tool = held[m].tool /\ none.unchecked = {}
      /\ none.next = {} /\ none.reading = {}
  BY <1>1, NothingHeldFacts
<1>3. held' = [held EXCEPT ![m] = new] /\ pc' = [pc EXCEPT ![m] = "ground"]
  BY DEF Conclude, Goto
<1> HIDE DEF none
<1>4. /\ new \in Held /\ new.tool = held[m].tool /\ new.clash = held[m].clash
      /\ new.outcome = o /\ new.unchecked = {} /\ new.next = {} /\ new.reading = {}
  BY <1>1, <1>2 DEF Held
<1> HIDE DEF new
<1>5. "ground" \in Places
  BY DEF Places, Stages
<1>6. held' \in [Messages -> Held] /\ pc' \in [Messages -> Places]
  BY <1>3, <1>4, <1>5 DEF TypeOK, Places
<1> QED BY <1>3, <1>4, <1>6 DEF TypeOK

LEMMA EndFacts ==
  ASSUME TypeOK, NEW m \in Messages, NEW l \in Places, End(m, l)
  PROVE  /\ held' \in [Messages -> Held] /\ pc' \in [Messages -> Places]
         /\ pc'[m] = l /\ held'[m].tool = held[m].tool
         /\ held'[m].unchecked = {} /\ held'[m].next = {} /\ held'[m].reading = {}
         /\ \A n \in Messages \ {m} : held'[n] = held[n] /\ pc'[n] = pc[n]
<1> DEFINE none == NothingHeld(held[m].tool)
<1>1. held[m].tool \in ToolRows
  BY DEF TypeOK, Held
<1>2. /\ none \in Held /\ none.tool = held[m].tool /\ none.unchecked = {}
      /\ none.next = {} /\ none.reading = {}
  BY <1>1, NothingHeldFacts
<1>3. held' = [held EXCEPT ![m] = none] /\ Goto(m, l)
  BY DEF End
<1> HIDE DEF none
<1> QED BY <1>2, <1>3, GotoTypes DEF TypeOK

(* Who may be read is of the types of what is read. *)
LEMMA AuthorizedDocuments ==
  ASSUME NEW m \in Messages
  PROVE  Authorized(m) \subseteq Documents
BY DEF Authorized

LEMMA Shown ==
  ASSUME TypeOK, NEW m \in Messages
  PROVE  /\ CallerOf[m] \in Callers /\ CustomerOfMessage(m) \in Customers
         /\ VisibleColumns(m) \subseteq Fields
         /\ BranchOf[m] \in {"documents", "runtime"}
BY ShapeAssumption DEF CustomerOfMessage, VisibleColumns

-----------------------------------------------------------------------------
(* What a handler's step leaves alone: what others change, the count of    *)
(* failures unless it is cut, and all that belongs to another message.     *)
Untouched(n) ==
  /\ pc'[n] = pc[n] /\ held'[n] = held[n] /\ answer'[n] = answer[n]
  /\ run'[n] = run[n] /\ evidence'[n] = evidence[n] /\ toolCall'[n] = toolCall[n]
  /\ grounding'[n] = grounding[n] /\ decision'[n] = decision[n]
  /\ review'[n] = review[n] /\ since'[n] = since[n]

LEMMA Footprint ==
  ASSUME TypeOK, Shapes, NEW m \in Messages,
         Begin(m) \/ Step(m) \/ RetrievalFails(m) \/ Abort(m)
  PROVE  /\ UNCHANGED <<documents, tool, policy, past, changes>>
         /\ UNCHANGED since \/ Retrieve(m)
         /\ UNCHANGED aborts \/ Abort(m)
         /\ \A n \in Messages \ {m} : Untouched(n)
<1>0. /\ DOMAIN pc = Messages /\ DOMAIN held = Messages /\ DOMAIN answer = Messages
      /\ DOMAIN run = Messages /\ DOMAIN evidence = Messages
      /\ DOMAIN toolCall = Messages /\ DOMAIN grounding = Messages
      /\ DOMAIN decision = Messages /\ DOMAIN review = Messages
      /\ DOMAIN since = Messages
  BY DEF TypeOK, Shapes
<1>22. ASSUME NEW l, Goto(m, l) PROVE \A n \in Messages \ {m} : pc'[n] = pc[n]
  BY <1>0, <1>22 DEF Goto
<1>23. ASSUME NEW o, Conclude(m, o)
      PROVE  \A n \in Messages \ {m} : pc'[n] = pc[n] /\ held'[n] = held[n]
  BY <1>0, <1>22, <1>23 DEF Conclude
<1>24. ASSUME NEW l, End(m, l)
      PROVE  \A n \in Messages \ {m} : pc'[n] = pc[n] /\ held'[n] = held[n]
  BY <1>0, <1>22, <1>24 DEF End
<1>30. CASE Begin(m)
  BY <1>0, <1>22, <1>23, <1>24, <1>30 DEF Begin, Untouched, others, stored, faults
<1>31. CASE Retrieve(m)
  BY <1>0, <1>22, <1>23, <1>24, <1>31 DEF Retrieve, Untouched, others, stored, faults
<1>32. CASE CheckCandidate(m)
  BY <1>0, <1>22, <1>23, <1>24, <1>32 DEF CheckCandidate, Untouched, others, stored, faults
<1>33. CASE CheckRest(m)
  BY <1>0, <1>22, <1>23, <1>24, <1>33 DEF CheckRest, Untouched, others, stored, faults
<1>34. CASE RecordRun(m)
  BY <1>0, <1>22, <1>23, <1>24, <1>34 DEF RecordRun, Untouched, others, stored, faults
<1>35. CASE RecordCandidate(m)
  BY <1>0, <1>22, <1>23, <1>24, <1>35 DEF RecordCandidate, Untouched, others, stored, faults
<1>36. CASE AuditRun(m)
  BY <1>0, <1>22, <1>23, <1>24, <1>36 DEF AuditRun, Untouched, others, stored, faults
<1>37. CASE RetrievalFails(m)
  BY <1>0, <1>22, <1>23, <1>24, <1>37 DEF RetrievalFails, Untouched, others, stored, faults
<1>38. CASE ReadDocument(m)
  BY <1>0, <1>22, <1>23, <1>24, <1>38 DEF ReadDocument, Untouched, others, stored, faults
<1>39. CASE ReadRest(m)
  BY <1>0, <1>22, <1>23, <1>24, <1>39 DEF ReadRest, Untouched, others, stored, faults
<1>40. CASE AttachDocument(m)
  BY <1>0, <1>22, <1>23, <1>24, <1>40 DEF AttachDocument, Untouched, others, stored, faults
<1>41. CASE MarkEvidence(m)
  BY <1>0, <1>22, <1>23, <1>24, <1>41 DEF MarkEvidence, Untouched, others, stored, faults
<1>42. CASE ResolveTool(m)
  BY <1>0, <1>22, <1>23, <1>24, <1>42 DEF ResolveTool, Untouched, others, stored, faults
<1>43. CASE CheckPolicy(m)
  BY <1>0, <1>22, <1>23, <1>24, <1>43 DEF CheckPolicy, Untouched, others, stored, faults
<1>44. CASE BlockCall(m)
  BY <1>0, <1>22, <1>23, <1>24, <1>44 DEF BlockCall, Untouched, others, stored, faults
<1>45. CASE StartCall(m)
  BY <1>0, <1>22, <1>23, <1>24, <1>45 DEF StartCall, Untouched, others, stored, faults
<1>46. CASE Connect(m)
  BY <1>0, <1>22, <1>23, <1>24, <1>46 DEF Connect, Untouched, others, stored, faults
<1>47. CASE FinishCall(m)
  BY <1>0, <1>22, <1>23, <1>24, <1>47 DEF FinishCall, Untouched, others, stored, faults
<1>48. CASE FailCall(m)
  BY <1>0, <1>22, <1>23, <1>24, <1>48 DEF FailCall, Untouched, others, stored, faults
<1>49. CASE AttachRecord(m)
  BY <1>0, <1>22, <1>23, <1>24, <1>49 DEF AttachRecord, Untouched, others, stored, faults
<1>50. CASE Ground(m)
  BY <1>0, <1>22, <1>23, <1>24, <1>50 DEF Ground, Untouched, others, stored, faults
<1>51. CASE Decide(m)
  BY <1>0, <1>22, <1>23, <1>24, <1>51 DEF Decide, Untouched, others, stored, faults
<1>52. CASE CreateReview(m)
  BY <1>0, <1>22, <1>23, <1>24, <1>52 DEF CreateReview, Untouched, others, stored, faults
<1>53. CASE Complete(m)
  BY <1>0, <1>22, <1>23, <1>24, <1>53 DEF Complete, Untouched, others, stored, faults
<1>54. CASE Abort(m)
  BY <1>0, <1>22, <1>23, <1>24, <1>54 DEF Abort, Untouched, others, stored, faults
<1> QED BY <1>30, <1>31, <1>32, <1>33, <1>34, <1>35, <1>36, <1>37, <1>38, <1>39,
       <1>40, <1>41, <1>42, <1>43, <1>44, <1>45, <1>46, <1>47, <1>48, <1>49, <1>50,
       <1>51, <1>52, <1>53, <1>54 DEF Step

(* A handler touches only what belongs to its message.                     *)
LEMMA OthersKept ==
  ASSUME TypeOK, Shapes, NEW m \in Messages, NEW n \in Messages \ {m}, Good(n),
         Begin(m) \/ Step(m) \/ RetrievalFails(m) \/ Abort(m)
  PROVE  Good(n)'
<1>1. /\ pc'[n] = pc[n] /\ held'[n] = held[n] /\ answer'[n] = answer[n]
      /\ run'[n] = run[n] /\ evidence'[n] = evidence[n]
      /\ toolCall'[n] = toolCall[n] /\ grounding'[n] = grounding[n]
      /\ decision'[n] = decision[n] /\ review'[n] = review[n] /\ past' = past
      /\ since'[n] = since[n]
  BY Footprint DEF Untouched
<1>2. Answering(n)' /\ Branching(n)'
  BY <1>1 DEF Good, Answering, Branching
<1>3. Recording(n)' /\ Reading(n)'
  BY <1>1 DEF Good, Recording, Reading, Quoted, Readable, Said
<1>4. Calling(n)'
  BY <1>1 DEF Good, Calling, Allowed
<1>5. Concluded(n)'
  BY <1>1 DEF Good, Concluded, FromEvidence, Quoted
<1> QED BY <1>2, <1>3, <1>4, <1>5 DEF Good

(* Changes by others add to the past and take nothing from it.             *)
LEMMA PastKept ==
  ASSUME NEW m \in Messages, Good(m), UNCHANGED <<stored, pc, held>>, TypeOK,
         \A d \in Documents : since[m][d] \subseteq since'[m][d],
         past.tools \subseteq past'.tools,
         \A c \in Customers : past.policies[c] \subseteq past'.policies[c]
  PROVE  Good(m)'
<1>1. CallerOf[m] \in Callers /\ CustomerOfMessage(m) \in Customers
  BY Shown
<1>2. /\ \A d \in Documents : Readable(m, d) => Readable(m, d)'
      /\ \A d \in Documents : \A x : Said(m, d, x) =>
           \E r \in since'[m][d] : r.enabled /\ r.text = x
  BY DEF Readable, Said
<1>3. Allowed(m) => Allowed(m)'
  BY <1>1 DEF Allowed
<1>4. Answering(m)' /\ Branching(m)' /\ Recording(m)' /\ Concluded(m)'
  BY DEF stored, Good, Answering, Branching, Recording, Concluded, FromEvidence, Quoted
<1>5. Calling(m)'
  BY <1>3 DEF stored, Good, Calling
<1>6. Reading(m)'
  <2>1. /\ held[m].next \subseteq Documents /\ held[m].reading \subseteq Documents
        /\ held[m].unchecked \subseteq Documents
    BY DEF TypeOK, Held
  <2>2. BranchOf[m] = "documents" => \A e \in evidence[m] : e.document \in Documents
    BY DEF TypeOK, DocumentEvidence
  <2>3. \A d \in held[m].unchecked \cup held[m].next \cup held[m].reading : Readable(m, d)'
    BY <1>2, <2>1 DEF Good, Reading
  <2>4. pc[m] \in {"read_documents", "attach"} =>
          \A d \in held[m].reading : Said(m, d, held[m].text)'
    BY <1>2, <2>1 DEF Good, Reading, Said, stored
  <2>5. BranchOf[m] = "documents" =>
             \A e \in evidence[m] :
               Readable(m, e.document)' /\ Said(m, e.document, e.text)'
    BY <1>2, <2>2 DEF Good, Reading, Said
  <2> QED BY <2>3, <2>4, <2>5 DEF stored, Good, Reading, Quoted, Readable, Said
<1> QED BY <1>4, <1>5, <1>6 DEF Good

-----------------------------------------------------------------------------
(* The steps of a handler *)

LEMMA Kept ==
  ASSUME TypeOK, Shapes, UNCHANGED <<others, evidence>>
  PROVE  /\ Shapes' /\ documents' = documents /\ tool' = tool /\ policy' = policy
         /\ past' = past /\ since' = since /\ changes' = changes
BY DEF Shapes, others

(* A handler that ends with its message open. *)
LEMMA EndGood ==
  ASSUME TypeOK, Shapes, NEW m \in Messages, Good(m), pc[m] \in Stages,
         NEW l \in {"failed", "cut"}, End(m, l), UNCHANGED <<others, stored>>
  PROVE  Shapes' /\ Good(m)'
<1>1. /\ pc'[m] = l /\ held'[m].tool = held[m].tool
      /\ held'[m].unchecked = {} /\ held'[m].next = {} /\ held'[m].reading = {}
  BY EndFacts DEF Places
<1>2. Shapes' /\ past' = past /\ since' = since
  BY Kept DEF stored
<1>3. answer[m] = "open" /\ "open" \notin Outcomes
  BY DEF Good, Answering, Outcomes, Reasons
<1>4. Answering(m)' /\ Branching(m)' /\ Concluded(m)'
  BY <1>1, <1>3 DEF Answering, Branching, Concluded, DocumentStages,
     ToolStages, Ending, Stages, Retrieving, stored
<1>5. Recording(m)'
  BY <1>1 DEF Recording, Retrieving
<1>6. Reading(m)' /\ Calling(m)'
  BY <1>1, <1>2 DEF Good, Reading, Calling, Allowed, Quoted, Readable, Said, stored
<1> QED BY <1>2, <1>4, <1>5, <1>6 DEF Good

LEMMA BeginGood ==
  ASSUME TypeOK, Shapes, NEW m \in Messages, Good(m), Begin(m)
  PROVE  TypeOK' /\ Shapes' /\ Good(m)'
<1> DEFINE l == IF BranchOf[m] = "documents" THEN "retrieve" ELSE "resolve"
<1>0. l \in {"retrieve", "resolve"} /\ l \in Places /\ BranchOf[m] \in {"documents", "runtime"}
  BY Shown DEF Places, Stages, Retrieving
<1>1. /\ UNCHANGED <<others, run, evidence, toolCall, grounding, decision, review,
                     held, faults>>
      /\ pc[m] = "idle" /\ Goto(m, l)
      /\ answer' = [answer EXCEPT ![m] = "open"]
  BY DEF Begin
<1>2. pc' \in [Messages -> Places] /\ pc'[m] = l
  BY <1>0, <1>1, GotoTypes
<1>3. answer' \in [Messages -> Outcomes \cup {"none", "open"}] /\ answer'[m] = "open"
  BY <1>1 DEF TypeOK
<1>4. Shapes' /\ past' = past /\ since' = since
  BY <1>1, Kept
<1>5. TypeOK'
  BY <1>1, <1>2, <1>3 DEF TypeOK, others, faults, Places
<1>6. Answering(m)'
  BY <1>0, <1>2, <1>3 DEF Answering, Outcomes, Reasons
<1>7. Branching(m)'
  BY <1>0, <1>1, <1>2 DEF Good, Branching, DocumentStages, ToolStages, Retrieving
<1>8. Recording(m)' /\ Reading(m)'
  BY <1>0, <1>1, <1>2, <1>4 DEF Good, Recording, Retrieving, Reading, Quoted, Readable,
     Said
<1>9. Calling(m)'
  BY <1>0, <1>1, <1>2, <1>4 DEF Good, Calling, Allowed
<1>10. Concluded(m)'
  BY <1>0, <1>2 DEF Concluded, Ending
<1> QED BY <1>4, <1>5, <1>6, <1>7, <1>8, <1>9, <1>10 DEF Good

LEMMA RetrieveGood ==
  ASSUME TypeOK, Shapes, NEW m \in Messages, Good(m), Retrieve(m)
  PROVE  TypeOK' /\ Shapes' /\ Good(m)'
<1>0. held[m] \in Held /\ BranchOf[m] = "documents" /\ pc[m] = "retrieve"
  BY DEF TypeOK, Retrieve, Good, Branching, DocumentStages, Retrieving
<1>1. PICK found \in SUBSET Authorized(m) :
        /\ \E selected \in SUBSET found :
             held' = [held EXCEPT ![m].found = found, ![m].unchecked = found,
                                  ![m].next = selected]
        /\ Goto(m, IF found = {} THEN "record" ELSE "check")
  BY DEF Retrieve
<1>2. PICK selected \in SUBSET found :
        held' = [held EXCEPT ![m].found = found, ![m].unchecked = found,
                             ![m].next = selected]
  BY <1>1
<1> DEFINE new == [held[m] EXCEPT !.found = found, !.unchecked = found, !.next = selected]
<1>3. held' = [held EXCEPT ![m] = new]
  BY <1>0, <1>2 DEF TypeOK
<1>4. found \in SUBSET Documents /\ selected \in SUBSET Documents
  BY AuthorizedDocuments
<1>5. /\ new \in Held /\ new.found = found /\ new.unchecked = found
      /\ new.next = selected /\ new.reading = held[m].reading
      /\ new.tool = held[m].tool /\ new.outcome = held[m].outcome
  BY <1>0, <1>4 DEF Held
<1> HIDE DEF new
<1>6. held' \in [Messages -> Held] /\ held'[m] = new
  BY <1>3, <1>5 DEF TypeOK
<1>7. /\ UNCHANGED <<documents, tool, policy, past, changes, stored, faults>>
      /\ since' = [since EXCEPT ![m] = [d \in Documents |-> {documents[d]}]]
  BY DEF Retrieve
<1>8. pc' \in [Messages -> Places] /\ pc'[m] \in {"record", "check"}
  BY <1>1, GotoTypes DEF Places, Stages, Retrieving
<1>9. /\ since' \in [Messages -> [Documents -> SUBSET DocumentRows]]
      /\ \A d \in Documents : since'[m][d] = {documents[d]}
      /\ \A n \in Messages, d \in Documents : documents[d] \in since'[n][d]
  BY <1>7 DEF Shapes, TypeOK
<1>10. Shapes'
  BY <1>7, <1>9 DEF Shapes, stored
<1>11. TypeOK'
  BY <1>6, <1>7, <1>8, <1>9 DEF TypeOK, stored, faults, Places
<1>12. Answering(m)' /\ Branching(m)' /\ Concluded(m)'
  BY <1>0, <1>7, <1>8 DEF Good, Answering, Branching, Concluded, DocumentStages,
     ToolStages, Ending, stored, Stages, Retrieving
<1>13. Recording(m)'
  BY <1>0, <1>5, <1>6, <1>7, <1>8 DEF Good, Recording, Retrieving, stored
<1>14. \A d \in found \cup selected : Readable(m, d)'
  <2> SUFFICES ASSUME NEW d \in found PROVE Readable(m, d)'
    OBVIOUS
  <2>1. d \in Documents /\ documents[d] \in since'[m][d]
    BY <1>4, <1>9
  <2> QED BY <2>1 DEF Authorized, Readable
<1>15. Reading(m)'
  <2>1. evidence'[m] = {} /\ Quoted(m)' = {} /\ held[m].reading = {}
    BY <1>0, <1>7 DEF Good, Branching, Recording, Retrieving, Quoted, stored
  <2>2. IsFiniteSet({})
    BY FS_EmptySet
  <2> QED BY <1>5, <1>6, <1>8, <1>14, <2>1, <2>2 DEF Reading
<1>16. Calling(m)'
  BY <1>0, <1>5, <1>6, <1>7, <1>8 DEF Good, Calling, Allowed, stored
<1> QED BY <1>10, <1>11, <1>12, <1>13, <1>15, <1>16 DEF Good

(* Retrieval that ends without a selection has stored nothing to refer to. *)
LEMMA RefusalGood ==
  ASSUME TypeOK, Shapes, NEW m \in Messages, Good(m), pc[m] \in Retrieving,
         NEW o \in {"unavailable", "no_evidence"}, Conclude(m, o),
         UNCHANGED <<others, stored>>
  PROVE  Shapes' /\ Good(m)'
<1>1. /\ pc'[m] = "ground" /\ held'[m].outcome = o
      /\ held'[m].tool = held[m].tool /\ held'[m].next = {}
      /\ held'[m].reading = {} /\ held'[m].unchecked = {}
  BY ConcludeFacts DEF Outcomes, Reasons
<1>2. Shapes' /\ past' = past /\ since' = since
  BY Kept DEF stored
<1>3. Answering(m)' /\ Branching(m)'
  BY <1>1 DEF Good, Answering, Branching, DocumentStages, ToolStages, Stages, Retrieving,
     stored
<1>4. Recording(m)' /\ Reading(m)'
  BY <1>1, <1>2 DEF Good, Recording, Retrieving, Reading, Quoted, Readable, Said, stored
<1>5. Calling(m)'
  BY <1>1, <1>2 DEF Good, Calling, Allowed, stored
<1>6. Concluded(m)'
  BY <1>1 DEF Good, Branching, Concluded, DocumentStages, Retrieving, stored
<1> QED BY <1>2, <1>3, <1>4, <1>5, <1>6 DEF Good

(* A candidate that is found in both tables changes nothing but what is    *)
(* still to be checked.                                                    *)
LEMMA CheckGood ==
  ASSUME TypeOK, Shapes, NEW m \in Messages, Good(m),
         CheckCandidate(m) \/ CheckRest(m) \/ RetrievalFails(m)
  PROVE  TypeOK' /\ Shapes' /\ Good(m)'
<1>0. /\ UNCHANGED <<others, stored, aborts>> /\ pc[m] \in Retrieving
      /\ errors' \in Nat /\ held[m] \in Held
  BY DEF CheckCandidate, CheckRest, RetrievalFails, Retrieving, faults, TypeOK
<1>1. CASE Conclude(m, "unavailable")
  <2>1. Shapes' /\ Good(m)'
    BY <1>0, <1>1, RefusalGood DEF stored
  <2>2. pc' \in [Messages -> Places] /\ held' \in [Messages -> Held]
    BY <1>1, ConcludeFacts DEF Outcomes, Reasons
  <2> QED BY <1>0, <2>1, <2>2 DEF TypeOK, others, stored, Places
<1>2. ASSUME NEW unchecked \in SUBSET held[m].unchecked,
             NEW reading \in SUBSET (held[m].unchecked \cup held[m].reading),
             NEW l \in {"check", "check_chunks", "check_documents", "record"},
             pc[m] \in {"check", "check_chunks", "check_documents"}, Goto(m, l),
             held' = [held EXCEPT ![m] =
                        [held[m] EXCEPT !.unchecked = unchecked, !.reading = reading]]
      PROVE  TypeOK' /\ Shapes' /\ Good(m)'
  <2> DEFINE new == [held[m] EXCEPT !.unchecked = unchecked, !.reading = reading]
  <2>1. /\ new \in Held /\ new.unchecked = unchecked /\ new.reading = reading
        /\ new.found = held[m].found /\ new.next = held[m].next
        /\ new.tool = held[m].tool /\ new.outcome = held[m].outcome
    BY <1>0, <1>2 DEF Held
  <2>2. held' = [held EXCEPT ![m] = new]
    BY <1>2
  <2> HIDE DEF new
  <2>3. held' \in [Messages -> Held] /\ held'[m] = new
    BY <2>1, <2>2 DEF TypeOK
  <2>4. pc' \in [Messages -> Places] /\ pc'[m] = l
    BY <1>2, GotoTypes DEF Places, Stages, Retrieving
  <2>5. Shapes' /\ past' = past /\ since' = since
    BY <1>0, Kept DEF stored
  <2>6. TypeOK'
    BY <1>0, <2>3, <2>4 DEF TypeOK, others, stored, Places
  <2>7. Answering(m)' /\ Branching(m)' /\ Concluded(m)'
    BY <1>0, <1>2, <2>4 DEF Good, Answering, Branching, Concluded, DocumentStages,
       ToolStages, Ending, stored, Stages, Retrieving
  <2>8. Recording(m)'
    BY <1>0, <1>2, <2>1, <2>3, <2>4 DEF Good, Recording, Retrieving, stored
  <2>9. \A d \in new.unchecked \cup new.next \cup new.reading : Readable(m, d)'
    BY <1>2, <2>1, <2>5 DEF Good, Reading, Readable
  <2>10. Reading(m)'
    BY <1>0, <1>2, <2>3, <2>4, <2>5, <2>9 DEF Good, Reading, Quoted, Readable, Said, stored
  <2>11. Calling(m)'
    BY <1>0, <1>2, <2>1, <2>3, <2>4, <2>5 DEF Good, Calling, Allowed, stored
  <2> QED BY <2>5, <2>6, <2>7, <2>8, <2>10, <2>11 DEF Good
<1>3. CASE CheckCandidate(m) /\ ~Conclude(m, "unavailable")
  <2>1. PICK d \in held[m].unchecked, l \in {"check_chunks", "check_documents"} :
          /\ Goto(m, l)
          /\ held' = [held EXCEPT ![m].unchecked = @ \ {d}, ![m].reading = {d}]
    BY <1>3 DEF CheckCandidate
  <2>2. held' = [held EXCEPT ![m] = [held[m] EXCEPT !.unchecked = held[m].unchecked \ {d},
                                                    !.reading = {d}]]
    BY <1>0, <2>1 DEF TypeOK
  <2>3. /\ held[m].unchecked \ {d} \in SUBSET held[m].unchecked
        /\ {d} \in SUBSET (held[m].unchecked \cup held[m].reading)
        /\ l \in {"check", "check_chunks", "check_documents", "record"}
        /\ pc[m] \in {"check", "check_chunks", "check_documents"}
    BY <1>3, <2>1 DEF CheckCandidate
  <2> QED BY ONLY <1>2, <2>1, <2>2, <2>3
<1>4. CASE CheckRest(m) /\ ~Conclude(m, "unavailable")
  <2>1. PICK l \in {"check", "record"} :
          Goto(m, l) /\ held' = [held EXCEPT ![m].reading = {}]
    BY <1>4 DEF CheckRest
  <2>2. held' = [held EXCEPT ![m] = [held[m] EXCEPT !.unchecked = held[m].unchecked,
                                                    !.reading = {}]]
    BY <1>0, <2>1 DEF TypeOK, Held
  <2> QED BY <1>2, <1>4, <2>1, <2>2 DEF CheckRest
<1> QED BY <1>1, <1>3, <1>4 DEF RetrievalFails

LEMMA RecordRunGood ==
  ASSUME TypeOK, Shapes, NEW m \in Messages, Good(m), RecordRun(m)
  PROVE  TypeOK' /\ Shapes' /\ Good(m)'
<1> DEFINE new == [run[m] EXCEPT !.stored = TRUE]
<1>0. /\ UNCHANGED <<others, answer, evidence, toolCall, grounding, decision, review,
                     held, faults>>
      /\ pc[m] = "record" /\ run[m] \in Runs /\ Goto(m, "candidates")
      /\ run' = [run EXCEPT ![m] = new]
  BY DEF RecordRun, TypeOK
<1>1. new \in Runs /\ new.stored /\ new.selected = run[m].selected
  BY <1>0 DEF Runs
<1> HIDE DEF new
<1>2. run' \in [Messages -> Runs] /\ run'[m] = new
  BY <1>0, <1>1 DEF TypeOK
<1>3. pc' \in [Messages -> Places] /\ pc'[m] = "candidates"
  BY <1>0, GotoTypes DEF Places, Stages, Retrieving
<1>4. Shapes' /\ past' = past /\ since' = since
  BY <1>0, Kept
<1>5. TypeOK'
  BY <1>0, <1>2, <1>3 DEF TypeOK, others, faults, Places
<1>6. Answering(m)' /\ Branching(m)' /\ Concluded(m)'
  BY <1>0, <1>3 DEF Good, Answering, Branching, Concluded, DocumentStages,
     ToolStages, Ending, Stages, Retrieving
<1>7. Recording(m)'
  BY <1>0, <1>1, <1>2, <1>3 DEF Good, Recording, Retrieving
<1>8. Reading(m)' /\ Calling(m)'
  BY <1>0, <1>3, <1>4 DEF Good, Reading, Quoted, Readable, Said, Calling, Allowed
<1> QED BY <1>4, <1>5, <1>6, <1>7, <1>8 DEF Good

LEMMA CandidateGood ==
  ASSUME TypeOK, Shapes, NEW m \in Messages, Good(m), RecordCandidate(m)
  PROVE  TypeOK' /\ Shapes' /\ Good(m)'
<1>0. /\ UNCHANGED <<others, answer, evidence, toolCall, grounding, decision, review,
                     pc, faults>>
      /\ pc[m] = "candidates" /\ run[m] \in Runs /\ held[m] \in Held
  BY DEF RecordCandidate, TypeOK
<1>1. PICK d \in held[m].found :
        /\ run' = [run EXCEPT ![m].selected = @ \cup ({d} \cap held[m].next)]
        /\ held' = [held EXCEPT ![m].found = @ \ {d}]
  BY DEF RecordCandidate
<1> DEFINE now == [run[m] EXCEPT !.selected = run[m].selected \cup ({d} \cap held[m].next)]
           new == [held[m] EXCEPT !.found = held[m].found \ {d}]
<1>2. run' = [run EXCEPT ![m] = now] /\ held' = [held EXCEPT ![m] = new]
  BY <1>0, <1>1 DEF TypeOK
<1>3. /\ now \in Runs /\ now.stored = run[m].stored
      /\ now.selected = run[m].selected \cup ({d} \cap held[m].next)
  BY <1>0, <1>1 DEF Runs, Held
<1>4. /\ new \in Held /\ new.found = held[m].found \ {d}
      /\ new.unchecked = held[m].unchecked /\ new.next = held[m].next
      /\ new.reading = held[m].reading /\ new.tool = held[m].tool
      /\ new.outcome = held[m].outcome
  BY <1>0 DEF Held
<1> HIDE DEF now, new
<1>5. /\ run' \in [Messages -> Runs] /\ run'[m] = now
      /\ held' \in [Messages -> Held] /\ held'[m] = new
  BY <1>2, <1>3, <1>4 DEF TypeOK
<1>6. Shapes' /\ past' = past /\ since' = since
  BY <1>0, Kept
<1>7. TypeOK'
  BY <1>0, <1>5 DEF TypeOK, others, faults
<1>8. Answering(m)' /\ Branching(m)' /\ Concluded(m)'
  BY <1>0 DEF Good, Answering, Branching, Concluded, DocumentStages,
     ToolStages, Ending, Stages, Retrieving
<1>9. Recording(m)'
  <2>1. run[m].selected = held[m].next \ held[m].found /\ run[m].stored
    BY <1>0 DEF Good, Recording, Retrieving
  <2>2. now.selected = new.next \ new.found
    BY <1>1, <1>3, <1>4, <2>1
  <2> QED BY <1>0, <1>3, <1>5, <2>1, <2>2 DEF Recording, Retrieving
<1>10. Reading(m)' /\ Calling(m)'
  BY <1>0, <1>4, <1>5, <1>6 DEF Good, Reading, Quoted, Readable, Said, Calling, Allowed
<1> QED BY <1>6, <1>7, <1>8, <1>9, <1>10 DEF Good

LEMMA AuditGood ==
  ASSUME TypeOK, Shapes, NEW m \in Messages, Good(m), AuditRun(m)
  PROVE  TypeOK' /\ Shapes' /\ Good(m)'
<1>0. /\ UNCHANGED <<others, stored, faults>> /\ pc[m] = "candidates"
      /\ held[m].found = {} /\ pc[m] \in Retrieving
  BY DEF AuditRun, Retrieving
<1>1. CASE Conclude(m, "no_evidence")
  <2>1. Shapes' /\ Good(m)'
    BY <1>0, <1>1, RefusalGood
  <2>2. pc' \in [Messages -> Places] /\ held' \in [Messages -> Held]
    BY <1>1, ConcludeFacts DEF Outcomes, Reasons
  <2> QED BY <1>0, <2>1, <2>2 DEF TypeOK, others, stored, faults, Places
<1>2. CASE held[m].next # {} /\ Goto(m, "read") /\ UNCHANGED held
  <2>1. pc' \in [Messages -> Places] /\ pc'[m] = "read"
    BY <1>2, GotoTypes DEF Places, Stages
  <2>2. Shapes' /\ past' = past /\ since' = since
    BY <1>0, Kept DEF stored
  <2>3. TypeOK'
    BY <1>0, <1>2, <2>1 DEF TypeOK, others, stored, faults, Places
  <2>4. Answering(m)' /\ Branching(m)' /\ Concluded(m)'
    BY <1>0, <1>2, <2>1 DEF Good, Answering, Branching, Concluded, DocumentStages,
       ToolStages, Ending, Stages, Retrieving, stored
  <2>5. Recording(m)' /\ Calling(m)'
    BY <1>0, <1>2, <2>1, <2>2 DEF Good, Recording, Retrieving, Calling, Allowed, stored
  <2>6. Reading(m)'
    <3>1. evidence[m] = {} /\ Quoted(m) = {} /\ Quoted(m)' = {} /\ evidence'[m] = {}
      BY <1>0 DEF Good, Branching, Quoted, stored
    <3>2. run'[m].selected = {} \cup held'[m].next
      BY <1>0, <1>2 DEF Good, Recording, Retrieving, stored
    <3>3. \A d \in held'[m].unchecked \cup held'[m].next \cup held'[m].reading :
            Readable(m, d)'
      BY <1>2, <2>2 DEF Good, Reading, Readable
    <3>4. IsFiniteSet({})
      BY FS_EmptySet
    <3> QED BY <1>2, <2>1, <3>1, <3>2, <3>3, <3>4 DEF Reading
  <2> QED BY <2>2, <2>3, <2>4, <2>5, <2>6 DEF Good
<1> QED BY <1>1, <1>2 DEF AuditRun

(* A read that misses a row ends the handler. *)
LEMMA MissGood ==
  ASSUME TypeOK, Shapes, NEW m \in Messages, Good(m), End(m, "failed"),
         ReadDocument(m) \/ ReadRest(m)
  PROVE  TypeOK' /\ Shapes' /\ Good(m)'
<1>0. UNCHANGED <<others, stored, faults>> /\ pc[m] \in Stages
  BY DEF ReadDocument, ReadRest, Stages
<1>1. pc' \in [Messages -> Places] /\ held' \in [Messages -> Held]
  BY EndFacts DEF Places
<1>2. TypeOK'
  BY <1>0, <1>1 DEF TypeOK, others, stored, faults, Places
<1> QED BY <1>0, <1>2, EndGood

LEMMA ReadGood ==
  ASSUME TypeOK, Shapes, NEW m \in Messages, Good(m), ReadDocument(m)
  PROVE  TypeOK' /\ Shapes' /\ Good(m)'
<1>0. /\ UNCHANGED <<others, stored, faults>> /\ pc[m] = "read" /\ held[m] \in Held
      /\ BranchOf[m] = "documents" /\ held[m].next \in SUBSET Documents
  BY DEF ReadDocument, TypeOK, Good, Branching, DocumentStages, Retrieving, Held
<1>1. Shapes' /\ past' = past /\ since' = since
  BY <1>0, Kept DEF stored
<1>2. ASSUME NEW d \in held[m].next, NEW x \in Texts,
             NEW l \in {"read_chunks", "read_documents"}, Goto(m, l),
             l = "read_documents" => Said(m, d, x),
             held' = [held EXCEPT ![m] = [held[m] EXCEPT
                        !.next = held[m].next \ {d}, !.reading = {d}, !.text = x]]
      PROVE  TypeOK' /\ Good(m)'
  <2> DEFINE new == [held[m] EXCEPT !.next = held[m].next \ {d}, !.reading = {d},
                                    !.text = x]
  <2>1. d \in Documents
    BY <1>0
  <2>2. /\ new \in Held /\ new.next = held[m].next \ {d} /\ new.reading = {d}
        /\ new.text = x /\ new.tool = held[m].tool /\ new.outcome = held[m].outcome
        /\ new.unchecked = held[m].unchecked
    BY <1>0, <2>1 DEF Held
  <2>3. held' = [held EXCEPT ![m] = new]
    BY <1>2
  <2> HIDE DEF new
  <2>5. held' \in [Messages -> Held] /\ held'[m] = new
    BY <2>2, <2>3 DEF TypeOK
  <2>6. pc' \in [Messages -> Places] /\ pc'[m] = l
    BY <1>2, GotoTypes DEF Places, Stages
  <2>7. TypeOK'
    BY <1>0, <2>5, <2>6 DEF TypeOK, others, stored, faults, Places
  <2>8. Answering(m)' /\ Branching(m)' /\ Concluded(m)'
    BY <1>0, <1>2, <2>6 DEF Good, Answering, Branching, Concluded, DocumentStages,
       ToolStages, Ending, Stages, Retrieving, stored
  <2>9. Recording(m)' /\ Calling(m)'
    BY <1>0, <1>1, <1>2, <2>2, <2>5, <2>6 DEF Good, Recording, Retrieving, Calling,
       Allowed, stored
  <2>10. Reading(m)'
    <3>1. Quoted(m)' = Quoted(m)
      BY <1>0 DEF Quoted, stored
    <3>2. \A c \in new.unchecked \cup new.next \cup new.reading : Readable(m, c)'
      BY <1>1, <2>2 DEF Good, Reading, Readable
    <3>3. l = "read_documents" =>
            \A c \in new.reading : \E r \in since'[m][c] : r.enabled /\ r.text = new.text
      BY <1>1, <1>2, <2>2 DEF Said
    <3>4. /\ \A e \in evidence'[m] : Readable(m, e.document)' /\ Said(m, e.document, e.text)'
          /\ IsFiniteSet(evidence'[m]) /\ IsFiniteSet(Quoted(m)')
          /\ Cardinality(evidence'[m]) = Cardinality(Quoted(m)')
      BY <1>0, <1>1, <3>1 DEF Good, Reading, Readable, Said, stored
    <3>5. /\ new.reading = {d} /\ d \notin Quoted(m)' \cup new.next
          /\ run'[m].selected = Quoted(m)' \cup new.next \cup {d}
          /\ Quoted(m)' \cap new.next = {}
      <4>1. /\ run[m].selected = Quoted(m) \cup held[m].next
            /\ Quoted(m) \cap held[m].next = {}
        BY <1>0 DEF Good, Reading
      <4>2. run'[m] = run[m] /\ d \in held[m].next
        BY <1>0, <1>2 DEF stored
      <4> QED BY ONLY <2>2, <3>1, <4>1, <4>2
    <3>6. \E c \in Documents :
            /\ new.reading = {c} /\ c \notin Quoted(m)' \cup new.next
            /\ run'[m].selected = Quoted(m)' \cup new.next \cup {c}
            /\ Quoted(m)' \cap new.next = {}
      BY <2>1, <3>5
    <3> QED BY ONLY l \in {"read_chunks", "read_documents"}, <2>5, <2>6, <3>2, <3>3,
         <3>4, <3>6 DEF Reading, Said
  <2> QED BY <2>7, <2>8, <2>9, <2>10 DEF Good
<1>3. CASE ~End(m, "failed")
  <2>1. PICK d \in held[m].next :
          \/ /\ held' = [held EXCEPT ![m].next = @ \ {d}, ![m].reading = {d}]
             /\ Goto(m, "read_chunks")
          \/ /\ documents[d].enabled /\ Goto(m, "read_documents")
             /\ held' = [held EXCEPT ![m].next = @ \ {d}, ![m].reading = {d},
                                     ![m].text = documents[d].text]
    BY <1>3 DEF ReadDocument
  <2>2. /\ d \in Documents /\ documents[d] \in since[m][d]
        /\ documents[d].text \in Texts /\ held[m].text \in Texts
    BY <1>0, <2>1 DEF TypeOK, DocumentRows, Held
  <2>3. CASE /\ held' = [held EXCEPT ![m].next = @ \ {d}, ![m].reading = {d}]
             /\ Goto(m, "read_chunks")
    <3>1. held' = [held EXCEPT ![m] = [held[m] EXCEPT
                     !.next = held[m].next \ {d}, !.reading = {d}, !.text = held[m].text]]
      BY <1>0, <2>3 DEF TypeOK, Held
    <3> QED BY <1>1, <1>2, <2>2, <2>3, <3>1
  <2>4. CASE /\ documents[d].enabled /\ Goto(m, "read_documents")
             /\ held' = [held EXCEPT ![m].next = @ \ {d}, ![m].reading = {d},
                                     ![m].text = documents[d].text]
    <3>1. held' = [held EXCEPT ![m] = [held[m] EXCEPT
            !.next = held[m].next \ {d}, !.reading = {d}, !.text = documents[d].text]]
      BY <1>0, <2>4 DEF TypeOK
    <3>2. Said(m, d, documents[d].text)
      BY <2>2, <2>4 DEF Said
    <3> QED BY <1>1, <1>2, <2>2, <2>4, <3>1, <3>2
  <2> QED BY <2>1, <2>3, <2>4
<1> QED BY <1>3, MissGood

LEMMA RestGood ==
  ASSUME TypeOK, Shapes, NEW m \in Messages, Good(m), ReadRest(m)
  PROVE  TypeOK' /\ Shapes' /\ Good(m)'
<1>0. /\ UNCHANGED <<others, stored, faults>> /\ held[m] \in Held
      /\ pc[m] \in {"read_documents", "read_chunks"} /\ BranchOf[m] = "documents"
  BY DEF ReadRest, TypeOK, Good, Branching, DocumentStages, Retrieving
<1>1. CASE End(m, "failed")
  BY <1>1, MissGood
<1>2. CASE ~End(m, "failed")
  <2>1. PICK d \in Documents :
          /\ held[m].reading = {d} /\ d \notin Quoted(m) \cup held[m].next
          /\ run[m].selected = Quoted(m) \cup held[m].next \cup {d}
          /\ Quoted(m) \cap held[m].next = {}
    BY <1>0 DEF Good, Reading
  <2>2. /\ ~Missing(m, d) /\ Goto(m, "attach")
        /\ held' = IF pc[m] = "read_documents" THEN held
                   ELSE [held EXCEPT ![m].text = documents[d].text]
    BY <1>2, <2>1 DEF ReadRest
  <2> DEFINE x == IF pc[m] = "read_documents" THEN held[m].text ELSE documents[d].text
             new == [held[m] EXCEPT !.text = x]
  <2>3. /\ documents[d] \in since[m][d] /\ documents[d].text \in Texts
        /\ held[m].text \in Texts
    BY <1>0, <2>1 DEF TypeOK, DocumentRows, Held
  <2>4. Said(m, d, x)
    <3>1. CASE pc[m] = "read_documents"
      BY <2>1, <3>1 DEF Good, Reading
    <3>2. CASE pc[m] # "read_documents"
      BY <1>0, <2>2, <2>3, <3>2 DEF Missing, Said
    <3> QED BY <3>1, <3>2
  <2>5. held' = [held EXCEPT ![m] = new]
    BY <1>0, <2>2 DEF TypeOK, Held
  <2>6. /\ new \in Held /\ new.text = x /\ new.next = held[m].next
        /\ new.reading = held[m].reading /\ new.unchecked = held[m].unchecked
        /\ new.tool = held[m].tool /\ new.outcome = held[m].outcome
    BY <1>0, <2>3 DEF Held
  <2> HIDE DEF x, new
  <2>7. held' \in [Messages -> Held] /\ held'[m] = new
    BY <2>5, <2>6 DEF TypeOK
  <2>8. pc' \in [Messages -> Places] /\ pc'[m] = "attach"
    BY <2>2, GotoTypes DEF Places, Stages
  <2>9. Shapes' /\ past' = past /\ since' = since
    BY <1>0, Kept DEF stored
  <2>10. TypeOK'
    BY <1>0, <2>7, <2>8 DEF TypeOK, others, stored, faults, Places
  <2>11. Answering(m)' /\ Branching(m)' /\ Concluded(m)'
    BY <1>0, <2>8 DEF Good, Answering, Branching, Concluded, DocumentStages,
       ToolStages, Ending, Stages, Retrieving, stored
  <2>12. Recording(m)' /\ Calling(m)'
    BY <1>0, <2>6, <2>7, <2>8, <2>9 DEF Good, Recording, Retrieving, Calling, Allowed,
       stored
  <2>13. Reading(m)'
    <3>1. Quoted(m)' = Quoted(m) /\ run'[m] = run[m]
      BY <1>0 DEF Quoted, stored
    <3>2. \A c \in new.unchecked \cup new.next \cup new.reading : Readable(m, c)'
      BY <2>6, <2>9 DEF Good, Reading, Readable
    <3>3. \A c \in new.reading : \E r \in since'[m][c] : r.enabled /\ r.text = new.text
      BY <2>1, <2>4, <2>6, <2>9 DEF Said
    <3>4. /\ \A e \in evidence'[m] : Readable(m, e.document)' /\ Said(m, e.document, e.text)'
          /\ IsFiniteSet(evidence'[m]) /\ IsFiniteSet(Quoted(m)')
          /\ Cardinality(evidence'[m]) = Cardinality(Quoted(m)')
      BY <1>0, <2>9, <3>1 DEF Good, Reading, Readable, Said, stored
    <3>5. \E c \in Documents :
            /\ new.reading = {c} /\ c \notin Quoted(m)' \cup new.next
            /\ run'[m].selected = Quoted(m)' \cup new.next \cup {c}
            /\ Quoted(m)' \cap new.next = {}
      BY <2>1, <2>6, <3>1
    <3> QED BY ONLY <2>7, <2>8, <3>2, <3>3, <3>4, <3>5 DEF Reading, Said
  <2> QED BY <2>9, <2>10, <2>11, <2>12, <2>13 DEF Good
<1> QED BY <1>1, <1>2

(* A document is attached that was not: both counts grow by one.           *)
LEMMA OneMore ==
  ASSUME NEW m \in Messages, NEW d, NEW x, d \notin Quoted(m),
         IsFiniteSet(evidence[m]), IsFiniteSet(Quoted(m)),
         Cardinality(evidence[m]) = Cardinality(Quoted(m)),
         evidence'[m] = evidence[m] \cup {[document |-> d, text |-> x]}
  PROVE  /\ Quoted(m)' = Quoted(m) \cup {d}
         /\ IsFiniteSet(evidence'[m]) /\ IsFiniteSet(Quoted(m)')
         /\ Cardinality(evidence'[m]) = Cardinality(Quoted(m)')
<1> DEFINE e == [document |-> d, text |-> x]
<1>0. e.document = d /\ evidence'[m] = evidence[m] \cup {e}
  OBVIOUS
<1> HIDE DEF e
<1>1. Quoted(m)' = Quoted(m) \cup {d}
  BY <1>0 DEF Quoted
<1>2. e \notin evidence[m]
  BY <1>0 DEF Quoted
<1>3. /\ IsFiniteSet(evidence[m] \cup {e}) /\ IsFiniteSet(Quoted(m) \cup {d})
      /\ Cardinality(evidence[m] \cup {e}) = Cardinality(evidence[m]) + 1
      /\ Cardinality(Quoted(m) \cup {d}) = Cardinality(Quoted(m)) + 1
  BY <1>2, FS_AddElement
<1> QED BY <1>0, <1>1, <1>3

LEMMA AttachGood ==
  ASSUME TypeOK, Shapes, NEW m \in Messages, Good(m), AttachDocument(m)
  PROVE  TypeOK' /\ Shapes' /\ Good(m)'
<1> DEFINE x == held[m].text
           l == IF held[m].next = {} THEN "mark" ELSE "read"
           new == [held[m] EXCEPT !.reading = {}]
<1>0. /\ UNCHANGED <<others, answer, run, toolCall, grounding, decision, review, faults>>
      /\ pc[m] = "attach" /\ Goto(m, l) /\ l \in Places /\ held[m] \in Held
      /\ BranchOf[m] = "documents" /\ x \in Texts
      /\ held' = [held EXCEPT ![m] = new]
  BY DEF AttachDocument, TypeOK, Good, Branching, DocumentStages, Retrieving, Held, Places, Stages
<1>1. PICK d \in Documents :
        /\ held[m].reading = {d} /\ d \notin Quoted(m) \cup held[m].next
        /\ run[m].selected = Quoted(m) \cup held[m].next \cup {d}
        /\ Quoted(m) \cap held[m].next = {}
  BY <1>0 DEF Good, Reading
<1> DEFINE e == [document |-> d, text |-> x]
<1>2. evidence' = [evidence EXCEPT ![m] = evidence[m] \cup {e}]
  BY <1>1 DEF AttachDocument
<1>3. evidence'[m] = evidence[m] \cup {e} /\ e \in DocumentEvidence
  BY <1>0, <1>2 DEF Shapes, DocumentEvidence
<1>4. evidence' \in [Messages -> SUBSET (DocumentEvidence \cup RecordEvidence)]
  BY <1>2, <1>3 DEF Shapes
<1>5. past' = past /\ since' = since /\ Shapes'
  BY <1>0, <1>4 DEF others, Shapes
<1>6. /\ Quoted(m)' = Quoted(m) \cup {d}
      /\ IsFiniteSet(evidence'[m]) /\ IsFiniteSet(Quoted(m)')
      /\ Cardinality(evidence'[m]) = Cardinality(Quoted(m)')
  <2>1. /\ IsFiniteSet(evidence[m]) /\ IsFiniteSet(Quoted(m))
        /\ Cardinality(evidence[m]) = Cardinality(Quoted(m))
    BY <1>0 DEF Good, Reading
  <2> QED BY <1>1, <1>3, <2>1, OneMore
<1>7. pc' \in [Messages -> Places] /\ pc'[m] = l
  BY <1>0, GotoTypes
<1>8. /\ new \in Held /\ new.next = held[m].next /\ new.reading = {}
      /\ new.unchecked = held[m].unchecked /\ new.tool = held[m].tool
      /\ new.outcome = held[m].outcome
  BY <1>0 DEF Held
<1> HIDE DEF new
<1>9. held' \in [Messages -> Held] /\ held'[m] = new
  BY <1>0, <1>8 DEF TypeOK
<1>10. TypeOK'
  <2>1. ASSUME NEW n \in Messages
        PROVE  evidence'[n] \subseteq IF BranchOf[n] = "documents" THEN DocumentEvidence
                                      ELSE RecordEvidence
    <3>1. evidence[n] \subseteq IF BranchOf[n] = "documents" THEN DocumentEvidence
                                ELSE RecordEvidence
      BY DEF TypeOK
    <3>2. n # m => evidence'[n] = evidence[n]
      BY <1>2 DEF Shapes
    <3> QED BY <1>0, <1>3, <3>1, <3>2
  <2> QED BY <1>0, <1>7, <1>9, <2>1 DEF TypeOK, others, faults, Places
<1>11. l \in {"mark", "read"}
  OBVIOUS
<1>12. Answering(m)' /\ Branching(m)' /\ Concluded(m)'
  BY <1>0, <1>7, <1>11 DEF Good, Answering, Branching, Concluded, DocumentStages,
     ToolStages, Ending, Stages, Retrieving
<1>13. Recording(m)' /\ Calling(m)'
  BY <1>0, <1>5, <1>7, <1>8, <1>9, <1>11 DEF Good, Recording, Retrieving, Calling, Allowed
<1>14. Reading(m)'
  <2>1. \A c \in new.unchecked \cup new.next \cup new.reading : Readable(m, c)'
    BY <1>0, <1>5, <1>8 DEF Good, Reading, Readable
  <2>2. \A f \in evidence'[m] : Readable(m, f.document)' /\ Said(m, f.document, f.text)'
    <3>1. \A f \in evidence[m] : Readable(m, f.document) /\ Said(m, f.document, f.text)
      BY <1>0 DEF Good, Reading
    <3>2. Readable(m, e.document) /\ Said(m, e.document, e.text)
      BY <1>0, <1>1 DEF Good, Reading
    <3> HIDE DEF e
    <3> QED BY <1>3, <1>5, <3>1, <3>2 DEF Readable, Said
  <2>3. l = "mark" => run'[m].selected = Quoted(m)' /\ evidence'[m] # {}
    BY <1>0, <1>1, <1>3, <1>6
  <2>4. l = "read" =>
          /\ run'[m].selected = Quoted(m)' \cup new.next
          /\ Quoted(m)' \cap new.next = {} /\ new.next # {}
    BY <1>0, <1>1, <1>6, <1>8
  <2> HIDE DEF l
  <2> QED BY ONLY <1>6, <1>7, <1>9, <1>11, <2>1, <2>2, <2>3, <2>4 DEF Reading
<1> QED BY <1>5, <1>10, <1>12, <1>13, <1>14 DEF Good

LEMMA MarkGood ==
  ASSUME TypeOK, Shapes, NEW m \in Messages, Good(m), MarkEvidence(m)
  PROVE  TypeOK' /\ Shapes' /\ Good(m)'
<1>0. /\ UNCHANGED <<others, answer, evidence, toolCall, grounding, decision, review,
                     faults>>
      /\ pc[m] = "mark" /\ run[m] \in Runs /\ held[m] \in Held
      /\ evidence[m] # {} /\ Conclude(m, "answered") /\ BranchOf[m] = "documents"
      /\ run' = [run EXCEPT ![m].marked = Quoted(m)]
      /\ run[m].selected = Quoted(m) /\ run[m].stored
  BY DEF MarkEvidence, TypeOK, Good, Recording, Reading, Branching, DocumentStages, Retrieving, Quoted
<1>1. Quoted(m) \in SUBSET Documents
  BY <1>0 DEF TypeOK, DocumentEvidence, Quoted
<1> DEFINE now == [stored |-> TRUE, selected |-> Quoted(m), marked |-> Quoted(m)]
<1>2. run' = [run EXCEPT ![m] = now]
  <2>1. run[m].stored = TRUE
    BY <1>0 DEF Runs
  <2>2. run[m] = [stored |-> TRUE, selected |-> Quoted(m), marked |-> run[m].marked]
    BY <1>0, <2>1 DEF Runs
  <2>3. run' = [run EXCEPT ![m] = [run[m] EXCEPT !.marked = Quoted(m)]]
    BY <1>0 DEF TypeOK
  <2>4. ASSUME NEW b, NEW S, NEW x
        PROVE  [[stored |-> b, selected |-> S, marked |-> x] EXCEPT !.marked = S]
                 = [stored |-> b, selected |-> S, marked |-> S]
    OBVIOUS
  <2>5. [run[m] EXCEPT !.marked = Quoted(m)] = now
    BY <2>2, <2>4
  <2> QED BY <2>3, <2>5
<1>3. now \in Runs
  BY <1>1 DEF Runs
<1> HIDE DEF now
<1>4. run' \in [Messages -> Runs] /\ run'[m] = now
  BY <1>0, <1>2, <1>3 DEF TypeOK
<1>5. /\ pc' \in [Messages -> Places] /\ held' \in [Messages -> Held]
      /\ pc'[m] = "ground" /\ held'[m].outcome = "answered"
      /\ held'[m].tool = held[m].tool /\ held'[m].next = {}
      /\ held'[m].reading = {} /\ held'[m].unchecked = {}
  BY <1>0, ConcludeFacts DEF Outcomes
<1>6. Shapes' /\ past' = past /\ since' = since
  BY <1>0, Kept
<1>7. TypeOK'
  BY <1>0, <1>4, <1>5 DEF TypeOK, others, faults, Places
<1>8. Answering(m)' /\ Branching(m)'
  BY <1>0, <1>5 DEF Good, Answering, Branching, DocumentStages, ToolStages, Stages,
     Retrieving
<1>9. Recording(m)' /\ Reading(m)' /\ Calling(m)'
  BY <1>0, <1>5, <1>6 DEF Good, Recording, Retrieving, Reading, Calling, Allowed, Quoted,
     Readable, Said
<1>10. Concluded(m)'
  <2>1. toolCall[m].state = "none"
    BY <1>0 DEF Good, Branching, DocumentStages, Retrieving
  <2>2. FromEvidence(m)'
    BY <1>0, <1>4 DEF FromEvidence, Quoted, now
  <2> QED BY <1>0, <1>5, <2>1, <2>2 DEF Concluded
<1> QED BY <1>6, <1>7, <1>8, <1>9, <1>10 DEF Good

LEMMA ResolveGood ==
  ASSUME TypeOK, Shapes, NEW m \in Messages, Good(m), ResolveTool(m)
  PROVE  TypeOK' /\ Shapes' /\ Good(m)'
<1> DEFINE l == IF tool.active THEN "policy" ELSE "block"
<1>0. /\ UNCHANGED <<others, stored, faults>> /\ pc[m] = "resolve" /\ Goto(m, l)
      /\ l \in Places /\ held[m] \in Held /\ tool \in ToolRows /\ tool \in past.tools
      /\ held' = [held EXCEPT ![m].tool = tool]
  BY DEF ResolveTool, TypeOK, Shapes, Places, Stages
<1>1. held' = [held EXCEPT ![m] = [held[m] EXCEPT !.tool = tool]]
  BY <1>0 DEF TypeOK
<1>2. [held[m] EXCEPT !.tool = tool] \in Held
  BY <1>0 DEF Held
<1>3. /\ held' \in [Messages -> Held] /\ held'[m].tool = tool
      /\ held'[m].next = held[m].next /\ held'[m].reading = held[m].reading
      /\ held'[m].unchecked = held[m].unchecked
      /\ held'[m].outcome = held[m].outcome
  <2>1. held' \in [Messages -> Held]
    BY <1>1, <1>2 DEF TypeOK
  <2>2. held'[m] = [held[m] EXCEPT !.tool = tool]
    BY <1>1 DEF TypeOK
  <2> QED BY <1>0, <2>1, <2>2 DEF Held
<1>4. /\ pc' \in [Messages -> Places] /\ pc'[m] \in {"policy", "block"}
      /\ pc'[m] = "policy" => tool.active
  BY <1>0, GotoTypes
<1>5. Shapes' /\ past' = past /\ since' = since
  BY <1>0, Kept DEF stored
<1>6. TypeOK'
  BY <1>0, <1>3, <1>4 DEF TypeOK, others, stored, faults, Places
<1>7. Answering(m)' /\ Branching(m)' /\ Concluded(m)'
  BY <1>0, <1>3, <1>4 DEF Good, Answering, Branching, Concluded, DocumentStages, Retrieving,
     ToolStages, Ending, Stages, stored
<1>8. Recording(m)' /\ Reading(m)'
  BY <1>0, <1>3, <1>4, <1>5 DEF Good, Recording, Retrieving, Reading, Quoted, Readable, Said, stored
<1>9. Calling(m)'
  BY <1>0, <1>3, <1>4, <1>5 DEF Good, Calling, Allowed, stored
<1> QED BY <1>5, <1>6, <1>7, <1>8, <1>9 DEF Good

LEMMA PolicyGood ==
  ASSUME TypeOK, Shapes, NEW m \in Messages, Good(m), CheckPolicy(m)
  PROVE  TypeOK' /\ Shapes' /\ Good(m)'
<1> DEFINE t == held[m].tool
           p == policy[CustomerOfMessage(m)]
           l == IF Permitted(m, t, p) THEN "start" ELSE "block"
<1>0. /\ UNCHANGED <<others, stored, held, faults>> /\ pc[m] = "policy" /\ Goto(m, l)
      /\ l \in Places
  BY DEF CheckPolicy, Places, Stages
<1>1. t \in past.tools /\ t.active /\ p \in past.policies[CustomerOfMessage(m)]
  BY <1>0, Shown DEF Good, Calling, Shapes
<1>2. Permitted(m, t, p) => Allowed(m)
  BY <1>1 DEF Permitted, Allowed
<1>3. /\ pc' \in [Messages -> Places] /\ pc'[m] \in {"start", "block"}
      /\ pc'[m] = "start" => Allowed(m)
  BY <1>0, <1>2, GotoTypes
<1>4. Shapes' /\ past' = past /\ since' = since
  BY <1>0, Kept DEF stored
<1>5. TypeOK'
  BY <1>0, <1>3 DEF TypeOK, others, stored, faults, Places
<1>6. Answering(m)' /\ Branching(m)' /\ Concluded(m)'
  BY <1>0, <1>3 DEF Good, Answering, Branching, Concluded, DocumentStages, Retrieving,
     ToolStages, Ending, Stages, stored
<1>7. Recording(m)' /\ Reading(m)'
  BY <1>0, <1>3, <1>4 DEF Good, Recording, Retrieving, Reading, Quoted, Readable, Said, stored
<1>8. Calling(m)'
  BY <1>0, <1>3, <1>4 DEF Good, Calling, Allowed, stored
<1> QED BY <1>4, <1>5, <1>6, <1>7, <1>8 DEF Good

(* A call changes its state and leaves its output. *)
LEMMA CallTypes ==
  ASSUME TypeOK, NEW m \in Messages, NEW state \in CallStates,
         toolCall' = [toolCall EXCEPT ![m].state = state]
  PROVE  toolCall' \in [Messages -> ToolCalls] /\ toolCall'[m].state = state
<1>1. toolCall[m] \in ToolCalls
  BY DEF TypeOK
<1>2. toolCall' = [toolCall EXCEPT ![m] = [toolCall[m] EXCEPT !.state = state]]
  BY <1>1 DEF TypeOK
<1>3. /\ [toolCall[m] EXCEPT !.state = state] \in ToolCalls
      /\ [toolCall[m] EXCEPT !.state = state].state = state
  BY <1>1 DEF ToolCalls
<1>4. toolCall \in [Messages -> ToolCalls]
  BY DEF TypeOK
<1> QED BY ONLY <1>2, <1>3, <1>4, m \in Messages

(* A call that is blocked or has failed. *)
LEMMA EndCallGood ==
  ASSUME TypeOK, Shapes, NEW m \in Messages, Good(m), BlockCall(m) \/ FailCall(m)
  PROVE  TypeOK' /\ Shapes' /\ Good(m)'
<1>0. /\ UNCHANGED <<others, answer, run, evidence, grounding, decision, review,
                     faults>>
      /\ pc[m] \in {"block", "fail"} /\ BranchOf[m] = "runtime" /\ evidence[m] = {}
      /\ decision[m] = "none" /\ ~review[m] /\ answer[m] = "open"
      /\ pc[m] = "fail" => Allowed(m)
  BY DEF BlockCall, FailCall, Good, Answering, Branching, Calling, ToolStages, Stages
<1>1. PICK state \in {"blocked", "failed"}, o \in {"permission_denied", "tool_failure"} :
        /\ toolCall' = [toolCall EXCEPT ![m].state = state] /\ Conclude(m, o)
        /\ state = "blocked" <=> o = "permission_denied"
        /\ state = "failed" => pc[m] = "fail"
  BY DEF BlockCall, FailCall
<1>2. toolCall' \in [Messages -> ToolCalls] /\ toolCall'[m].state = state
  BY <1>1, CallTypes DEF CallStates
<1>3. /\ pc' \in [Messages -> Places] /\ held' \in [Messages -> Held]
      /\ pc'[m] = "ground" /\ held'[m].outcome = o
      /\ held'[m].tool = held[m].tool /\ held'[m].next = {}
      /\ held'[m].reading = {} /\ held'[m].unchecked = {}
  BY <1>1, ConcludeFacts DEF Outcomes, Reasons
<1>4. Shapes' /\ past' = past /\ since' = since
  BY <1>0, Kept
<1>5. TypeOK'
  BY <1>0, <1>2, <1>3 DEF TypeOK, others, faults, Places
<1>6. Answering(m)' /\ Branching(m)'
  BY <1>0, <1>3 DEF Answering, Branching, DocumentStages, Retrieving, ToolStages, Stages, Outcomes,
     Reasons
<1>7. Recording(m)' /\ Reading(m)'
  BY <1>0, <1>3, <1>4 DEF Good, Recording, Retrieving, Reading, Quoted, Readable, Said
<1>8. Calling(m)'
  BY <1>0, <1>1, <1>2, <1>3, <1>4 DEF Good, Calling, Allowed, Called
<1>9. Concluded(m)'
  BY <1>0, <1>1, <1>2, <1>3 DEF Concluded
<1> QED BY <1>4, <1>5, <1>6, <1>7, <1>8, <1>9 DEF Good

LEMMA StartGood ==
  ASSUME TypeOK, Shapes, NEW m \in Messages, Good(m), StartCall(m)
  PROVE  TypeOK' /\ Shapes' /\ Good(m)'
<1>0. /\ UNCHANGED <<others, answer, run, evidence, grounding, decision, review, held,
                     faults>>
      /\ pc[m] = "start" /\ Goto(m, "connect") /\ "connect" \in Places
      /\ BranchOf[m] = "runtime"
      /\ toolCall' = [toolCall EXCEPT ![m].state = "in_progress"]
  BY DEF StartCall, Places, Stages, Good, Branching, ToolStages
<1>1. toolCall' \in [Messages -> ToolCalls] /\ toolCall'[m].state = "in_progress"
  BY <1>0, CallTypes DEF CallStates
<1>2. pc' \in [Messages -> Places] /\ pc'[m] = "connect"
  BY <1>0, GotoTypes
<1>3. Shapes' /\ past' = past /\ since' = since
  BY <1>0, Kept
<1>4. TypeOK'
  BY <1>0, <1>1, <1>2 DEF TypeOK, others, faults, Places
<1>5. Answering(m)' /\ Branching(m)' /\ Concluded(m)'
  BY <1>0, <1>2 DEF Good, Answering, Branching, Concluded, DocumentStages, Retrieving,
     ToolStages, Ending, Stages
<1>6. Recording(m)' /\ Reading(m)'
  BY <1>0, <1>2, <1>3 DEF Good, Recording, Retrieving, Reading, Quoted, Readable, Said
<1>7. Calling(m)'
  BY <1>0, <1>1, <1>2, <1>3 DEF Good, Calling, Allowed
<1> QED BY <1>3, <1>4, <1>5, <1>6, <1>7 DEF Good

LEMMA ConnectGood ==
  ASSUME TypeOK, Shapes, NEW m \in Messages, Good(m), Connect(m)
  PROVE  TypeOK' /\ Shapes' /\ Good(m)'
<1>0. /\ UNCHANGED <<others, stored, faults>> /\ pc[m] = "connect"
      /\ Goto(m, "finish") \/ Goto(m, "fail")
      /\ held[m] \in Held
  BY DEF Connect, TypeOK
<1>1. /\ held' \in [Messages -> Held]
      /\ held'[m].tool = held[m].tool /\ held'[m].next = held[m].next
      /\ held'[m].reading = held[m].reading /\ held'[m].outcome = held[m].outcome
      /\ held'[m].unchecked = held[m].unchecked
  <2>1. CASE UNCHANGED held
    BY <2>1 DEF TypeOK
  <2>2. ASSUME NEW record \in SUBSET Fields, NEW clash \in SUBSET record,
               held' = [held EXCEPT ![m].record = record, ![m].clash = clash]
        PROVE  /\ held' \in [Messages -> Held]
               /\ held'[m].tool = held[m].tool /\ held'[m].next = held[m].next
               /\ held'[m].reading = held[m].reading /\ held'[m].unchecked = held[m].unchecked
               /\ held'[m].outcome = held[m].outcome
    <3>1. held' = [held EXCEPT ![m] = [held[m] EXCEPT !.record = record,
                                                      !.clash = clash]]
      BY <1>0, <2>2 DEF TypeOK
    <3>2. [held[m] EXCEPT !.record = record, !.clash = clash] \in Held
      BY <1>0, <2>2 DEF Held
    <3> QED BY <1>0, <3>1, <3>2 DEF TypeOK, Held
  <2> QED BY <2>1, <2>2 DEF Connect
<1>2. pc' \in [Messages -> Places] /\ pc'[m] \in {"finish", "fail"}
  BY <1>0, GotoTypes DEF Places, Stages
<1>3. Shapes' /\ past' = past /\ since' = since
  BY <1>0, Kept DEF stored
<1>4. TypeOK'
  BY <1>0, <1>1, <1>2 DEF TypeOK, others, stored, faults, Places
<1>5. Answering(m)' /\ Branching(m)' /\ Concluded(m)'
  BY <1>0, <1>1, <1>2 DEF Good, Answering, Branching, Concluded, DocumentStages, Retrieving,
     ToolStages, Ending, Stages, stored
<1>6. Recording(m)' /\ Reading(m)'
  BY <1>0, <1>1, <1>2, <1>3 DEF Good, Recording, Retrieving, Reading, Quoted, Readable, Said, stored
<1>7. Calling(m)'
  BY <1>0, <1>1, <1>2, <1>3 DEF Good, Calling, Allowed, stored
<1> QED BY <1>3, <1>4, <1>5, <1>6, <1>7 DEF Good

LEMMA FinishGood ==
  ASSUME TypeOK, Shapes, NEW m \in Messages, Good(m), FinishCall(m)
  PROVE  TypeOK' /\ Shapes' /\ Good(m)'
<1> DEFINE call == [state |-> "executed", output |-> Sanitized(m)]
<1>0. /\ UNCHANGED <<others, answer, run, evidence, grounding, decision, review,
                     faults>>
      /\ pc[m] = "finish" /\ BranchOf[m] = "runtime" /\ evidence[m] = {}
      /\ decision[m] = "none" /\ ~review[m] /\ answer[m] = "open" /\ Allowed(m)
      /\ toolCall' = [toolCall EXCEPT ![m] = call]
  BY DEF FinishCall, Good, Answering, Branching, Calling, ToolStages, Stages
<1>1. /\ Sanitized(m) \subseteq VisibleColumns(m)
      /\ call \in ToolCalls
  BY Shown DEF Sanitized, ToolCalls, CallStates
<1>2. /\ toolCall' \in [Messages -> ToolCalls] /\ toolCall'[m].state = "executed"
      /\ toolCall'[m].output \subseteq VisibleColumns(m)
  BY <1>0, <1>1 DEF TypeOK
<1>3. Shapes' /\ past' = past /\ since' = since
  BY <1>0, Kept
<1>4. Allowed(m)'
  BY <1>0, <1>3 DEF Allowed
<1>5. CASE Conclude(m, "no_evidence")
  <2>1. /\ pc' \in [Messages -> Places] /\ held' \in [Messages -> Held]
        /\ pc'[m] = "ground" /\ held'[m].outcome = "no_evidence"
        /\ held'[m].tool = held[m].tool /\ held'[m].next = {}
        /\ held'[m].reading = {} /\ held'[m].unchecked = {}
    BY <1>5, ConcludeFacts DEF Outcomes, Reasons
  <2>2. TypeOK'
    BY <1>0, <1>2, <2>1 DEF TypeOK, others, faults, Places
  <2>3. Answering(m)' /\ Branching(m)'
    BY <1>0, <2>1 DEF Answering, Branching, DocumentStages, Retrieving, ToolStages, Stages,
       Outcomes, Reasons
  <2>4. Recording(m)' /\ Reading(m)'
    BY <1>0, <1>3, <2>1 DEF Good, Recording, Retrieving, Reading, Quoted, Readable, Said
  <2>5. Calling(m)'
    BY <1>3, <1>4, <2>1 DEF Good, Calling
  <2>6. Concluded(m)'
    BY <1>0, <1>2, <2>1 DEF Concluded
  <2> QED BY <1>3, <2>2, <2>3, <2>4, <2>5, <2>6 DEF Good
<1>6. CASE Goto(m, "attach_record") /\ UNCHANGED held
  <2>1. pc' \in [Messages -> Places] /\ pc'[m] = "attach_record"
    BY <1>6, GotoTypes DEF Places, Stages
  <2>2. TypeOK'
    BY <1>0, <1>2, <1>6, <2>1 DEF TypeOK, others, faults, Places
  <2>3. Answering(m)' /\ Branching(m)' /\ Concluded(m)'
    BY <1>0, <2>1 DEF Answering, Branching, Concluded, DocumentStages, Retrieving, ToolStages,
       Ending, Stages, Outcomes, Reasons
  <2>4. Recording(m)' /\ Reading(m)'
    BY <1>0, <1>3, <1>6, <2>1 DEF Good, Recording, Retrieving, Reading, Quoted, Readable, Said
  <2>5. Calling(m)'
    BY <1>2, <1>3, <1>4, <1>6, <2>1 DEF Good, Calling
  <2> QED BY <1>3, <2>2, <2>3, <2>4, <2>5 DEF Good
<1> QED BY <1>5, <1>6 DEF FinishCall

LEMMA AttachRecordGood ==
  ASSUME TypeOK, Shapes, NEW m \in Messages, Good(m), AttachRecord(m)
  PROVE  TypeOK' /\ Shapes' /\ Good(m)'
<1> DEFINE output == toolCall[m].output
           e == [fields |-> output]
           o == IF held[m].clash \cap output = {} THEN "answered" ELSE "evidence_conflict"
<1>0. /\ UNCHANGED <<others, answer, run, toolCall, grounding, decision, review,
                     faults>>
      /\ pc[m] = "attach_record" /\ BranchOf[m] = "runtime"
      /\ decision[m] = "none" /\ ~review[m] /\ answer[m] = "open"
      /\ evidence' = [evidence EXCEPT ![m] = {e}] /\ Conclude(m, o)
      /\ toolCall[m].state = "executed" /\ output \subseteq VisibleColumns(m)
      /\ toolCall[m] \in ToolCalls
  BY DEF AttachRecord, Good, Answering, Branching, Calling, ToolStages, Stages, TypeOK
<1>1. e \in RecordEvidence
  BY <1>0 DEF ToolCalls, RecordEvidence
<1>2. /\ evidence' \in [Messages -> SUBSET (DocumentEvidence \cup RecordEvidence)]
      /\ evidence'[m] = {e}
  BY <1>0, <1>1 DEF Shapes
<1>3. past' = past /\ since' = since /\ Shapes'
  BY <1>0, <1>2 DEF others, Shapes
<1>4. /\ pc' \in [Messages -> Places] /\ held' \in [Messages -> Held]
      /\ pc'[m] = "ground" /\ held'[m].outcome = o
      /\ held'[m].tool = held[m].tool /\ held'[m].next = {}
      /\ held'[m].reading = {} /\ held'[m].unchecked = {}
      /\ held'[m].clash = held[m].clash
  BY <1>0, ConcludeFacts DEF Outcomes, Reasons
<1>5. TypeOK'
  <2>1. ASSUME NEW n \in Messages
        PROVE  evidence'[n] \subseteq IF BranchOf[n] = "documents" THEN DocumentEvidence
                                      ELSE RecordEvidence
    <3>1. evidence[n] \subseteq IF BranchOf[n] = "documents" THEN DocumentEvidence
                                ELSE RecordEvidence
      BY DEF TypeOK
    <3>2. n # m => evidence'[n] = evidence[n]
      BY <1>0 DEF Shapes
    <3> QED BY <1>0, <1>1, <1>2, <3>1, <3>2
  <2> HIDE DEF e, o
  <2> QED BY <1>0, <1>4, <2>1 DEF TypeOK, others, faults, Places
<1>6. Answering(m)' /\ Branching(m)'
  BY <1>0, <1>4 DEF Answering, Branching, DocumentStages, Retrieving, ToolStages, Stages,
     Outcomes, Reasons
<1>7. Recording(m)' /\ Reading(m)'
  BY <1>0, <1>3, <1>4 DEF Good, Recording, Retrieving, Reading, Readable
<1>8. Calling(m)'
  BY <1>0, <1>3, <1>4 DEF Good, Calling, Allowed
<1>9. Concluded(m)'
  <2>1. o = "answered" => FromEvidence(m)'
    BY <1>0, <1>2, <1>4 DEF FromEvidence
  <2>2. o \in {"answered", "evidence_conflict"} /\ evidence'[m] # {}
    BY <1>2
  <2> HIDE DEF o
  <2> QED BY <1>0, <1>4, <2>1, <2>2 DEF Concluded
<1> QED BY <1>3, <1>5, <1>6, <1>7, <1>8, <1>9 DEF Good

(* The last four statements each add their row to what is stored.          *)
LEMMA EndingGood ==
  ASSUME TypeOK, Shapes, NEW m \in Messages, Good(m),
         Ground(m) \/ Decide(m) \/ CreateReview(m) \/ Complete(m)
  PROVE  TypeOK' /\ Shapes' /\ Good(m)'
<1> DEFINE o == held[m].outcome
<1>0. /\ UNCHANGED <<others, run, evidence, toolCall, held, faults>>
      /\ pc[m] \in {"ground", "decide", "review", "complete"}
      /\ o \in Outcomes
  BY DEF Ground, Decide, CreateReview, Complete, TypeOK, Held
<1>1. Shapes' /\ past' = past /\ since' = since
  BY <1>0, Kept
<1>2. /\ pc' \in [Messages -> Places]
      /\ pc'[m] = CASE pc[m] = "ground" -> "decide"
                    [] pc[m] = "decide" -> IF o = "answered" THEN "complete" ELSE "review"
                    [] pc[m] = "review" -> "complete"
                    [] pc[m] = "complete" -> "done"
  BY GotoTypes DEF Ground, Decide, CreateReview, Complete, Places, Stages
<1>3. /\ grounding' \in [Messages -> {"none", "covered", "uncovered"}]
      /\ grounding'[m] = IF pc[m] = "ground"
                         THEN IF o = "answered" THEN "covered" ELSE "uncovered"
                         ELSE grounding[m]
  BY DEF Ground, Decide, CreateReview, Complete, TypeOK
<1>4. /\ decision' \in [Messages -> Outcomes \cup {"none"}]
      /\ decision'[m] = IF pc[m] = "decide" THEN o ELSE decision[m]
  BY <1>0 DEF Ground, Decide, CreateReview, Complete, TypeOK
<1>5. /\ review' \in [Messages -> BOOLEAN]
      /\ review'[m] <=> (pc[m] = "review" \/ review[m])
  BY DEF Ground, Decide, CreateReview, Complete, TypeOK
<1>6. /\ answer' \in [Messages -> Outcomes \cup {"none", "open"}]
      /\ answer'[m] = IF pc[m] = "complete" THEN o ELSE answer[m]
  BY <1>0 DEF Ground, Decide, CreateReview, Complete, TypeOK
<1>7. TypeOK'
  BY <1>0, <1>2, <1>3, <1>4, <1>5, <1>6 DEF TypeOK, others, faults, Places
<1>8. Answering(m)'
  <2>1. CASE pc[m] = "complete"
    <3>1. pc'[m] = "done" /\ answer'[m] = held'[m].outcome
      BY <1>0, <1>2, <1>6, <2>1
    <3> QED BY <3>1 DEF Answering, Stages, Retrieving
  <2>2. CASE pc[m] # "complete"
    <3>1. pc'[m] \in {"decide", "review", "complete"}
      BY <1>0, <1>2, <2>2
    <3>2. answer'[m] = "open" /\ "open" \notin Outcomes
      BY <1>0, <1>6, <2>2 DEF Good, Answering, Stages, Outcomes, Reasons
    <3> QED BY <3>1, <3>2 DEF Answering
  <2> QED BY <2>1, <2>2
<1>9. Branching(m)'
  BY <1>0, <1>2, <1>4, <1>5 DEF Good, Branching, DocumentStages, Retrieving, ToolStages
<1>10. Recording(m)' /\ Reading(m)' /\ Calling(m)'
  BY <1>0, <1>1, <1>2 DEF Good, Recording, Retrieving, Reading, Calling, Allowed, Quoted, Readable, Said
<1>11. Concluded(m)'
  <2>1. FromEvidence(m) => FromEvidence(m)'
    BY <1>0 DEF FromEvidence, Quoted
  <2>2. CASE pc[m] = "ground"
    BY <1>0, <1>2, <1>3, <2>1, <2>2 DEF Good, Concluded, Ending
  <2>3. CASE pc[m] = "decide"
    BY <1>0, <1>2, <1>3, <1>4, <1>5, <2>1, <2>3 DEF Good, Branching, Concluded, Ending
  <2>4. CASE pc[m] = "review"
    BY <1>0, <1>2, <1>3, <1>4, <1>5, <2>1, <2>4 DEF Good, Concluded, Ending
  <2>5. CASE pc[m] = "complete"
    BY <1>0, <1>2, <1>3, <1>4, <1>5, <2>1, <2>5 DEF Good, Concluded, Ending
  <2> QED BY <1>0, <2>2, <2>3, <2>4, <2>5
<1> QED BY <1>1, <1>7, <1>8, <1>9, <1>10, <1>11 DEF Good

LEMMA AbortGood ==
  ASSUME TypeOK, Shapes, NEW m \in Messages, Good(m), Abort(m)
  PROVE  TypeOK' /\ Shapes' /\ Good(m)'
<1>0. /\ UNCHANGED <<others, stored, errors>> /\ pc[m] \in Stages
      /\ End(m, "cut") /\ aborts' \in Nat
  BY DEF Abort, TypeOK
<1>1. pc' \in [Messages -> Places] /\ held' \in [Messages -> Held]
  BY <1>0, EndFacts DEF Places
<1>2. TypeOK'
  BY <1>0, <1>1 DEF TypeOK, others, stored, Places
<1> QED BY <1>0, <1>2, EndGood

LEMMA StepGood ==
  ASSUME IInv, NEW m \in Messages, Begin(m) \/ Step(m) \/ RetrievalFails(m) \/ Abort(m)
  PROVE  IInv'
<1>1. TypeOK /\ Shapes /\ Good(m)
  BY DEF IInv
<1>2. TypeOK' /\ Shapes' /\ Good(m)'
  <2>1. CASE Begin(m) \/ Abort(m)
    BY <1>1, <2>1, BeginGood, AbortGood
  <2>2. CASE \/ Retrieve(m) \/ CheckCandidate(m) \/ CheckRest(m) \/ RetrievalFails(m)
             \/ RecordRun(m) \/ RecordCandidate(m) \/ AuditRun(m)
    BY <1>1, <2>2, RetrieveGood, CheckGood, RecordRunGood, CandidateGood, AuditGood
  <2>3. CASE ReadDocument(m) \/ ReadRest(m) \/ AttachDocument(m) \/ MarkEvidence(m)
    BY <1>1, <2>3, ReadGood, RestGood, AttachGood, MarkGood
  <2>4. CASE ResolveTool(m) \/ CheckPolicy(m) \/ BlockCall(m) \/ FailCall(m)
    BY <1>1, <2>4, ResolveGood, PolicyGood, EndCallGood
  <2>5. CASE StartCall(m) \/ Connect(m) \/ FinishCall(m) \/ AttachRecord(m)
    BY <1>1, <2>5, StartGood, ConnectGood, FinishGood, AttachRecordGood
  <2>6. CASE Ground(m) \/ Decide(m) \/ CreateReview(m) \/ Complete(m)
    BY <1>1, <2>6, EndingGood
  <2> QED BY <2>1, <2>2, <2>3, <2>4, <2>5, <2>6 DEF Step
<1>3. ASSUME NEW n \in Messages \ {m} PROVE Good(n)'
  BY <1>1, OthersKept DEF IInv
<1> QED BY <1>2, <1>3 DEF IInv

-----------------------------------------------------------------------------
(* The changes by others *)

LEMMA DocumentGood ==
  ASSUME IInv, NEW d \in Documents, ChangeDocument(d)
  PROVE  IInv'
<1>0. /\ TypeOK /\ Shapes /\ UNCHANGED <<tool, policy, past, stored, pc, held, faults>>
      /\ changes' \in Nat
  BY DEF IInv, ChangeDocument, TypeOK
<1>1. PICK row \in Revisions :
        /\ documents' = [documents EXCEPT ![d] = row]
        /\ since' = [m \in Messages |-> [since[m] EXCEPT ![d] = @ \cup {row}]]
  BY DEF ChangeDocument
<1>2. row \in DocumentRows
  BY <1>1, ShapeAssumption
<1>3. ASSUME NEW m \in Messages
      PROVE  /\ since'[m] \in [Documents -> SUBSET DocumentRows]
             /\ \A c \in Documents :
                  since[m][c] \subseteq since'[m][c] /\ (c = d => row \in since'[m][c])
  <2>1. /\ since[m] \in [Documents -> SUBSET DocumentRows]
        /\ since'[m] = [since[m] EXCEPT ![d] = @ \cup {row}]
    BY <1>0, <1>1 DEF Shapes
  <2> QED BY <1>2, <2>1
<1>4. since' \in [Messages -> [Documents -> SUBSET DocumentRows]]
  BY <1>1, <1>3
<1>5. documents' \in [Documents -> DocumentRows]
  BY <1>0, <1>1, <1>2 DEF TypeOK
<1>6. \A m \in Messages, c \in Documents : documents'[c] \in since'[m][c]
  <2> TAKE m \in Messages, c \in Documents
  <2>1. documents[c] \in since[m][c] /\ documents'[c] = IF c = d THEN row ELSE documents[c]
    BY <1>0, <1>1 DEF TypeOK
  <2> QED BY <1>3, <2>1
<1>7. TypeOK'
  BY <1>0, <1>5, <1>6 DEF TypeOK, stored, faults
<1>8. Shapes'
  BY <1>0, <1>4 DEF Shapes, stored
<1>9. ASSUME NEW m \in Messages PROVE Good(m)'
  <2>1. Good(m)
    BY DEF IInv
  <2> QED BY <1>0, <1>3, <2>1, PastKept
<1> QED BY <1>7, <1>8, <1>9 DEF IInv

LEMMA ToolGood ==
  ASSUME IInv, ChangeTool
  PROVE  IInv'
<1>0. /\ TypeOK /\ Shapes /\ UNCHANGED <<documents, since, policy, stored, pc, held, faults>>
      /\ changes' \in Nat
  BY DEF IInv, ChangeTool, TypeOK
<1>1. PICK row \in ToolRevisions :
        tool' = row /\ past' = [past EXCEPT !.tools = @ \cup {row}]
  BY DEF ChangeTool
<1>2. row \in ToolRows
  BY <1>1, ShapeAssumption
<1>3. /\ past'.tools = past.tools \cup {row} /\ past'.policies = past.policies
      /\ past' \in [tools: SUBSET ToolRows, policies: [Customers -> SUBSET PolicyRows]]
  BY <1>0, <1>1, <1>2 DEF Shapes
<1>4. TypeOK'
  BY <1>0, <1>1, <1>2, <1>3 DEF TypeOK, stored, faults
<1>5. Shapes'
  BY <1>0, <1>1, <1>3 DEF Shapes, stored
<1>6. ASSUME NEW m \in Messages PROVE Good(m)'
  <2>1. Good(m)
    BY DEF IInv
  <2> QED BY <1>0, <1>3, <2>1, PastKept
<1> QED BY <1>4, <1>5, <1>6 DEF IInv

LEMMA PolicyRowGood ==
  ASSUME IInv, NEW c \in Customers, ChangePolicy(c)
  PROVE  IInv'
<1>0. /\ TypeOK /\ Shapes /\ UNCHANGED <<documents, since, tool, stored, pc, held, faults>>
      /\ changes' \in Nat
  BY DEF IInv, ChangePolicy, TypeOK
<1>1. PICK row \in PolicyRevisions :
        /\ policy' = [policy EXCEPT ![c] = row]
        /\ past' = [past EXCEPT !.policies[c] = @ \cup {row}]
  BY DEF ChangePolicy
<1>2. row \in PolicyRows
  BY <1>1, ShapeAssumption
<1> DEFINE was == past.policies
           be == [was EXCEPT ![c] = @ \cup {row}]
<1>3. was \in [Customers -> SUBSET PolicyRows]
  BY <1>0 DEF Shapes
<1>4. be \in [Customers -> SUBSET PolicyRows]
  BY <1>2, <1>3
<1>5. /\ past'.policies = be /\ past'.tools = past.tools
      /\ past' \in [tools: SUBSET ToolRows, policies: [Customers -> SUBSET PolicyRows]]
  <2>1. past' = [past EXCEPT !.policies = be]
    BY <1>0, <1>1 DEF Shapes
  <2> HIDE DEF be
  <2> QED BY <1>0, <1>4, <2>1 DEF Shapes
<1>6. \A b \in Customers : was[b] \subseteq be[b] /\ (b = c => row \in be[b])
  BY <1>3
<1>7. policy' \in [Customers -> PolicyRows]
  BY <1>0, <1>1, <1>2 DEF TypeOK
<1>8. \A b \in Customers : policy'[b] \in be[b]
  <2> TAKE b \in Customers
  <2>1. policy[b] \in was[b] /\ policy'[b] = IF b = c THEN row ELSE policy[b]
    BY <1>0, <1>1 DEF TypeOK, Shapes
  <2> QED BY <1>6, <2>1
<1> HIDE DEF be
<1>9. TypeOK'
  BY <1>0, <1>5, <1>7 DEF TypeOK, stored, faults
<1>10. Shapes'
  BY <1>0, <1>5, <1>8 DEF Shapes, stored
<1>11. ASSUME NEW m \in Messages PROVE Good(m)'
  <2>1. Good(m)
    BY DEF IInv
  <2> QED BY <1>0, <1>5, <1>6, <2>1, PastKept
<1> QED BY <1>9, <1>10, <1>11 DEF IInv

-----------------------------------------------------------------------------
(* The theorems *)

LEMMA Initially ==
  ASSUME Init
  PROVE  IInv
<1>1. PICK s \in Settings : documents = s.documents /\ tool = s.tool /\ policy = s.policy
  BY DEF Init
<1>2. /\ documents \in [Documents -> DocumentRows] /\ tool \in ToolRows
      /\ policy \in [Customers -> PolicyRows]
  BY <1>1, ShapeAssumption
<1>4. /\ NothingHeld(tool) \in Held /\ NothingHeld(tool).tool = tool
      /\ NothingHeld(tool).unchecked = {} /\ NothingHeld(tool).next = {}
      /\ NothingHeld(tool).reading = {}
  BY <1>2, NothingHeldFacts
<1>5. TypeOK
  BY <1>2, <1>4 DEF Init, TypeOK, Runs, ToolCalls, CallStates
<1>6. Shapes
  BY <1>2 DEF Init, Shapes
<1>7. ASSUME NEW m \in Messages PROVE Good(m)
  <2>1. /\ pc[m] = "idle" /\ answer[m] = "none" /\ evidence[m] = {}
        /\ toolCall[m].state = "none" /\ decision[m] = "none" /\ ~review[m]
        /\ held[m].unchecked = {} /\ held[m].next = {} /\ held[m].reading = {}
        /\ held[m].tool = tool /\ run[m].selected = {}
    BY <1>4 DEF Init
  <2>2. Answering(m) /\ Branching(m) /\ Concluded(m)
    BY <2>1 DEF Answering, Branching, Concluded, DocumentStages, ToolStages, Ending,
       Stages, Retrieving, Outcomes, Reasons
  <2>3. Reading(m)
    <3>1. Quoted(m) = {} /\ IsFiniteSet({})
      BY <2>1, FS_EmptySet DEF Quoted
    <3> QED BY <2>1, <3>1 DEF Reading
  <2>4. Calling(m) /\ Recording(m)
    BY <1>6, <2>1 DEF Calling, Shapes, Called, Recording, Retrieving
  <2> QED BY <2>2, <2>3, <2>4 DEF Good
<1> QED BY <1>5, <1>6, <1>7 DEF IInv

LEMMA Inductive ==
  ASSUME IInv, [Next]_vars
  PROVE  IInv'
<1>1. CASE UNCHANGED vars
  <2>1. UNCHANGED <<others, stored, pc, held, faults>>
    BY <1>1 DEF vars
  <2>2. TypeOK' /\ Shapes'
    BY <2>1 DEF IInv, TypeOK, Shapes, others, stored, faults
  <2>3. ASSUME NEW m \in Messages PROVE Good(m)'
    <3>1. Good(m) /\ TypeOK
      BY DEF IInv
    <3> QED BY <2>1, <3>1, PastKept DEF others
  <2> QED BY <2>2, <2>3 DEF IInv
<1> QED BY <1>1, StepGood, DocumentGood, ToolGood, PolicyRowGood DEF Next

LEMMA Invariant == Spec => []IInv
<1>1. Init => IInv
  BY Initially
<1>2. IInv /\ [Next]_vars => IInv'
  BY Inductive
<1> QED BY <1>1, <1>2, PTL DEF Spec

(* Every variable keeps its type. *)
THEOREM Types == Spec => []TypeOK
<1>1. IInv => TypeOK
  BY DEF IInv
<1> QED BY <1>1, Invariant, PTL

(* However often others change the documents, what is quoted is of the     *)
(* caller's customer, was readable for the caller at or after its          *)
(* retrieval, and is what an enabled chunk has said since.                 *)
THEOREM Quotes == Spec => []QuotesWhatWasReadable
<1>1. ASSUME IInv PROVE QuotesWhatWasReadable
  <2> SUFFICES ASSUME NEW m \in Messages, BranchOf[m] = "documents",
                      NEW e \in evidence[m]
               PROVE  /\ OwnerOf[e.document] = CustomerOfMessage(m)
                      /\ \E r \in since[m][e.document] :
                           Servable(r) /\ CallerOf[m] \in r.readers
                      /\ \E r \in since[m][e.document] : r.enabled /\ r.text = e.text
    BY DEF QuotesWhatWasReadable
  <2> QED BY <1>1 DEF IInv, Good, Reading, Readable, Said
<1>2. IInv => QuotesWhatWasReadable
  BY <1>1
<1> QED BY <1>2, Invariant, PTL

(* However often others change the tool and its policies, it is called     *)
(* only where it was permitted.                                            *)
THEOREM Calls == Spec => []CallsWerePermitted
<1>1. IInv => CallsWerePermitted
  BY DEF IInv, Good, Calling, Allowed, Called, CallsWerePermitted
<1> QED BY <1>1, Invariant, PTL

(* Every answer is grounded in all of its evidence and in nothing else.    *)
THEOREM Grounded == Spec => []GroundedAnswers
<1>1. ASSUME IInv PROVE GroundedAnswers
  <2> SUFFICES ASSUME NEW m \in Messages, answer[m] = "answered"
               PROVE  /\ grounding[m] = "covered" /\ decision[m] = "answered"
                      /\ evidence[m] # {}
                      /\ IF BranchOf[m] = "documents"
                         THEN /\ run[m] = [stored |-> TRUE, selected |-> Quoted(m),
                                       marked |-> Quoted(m)]
                              /\ Cardinality(evidence[m]) = Cardinality(Quoted(m))
                         ELSE /\ toolCall[m].state = "executed"
                              /\ evidence[m] = {[fields |-> toolCall[m].output]}
                              /\ toolCall[m].output \subseteq VisibleColumns(m) \ held[m].clash
    BY DEF GroundedAnswers, Quoted
  <2>1. TypeOK /\ Answering(m) /\ Concluded(m) /\ Reading(m)
    BY <1>1 DEF IInv, Good
  <2>2. pc[m] = "done" /\ held[m].outcome = "answered"
    BY <2>1 DEF Answering, Outcomes
  <2>3. FromEvidence(m) /\ grounding[m] = "covered" /\ decision[m] = "answered"
    BY <2>1, <2>2 DEF Concluded, Ending
  <2>4. BranchOf[m] = "documents" \/ BranchOf[m] = "runtime"
    BY <2>1, Shown
  <2>5. CASE BranchOf[m] = "documents"
    BY <2>1, <2>3, <2>5 DEF FromEvidence, Reading
  <2>6. CASE BranchOf[m] = "runtime"
    BY <2>3, <2>6 DEF FromEvidence
  <2> QED BY <2>4, <2>5, <2>6
<1>2. IInv => GroundedAnswers
  BY <1>1
<1> QED BY <1>2, Invariant, PTL

-----------------------------------------------------------------------------
(* Messages that stay open *)

(* A handler that failed, and was not cut, has lost a document. *)
LossInv == \A m \in Messages : pc[m] = "failed" => LostDocument(m)

(* A lost document stays lost: its rows since the retrieval only become    *)
(* more, and the rows of the message are its own.                          *)
LEMMA LossKept ==
  ASSUME IInv, NEW m \in Messages, LostDocument(m),
         run'[m] = run[m], evidence'[m] = evidence[m],
         \A d \in Documents : since[m][d] \subseteq since'[m][d]
  PROVE  LostDocument(m)'
<1>1. run[m].selected \subseteq Documents
  BY DEF IInv, TypeOK, Runs
<1> QED BY <1>1 DEF LostDocument, Vanished

(* Only its own retrieval starts the rows of a message anew. *)
LEMMA SinceGrows ==
  ASSUME IInv, [Next]_vars, NEW n \in Messages, pc'[n] = pc[n]
  PROVE  \A d \in Documents : since[n][d] \subseteq since'[n][d]
<1>1. CASE UNCHANGED since
  BY <1>1
<1>2. ASSUME NEW d \in Documents, ChangeDocument(d)
      PROVE  \A x \in Documents : since[n][x] \subseteq since'[n][x]
  BY <1>2 DEF ChangeDocument, IInv, Shapes
<1>3. CASE ChangeTool \/ \E c \in Customers : ChangePolicy(c)
  BY <1>3 DEF ChangeTool, ChangePolicy
<1>4. ASSUME NEW m \in Messages, Begin(m) \/ Step(m) \/ RetrievalFails(m) \/ Abort(m)
      PROVE  since'[n] = since[n]
  <2>1. CASE n # m
    BY <1>4, <2>1, Footprint DEF IInv, Untouched
  <2>2. CASE n = m
    <3>1. ~Retrieve(m)
      BY <2>2 DEF Retrieve, Goto, IInv, TypeOK
    <3> QED BY <1>4, <3>1, Footprint DEF IInv
  <2> QED BY <2>1, <2>2
<1> QED BY <1>1, <1>2, <1>3, <1>4 DEF Next, vars, others

(* What m has stored, and where it stands, others leave alone. *)
LEMMA OwnRows ==
  ASSUME IInv, NEW m \in Messages, NEW n \in Messages \ {m},
         Begin(m) \/ Step(m) \/ RetrievalFails(m) \/ Abort(m)
  PROVE  /\ run'[n] = run[n] /\ evidence'[n] = evidence[n]
         /\ answer'[n] = answer[n] /\ pc'[n] = pc[n]
BY Footprint DEF IInv, Untouched

(* The reads after which a handler has failed. *)
LEMMA FailsByReading ==
  ASSUME IInv, NEW m \in Messages,
         Begin(m) \/ Step(m) \/ RetrievalFails(m) \/ Abort(m),
         pc'[m] = "failed"
  PROVE  ReadDocument(m) \/ ReadRest(m)
<1>1. pc \in [Messages -> Places]
  BY DEF IInv, TypeOK, Places
<1>2. ASSUME NEW l, Goto(m, l) PROVE l = "failed"
  BY <1>1, <1>2 DEF Goto
<1>3. ~RecordCandidate(m)
  BY DEF RecordCandidate
<1> QED BY <1>2, <1>3 DEF Begin, Step, RetrievalFails, Abort, End, Conclude, Retrieve,
     CheckCandidate, CheckRest, RecordRun, AuditRun, AttachDocument, MarkEvidence, ResolveTool, CheckPolicy,
     BlockCall, StartCall, Connect, FinishCall, FailCall, AttachRecord, Ground, Decide,
     CreateReview, Complete

LEMMA ReadLoses ==
  ASSUME IInv, NEW m \in Messages, ReadDocument(m) \/ ReadRest(m), pc'[m] = "failed"
  PROVE  LostDocument(m)'
<1>1. /\ pc[m] \in {"read", "read_documents", "read_chunks"} /\ Reading(m)
      /\ UNCHANGED <<others, stored>> /\ pc \in [Messages -> Places]
      /\ held[m].next \subseteq Documents /\ held[m].reading \subseteq Documents
  BY DEF IInv, Good, ReadDocument, ReadRest, TypeOK, Held, Places
<1>2. PICK d \in Documents :
        /\ ~Servable(documents[d]) /\ Readable(m, d)
        /\ d \in run[m].selected /\ d \notin Quoted(m)
  <2>1. CASE ReadDocument(m)
    <3>1. pc[m] = "read"
      BY <2>1 DEF ReadDocument
    <3>2. PICK d \in held[m].next : ~Servable(documents[d])
      BY <1>1, <2>1 DEF ReadDocument, Goto
    <3> QED BY <1>1, <3>1, <3>2 DEF Reading
  <2>2. CASE ReadRest(m)
    <3>1. pc[m] \in {"read_documents", "read_chunks"}
      BY <2>2 DEF ReadRest
    <3>2. PICK d \in Documents :
            /\ held[m].reading = {d} /\ d \notin Quoted(m) \cup held[m].next
            /\ run[m].selected = Quoted(m) \cup held[m].next \cup {d}
      BY <1>1, <3>1 DEF Reading
    <3>3. Missing(m, d)
      BY <1>1, <2>2, <3>2 DEF ReadRest, Goto
    <3> QED BY <1>1, <3>2, <3>3 DEF Missing, Servable, Reading
  <2> QED BY <2>1, <2>2
<1>3. documents[d] \in since[m][d] /\ \A e \in evidence[m] : e.document # d
  BY <1>2 DEF IInv, TypeOK, Quoted
<1>4. LostDocument(m)
  BY <1>2, <1>3 DEF LostDocument, Vanished, Readable
<1> QED BY <1>1, <1>4 DEF LostDocument, Vanished, others, stored

LEMMA LossStep ==
  ASSUME IInv, LossInv, [Next]_vars
  PROVE  LossInv'
<1> SUFFICES ASSUME NEW n \in Messages, pc'[n] = "failed" PROVE LostDocument(n)'
  BY DEF LossInv
<1>1. CASE UNCHANGED <<stored, pc>>
  BY <1>1, LossKept, SinceGrows DEF LossInv, stored
<1>2. ASSUME NEW m \in Messages, Begin(m) \/ Step(m) \/ RetrievalFails(m) \/ Abort(m)
      PROVE  LostDocument(n)'
  <2>1. CASE n = m
    BY <1>2, <2>1, FailsByReading, ReadLoses
  <2>2. CASE n # m
    BY <1>2, <2>2, OwnRows, LossKept, SinceGrows DEF LossInv
  <2> QED BY <2>1, <2>2
<1> QED BY <1>1, <1>2 DEF Next, vars, ChangeDocument, ChangeTool, ChangePolicy

LEMMA AtMostOneMore ==
  ASSUME NEW S, NEW T, NEW x, IsFiniteSet(S), T \subseteq S \cup {x}
  PROVE  IsFiniteSet(T) /\ Cardinality(T) <= Cardinality(S) + 1
<1>1. /\ IsFiniteSet(S \cup {x}) /\ Cardinality(S) \in Nat
      /\ Cardinality(S \cup {x}) \in {Cardinality(S), Cardinality(S) + 1}
  BY FS_AddElement, FS_CardinalityType
<1>2. IsFiniteSet(T) /\ Cardinality(T) <= Cardinality(S \cup {x})
  BY <1>1, FS_Subset
<1>3. Cardinality(T) \in Nat
  BY <1>2, FS_CardinalityType
<1> QED BY <1>1, <1>2, <1>3

GivenUpInv == IsFiniteSet(GivenUp) /\ OpenByCrash

(* A handler gives its message up when it is cut, and only then. *)
LEMMA NewlyGivenUp ==
  ASSUME IInv, LossInv, [Next]_vars, NEW n \in Messages, n \in GivenUp'
  PROVE  n \in GivenUp \/ Abort(n)
<1>1. answer'[n] = "open" /\ pc'[n] \notin Stages /\ ~LostDocument(n)'
  BY DEF GivenUp
<1>2. pc'[n] = "cut"
  <2>1. Answering(n)' /\ pc'[n] \in Places /\ held'[n].outcome \in Outcomes
    BY Inductive DEF IInv, Good, TypeOK, Places, Held
  <2>2. pc'[n] # "failed"
    BY <1>1, LossStep DEF LossInv
  <2> QED BY <1>1, <2>1, <2>2 DEF Answering, Places, Outcomes, Reasons
<1>3. ASSUME run'[n] = run[n], evidence'[n] = evidence[n], answer'[n] = answer[n],
             pc'[n] = pc[n]
      PROVE  n \in GivenUp
  BY <1>1, <1>3, LossKept, SinceGrows DEF GivenUp
<1>4. CASE UNCHANGED <<stored, pc>>
  BY <1>3, <1>4 DEF stored
<1>5. ASSUME NEW m \in Messages, Begin(m) \/ Step(m) \/ RetrievalFails(m) \/ Abort(m)
      PROVE  n \in GivenUp \/ Abort(n)
  <2>1. CASE n # m
    BY <1>3, <1>5, <2>1, OwnRows
  <2>2. CASE n = m
    <3>1. pc \in [Messages -> Places]
      BY DEF IInv, TypeOK, Places
    <3>2. ASSUME NEW l, Goto(m, l) PROVE l = "cut"
      BY <1>2, <2>2, <3>1, <3>2 DEF Goto
    <3>3. ~RecordCandidate(m)
      BY <1>2, <2>2 DEF RecordCandidate
    <3> QED BY <1>5, <2>2, <3>2, <3>3 DEF Begin, Step, RetrievalFails, End, Conclude,
         Retrieve, CheckCandidate, CheckRest, RecordRun, AuditRun, ReadDocument, ReadRest,
         AttachDocument, MarkEvidence, ResolveTool, CheckPolicy, BlockCall, StartCall,
         Connect, FinishCall, FailCall, AttachRecord, Ground, Decide, CreateReview,
         Complete
  <2> QED BY <2>1, <2>2
<1> QED BY <1>4, <1>5 DEF Next, vars, ChangeDocument, ChangeTool, ChangePolicy

LEMMA GivenUpStep ==
  ASSUME IInv, LossInv, GivenUpInv, [Next]_vars
  PROVE  GivenUpInv'
<1>1. /\ aborts \in Nat /\ Cardinality(GivenUp) \in Nat
      /\ aborts' = aborts \/ aborts' = aborts + 1
  <2>1. aborts' = aborts \/ \E m \in Messages : Abort(m)
    <3>1. ASSUME NEW m \in Messages, Begin(m) \/ Step(m) \/ RetrievalFails(m) \/ Abort(m)
          PROVE  aborts' = aborts \/ Abort(m)
      BY <3>1, Footprint DEF IInv
    <3>2. ASSUME NEW d \in Documents, ChangeDocument(d) PROVE aborts' = aborts
      BY <3>2 DEF ChangeDocument, faults
    <3>3. CASE ChangeTool \/ \E c \in Customers : ChangePolicy(c)
      BY <3>3 DEF ChangeTool, ChangePolicy, faults
    <3>4. CASE UNCHANGED vars
      BY <3>4 DEF vars, faults
    <3> QED BY <3>1, <3>2, <3>3, <3>4 DEF Next
  <2> QED BY <2>1, FS_CardinalityType DEF Abort, IInv, TypeOK, GivenUpInv
<1>2. CASE GivenUp' \subseteq GivenUp
  <2>1. IsFiniteSet(GivenUp') /\ Cardinality(GivenUp') <= Cardinality(GivenUp)
    BY <1>2, FS_Subset DEF GivenUpInv
  <2>2. Cardinality(GivenUp') \in Nat
    BY <2>1, FS_CardinalityType
  <2> QED BY <1>1, <2>1, <2>2 DEF GivenUpInv, OpenByCrash
<1>3. CASE ~(GivenUp' \subseteq GivenUp)
  <2>1. PICK m \in Messages : Abort(m)
    BY <1>3, NewlyGivenUp DEF GivenUp
  <2>2. \A n \in Messages : Abort(n) => n = m
    <3>1. ASSUME NEW n \in Messages, Abort(n), n # m PROVE FALSE
      <4>1. pc[n] \in Stages /\ pc'[n] = "cut" /\ pc'[n] = pc[n]
        BY <2>1, <3>1 DEF Abort, End, Goto, IInv, TypeOK
      <4> QED BY <4>1 DEF Stages, Retrieving
    <3> QED BY <3>1
  <2>3. GivenUp' \subseteq GivenUp \cup {m}
    BY <2>2, NewlyGivenUp DEF GivenUp
  <2>4. IsFiniteSet(GivenUp') /\ Cardinality(GivenUp') <= Cardinality(GivenUp) + 1
    BY <2>3, AtMostOneMore DEF GivenUpInv
  <2>5. Cardinality(GivenUp') \in Nat
    BY <2>4, FS_CardinalityType
  <2>6. aborts' = aborts + 1
    BY <2>1 DEF Abort
  <2> QED BY <1>1, <2>4, <2>5, <2>6 DEF GivenUpInv, OpenByCrash
<1> QED BY <1>2, <1>3

(* Whatever fails, is denied or changes, a handler answers its message: it *)
(* leaves it open only if it is cut short, or for a withdrawn document.    *)
THEOREM OpenMessagesCounted == Spec => []OpenByCrash
<1>1. ASSUME Init PROVE LossInv /\ GivenUpInv
  <2>1. GivenUp = {}
    BY <1>1 DEF Init, GivenUp
  <2> QED BY <1>1, <2>1, FS_EmptySet DEF Init, LossInv, GivenUpInv, OpenByCrash
<1>2. Init => LossInv /\ GivenUpInv
  BY <1>1
<1>3. IInv /\ LossInv /\ [Next]_vars => LossInv'
  BY LossStep
<1>4. IInv /\ LossInv /\ GivenUpInv /\ [Next]_vars => GivenUpInv'
  BY GivenUpStep
<1>5. GivenUpInv => OpenByCrash
  BY DEF GivenUpInv
<1> QED BY <1>2, <1>3, <1>4, <1>5, Initially, Inductive, PTL DEF Spec

-----------------------------------------------------------------------------
(* Refinement of AnswerLedger *)

Bases == {"evidence", "failure", "denial", "decision", "review"}

(* The basis of n depends on the rows of n. *)
LEMMA BasisKept ==
  ASSUME NEW n, evidence'[n] = evidence[n], toolCall'[n].state = toolCall[n].state,
         decision'[n] = decision[n], review'[n] = review[n]
  PROVE  BasisOf(n)' = BasisOf(n)
BY DEF BasisOf

LEMMA OtherBases ==
  ASSUME TypeOK, Shapes, NEW m \in Messages, NEW n \in Messages \ {m},
         Begin(m) \/ Step(m) \/ RetrievalFails(m) \/ Abort(m)
  PROVE  answer'[n] = answer[n] /\ BasisOf(n)' = BasisOf(n)
<1>1. /\ answer'[n] = answer[n] /\ evidence'[n] = evidence[n]
      /\ toolCall'[n] = toolCall[n] /\ decision'[n] = decision[n]
      /\ review'[n] = review[n]
  BY Footprint DEF Untouched
<1> QED BY <1>1, BasisKept

LEMMA LedgerStutters ==
  ASSUME NEW m \in Messages, TypeOK, UNCHANGED answer,
         \A n \in Messages : BasisOf(n)' = BasisOf(n)
  PROVE  UNCHANGED Ledger!vars
BY DEF Ledger!vars

LEMMA LedgerGrounds ==
  ASSUME NEW m \in Messages, NEW b \in Bases, UNCHANGED answer, answer[m] = "open",
         \A n \in Messages \ {m} : BasisOf(n)' = BasisOf(n),
         BasisOf(m)' = BasisOf(m) \cup {b}
  PROVE  Ledger!Next
<1>1. [n \in Messages |-> BasisOf(n)]' =
        [[n \in Messages |-> BasisOf(n)] EXCEPT ![m] = @ \cup {b}]
  OBVIOUS
<1>2. Ledger!Ground(m, b)
  BY <1>1 DEF Ledger!Ground
<1>3. b \in UNION {Needed[a] : a \in DOMAIN Needed}
  BY DEF Needed, Bases
<1> QED BY <1>2, <1>3 DEF Ledger!Next

(* When a message is concluded its basis is complete.                      *)
LEMMA BasisComplete ==
  ASSUME TypeOK, NEW m \in Messages, Good(m), pc[m] = "complete"
  PROVE  Needed[held[m].outcome] = BasisOf(m) /\ held[m].outcome \in DOMAIN Needed
<1> DEFINE o == held[m].outcome
<1>1. o \in Outcomes
  BY DEF TypeOK, Held
<1>2. /\ evidence[m] # {} <=> o \in {"answered", "evidence_conflict"}
      /\ toolCall[m].state = "failed" <=> o = "tool_failure"
      /\ toolCall[m].state = "blocked" <=> o = "permission_denied"
      /\ decision[m] = o
      /\ review[m] <=> o # "answered"
  BY DEF Good, Concluded, Ending
<1>3. decision[m] # "none"
  BY <1>1, <1>2 DEF Outcomes, Reasons
<1>4. BasisOf(m) = (IF o \in {"answered", "evidence_conflict"} THEN {"evidence"} ELSE {})
                   \cup (IF o = "tool_failure" THEN {"failure"} ELSE {})
                   \cup (IF o = "permission_denied" THEN {"denial"} ELSE {})
                   \cup {"decision"}
                   \cup (IF o # "answered" THEN {"review"} ELSE {})
  BY <1>2, <1>3 DEF BasisOf
<1> HIDE DEF o
<1>5. o \in DOMAIN Needed
  BY <1>1 DEF Needed, Outcomes, Reasons
<1>6. Needed[o] = BasisOf(m)
  <2>1. CASE o = "answered" BY <1>4, <2>1 DEF Needed
  <2>2. CASE o = "evidence_conflict" BY <1>4, <2>2 DEF Needed
  <2>3. CASE o = "no_evidence" BY <1>4, <2>3 DEF Needed
  <2>4. CASE o = "unavailable" BY <1>4, <2>4 DEF Needed
  <2>5. CASE o = "tool_failure" BY <1>4, <2>5 DEF Needed
  <2>6. CASE o = "permission_denied" BY <1>4, <2>6 DEF Needed
  <2> QED BY <1>1, <2>1, <2>2, <2>3, <2>4, <2>5, <2>6 DEF Outcomes, Reasons
<1> QED BY <1>5, <1>6 DEF o

LEMMA StepRefines ==
  ASSUME TypeOK, Shapes, NEW m \in Messages, Good(m),
         Begin(m) \/ Step(m) \/ RetrievalFails(m) \/ Abort(m)
  PROVE  [Ledger!Next]_(Ledger!vars)
<1>0. \A n \in Messages \ {m} : answer'[n] = answer[n] /\ BasisOf(n)' = BasisOf(n)
  BY OtherBases
<1>1. CASE Begin(m)
  <2>1. answer[m] = "none" /\ answer' = [answer EXCEPT ![m] = "open"]
    BY <1>1 DEF Begin, Good, Answering
  <2>2. BasisOf(m)' = BasisOf(m)
    BY <1>1, BasisKept DEF Begin
  <2>3. Ledger!Open(m)
    BY <1>0, <2>1, <2>2 DEF Ledger!Open
  <2> QED BY <2>3 DEF Ledger!Next
<1>2. CASE \/ Retrieve(m) \/ CheckCandidate(m) \/ CheckRest(m) \/ RecordRun(m)
           \/ RecordCandidate(m) \/ AuditRun(m) \/ ReadDocument(m) \/ ReadRest(m)
           \/ MarkEvidence(m) \/ ResolveTool(m) \/ CheckPolicy(m) \/ Connect(m)
           \/ Ground(m) \/ RetrievalFails(m) \/ Abort(m)
  <2>1. UNCHANGED <<answer, evidence, toolCall, decision, review>>
    BY <1>2 DEF Retrieve, CheckCandidate, CheckRest, RecordRun, RecordCandidate, AuditRun,
       ReadDocument, ReadRest, MarkEvidence, ResolveTool, CheckPolicy, Connect, Ground, RetrievalFails, Abort, stored
  <2>2. BasisOf(m)' = BasisOf(m)
    BY <2>1, BasisKept
  <2> QED BY <1>0, <2>1, <2>2, LedgerStutters
<1>3. CASE StartCall(m) \/ FinishCall(m)
  <2>1. UNCHANGED <<answer, evidence, decision, review>>
    BY <1>3 DEF StartCall, FinishCall
  <2>2. /\ toolCall[m].state \in {"none", "in_progress"}
        /\ toolCall'[m].state \in {"in_progress", "executed"}
    BY <1>3 DEF StartCall, FinishCall, Good, Branching, Calling, TypeOK, ToolCalls
  <2>3. BasisOf(m)' = BasisOf(m)
    BY <2>1, <2>2 DEF BasisOf
  <2> QED BY <1>0, <2>1, <2>3, LedgerStutters
<1>4. CASE AttachDocument(m) \/ AttachRecord(m)
  <2>1. UNCHANGED <<answer, toolCall, decision, review>> /\ answer[m] = "open"
    BY <1>4 DEF AttachDocument, AttachRecord, Good, Answering, Stages
  <2>2. evidence'[m] # {}
    <3>1. CASE AttachDocument(m)
      <4>1. PICK d \in Documents : held[m].reading = {d}
        BY <3>1 DEF AttachDocument, Good, Reading
      <4>2. evidence'[m] = evidence[m] \cup {[document |-> d, text |-> held[m].text]}
        BY <3>1, <4>1 DEF AttachDocument, Shapes
      <4> QED BY <4>2
    <3>2. CASE AttachRecord(m)
      BY <3>2 DEF AttachRecord, Shapes
    <3> QED BY <1>4, <3>1, <3>2
  <2>3. BasisOf(m)' = BasisOf(m) \cup {"evidence"}
    BY <2>1, <2>2 DEF BasisOf
  <2>4. Ledger!Next
    BY <1>0, <2>1, <2>3, LedgerGrounds DEF Bases
  <2> QED BY <2>4
<1>5. CASE BlockCall(m) \/ FailCall(m)
  <2>1. /\ UNCHANGED <<answer, evidence, decision, review>> /\ answer[m] = "open"
        /\ toolCall[m].state \in {"none", "in_progress"}
    BY <1>5 DEF BlockCall, FailCall, Good, Answering, Branching, Calling, Stages
  <2>2. PICK b \in {"denial", "failure"} :
          toolCall'[m].state = IF b = "denial" THEN "blocked" ELSE "failed"
    BY <1>5 DEF BlockCall, FailCall, TypeOK, ToolCalls
  <2>3. BasisOf(m)' = BasisOf(m) \cup {b}
    BY <2>1, <2>2 DEF BasisOf
  <2>4. Ledger!Next
    BY <1>0, <2>1, <2>3, LedgerGrounds DEF Bases
  <2> QED BY <2>4
<1>6. CASE Decide(m)
  <2>1. /\ UNCHANGED <<answer, evidence, toolCall, review>> /\ answer[m] = "open"
        /\ decision'[m] = held[m].outcome
    BY <1>6 DEF Decide, Good, Answering, Stages, TypeOK
  <2>2. decision'[m] # "none"
    BY <2>1 DEF TypeOK, Held, Outcomes, Reasons
  <2>3. BasisOf(m)' = BasisOf(m) \cup {"decision"}
    BY <2>1, <2>2 DEF BasisOf
  <2>4. Ledger!Next
    BY <1>0, <2>1, <2>3, LedgerGrounds DEF Bases
  <2> QED BY <2>4
<1>7. CASE CreateReview(m)
  <2>1. /\ UNCHANGED <<answer, evidence, toolCall, decision>> /\ answer[m] = "open"
        /\ review'[m] = TRUE
    BY <1>7 DEF CreateReview, Good, Answering, Stages, TypeOK
  <2>3. BasisOf(m)' = BasisOf(m) \cup {"review"}
    BY <2>1 DEF BasisOf
  <2>4. Ledger!Next
    BY <1>0, <2>1, <2>3, LedgerGrounds DEF Bases
  <2> QED BY <2>4
<1>8. CASE Complete(m)
  <2> DEFINE o == held[m].outcome
  <2>1. /\ answer[m] = "open" /\ answer' = [answer EXCEPT ![m] = o]
        /\ pc[m] = "complete"
    BY <1>8 DEF Complete, Good, Answering, Stages
  <2>2. Needed[o] = BasisOf(m) /\ o \in DOMAIN Needed
    BY <2>1, BasisComplete
  <2>3. BasisOf(m)' = BasisOf(m)
    BY <1>8, BasisKept DEF Complete
  <2>4. Ledger!Settle(m, o)
    BY <1>0, <2>1, <2>2, <2>3 DEF Ledger!Settle
  <2> QED BY <2>2, <2>4 DEF Ledger!Next
<1> QED BY <1>1, <1>2, <1>3, <1>4, <1>5, <1>6, <1>7, <1>8 DEF Step

(* Grounding implements AnswerLedger: every outcome, a refusal too, comes  *)
(* after everything it refers to.                                          *)
THEOREM Refinement == Spec => ImplementsAnswerLedger
<1>1. Init => Ledger!Init
  BY DEF Init, Ledger!Init, BasisOf
<1>2. ASSUME IInv, [Next]_vars PROVE [Ledger!Next]_(Ledger!vars)
  <2>1. CASE UNCHANGED <<stored, pc, held, faults>>
    BY <2>1 DEF Ledger!vars, stored, BasisOf
  <2>2. ASSUME NEW m \in Messages, Begin(m) \/ Step(m) \/ RetrievalFails(m) \/ Abort(m)
        PROVE  [Ledger!Next]_(Ledger!vars)
    BY <1>2, <2>2, StepRefines DEF IInv
  <2> QED BY <1>2, <2>1, <2>2 DEF Next, vars, ChangeDocument, ChangeTool, ChangePolicy
<1>3. IInv /\ [Next]_vars => [Ledger!Next]_(Ledger!vars)
  BY <1>2
<1> QED BY <1>1, <1>3, Invariant, PTL DEF Spec, ImplementsAnswerLedger, Ledger!Spec
=============================================================================
