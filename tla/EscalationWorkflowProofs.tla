---------------------- MODULE EscalationWorkflowProofs ----------------------
(***************************************************************************)
(* Theorems about EscalationWorkflow, for every number of calls, requests, *)
(* customers, actors and crashes.                                          *)
(***************************************************************************)
EXTENDS EscalationWorkflow, SequenceTheorems, TLAPS

Creating == {"parents", "insert"}
Deciding == {"load", "commit"}

-----------------------------------------------------------------------------
(* Types *)

(* A deciding handler carries a decision. *)
TypeInv == /\ TypeOK
           /\ \A c \in Calls : pc[c] \in Deciding => OpOf(c) \in Decisions

LEMMA RecordTypes ==
  ASSUME TypeInv, NEW c \in Calls, pc[c] \in Running
  PROVE  /\ call[c] \in CallRecord
         /\ RequestOf(c) \in Requests
         /\ ScopeOf(c) \in Scopes
         /\ ScopeOf(c).customer \in Customers
         /\ ScopeOf(c).actor \in Actors
         /\ SessionOf[RequestOf(c)] \in Sessions
BY ShapeAssumption
   DEF TypeInv, TypeOK, CallRecord, RequestOf, ScopeOf, CallerScopes

LEMMA InitTypes == Init => TypeInv
BY DEF Init, TypeInv, TypeOK, Statuses, Resting, Running, Deciding

(* The handlers' variables, after a handler answers or moves on.           *)
Control == /\ pc \in [Calls -> Resting \cup Running]
           /\ call \in [Calls -> CallRecord \cup {NoCall}]
           /\ \A c \in Calls : pc[c] \in Running => call[c] \in CallRecord
           /\ \A c \in Calls : pc[c] \in Deciding => OpOf(c) \in Decisions

Data == /\ status \in [Requests -> Statuses]
        /\ assignee \in [Requests -> Actors \cup {NoActor}]
        /\ expired \in [Requests -> BOOLEAN]
        /\ trail \in [Requests -> Seq(AuditEvents)]
        /\ aborts \in Nat

LEMMA TypeParts == TypeInv <=> Data /\ Control
BY DEF TypeInv, TypeOK, Data, Control

LEMMA TypesAfter == ASSUME Data', Control' PROVE TypeInv'
BY DEF TypeInv, TypeOK, Data, Control

LEMMA ReplyControl ==
  ASSUME Control, NEW c \in Calls, NEW a \in Replies, Reply(c, a)
  PROVE  Control'
BY DEF Control, Reply, Resting, Replies, Running, Deciding, OpOf

LEMMA MoveControl ==
  ASSUME Control, NEW c \in Calls, NEW l \in Running, NEW rec \in CallRecord,
         Goto(c, l), call' = [call EXCEPT ![c] = rec],
         l \in Deciding => rec.op \in Decisions
  PROVE  Control'
BY DEF Control, Goto, OpOf

LEMMA StartTypes ==
  ASSUME TypeInv, NEW c \in Calls, NEW r \in Requests, NEW s \in Scopes,
         \/ StartCreate(c, r, s)
         \/ \E op \in Decisions : StartDecision(c, op, r, s)
  PROVE  TypeInv'
<1>1. Data'
  BY TypeParts DEF Data, StartCreate, StartDecision, rows
<1>2. CASE StartCreate(c, r, s)
  <2>1. [op |-> "create", request |-> r, scope |-> s, seen |-> "absent",
         assigned |-> NoActor] \in CallRecord
    BY DEF CallRecord, Statuses
  <2> QED BY <1>1, <1>2, <2>1, TypeParts, TypesAfter, MoveControl
          DEF StartCreate, Running, Deciding
<1>3. ASSUME NEW op \in Decisions, StartDecision(c, op, r, s) PROVE TypeInv'
  <2>1. [op |-> op, request |-> r, scope |-> s, seen |-> "absent",
         assigned |-> NoActor] \in CallRecord
    BY DEF CallRecord, Statuses
  <2> QED BY <1>1, <1>3, <2>1, TypeParts, TypesAfter, MoveControl
          DEF StartDecision, Running, Deciding
<1> QED BY <1>2, <1>3

(* An event a handler writes is an audit event. *)
LEMMA AuditedTypes ==
  ASSUME TypeInv, NEW c \in Calls, pc[c] \in Running,
         NEW e \in {"created", "resolved", "cancelled"},
         NEW a \in Actors \cup {NoActor}, trail' = Audited(c, e, a)
  PROVE  trail' \in [Requests -> Seq(AuditEvents)]
<1>1. PICK x \in AuditEvents :
        trail' = [trail EXCEPT ![RequestOf(c)] = Append(@, x)]
  BY RecordTypes DEF Audited, AuditEvents
<1>2. trail \in [Requests -> Seq(AuditEvents)] /\ RequestOf(c) \in Requests
  BY RecordTypes DEF TypeInv, TypeOK
<1>3. Append(trail[RequestOf(c)], x) \in Seq(AuditEvents)
  BY <1>1, <1>2
<1> QED BY <1>1, <1>2, <1>3

LEMMA HandlerTypes ==
  ASSUME TypeInv, NEW c \in Calls,
         \/ CheckParents(c) \/ InsertRequest(c) \/ Load(c)
         \/ Commit(c) \/ RollBack(c) \/ Abort(c)
  PROVE  TypeInv'
<1>1. pc[c] \in Running /\ call[c] \in CallRecord /\ RequestOf(c) \in Requests
  BY RecordTypes
     DEF CheckParents, InsertRequest, Load, Commit, RollBack, Abort, Running
<1>2. CASE CheckParents(c)
  <2>1. Data'
    BY <1>2, TypeParts DEF Data, CheckParents, rows
  <2>2. call = [call EXCEPT ![c] = call[c]]
    BY DEF TypeInv, TypeOK
  <2>3. Control'
    BY <1>1, <1>2, <2>2, TypeParts, ReplyControl, MoveControl
       DEF CheckParents, Running, Replies, Deciding
  <2> QED BY <2>1, <2>3, TypeParts, TypesAfter
<1>3. CASE InsertRequest(c)
  <2>1. trail' \in [Requests -> Seq(AuditEvents)]
    BY <1>1, <1>3, AuditedTypes DEF InsertRequest
  <2>2. Data'
    BY <1>1, <1>3, <2>1, TypeParts DEF Data, InsertRequest, Statuses
  <2> QED BY <1>3, <2>2, TypeParts, TypesAfter, ReplyControl DEF InsertRequest, Replies
<1>4. CASE Load(c)
  <2>1. Data'
    BY <1>4, TypeParts DEF Data, Load, rows
  <2>2. [call[c] EXCEPT !.seen = status[RequestOf(c)],
                        !.assigned = assignee[RequestOf(c)]] \in CallRecord
    BY <1>1 DEF TypeInv, TypeOK, CallRecord
  <2>3. CASE \E a \in Replies : Reply(c, a)
    BY <2>1, <2>3, TypeParts, TypesAfter, ReplyControl
  <2>4. CASE /\ Goto(c, "commit")
             /\ call' = [call EXCEPT ![c].seen = status[RequestOf(c)],
                                     ![c].assigned = assignee[RequestOf(c)]]
    <3>1. call' = [call EXCEPT ![c] = [call[c] EXCEPT
                     !.seen = status[RequestOf(c)],
                     !.assigned = assignee[RequestOf(c)]]]
      BY <1>1, <2>4 DEF TypeInv, TypeOK, CallRecord
    <3>2. call[c].op \in Decisions
      BY <1>4 DEF TypeInv, Deciding, Load, OpOf
    <3>3. [call[c] EXCEPT !.seen = status[RequestOf(c)],
                          !.assigned = assignee[RequestOf(c)]].op \in Decisions
      BY <1>1, <3>2 DEF CallRecord
    <3> QED BY <2>1, <2>2, <2>4, <3>1, <3>3, TypeParts, TypesAfter, MoveControl DEF Running
  <2> QED BY <1>4, <2>3, <2>4 DEF Load, Replies
<1>5. CASE Commit(c)
  <2>1. OpOf(c) \in Decisions
    BY <1>5 DEF TypeInv, Commit, Deciding
  <2>2. Target[OpOf(c)] \in {"resolved", "cancelled"}
    BY <2>1 DEF Decisions, Target
  <2>3. NextAssignee(c) \in Actors \cup {NoActor}
    BY <1>1, <1>5, RecordTypes DEF NextAssignee, CallRecord
  <2>4. trail' \in [Requests -> Seq(AuditEvents)]
    BY <1>1, <1>5, <2>2, <2>3, AuditedTypes DEF Commit
  <2>5. Data'
    BY <1>1, <1>5, <2>2, <2>3, <2>4, TypeParts DEF Data, Commit, Statuses
  <2> QED BY <1>5, <2>5, TypeParts, TypesAfter, ReplyControl DEF Commit, Replies
<1>6. CASE RollBack(c) \/ Abort(c)
  <2>1. Data'
    BY <1>6, TypeParts DEF Data, RollBack, Abort, rows
  <2> QED BY <1>6, <2>1, TypeParts, TypesAfter, ReplyControl DEF RollBack, Abort, Replies
<1> QED BY <1>2, <1>3, <1>4, <1>5, <1>6

LEMMA AroundTypes ==
  ASSUME TypeInv, (\E r \in Requests : Expire(r)) \/ UNCHANGED vars
  PROVE  TypeInv'
BY DEF TypeInv, TypeOK, Expire, rows, vars, OpOf

LEMMA StepTypes == TypeInv /\ [Next]_vars => TypeInv'
BY StartTypes, HandlerTypes, AroundTypes DEF Next

(* Type correctness of the escalation workflow. *)
THEOREM EscalationTypes == Spec => []TypeOK
<1>1. TypeInv => TypeOK
  BY DEF TypeInv
<1> QED BY <1>1, InitTypes, StepTypes, PTL DEF Spec

-----------------------------------------------------------------------------
(* Rows, trails and the handlers between their reads and their writes *)

(* What a handler may rely on: the escalation it creates is absent and its *)
(* own, the one it decides exists; before its transaction, it has seen the *)
(* escalation open, unassigned and its to decide.                          *)
Knows(c) ==
  /\ pc[c] \in Creating => status[RequestOf(c)] = "absent"
  /\ pc[c] = "insert" => OwnsSession(ScopeOf(c), RequestOf(c))
  /\ pc[c] \in Deciding => status[RequestOf(c)] # "absent"
  /\ pc[c] = "commit" => /\ call[c].seen = "open" /\ call[c].assigned = NoActor
                         /\ Entitled(c)

OneCreator ==
  \A c, d \in Calls : c # d /\ pc[c] \in Creating /\ pc[d] \in Creating
                      => RequestOf(c) # RequestOf(d)

Inv == (\A c \in Calls : Knows(c)) /\ OneCreator /\ TrailTellsStory

LEMMA InitInv == Init => Inv
BY DEF Init, Inv, Knows, OneCreator, TrailTellsStory, Creating, Deciding

LEMMA StoryKept ==
  ASSUME TrailTellsStory, UNCHANGED rows PROVE TrailTellsStory'
BY DEF TrailTellsStory, OwnEvent, rows

LEMMA ReplyKeeps ==
  ASSUME TypeInv, Inv, UNCHANGED rows, NEW c \in Calls, NEW a \in Replies,
         Reply(c, a)
  PROVE  Inv'
<1>1. /\ \A d \in Calls : d # c => pc'[d] = pc[d] /\ call'[d] = call[d]
      /\ pc'[c] = a /\ a \notin Creating \cup Deciding
  BY DEF Reply, TypeInv, TypeOK, Replies, Creating, Deciding
<1>2. (\A d \in Calls : Knows(d))' /\ OneCreator'
  BY <1>1 DEF Inv, Knows, OneCreator, rows, RequestOf, ScopeOf, OpOf, OwnsSession,
              Entitled, Creating, Deciding
<1> QED BY <1>2, StoryKept DEF Inv

LEMMA StartKeeps ==
  ASSUME TypeInv, Inv, NEW c \in Calls, NEW r \in Requests, NEW s \in Scopes,
         \/ StartCreate(c, r, s)
         \/ \E op \in Decisions : StartDecision(c, op, r, s)
  PROVE  Inv'
<1>1. /\ \A d \in Calls : d # c => pc'[d] = pc[d] /\ call'[d] = call[d]
      /\ call'[c].request = r /\ UNCHANGED rows
  BY DEF StartCreate, StartDecision, Goto, TypeInv, TypeOK
<1>2. \/ /\ pc'[c] = "parents" /\ status[r] = "absent"
         /\ \A d \in Calls : pc[d] \in Creating => RequestOf(d) # r
      \/ pc'[c] = "load" /\ status[r] # "absent"
  BY DEF StartCreate, StartDecision, Goto, TypeInv, TypeOK, Creating
<1>3. (\A d \in Calls : Knows(d))'
  BY <1>1, <1>2 DEF Inv, Knows, rows, RequestOf, ScopeOf, OpOf, OwnsSession,
                    Entitled, Creating, Deciding
<1>4. OneCreator'
  BY <1>1, <1>2 DEF Inv, OneCreator, RequestOf, Creating
<1> QED BY <1>1, <1>3, <1>4, StoryKept DEF Inv

LEMMA ReadKeeps ==
  ASSUME TypeInv, Inv, NEW c \in Calls, CheckParents(c) \/ Load(c)
  PROVE  Inv'
<1>1. UNCHANGED rows /\ call[c] \in CallRecord
  BY RecordTypes DEF CheckParents, Load, Running
<1>2. CASE \E a \in Replies : Reply(c, a)
  BY <1>1, <1>2, ReplyKeeps
<1>3. CASE /\ CheckParents(c) /\ Goto(c, "insert") /\ UNCHANGED call
           /\ OwnsSession(ScopeOf(c), RequestOf(c))
  <2>1. /\ \A d \in Calls : d # c => pc'[d] = pc[d]
        /\ pc[c] = "parents" /\ pc'[c] = "insert"
    BY <1>3 DEF CheckParents, Goto, TypeInv, TypeOK
  <2>2. (\A d \in Calls : Knows(d))' /\ OneCreator'
    BY <1>1, <1>3, <2>1
       DEF Inv, Knows, OneCreator, rows, RequestOf, ScopeOf, OpOf, OwnsSession,
           Entitled, Creating, Deciding
  <2> QED BY <1>1, <2>2, StoryKept DEF Inv
<1>4. CASE /\ Load(c) /\ Goto(c, "commit") /\ Entitled(c)
           /\ status[RequestOf(c)] = "open"
           /\ call' = [call EXCEPT ![c].seen = status[RequestOf(c)],
                                   ![c].assigned = assignee[RequestOf(c)]]
  <2>1. RequestOf(c) \in Requests
    BY <1>4, RecordTypes DEF Load, Running
  <2>2. assignee[RequestOf(c)] = NoActor
    BY <1>4, <2>1 DEF Inv, TrailTellsStory
  <2>3. /\ \A d \in Calls : d # c => pc'[d] = pc[d] /\ call'[d] = call[d]
        /\ pc[c] = "load" /\ pc'[c] = "commit"
        /\ call'[c].request = call[c].request /\ call'[c].scope = call[c].scope
        /\ call'[c].op = call[c].op
        /\ call'[c].seen = "open" /\ call'[c].assigned = NoActor
    BY <1>1, <1>4, <2>2 DEF Load, Goto, TypeInv, TypeOK, CallRecord
  <2>4. ASSUME NEW d \in Calls PROVE Knows(d)'
    <3>1. CASE d = c
      <4>1. status[RequestOf(c)] # "absent" /\ Entitled(c)
        BY <1>4
      <4>2. Entitled(c)'
        BY <2>3, <4>1 DEF Entitled, RequestOf, ScopeOf, OpOf
      <4> QED BY <1>1, <2>3, <3>1, <4>1, <4>2
              DEF Knows, rows, RequestOf, Creating, Deciding
    <3>2. CASE d # c
      BY <1>1, <2>3, <3>2 DEF Inv, Knows, rows, RequestOf, ScopeOf, OpOf, OwnsSession,
                              Entitled
    <3> QED BY <3>1, <3>2
  <2>5. OneCreator'
    BY <2>3 DEF Inv, OneCreator, RequestOf, Creating
  <2> QED BY <1>1, <2>4, <2>5, StoryKept DEF Inv
<1> QED BY <1>2, <1>3, <1>4 DEF CheckParents, Load, OpenAndFresh, Replies

LEMMA EmptyAppend == ASSUME NEW S, NEW e \in S PROVE Append(<<>>, e) = <<e>>
<1>1. <<>> \in Seq(S) /\ <<e>> \in Seq(S) /\ Append(<<>>, e) \in Seq(S)
  OBVIOUS
<1>2. Len(Append(<<>>, e)) = 1 /\ Append(<<>>, e)[1] = e
  OBVIOUS
<1> QED BY <1>1, <1>2, SeqEqual

LEMMA SecondAppend ==
  ASSUME NEW S, NEW a \in S, NEW e \in S PROVE Append(<<a>>, e) = <<a, e>>
<1>1. <<a>> \in Seq(S) /\ Len(<<a>>) = 1 /\ <<a>>[1] = a
  OBVIOUS
<1>2. <<a, e>> \in Seq(S)
  OBVIOUS
<1>3. /\ Append(<<a>>, e) \in Seq(S) /\ Len(Append(<<a>>, e)) = 2
      /\ Append(<<a>>, e)[1] = a /\ Append(<<a>>, e)[2] = e
  BY <1>1, AppendProperties
<1>4. Len(<<a, e>>) = 2 /\ <<a, e>>[1] = a /\ <<a, e>>[2] = e
  OBVIOUS
<1>5. \A i \in 1 .. Len(<<a, e>>) : <<a, e>>[i] = Append(<<a>>, e)[i]
  <2>1. \A i \in 1 .. 2 : i = 1 \/ i = 2
    OBVIOUS
  <2> QED BY <1>3, <1>4, <2>1
<1> QED BY ONLY <1>2, <1>3, <1>4, <1>5, SeqEqual

(* What a write does: to its own escalation only, under the name of the    *)
(* session's owner.                                                        *)
LEMMA WriteEffect ==
  ASSUME TypeInv, Inv, NEW c \in Calls, InsertRequest(c) \/ Commit(c)
  PROVE  \E r \in Requests :
           /\ r = RequestOf(c)
           /\ \A q \in Requests \ {r} : /\ status'[q] = status[q]
                                         /\ assignee'[q] = assignee[q]
                                         /\ trail'[q] = trail[q]
           /\ \/ /\ InsertRequest(c) /\ status[r] = "absent" /\ trail[r] = <<>>
                 /\ status'[r] = "open" /\ assignee'[r] = NoActor
                 /\ trail'[r] = <<OwnEvent(r, "created", NoActor)>>
              \/ /\ Commit(c) /\ status[r] = "open"
                 /\ trail[r] = <<OwnEvent(r, "created", NoActor)>>
                 /\ status'[r] = Target[OpOf(c)] /\ OpOf(c) \in Decisions
                 /\ assignee'[r] = IF OpOf(c) = "resolve" THEN SessionOf[r].actor
                                   ELSE NoActor
                 /\ trail'[r] = <<OwnEvent(r, "created", NoActor),
                                  OwnEvent(r, status'[r], assignee'[r])>>
<1>1. pc[c] \in {"insert", "commit"} /\ call[c] \in CallRecord
  BY RecordTypes DEF InsertRequest, Commit, Running
<1>2. PICK r \in Requests : r = RequestOf(c)
  BY <1>1, RecordTypes DEF Running
<1>3. /\ OwnsSession(ScopeOf(c), r)
      /\ ScopeOf(c).customer = SessionOf[r].customer
      /\ ScopeOf(c).actor = SessionOf[r].actor
      /\ SessionOf[r].customer \in Customers /\ SessionOf[r].actor \in Actors
  BY <1>1, <1>2, ShapeAssumption
     DEF InsertRequest, Commit, Inv, Knows, OwnsSession, Sessions
<1>4. \A e, a : trail' = Audited(c, e, a) =>
        /\ trail'[r] = Append(trail[r], OwnEvent(r, e, a))
        /\ \A q \in Requests \ {r} : trail'[q] = trail[q]
  BY <1>2, <1>3 DEF Audited, OwnEvent, TypeInv, TypeOK
<1>5. \A e \in {"created", "resolved", "cancelled"}, a \in Actors \cup {NoActor} :
        OwnEvent(r, e, a) \in AuditEvents
  BY <1>3 DEF OwnEvent, AuditEvents
<1>6. CASE InsertRequest(c)
  <2>1. status[r] = "absent" /\ trail[r] = <<>>
    BY <1>1, <1>2, <1>6 DEF InsertRequest, Inv, Knows, TrailTellsStory, Creating
  <2>2. trail'[r] = <<OwnEvent(r, "created", NoActor)>>
    BY <1>4, <1>5, <1>6, <2>1, EmptyAppend DEF InsertRequest
  <2>3. /\ status'[r] = "open" /\ assignee'[r] = NoActor
        /\ \A q \in Requests \ {r} : /\ status'[q] = status[q]
                                      /\ assignee'[q] = assignee[q]
    BY <1>2, <1>6 DEF InsertRequest, TypeInv, TypeOK
  <2> QED BY <1>2, <1>4, <1>6, <2>1, <2>2, <2>3 DEF InsertRequest
<1>7. CASE Commit(c)
  <2> DEFINE o == Target[OpOf(c)]
             a == NextAssignee(c)
  <2>1. /\ OpOf(c) \in Decisions /\ o \in {"resolved", "cancelled"}
        /\ status[r] = "open"
        /\ trail[r] = <<OwnEvent(r, "created", NoActor)>>
    <3>1. pc[c] = "commit" /\ OpOf(c) \in Decisions
      BY <1>7 DEF Commit, TypeInv, Deciding
    <3>2. status[r] = "open"
      BY <1>2, <1>7, <3>1 DEF Commit, StillAsSeen, Inv, Knows
    <3>3. trail[r] = <<OwnEvent(r, "created", NoActor)>>
      BY <3>2 DEF Inv, TrailTellsStory
    <3>4. o \in {"resolved", "cancelled"}
      BY <3>1 DEF Decisions, Target
    <3> QED BY <3>1, <3>2, <3>3, <3>4
  <2>2. a = IF OpOf(c) = "resolve" THEN SessionOf[r].actor ELSE NoActor
    BY <1>3, <1>7 DEF NextAssignee, Commit, Inv, Knows
  <2>3. /\ status'[r] = o /\ assignee'[r] = a
        /\ \A q \in Requests \ {r} : /\ status'[q] = status[q]
                                      /\ assignee'[q] = assignee[q]
    BY <1>2, <1>7 DEF Commit, TypeInv, TypeOK
  <2>4. trail'[r] = Append(trail[r], OwnEvent(r, o, a))
    BY <1>4, <1>7 DEF Commit
  <2>5. trail'[r] = <<OwnEvent(r, "created", NoActor), OwnEvent(r, o, a)>>
    <3>1. a \in Actors \cup {NoActor}
      BY <1>3, <2>2
    <3> HIDE DEF a, o
    <3> QED BY <1>5, <2>1, <2>4, <3>1, SecondAppend
  <2> QED BY <1>2, <1>4, <1>7, <2>1, <2>2, <2>3, <2>5 DEF Commit
<1> QED BY <1>6, <1>7

(* The effect of each of the two writes by itself. *)
LEMMA InsertEffect ==
  ASSUME TypeInv, Inv, NEW c \in Calls, InsertRequest(c)
  PROVE  /\ RequestOf(c) \in Requests
         /\ status'[RequestOf(c)] = "open"
         /\ trail'[RequestOf(c)] = <<OwnEvent(RequestOf(c), "created", NoActor)>>
<1>1. ~Commit(c)
  BY DEF InsertRequest, Commit
<1>2. InsertRequest(c) \/ Commit(c)
  OBVIOUS
<1> QED BY <1>1, <1>2, WriteEffect

LEMMA CommitEffect ==
  ASSUME TypeInv, Inv, NEW c \in Calls, Commit(c)
  PROVE  /\ RequestOf(c) \in Requests
         /\ status'[RequestOf(c)] = Target[OpOf(c)] /\ OpOf(c) \in Decisions
         /\ trail'[RequestOf(c)] =
              <<OwnEvent(RequestOf(c), "created", NoActor),
                OwnEvent(RequestOf(c), status'[RequestOf(c)], assignee'[RequestOf(c)])>>
<1>1. ~InsertRequest(c)
  BY DEF InsertRequest, Commit
<1>2. InsertRequest(c) \/ Commit(c)
  OBVIOUS
<1> QED BY <1>1, <1>2, WriteEffect

LEMMA WriteKeeps ==
  ASSUME TypeInv, Inv, NEW c \in Calls, InsertRequest(c) \/ Commit(c)
  PROVE  Inv'
<1>1. PICK r \in Requests :
        /\ r = RequestOf(c)
        /\ \A q \in Requests \ {r} : /\ status'[q] = status[q]
                                      /\ assignee'[q] = assignee[q]
                                      /\ trail'[q] = trail[q]
        /\ \/ /\ status[r] = "absent" /\ status'[r] = "open"
              /\ assignee'[r] = NoActor
              /\ trail'[r] = <<OwnEvent(r, "created", NoActor)>>
           \/ /\ status[r] = "open" /\ status'[r] \in {"resolved", "cancelled"}
              /\ assignee'[r] = IF status'[r] = "resolved" THEN SessionOf[r].actor
                                ELSE NoActor
              /\ trail'[r] = <<OwnEvent(r, "created", NoActor),
                               OwnEvent(r, status'[r], assignee'[r])>>
  BY WriteEffect DEF Target, Decisions
<1>2. /\ \A d \in Calls : d # c => pc'[d] = pc[d] /\ call'[d] = call[d]
      /\ pc'[c] = "ok" /\ pc[c] \in {"insert", "commit"}
      /\ pc[c] = "commit" => status[r] = "open"
  BY <1>1 DEF InsertRequest, Commit, Reply, TypeInv, TypeOK, StillAsSeen, Inv, Knows
<1>3. ASSUME NEW d \in Calls PROVE Knows(d)'
  <2>1. CASE d = c
    BY <1>2, <2>1 DEF Knows, Creating, Deciding
  <2>2. CASE d # c /\ pc[d] \in Creating \cup Deciding
    <3>1. PICK q \in Requests : q = RequestOf(d)
      BY <2>2, RecordTypes DEF Creating, Deciding, Running
    <3>2. pc[d] \in Creating => q # r
      BY <1>1, <1>2, <2>2, <3>1 DEF Inv, Knows, OneCreator, Creating
    <3>3. /\ pc[d] \in Creating => status'[q] = status[q]
          /\ status[q] # "absent" => status'[q] # "absent"
      BY <1>1, <3>2
    <3> QED BY <1>2, <2>2, <3>1, <3>3
            DEF Inv, Knows, RequestOf, ScopeOf, OpOf, OwnsSession, Entitled
  <2>3. CASE d # c /\ pc[d] \notin Creating \cup Deciding
    BY <1>2, <2>3 DEF Knows, Creating, Deciding
  <2> QED BY <2>1, <2>2, <2>3
<1>4. OneCreator'
  BY <1>2 DEF Inv, OneCreator, RequestOf, Creating
<1>5. TrailTellsStory'
  <2> SUFFICES ASSUME NEW q \in Requests
      PROVE  /\ trail'[q] = CASE status'[q] = "absent" -> <<>>
                             [] status'[q] = "open" ->
                                  <<OwnEvent(q, "created", NoActor)>>
                             [] OTHER -> <<OwnEvent(q, "created", NoActor),
                                           OwnEvent(q, status'[q], assignee'[q])>>
             /\ assignee'[q] = IF status'[q] = "resolved" THEN SessionOf[q].actor
                               ELSE NoActor
    BY DEF TrailTellsStory, OwnEvent
  <2>1. CASE q = r
    BY <1>1, <2>1
  <2>2. CASE q # r
    BY <1>1, <2>2 DEF Inv, TrailTellsStory
  <2> QED BY <2>1, <2>2
<1> QED BY <1>3, <1>4, <1>5 DEF Inv

LEMMA InvStep == TypeInv /\ Inv /\ [Next]_vars => Inv'
<1> SUFFICES ASSUME TypeInv, Inv, [Next]_vars PROVE Inv'
  OBVIOUS
<1>1. ASSUME NEW c \in Calls, RollBack(c) \/ Abort(c) PROVE Inv'
  BY <1>1, ReplyKeeps DEF RollBack, Abort, Replies
<1>2. CASE (\E r \in Requests : Expire(r)) \/ UNCHANGED vars
  <2>1. UNCHANGED <<rows, pc, call>>
    BY <1>2 DEF Expire, vars, rows
  <2>2. (\A d \in Calls : Knows(d))' /\ OneCreator'
    BY <2>1 DEF Inv, Knows, OneCreator, rows, RequestOf, ScopeOf, OpOf, OwnsSession,
                Entitled
  <2> QED BY <2>1, <2>2, StoryKept DEF Inv
<1> QED BY <1>1, <1>2, StartKeeps, ReadKeeps, WriteKeeps DEF Next

(* Status, assignee and audit trail of an escalation tell one story,       *)
(* whatever resolves, cancels and crashes race.                            *)
THEOREM EscalationTrailCorrect == Spec => []TrailTellsStory
<1>1. Inv => TrailTellsStory
  BY DEF Inv
<1> QED BY <1>1, InitTypes, StepTypes, InitInv, InvStep, PTL DEF Spec

-----------------------------------------------------------------------------
(* Authority *)

LEMMA RowsOrWrite ==
  [Next]_vars => UNCHANGED rows \/ \E c \in Calls : InsertRequest(c) \/ Commit(c)
BY DEF Next, StartCreate, CheckParents, StartDecision, Load, RollBack, Abort, Expire,
       rows, vars

(* Escalations are resolved by managers and cancelled by managers or their *)
(* requester, who have seen them open, in every interleaving.              *)
THEOREM EscalationAuthority == Spec => DecidedWithAuthority
<1> DEFINE Step ==
      \A r \in Requests :
        status[r] # status'[r] /\ status'[r] \in {"resolved", "cancelled"} =>
          \E c \in Calls :
            /\ pc[c] = "commit" /\ RequestOf(c) = r /\ call[c].seen = "open"
            /\ \/ ScopeOf(c).manager
               \/ /\ status'[r] = "cancelled"
                  /\ ScopeOf(c).actor = SessionOf[r].actor
<1>1. TypeInv /\ Inv /\ [Next]_vars => [Step]_vars
  <2> SUFFICES ASSUME TypeInv, Inv, [Next]_vars, NEW r \in Requests,
                      status[r] # status'[r], status'[r] \in {"resolved", "cancelled"}
               PROVE  \E c \in Calls :
                        /\ pc[c] = "commit" /\ RequestOf(c) = r
                        /\ call[c].seen = "open"
                        /\ \/ ScopeOf(c).manager
                           \/ /\ status'[r] = "cancelled"
                              /\ ScopeOf(c).actor = SessionOf[r].actor
    OBVIOUS
  <2>1. PICK c \in Calls : InsertRequest(c) \/ Commit(c)
    BY RowsOrWrite DEF rows
  <2>2. /\ RequestOf(c) = r /\ Commit(c)
        /\ status'[r] = Target[OpOf(c)] /\ OpOf(c) \in Decisions
    BY <2>1, WriteEffect
  <2>3. pc[c] = "commit" /\ call[c].seen = "open" /\ Entitled(c)
    BY <2>2 DEF Commit, Inv, Knows
  <2>4. OpOf(c) = "cancel" => status'[r] = "cancelled"
    BY <2>2 DEF Target
  <2> QED BY <2>2, <2>3, <2>4 DEF Entitled
<1> QED BY <1>1, InitTypes, StepTypes, InitInv, InvStep, PTL
        DEF Spec, DecidedWithAuthority

-----------------------------------------------------------------------------
(* Replies *)

(* A handler on its way to create carries a creation. *)
CreatesInv == \A c \in Calls : pc[c] \in Creating => OpOf(c) = "create"

LEMMA InitCreates == Init => CreatesInv
BY DEF Init, CreatesInv, Creating

LEMMA CreatesStep == TypeInv /\ CreatesInv /\ [Next]_vars => CreatesInv'
<1> SUFFICES ASSUME TypeInv, CreatesInv, [Next]_vars, NEW d \in Calls, pc'[d] \in Creating
             PROVE  OpOf(d)' = "create"
  BY DEF CreatesInv
<1>1. ASSUME pc'[d] = pc[d], call'[d] = call[d] PROVE OpOf(d)' = "create"
  BY <1>1 DEF CreatesInv, OpOf
<1>2. ASSUME NEW c \in Calls, NEW r \in Requests, NEW s \in Scopes, StartCreate(c, r, s)
      PROVE  OpOf(d)' = "create"
  BY <1>1, <1>2 DEF StartCreate, Goto, OpOf, TypeInv, TypeOK
<1>3. ASSUME NEW c \in Calls, CheckParents(c) PROVE OpOf(d)' = "create"
  <2>1. CASE c = d
    BY <1>3, <2>1 DEF CheckParents, Reply, Goto, Creating, OpOf, CreatesInv, TypeInv, TypeOK
  <2> QED BY <1>1, <1>3, <2>1 DEF CheckParents, Reply, Goto, TypeInv, TypeOK
<1>4. ASSUME NEW c \in Calls,
             \/ InsertRequest(c) \/ Load(c) \/ Commit(c) \/ RollBack(c) \/ Abort(c)
             \/ \E op \in Decisions, r \in Requests, s \in Scopes : StartDecision(c, op, r, s)
      PROVE  OpOf(d)' = "create"
  <2>1. c # d
    BY <1>4 DEF InsertRequest, Load, Commit, RollBack, Abort, StartDecision, Reply, Goto,
         Creating, TypeInv, TypeOK
  <2> QED BY <1>1, <1>4, <2>1 DEF InsertRequest, Load, Commit, RollBack, Abort,
         StartDecision, Reply, Goto, TypeInv, TypeOK
<1> QED BY <1>1, <1>2, <1>3, <1>4 DEF Next, Expire, vars

(* A handler is answered by its own step. *)
LEMMA OwnStep ==
  ASSUME TypeInv, [Next]_vars, NEW c \in Calls, pc[c] \in Running, pc'[c] \in Replies
  PROVE  \/ CheckParents(c) \/ InsertRequest(c) \/ Load(c) \/ Commit(c) \/ RollBack(c)
         \/ Abort(c)
<1>1. pc[c] \notin Resting /\ pc'[c] # pc[c] /\ pc \in [Calls -> Resting \cup Running]
  BY DEF Running, Resting, Replies, Deciding, Creating, TypeInv, TypeOK
<1>2. ASSUME NEW d \in Calls,
             \/ CheckParents(d) \/ InsertRequest(d) \/ Load(d) \/ Commit(d)
             \/ RollBack(d) \/ Abort(d)
      PROVE  d = c
  BY <1>1, <1>2 DEF CheckParents, InsertRequest, Load, Commit, RollBack, Abort, Reply, Goto
<1>3. ASSUME NEW d \in Calls, NEW r \in Requests, NEW s \in Scopes,
             \/ StartCreate(d, r, s)
             \/ \E op \in Decisions : StartDecision(d, op, r, s)
      PROVE  FALSE
  <2>1. d = c
    BY <1>1, <1>3 DEF StartCreate, StartDecision, Goto
  <2> QED BY <1>1, <1>3, <2>1 DEF StartCreate, StartDecision, Resting
<1>4. ~(\E r \in Requests : Expire(r)) /\ ~UNCHANGED vars
  BY <1>1 DEF Expire, vars
<1> QED BY <1>2, <1>3, <1>4 DEF Next

LEMMA DecisionOnRecord ==
  ASSUME Inv, NEW r \in Requests, status[r] \in {"resolved", "cancelled"}
  PROVE  \E i \in DOMAIN trail[r] : trail[r][i].event = status[r]
<1>1. trail[r] = <<OwnEvent(r, "created", NoActor), OwnEvent(r, status[r], assignee[r])>>
  BY DEF Inv, TrailTellsStory
<1>2. 2 \in DOMAIN trail[r] /\ trail[r][2].event = status[r]
  BY <1>1 DEF OwnEvent
<1> QED BY <1>2

(* Whoever is told "ok" finds the escalation as asked and the event under  *)
(* his name; whoever is told "conflict" finds it expired or a decision on  *)
(* record; and an error without a crash is no decision lost.               *)
THEOREM EscalationReplies == Spec => RepliesAreTrue
<1> DEFINE True ==
      \A c \in Calls : pc[c] \in Running /\ pc'[c] \in Replies =>
        LET r == RequestOf(c)
            asked == IF OpOf(c) = "create" THEN "open" ELSE Target[OpOf(c)]
        IN  /\ pc'[c] = "ok" =>
                 /\ status'[r] = asked
                 /\ \E i \in DOMAIN trail'[r] :
                      /\ trail'[r][i].actor = ScopeOf(c).actor
                      /\ trail'[r][i].event =
                           IF OpOf(c) = "create" THEN "created" ELSE asked
            /\ pc'[c] = "conflict" =>
                 \/ expired[r]
                 \/ \E i \in DOMAIN trail[r] : trail[r][i].event = status[r]
            /\ pc'[c] = "error" /\ aborts' = aborts =>
                 /\ ~OwnsSession(ScopeOf(c), r)
                 /\ status[r] = "open" /\ UNCHANGED rows
<1>1. ASSUME TypeInv, Inv, CreatesInv, [Next]_vars PROVE True
  <2> SUFFICES ASSUME NEW c \in Calls, pc[c] \in Running, pc'[c] \in Replies
               PROVE  LET r == RequestOf(c)
                          asked == IF OpOf(c) = "create" THEN "open" ELSE Target[OpOf(c)]
                      IN  /\ pc'[c] = "ok" =>
                               /\ status'[r] = asked
                               /\ \E i \in DOMAIN trail'[r] :
                                    /\ trail'[r][i].actor = ScopeOf(c).actor
                                    /\ trail'[r][i].event =
                                         IF OpOf(c) = "create" THEN "created" ELSE asked
                          /\ pc'[c] = "conflict" =>
                               \/ expired[r]
                               \/ \E i \in DOMAIN trail[r] : trail[r][i].event = status[r]
                          /\ pc'[c] = "error" /\ aborts' = aborts =>
                               /\ ~OwnsSession(ScopeOf(c), r)
                               /\ status[r] = "open" /\ UNCHANGED rows
    OBVIOUS
  <2> DEFINE r == RequestOf(c)
             asked == IF OpOf(c) = "create" THEN "open" ELSE Target[OpOf(c)]
  <2>1. /\ TypeOK /\ r \in Requests /\ pc \in [Calls -> Resting \cup Running]
        /\ Knows(c)
    BY <1>1, RecordTypes DEF TypeInv, TypeOK, Inv
  <2>2. \/ CheckParents(c) \/ InsertRequest(c) \/ Load(c) \/ Commit(c) \/ RollBack(c)
        \/ Abort(c)
    BY <1>1, OwnStep
  <2>3. ASSUME pc'[c] = "ok"
        PROVE  /\ status'[r] = asked
               /\ \E i \in DOMAIN trail'[r] :
                    /\ trail'[r][i].actor = ScopeOf(c).actor
                    /\ trail'[r][i].event = IF OpOf(c) = "create" THEN "created" ELSE asked
    <3>1. InsertRequest(c) \/ Commit(c)
      BY <2>1, <2>2, <2>3 DEF CheckParents, Load, RollBack, Abort, Reply, Goto
    <3>2. ScopeOf(c).actor = SessionOf[r].actor
      BY <2>1, <3>1 DEF InsertRequest, Commit, Knows, OwnsSession
    <3>3. CASE InsertRequest(c)
      <4>1. status'[r] = "open" /\ trail'[r] = <<OwnEvent(r, "created", NoActor)>>
            /\ OpOf(c) = "create"
        <5>1. status'[r] = "open" /\ trail'[r] = <<OwnEvent(r, "created", NoActor)>>
          BY <1>1, <3>3, InsertEffect
        <5>2. pc[c] = "insert"
          BY <3>3 DEF InsertRequest
        <5> QED BY <1>1, <5>1, <5>2 DEF CreatesInv, Creating
      <4>2. /\ 1 \in DOMAIN trail'[r] /\ trail'[r][1].actor = SessionOf[r].actor
            /\ trail'[r][1].event = "created"
        BY <4>1 DEF OwnEvent
      <4> QED BY <3>2, <4>1, <4>2
    <3>4. CASE Commit(c)
      <4>1. /\ status'[r] = Target[OpOf(c)] /\ OpOf(c) \in Decisions
            /\ trail'[r] = <<OwnEvent(r, "created", NoActor),
                             OwnEvent(r, status'[r], assignee'[r])>>
        BY <1>1, <3>4, CommitEffect
      <4>2. /\ 2 \in DOMAIN trail'[r] /\ trail'[r][2].actor = SessionOf[r].actor
            /\ trail'[r][2].event = status'[r]
        BY <4>1 DEF OwnEvent
      <4>3. OpOf(c) # "create"
        BY <4>1 DEF Decisions
      <4> QED BY <3>2, <4>1, <4>2, <4>3
    <3> QED BY <3>1, <3>3, <3>4
  <2>4. ASSUME pc'[c] = "conflict"
        PROVE  expired[r] \/ \E i \in DOMAIN trail[r] : trail[r][i].event = status[r]
    <3>1. /\ pc[c] \in Deciding
          /\ expired[r] \/ status[r] # "open"
      BY <2>1, <2>2, <2>4 DEF CheckParents, InsertRequest, Load, Commit, RollBack, Abort,
         Reply, Goto, Deciding, OpenAndFresh, StillAsSeen, Knows
    <3>2. status[r] \in {"resolved", "cancelled", "open"}
      BY <2>1, <3>1 DEF Knows, TypeOK, Statuses
    <3> QED BY <1>1, <2>1, <3>1, <3>2, DecisionOnRecord
  <2>5. ASSUME pc'[c] = "error", aborts' = aborts
        PROVE  ~OwnsSession(ScopeOf(c), r) /\ status[r] = "open" /\ UNCHANGED rows
    <3>1. aborts \in Nat
      BY <2>1 DEF TypeOK
    <3> QED BY <2>1, <2>2, <2>5, <3>1 DEF CheckParents, InsertRequest, Load, Commit,
         RollBack, Abort, Reply, Goto, StillAsSeen, Knows
  <2> HIDE DEF r, asked
  <2> QED BY <2>3, <2>4, <2>5 DEF r, asked
<1>2. TypeInv /\ Inv /\ CreatesInv /\ [Next]_vars => [True]_vars
  BY <1>1
<1> QED BY <1>2, InitTypes, StepTypes, InitInv, InvStep, InitCreates, CreatesStep, PTL
        DEF Spec, RepliesAreTrue

-----------------------------------------------------------------------------
(* The decision log *)

LEMMA EventsOfTrails ==
  ASSUME NEW r, NEW e, NEW a
  PROVE  /\ EventsOf(<<>>) = <<>>
         /\ EventsOf(<<OwnEvent(r, "created", NoActor)>>) = <<"created">>
         /\ EventsOf(<<OwnEvent(r, "created", NoActor), OwnEvent(r, e, a)>>)
              = <<"created", e>>
BY DEF EventsOf, OwnEvent

LEMMA LogStep == TypeInv /\ Inv /\ [Next]_vars => [Log!Next]_(Log!vars)
<1> SUFFICES ASSUME TypeInv, Inv, [Next]_vars PROVE [Log!Next]_(Log!vars)
  OBVIOUS
<1>1. CASE UNCHANGED rows
  BY <1>1 DEF rows, Log!vars
<1>2. ASSUME NEW c \in Calls, InsertRequest(c) \/ Commit(c) PROVE Log!Next
  <2>1. PICK r \in Requests :
          /\ \A q \in Requests \ {r} : status'[q] = status[q] /\ trail'[q] = trail[q]
          /\ \/ /\ status[r] = "absent" /\ trail[r] = <<>>
                /\ status'[r] = "open"
                /\ trail'[r] = <<OwnEvent(r, "created", NoActor)>>
             \/ /\ status[r] = "open"
                /\ trail[r] = <<OwnEvent(r, "created", NoActor)>>
                /\ status'[r] \in {"resolved", "cancelled"}
                /\ trail'[r] = <<OwnEvent(r, "created", NoActor),
                                 OwnEvent(r, status'[r], assignee'[r])>>
    BY <1>2, WriteEffect DEF Target, Decisions
  <2>2. /\ EventsOf(trail'[r]) = Append(EventsOf(trail[r]),
                                        IF status'[r] = "open" THEN "created"
                                        ELSE status'[r])
        /\ OutcomeOf(status'[r]) = status'[r]
        /\ OutcomeOf(status[r]) = IF status[r] = "absent" THEN "none" ELSE "open"
    <3>1. Append(<<>>, "created") = <<"created">>
      <4>1. "created" \in {"created"}
        OBVIOUS
      <4> QED BY ONLY <4>1, EmptyAppend
    <3>2. ASSUME NEW e \in {"resolved", "cancelled"}
          PROVE  Append(<<"created">>, e) = <<"created", e>>
      <4>1. "created" \in {"created", e} /\ e \in {"created", e}
        OBVIOUS
      <4> QED BY ONLY <4>1, SecondAppend
    <3>3. CASE status'[r] = "open"
      <4>1. /\ EventsOf(trail[r]) = <<>> /\ EventsOf(trail'[r]) = <<"created">>
            /\ status[r] = "absent"
        BY <2>1, <3>3, EventsOfTrails
      <4> QED BY <3>1, <3>3, <4>1 DEF OutcomeOf
    <3>4. CASE status'[r] # "open"
      <4>1. /\ EventsOf(trail[r]) = <<"created">>
            /\ EventsOf(trail'[r]) = <<"created", status'[r]>>
            /\ status[r] = "open" /\ status'[r] \in {"resolved", "cancelled"}
        <5>1. \A e, a : EventsOf(<<OwnEvent(r, "created", NoActor), OwnEvent(r, e, a)>>)
                          = <<"created", e>>
          BY EventsOfTrails
        <5>2. EventsOf(trail'[r]) = <<"created", status'[r]>>
          BY <2>1, <3>4, <5>1
        <5>3. EventsOf(<<OwnEvent(r, "created", NoActor)>>) = <<"created">>
          BY EventsOfTrails
        <5> QED BY <2>1, <3>4, <5>2, <5>3
      <4>2. Append(<<"created">>, status'[r]) = <<"created", status'[r]>>
        BY <3>2, <4>1
      <4> QED BY <3>4, <4>1, <4>2 DEF OutcomeOf
    <3> QED BY <3>3, <3>4
  <2>3. /\ [q \in Requests |-> OutcomeOf(status'[q])]
             = [[q \in Requests |-> OutcomeOf(status[q])] EXCEPT ![r] = status'[r]]
        /\ [q \in Requests |-> EventsOf(trail'[q])]
             = [[q \in Requests |-> EventsOf(trail[q])] EXCEPT
                  ![r] = Append(@, IF status'[r] = "open" THEN "created"
                                   ELSE status'[r])]
    BY <2>1, <2>2 DEF OutcomeOf
  <2>4. Log!Open(r) \/ \E o \in {"resolved", "cancelled"} : Log!Decide(r, o)
    BY <2>1, <2>2, <2>3 DEF Log!Open, Log!Decide
  <2> QED BY <2>4 DEF Log!Next
<1> QED BY <1>1, <1>2, RowsOrWrite

(* Escalations implement the decision log. *)
THEOREM EscalationLogImplemented == Spec => ImplementsDecisionLog
<1>1. Init => Log!Init
  BY DEF Init, Log!Init, OutcomeOf, EventsOf
<1> QED BY <1>1, InitTypes, StepTypes, InitInv, InvStep, LogStep, PTL
        DEF Spec, ImplementsDecisionLog, Log!Spec
=============================================================================
