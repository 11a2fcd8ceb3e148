---------------------- MODULE SideEffectWorkflowSettled ----------------------
(***************************************************************************)
(* What a finished call leaves behind: an "ok" is true, and nothing but a  *)
(* crash leaves an execution half done.  The key lemma is                  *)
(* RefusedMeansDecided: after the connector, the decision transaction can  *)
(* fail only because the request has been decided in the meantime.         *)
(***************************************************************************)
EXTENDS SideEffectWorkflowOnce, FiniteSetTheorems

-----------------------------------------------------------------------------
(* What a handler holds on to, and what the tables say of each other *)

(* The record of a call that creates says so; a call that executes nothing *)
(* has no key; a decision saw its request in the initial status; a replay  *)
(* repeats the decision, and the key, its request carries; and an          *)
(* execution that is to be recorded was requested by the session's owner.  *)
Grip(c) ==
  /\ pc[c] \in Creating => OpOf(c) = "create"
  /\ pc[c] \in Deciding /\ OpOf(c) \notin Executing => call[c].key = NoKey
  /\ pc[c] \in Seen /\ ~call[c].replay =>
       call[c].seen = InitialStatus[KindOf[RequestOf(c)]]
  /\ pc[c] \in Guarding /\ call[c].replay =>
       /\ status[RequestOf(c)] = Target[OpOf(c)]
       /\ reqKey[RequestOf(c)] = call[c].key
  /\ pc[c] = "finalize" /\ OpOf(c) \in Executing =>
       OwnsSession(ScopeOf(c), RequestOf(c))

(* A row lies in the customer of its request; an effect belongs to a       *)
(* request that exists; a request carries a key only if it was executed;   *)
(* and an open request is in the initial status of its kind.               *)
Shelf ==
  /\ \A t \in toolCalls : t.customer = SessionOf[t.request].customer
  /\ \A x \in applied : status[x[1]] # "absent"
  /\ \A r \in Requests : reqKey[r] # NoKey => status[r] \in {"executed", "approved"}
  /\ \A r \in Requests : status[r] \in OpenStatuses => status[r] = InitialStatus[KindOf[r]]

GripInv == Shelf /\ \A c \in Calls : Grip(c)

(* A decision stands, with the key it was made under. *)
Final ==
  \A r \in Requests :
    /\ status[r] \in DecidedStatuses => status'[r] = status[r] /\ reqKey'[r] = reqKey[r]
    /\ status[r] # "absent" => status'[r] # "absent"
    /\ status'[r] \in OpenStatuses => status[r] \in OpenStatuses \cup {"absent"}

LEMMA InsertWrites ==
  ASSUME KnownInv, NEW c \in Calls, InsertRequest(c)
  PROVE  /\ RequestOf(c) \in Requests /\ status[RequestOf(c)] = "absent"
         /\ status' = [status EXCEPT ![RequestOf(c)] = InitialStatus[KindOf[RequestOf(c)]]]
         /\ status'[RequestOf(c)] = InitialStatus[KindOf[RequestOf(c)]]
         /\ status'[RequestOf(c)] \in OpenStatuses
         /\ \A r \in Requests : r # RequestOf(c) => status'[r] = status[r]
         /\ UNCHANGED <<reqKey, toolCalls, applied>>
<1>1. RequestOf(c) \in Requests /\ KindOf[RequestOf(c)] \in Kinds
  BY RecordTypes, TypeParts DEF KnownInv, InsertRequest, Running
<1> QED BY <1>1, OutcomeFacts
        DEF KnownInv, InsertRequest, JournalInv, Frame, Creating, TypeInv, TypeOK, execution

LEMMA FinalizeWrites ==
  ASSUME KnownInv, NEW c \in Calls, Finalize(c)
  PROVE  /\ RequestOf(c) \in Requests /\ OpOf(c) \in Decisions
         /\ status[RequestOf(c)] = call[c].seen /\ status[RequestOf(c)] \in OpenStatuses
         /\ status'[RequestOf(c)] = Target[OpOf(c)]
         /\ status'[RequestOf(c)] \in DecidedStatuses
         /\ reqKey'[RequestOf(c)] =
              IF OpOf(c) \in Executing THEN call[c].key ELSE reqKey[RequestOf(c)]
         /\ \A r \in Requests : r # RequestOf(c) =>
              status'[r] = status[r] /\ reqKey'[r] = reqKey[r]
         /\ UNCHANGED <<toolCalls, applied>>
<1>1. /\ RequestOf(c) \in Requests /\ OpOf(c) \in Decisions /\ pc[c] = "finalize"
  BY RecordTypes, TypeParts
     DEF KnownInv, Finalize, Running, Control, CallFilled, Deciding
<1>2. call[c].seen \in OpenStatuses
  BY <1>1 DEF KnownInv, JournalInv, Frame, Seen
<1> QED BY <1>1, <1>2, OutcomeFacts
        DEF KnownInv, Finalize, CanCommit, TypeInv, TypeOK, execution

LEMMA StatusWrites ==
  [Next]_vars => \/ UNCHANGED <<status, reqKey>>
                 \/ \E c \in Calls : InsertRequest(c) \/ Finalize(c)
BY Footprint DEF db

LEMMA DecisionsStand == KnownInv /\ [Next]_vars => Final
<1> SUFFICES ASSUME KnownInv, [Next]_vars PROVE Final
  OBVIOUS
<1>1. CASE UNCHANGED <<status, reqKey>>
  BY <1>1 DEF Final
<1>2. ASSUME NEW c \in Calls, InsertRequest(c) PROVE Final
  BY <1>2, InsertWrites, OutcomeFacts DEF Final
<1>3. ASSUME NEW c \in Calls, Finalize(c) PROVE Final
  BY <1>3, FinalizeWrites, OutcomeFacts DEF Final
<1> QED BY <1>1, <1>2, <1>3, StatusWrites

-----------------------------------------------------------------------------
(* The grip of the handlers *)

LEMMA GripKept ==
  ASSUME KnownInv, Final, NEW d \in Calls, Grip(d), pc'[d] = pc[d], call'[d] = call[d]
  PROVE  Grip(d)'
<1>1. /\ OpOf(d)' = OpOf(d) /\ RequestOf(d)' = RequestOf(d) /\ ScopeOf(d)' = ScopeOf(d)
  BY DEF OpOf, RequestOf, ScopeOf
<1>2. ASSUME pc[d] \in Guarding, call[d].replay
      PROVE  /\ status'[RequestOf(d)] = status[RequestOf(d)]
             /\ reqKey'[RequestOf(d)] = reqKey[RequestOf(d)]
  <2>1. RequestOf(d) \in Requests /\ OpOf(d) \in Executing
    BY <1>2, RecordTypes, TypeParts
       DEF KnownInv, Control, CallFilled, Guarding, Running
  <2>2. status[RequestOf(d)] \in DecidedStatuses
    BY <1>2, <2>1, OutcomeFacts DEF Grip, Executing, Decisions
  <2> QED BY <2>1, <2>2 DEF Final
<1> QED BY <1>1, <1>2 DEF Grip, OwnsSession

LEMMA GripNothing ==
  ASSUME NEW c \in Calls, pc'[c] \in Resting
  PROVE  Grip(c)'
BY DEF Grip, Resting, Replies, Creating, Deciding, Seen, Guarding

(* A handler that moves on inside the guard, or out of it. *)
LEMMA GripMoves ==
  ASSUME KnownInv, Final, NEW c \in Calls, Grip(c), pc[c] \in Guarding,
         NEW l \in Guarding \cup {"finalize"}, pc'[c] = l,
         SameRecord(c), call'[c].seen = call[c].seen,
         l = "finalize" => pc[c] \in Keyed
  PROVE  Grip(c)'
<1>1. /\ OpOf(c)' = OpOf(c) /\ RequestOf(c)' = RequestOf(c) /\ ScopeOf(c)' = ScopeOf(c)
  BY DEF SameRecord, OpOf, RequestOf, ScopeOf
<1>2. ASSUME call[c].replay
      PROVE  /\ status'[RequestOf(c)] = status[RequestOf(c)]
             /\ reqKey'[RequestOf(c)] = reqKey[RequestOf(c)]
  <2>1. RequestOf(c) \in Requests /\ OpOf(c) \in Executing
    BY RecordTypes, TypeParts DEF KnownInv, Control, CallFilled, Guarding, Running
  <2>2. status[RequestOf(c)] \in DecidedStatuses
    BY <1>2, <2>1, OutcomeFacts DEF Grip, Executing, Decisions
  <2> QED BY <2>1, <2>2 DEF Final
<1>3. pc[c] \in Deciding /\ pc[c] \in Seen /\ l \notin Creating
  BY DEF Guarding, Deciding, Seen, Creating
<1>4. l = "finalize" => OwnsSession(ScopeOf(c), RequestOf(c))
  BY DEF KnownInv, RowInv, Know
<1> QED BY <1>1, <1>2, <1>3, <1>4 DEF Grip, SameRecord, OwnsSession, Guarding

LEMMA LoadGrips ==
  ASSUME KnownInv, GripInv, NEW c \in Calls, Load(c)
  PROVE  Grip(c)'
<1>1. /\ pc[c] = "load" /\ call[c] \in CallRecord /\ RequestOf(c) \in Requests
      /\ Grip(c) /\ OpOf(c) \in Decisions
  BY RecordTypes, TypeParts
     DEF Load, Running, GripInv, KnownInv, Control, CallFilled, Deciding
<1>2. CASE \E a \in Replies : Reply(c, a)
  BY <1>2, GripNothing DEF Reply, Resting, KnownInv, TypeInv, TypeOK
<1>3. ASSUME NEW replay \in BOOLEAN, NEW l \in {"guard", "finalize"},
             l = "finalize" => OpOf(c) \notin Executing,
             replay => AlreadyDone(c) /\ SameKey(c), ~replay => Decidable(c),
             call' = [call EXCEPT ![c].seen = status[RequestOf(c)], ![c].replay = replay],
             Goto(c, l)
      PROVE  Grip(c)'
  <2>1. /\ pc'[c] = l /\ call'[c].replay = replay
        /\ call'[c].seen = status[RequestOf(c)] /\ call'[c].key = call[c].key
    BY <1>1, <1>3 DEF Goto, KnownInv, TypeInv, TypeOK, CallRecord
  <2>2. OpOf(c)' = OpOf(c) /\ RequestOf(c)' = RequestOf(c)
    BY <1>1, <1>3 DEF OpOf, RequestOf, KnownInv, TypeInv, TypeOK, CallRecord
  <2>3. UNCHANGED <<status, reqKey>>
    BY DEF Load, db
  <2>4. ~replay => status[RequestOf(c)] = InitialStatus[KindOf[RequestOf(c)]]
    BY <1>1, <1>3 DEF Decidable, GripInv, Shelf
  <2>5. replay => /\ status[RequestOf(c)] = Target[OpOf(c)]
                  /\ reqKey[RequestOf(c)] = call[c].key
    BY <1>3 DEF AlreadyDone, SameKey
  <2>6. OpOf(c) \notin Executing => call[c].key = NoKey
    BY <1>1 DEF Grip, Deciding
  <2>7. l \notin Creating
    BY DEF Creating
  <2> QED BY <1>3, <2>1, <2>2, <2>3, <2>4, <2>5, <2>6, <2>7 DEF Grip
<1> QED BY <1>2, <1>3 DEF Load, Replies

LEMMA GuardGrips ==
  ASSUME KnownInv, GripInv, Final, NEW c \in Calls,
         \/ CheckParents(c) \/ ResolveTool(c) \/ ResolvePolicy(c) \/ LookupKey(c)
         \/ Reserve(c) \/ CallConnector(c) \/ RecordOutcome(c) \/ AuditOutcome(c)
  PROVE  Grip(c)'
<1>1. pc[c] \in Guarding /\ call[c] \in CallRecord /\ Grip(c)
  <2>1. pc[c] \in Guarding
    BY DEF CheckParents, ResolveTool, ResolvePolicy, LookupKey, Reserve, CallConnector,
           RecordOutcome, AuditOutcome, Guarding
  <2> QED BY <2>1 DEF Guarding, Running, GripInv, KnownInv, TypeInv, TypeOK
<1>2. CASE \E a \in Replies : Reply(c, a)
  BY <1>2, GripNothing DEF Reply, Resting, KnownInv, TypeInv, TypeOK
<1>3. ASSUME NEW l \in Guarding \cup {"finalize"}, Goto(c, l),
             l = "finalize" => pc[c] \in Keyed,
             \/ UNCHANGED call
             \/ \E x \in Contracts : call' = [call EXCEPT ![c].contract = x]
             \/ \E x \in {"succeeded", "failed"} : call' = [call EXCEPT ![c].outcome = x]
      PROVE  Grip(c)'
  <2>1. pc'[c] = l /\ SameRecord(c) /\ call'[c].seen = call[c].seen
    BY <1>1, <1>3 DEF Goto, SameRecord, KnownInv, TypeInv, TypeOK, CallRecord
  <2> QED BY <1>1, <1>3, <2>1, GripMoves
<1>4. CASE CheckParents(c) \/ ResolvePolicy(c) \/ LookupKey(c)
  BY <1>2, <1>3, <1>4 DEF CheckParents, ResolvePolicy, LookupKey, Deny, AfterGuard,
                          Replies, Guarding, Keyed
<1>5. CASE ResolveTool(c)
  <2>1. tool[KindOf[RequestOf(c)]].contract \in Contracts
    BY <1>5, RecordTypes, TypeParts DEF KnownInv, Data, ResolveTool, Running
  <2> QED BY <1>2, <1>3, <1>5, <2>1 DEF ResolveTool, Deny, Replies, Guarding, Keyed
<1>6. CASE Reserve(c) \/ CallConnector(c) \/ RecordOutcome(c) \/ AuditOutcome(c)
  BY <1>2, <1>3, <1>6 DEF Reserve, CallConnector, RecordOutcome, AuditOutcome, AfterGuard,
                          Replies, Guarding, Keyed
<1> QED BY <1>4, <1>5, <1>6

LEMMA StepGrips ==
  ASSUME KnownInv, GripInv, [Next]_vars
  PROVE  \A c \in Calls : Grip(c)'
<1>1. Final
  BY DecisionsStand
<1>2. ASSUME NEW c \in Calls, Alone(c), Grip(c)' PROVE \A d \in Calls : Grip(d)'
  <2>1. \A d \in Calls : d # c => Grip(d)'
    BY <1>1, <1>2, GripKept DEF Alone, GripInv
  <2> QED BY <1>2, <2>1
<1>3. ASSUME NEW c \in Calls, Step(c) \/ Abort(c) PROVE Grip(c)'
  <2>1. CASE \E a \in Replies : Reply(c, a)
    BY <2>1, GripNothing DEF Reply, Resting, KnownInv, TypeInv, TypeOK
  <2>2. CASE ResolveContract(c) /\ Goto(c, "insert")
               /\ call' = [call EXCEPT ![c].contract = tool[KindOf[RequestOf(c)]].contract]
    <3>1. pc'[c] = "insert" /\ OpOf(c) = "create" /\ call[c] \in CallRecord
      BY <2>2 DEF ResolveContract, Goto, GripInv, Grip, Creating, KnownInv, TypeInv,
                  TypeOK, Running
    <3>2. OpOf(c)' = OpOf(c)
      BY <2>2, <3>1 DEF OpOf, KnownInv, TypeInv, TypeOK, CallRecord
    <3> QED BY <3>1, <3>2 DEF Grip, Deciding, Seen, Guarding
  <2> QED BY <1>1, <1>3, <2>1, <2>2, LoadGrips, GuardGrips
          DEF Step, ResolveContract, InsertRequest, Finalize, RollBack, Abort, Replies
<1>4. ASSUME NEW c \in Calls, NEW r \in Requests, NEW s \in Scopes, StartCreate(c, r, s)
      PROVE  Grip(c)'
  BY <1>4 DEF StartCreate, Goto, Grip, OpOf, Creating, Deciding, Seen, Guarding,
              KnownInv, TypeInv, TypeOK
<1>5. ASSUME NEW c \in Calls, NEW op \in Decisions, NEW r \in Requests,
             NEW k \in Keys \cup {NoKey}, NEW s \in Scopes, StartDecision(c, op, r, k, s)
      PROVE  Grip(c)'
  BY <1>5 DEF StartDecision, Goto, Grip, OpOf, Creating, Deciding, Seen, Guarding,
              KnownInv, TypeInv, TypeOK
<1>6. CASE UNCHANGED <<pc, call>>
  BY <1>1, <1>6, GripKept DEF GripInv
<1>7. CASE Next
  BY <1>2, <1>3, <1>4, <1>5, <1>6, <1>7, StepAlone
     DEF Next, Expire, ChangeTool, ChangePolicy, KnownInv
<1> QED BY <1>6, <1>7 DEF vars

-----------------------------------------------------------------------------
(* The tables *)

LEMMA RowsOwned ==
  ASSUME KnownInv, GripInv, [Next]_vars
  PROVE  \A t \in toolCalls' : t.customer = SessionOf[t.request].customer
<1>1. CASE UNCHANGED toolCalls
  BY <1>1 DEF GripInv, Shelf
<1>2. ASSUME NEW c \in Calls, Reserve(c)
      PROVE  \A t \in toolCalls' : t.customer = SessionOf[t.request].customer
  <2>1. ScopeOf(c).customer = SessionOf[RequestOf(c)].customer
    BY <1>2 DEF Reserve, KnownInv, RowInv, Know, Keyed, OwnsSession
  <2> QED BY <1>2, <2>1 DEF Reserve, GripInv, Shelf
<1>3. ASSUME NEW c \in Calls, RecordOutcome(c)
      PROVE  \A t \in toolCalls' : t.customer = SessionOf[t.request].customer
  <2> DEFINE s == ResultState[call[c].outcome]
             new(t) == IF t \in RowsAt(SlotOf(c)) THEN [t EXCEPT !.state = s] ELSE t
  <2>1. toolCalls' = {new(t) : t \in toolCalls}
    BY <1>3 DEF RecordOutcome
  <2>2. \A t \in toolCalls : new(t).customer = t.customer /\ new(t).request = t.request
    BY RowUpdate DEF KnownInv, TypeInv, TypeOK
  <2> HIDE DEF new
  <2> QED BY <2>1, <2>2 DEF GripInv, Shelf
<1>4. UNCHANGED toolCalls \/ \E c \in Calls : Reserve(c) \/ RecordOutcome(c)
  BY Footprint
<1> QED BY <1>1, <1>2, <1>3, <1>4

LEMMA AppliedExists ==
  ASSUME KnownInv, GripInv, [Next]_vars
  PROVE  \A x \in applied' : status'[x[1]] # "absent"
<1>1. applied \subseteq Requests \X Keys /\ \A x \in applied : status[x[1]] # "absent"
  BY DEF GripInv, Shelf, KnownInv, TypeInv, TypeOK
<1>2. CASE UNCHANGED applied
  BY <1>1, <1>2, DecisionsStand DEF Final
<1>3. ASSUME NEW c \in Calls, CallConnector(c)
      PROVE  \A x \in applied' : status'[x[1]] # "absent"
  <2>1. UNCHANGED status /\ applied' \subseteq applied \cup {<<RequestOf(c), call[c].key>>}
    BY <1>3 DEF CallConnector, db
  <2>2. status[RequestOf(c)] # "absent"
    BY <1>3 DEF CallConnector, KnownInv, JournalInv, Frame, Deciding
  <2> QED BY <1>1, <2>1, <2>2
<1>4. UNCHANGED applied \/ \E c \in Calls : CallConnector(c)
  BY Footprint
<1> QED BY <1>2, <1>3, <1>4

LEMMA StatusShelf ==
  ASSUME KnownInv, GripInv, [Next]_vars
  PROVE  \A r \in Requests :
           /\ reqKey'[r] # NoKey => status'[r] \in {"executed", "approved"}
           /\ status'[r] \in OpenStatuses => status'[r] = InitialStatus[KindOf[r]]
<1>1. CASE UNCHANGED <<status, reqKey>>
  BY <1>1 DEF GripInv, Shelf
<1>2. ASSUME NEW c \in Calls, InsertRequest(c), NEW r \in Requests
      PROVE  /\ reqKey'[r] # NoKey => status'[r] \in {"executed", "approved"}
             /\ status'[r] \in OpenStatuses => status'[r] = InitialStatus[KindOf[r]]
  BY <1>2, InsertWrites DEF GripInv, Shelf
<1>3. ASSUME NEW c \in Calls, Finalize(c), NEW r \in Requests
      PROVE  /\ reqKey'[r] # NoKey => status'[r] \in {"executed", "approved"}
             /\ status'[r] \in OpenStatuses => status'[r] = InitialStatus[KindOf[r]]
  <2>1. CASE r # RequestOf(c)
    BY <1>3, <2>1, FinalizeWrites DEF GripInv, Shelf
  <2>2. CASE r = RequestOf(c)
    <3>1. reqKey[r] = NoKey
      BY <1>3, <2>2, FinalizeWrites DEF GripInv, Shelf, OpenStatuses
    <3>2. OpOf(c) \in Executing => Target[OpOf(c)] \in {"executed", "approved"}
      BY DEF Executing, Target
    <3> QED BY <1>3, <2>2, <3>1, <3>2, FinalizeWrites, OutcomeFacts
  <2> QED BY <2>1, <2>2
<1> QED BY <1>1, <1>2, <1>3, StatusWrites

LEMMA GripStep == KnownInv /\ GripInv /\ [Next]_vars => GripInv'
BY StepGrips, RowsOwned, AppliedExists, StatusShelf DEF GripInv, Shelf

LEMMA InitGrip == Init => GripInv
BY DEF Init, GripInv, Shelf, Grip, Creating, Deciding, Seen, Guarding, OpenStatuses

-----------------------------------------------------------------------------
(* What an "ok" means *)

LEMMA OkStep ==
  ASSUME KnownInv, GripInv, [Next]_vars, NEW c \in Calls,
         pc[c] \in Running, pc'[c] = "ok"
  PROVE  LET r == RequestOf(c)
         IN  /\ OpOf(c) = "create" => status'[r] = InitialStatus[KindOf[r]]
             /\ OpOf(c) # "create" => status'[r] = Target[OpOf(c)]
             /\ OpOf(c) \in Executing =>
                  /\ reqKey'[r] = call[c].key
                  /\ \E t \in toolCalls' : /\ t.customer = SessionOf[r].customer
                                           /\ t.key = call[c].key
                                           /\ t.request = r
<1> DEFINE r == RequestOf(c)
           Backed == \E t \in toolCalls : /\ t.customer = SessionOf[r].customer
                                          /\ t.key = call[c].key
                                          /\ t.request = r
<1>1. r \in Requests /\ Know(c) /\ Grip(c)
  BY RecordTypes, TypeParts DEF KnownInv, RowInv, GripInv
<1>2. pc[c] \notin Resting
  BY DEF Running, Resting, Replies
<1>3. InsertRequest(c) \/ LookupKey(c) \/ AuditOutcome(c) \/ Finalize(c)
  <2>1. pc'[c] # pc[c]
    BY <1>2 DEF Resting, Replies
  <2>2. ASSUME NEW d \in Calls, d # c, Alone(d) PROVE FALSE
    BY <2>1, <2>2 DEF Alone
  <2>3. Step(c) \/ Abort(c)
    BY <1>2, <2>1, <2>2, StepAlone
       DEF Next, StartCreate, StartDecision, Expire, ChangeTool, ChangePolicy, vars,
           KnownInv
  <2> QED BY <2>3
          DEF Step, Abort, ResolveContract, Load, CheckParents, ResolveTool,
              ResolvePolicy, Reserve, CallConnector, RecordOutcome, RollBack, Reply,
              Goto, Deny, KnownInv, TypeInv, TypeOK
<1>4. ASSUME OwnRow(c), ScopeOf(c).customer = SessionOf[r].customer PROVE Backed
  BY <1>4 DEF OwnRow, RowsAt, SlotOf
<1>5. CASE InsertRequest(c)
  <2>1. OpOf(c) = "create"
    BY <1>1, <1>5 DEF InsertRequest, Grip, Creating
  <2> QED BY <1>5, <2>1, InsertWrites DEF Executing
<1>6. CASE AuditOutcome(c)
  <2>1. ~call[c].replay /\ pc[c] = "audit"
    BY <1>1, <1>6 DEF AuditOutcome, Know, Sending
  <2> QED BY <1>6, <2>1 DEF AuditOutcome, AfterGuard, Goto, KnownInv, TypeInv, TypeOK
<1>7. CASE LookupKey(c)
  <2>1. pc[c] = "lookup" /\ call[c].replay /\ UNCHANGED <<db, toolCalls>>
    BY <1>7 DEF LookupKey, AfterGuard, Goto, Reply, KnownInv, TypeInv, TypeOK
  <2>2. status[r] = Target[OpOf(c)] /\ reqKey[r] = call[c].key
    BY <1>1, <2>1 DEF Grip, Guarding
  <2>3. OpOf(c) \in Executing
    BY <2>1 DEF KnownInv, TypeInv, CallFilled, Guarding
  <2>4. Backed
    BY <1>1, <1>4, <2>1 DEF Know, Guarding, Seen
  <2> QED BY <2>1, <2>2, <2>3, <2>4 DEF Executing, db
<1>8. CASE Finalize(c)
  <2>1. OpOf(c) \in Decisions /\ pc[c] = "finalize" /\ OpOf(c) # "create"
    BY <1>8, FinalizeWrites DEF Finalize, Decisions
  <2>2. OpOf(c) \in Executing => Backed
    BY <1>1, <1>4, <2>1 DEF Know, Seen
  <2> QED BY <1>8, <2>1, <2>2, FinalizeWrites
<1> QED BY <1>3, <1>5, <1>6, <1>7, <1>8

(* Whoever is answered "ok" finds the request created, or decided as asked *)
(* and, if it was executed, with the caller's own key and tool call on it. *)
THEOREM OkIsTrue == Spec => OkMeansDone
<1> DEFINE Promise == \A c \in Calls : pc[c] \in Running /\ pc'[c] = "ok" =>
             LET r == RequestOf(c)
             IN  /\ OpOf(c) = "create" => status'[r] = InitialStatus[KindOf[r]]
                 /\ OpOf(c) # "create" => status'[r] = Target[OpOf(c)]
                 /\ OpOf(c) \in Executing =>
                      /\ reqKey'[r] = call[c].key
                      /\ \E t \in toolCalls' : /\ t.customer = SessionOf[r].customer
                                               /\ t.key = call[c].key
                                               /\ t.request = r
<1>1. KnownInv /\ GripInv /\ [Next]_vars => [Promise]_vars
  BY OkStep
<1> QED BY <1>1, InitKnown, KnownStep, InitGrip, GripStep, PTL DEF Spec, OkMeansDone

-----------------------------------------------------------------------------
(* Half-done executions *)

(* A handler stands still unless it is its own turn. *)
LEMMA OwnTurn ==
  ASSUME KnownInv, [Next]_vars, NEW c \in Calls, pc[c] \in Running
  PROVE  Step(c) \/ Abort(c) \/ (pc'[c] = pc[c] /\ call'[c] = call[c])
<1>1. pc[c] \notin Resting
  BY DEF Running, Resting, Replies
<1>2. ASSUME NEW d \in Calls, d # c, Alone(d)
      PROVE  pc'[c] = pc[c] /\ call'[c] = call[c]
  BY <1>2 DEF Alone
<1> QED BY <1>1, <1>2, StepAlone
        DEF Next, StartCreate, StartDecision, Expire, ChangeTool, ChangePolicy, vars,
            KnownInv

(* Once a key is reserved for it, the decision transaction of a call is    *)
(* refused only if the request has been decided in the meantime.           *)
LEMMA RefusedMeansDecided ==
  ASSUME KnownInv, GripInv, NEW c \in Calls, pc[c] = "finalize",
         call[c].key \in Keys, ~CanCommit(c)
  PROVE  status[RequestOf(c)] \notin OpenStatuses
<1> DEFINE r == RequestOf(c)
<1>1. /\ r \in Requests /\ Know(c) /\ Grip(c) /\ ~call[c].replay
      /\ ScopeOf(c).customer = SessionOf[r].customer
  BY RecordTypes, TypeParts
     DEF KnownInv, RowInv, GripInv, Running, JournalInv, Frame, Know, Seen
<1>2. OpOf(c) \in Executing
  BY <1>1, NullAssumption DEF Grip, Deciding
<1>3. PICK t \in toolCalls : /\ t.customer = SessionOf[r].customer
                             /\ t.key = call[c].key /\ t.request = r
  BY <1>1, <1>2 DEF Know, OwnRow, RowsAt, SlotOf
<1>4. ~KeyTaken(r, call[c].key)
  <2> SUFFICES ASSUME NEW q \in Requests \ {r},
                      SessionOf[q].customer = SessionOf[r].customer,
                      reqKey[q] = call[c].key
               PROVE  FALSE
    BY DEF KeyTaken
  <2>1. status[q] \in {"executed", "approved"}
    BY NullAssumption DEF GripInv, Shelf
  <2>2. PICK u \in toolCalls : /\ u.customer = SessionOf[q].customer
                               /\ u.key = reqKey[q] /\ u.request = q
    BY <2>1 DEF KnownInv, RowInv, DecidedHasToolCall
  <2>3. u = t
    BY <1>3, <2>2 DEF KnownInv, RowInv, UniqueRows
  <2> QED BY <1>3, <2>2, <2>3
<1>5. OwnsSession(ScopeOf(c), r)
  BY <1>1, <1>2 DEF Grip
<1>6. status[r] # call[c].seen
  BY <1>4, <1>5 DEF CanCommit
<1>7. call[c].seen = InitialStatus[KindOf[r]]
  BY <1>1 DEF Grip, Seen
<1> QED BY <1>1, <1>6, <1>7 DEF GripInv, Shelf

(* A call cut short while it carries this request and key. *)
CutShort(x) == \E c \in Calls : /\ Abort(c)
                                /\ RequestOf(c) = x[1] /\ call[c].key = x[2]

LEMMA InProgressStep ==
  ASSUME KnownInv, GripInv, [Next]_vars, NEW x \in Requests \X Keys, LeftInProgress(x)'
  PROVE  LeftInProgress(x) \/ CutShort(x)
<1> DEFINE Open(t) == t.request = x[1] /\ t.key = x[2] /\ t.state = "in_progress"
<1>1. PICK u \in toolCalls' : Open(u)
  BY DEF LeftInProgress
<1>2. ~Carried(x, {"connector", "record"})'
  BY DEF LeftInProgress
<1>3. ASSUME NEW c \in Calls, RecordOutcome(c)
      PROVE  /\ \E t \in toolCalls : Open(t)
             /\ ~(RequestOf(c) = x[1] /\ call[c].key = x[2])
  <2> DEFINE s == ResultState[call[c].outcome]
             new(t) == IF t \in RowsAt(SlotOf(c)) THEN [t EXCEPT !.state = s] ELSE t
  <2>1. toolCalls' = {new(t) : t \in toolCalls}
    BY <1>3 DEF RecordOutcome
  <2>2. s # "in_progress"
    BY <1>3, ResultTypes DEF RecordOutcome, KnownInv, TypeInv, CallFilled
  <2>3. PICK t \in toolCalls : u = new(t)
    BY <1>1, <2>1
  <2>4. t \notin RowsAt(SlotOf(c)) /\ u = t
    <3>1. t \in RowsAt(SlotOf(c)) => u.state = s
      BY <2>3, RowUpdate DEF KnownInv, TypeInv, TypeOK
    <3> QED BY <1>1, <2>2, <2>3, <3>1
  <2>5. ASSUME RequestOf(c) = x[1], call[c].key = x[2] PROVE FALSE
    <3>1. t.customer = ScopeOf(c).customer
      <4>1. t.customer = SessionOf[t.request].customer
        BY DEF GripInv, Shelf
      <4>2. ScopeOf(c).customer = SessionOf[RequestOf(c)].customer
        BY <1>3 DEF RecordOutcome, KnownInv, RowInv, Know, Seen, Guarding
      <4> QED BY <1>1, <2>4, <2>5, <4>1, <4>2
    <3>2. t \in RowsAt(SlotOf(c))
      BY <1>1, <2>4, <2>5, <3>1 DEF RowsAt, SlotOf
    <3> QED BY <2>4, <3>2
  <2> QED BY <1>1, <2>4, <2>5
<1>4. ASSUME NEW c \in Calls, Reserve(c) PROVE \E t \in toolCalls : Open(t)
  <2>1. CASE UNCHANGED toolCalls
    BY <1>1, <2>1
  <2>2. CASE /\ Goto(c, "connector") /\ UNCHANGED call
             /\ toolCalls' = toolCalls \cup
                  {[customer |-> ScopeOf(c).customer, key |-> call[c].key,
                    request |-> RequestOf(c), contract |-> call[c].contract,
                    state |-> "in_progress"]}
    <3>1. pc'[c] = "connector" /\ RequestOf(c)' = RequestOf(c) /\ call'[c].key = call[c].key
      BY <2>2 DEF Goto, RequestOf, KnownInv, TypeInv, TypeOK
    <3>2. ~(RequestOf(c) = x[1] /\ call[c].key = x[2])
      BY <1>2, <3>1 DEF Carried
    <3> QED BY <1>1, <2>2, <3>2
  <2> QED BY <1>4, <2>1, <2>2 DEF Reserve
<1>5. \E t \in toolCalls : Open(t)
  <2>1. UNCHANGED toolCalls \/ \E c \in Calls : Reserve(c) \/ RecordOutcome(c)
    BY Footprint
  <2> QED BY <1>1, <1>3, <1>4, <2>1
<1>6. ASSUME NEW c \in Calls, pc[c] \in {"connector", "record"},
             RequestOf(c) = x[1], call[c].key = x[2]
      PROVE  Abort(c)
  <2>1. ~(/\ pc'[c] \in {"connector", "record"}
          /\ RequestOf(c)' = x[1] /\ call'[c].key = x[2])
    BY <1>2 DEF Carried
  <2>2. ~(pc'[c] = pc[c] /\ call'[c] = call[c])
    BY <1>6, <2>1 DEF RequestOf
  <2>3. ~CallConnector(c)
    BY <1>6, <2>1
       DEF CallConnector, Goto, RequestOf, KnownInv, TypeInv, TypeOK, Running, CallRecord
  <2>4. ~RecordOutcome(c)
    BY <1>3, <1>6
  <2>5. Step(c) => CallConnector(c) \/ RecordOutcome(c)
    BY <1>6 DEF Step, ResolveContract, InsertRequest, Load, CheckParents, ResolveTool,
                ResolvePolicy, LookupKey, Reserve, AuditOutcome, Finalize, RollBack
  <2> QED BY <1>6, <2>2, <2>3, <2>4, <2>5, OwnTurn DEF Running
<1> QED BY <1>5, <1>6 DEF LeftInProgress, Carried, CutShort

LEMMA UnrecordedStep ==
  ASSUME KnownInv, GripInv, [Next]_vars, NEW x \in Requests \X Keys, LeftUnrecorded(x)'
  PROVE  LeftUnrecorded(x) \/ CutShort(x)
<1> DEFINE late == {"record", "audit", "finalize"}
<1>1. x \in applied' /\ status'[x[1]] \in OpenStatuses /\ ~Carried(x, late)'
  BY DEF LeftUnrecorded
<1>2. x \in applied
  <2>1. ASSUME NEW c \in Calls, CallConnector(c) PROVE x \in applied
    <3>1. /\ pc'[c] = "record" /\ RequestOf(c)' = RequestOf(c)
          /\ call'[c].key = call[c].key
      BY <2>1 DEF CallConnector, Goto, RequestOf, KnownInv, TypeInv, TypeOK, Running,
                  CallRecord
    <3>2. ~(RequestOf(c) = x[1] /\ call[c].key = x[2])
      BY <1>1, <3>1 DEF Carried
    <3> QED BY <1>1, <2>1, <3>2 DEF CallConnector
  <2>2. UNCHANGED applied \/ \E c \in Calls : CallConnector(c)
    BY Footprint
  <2> QED BY <1>1, <2>1, <2>2
<1>3. status[x[1]] \in OpenStatuses
  BY <1>1, <1>2, DecisionsStand DEF Final, GripInv, Shelf
<1>4. ASSUME NEW c \in Calls, pc[c] \in late, RequestOf(c) = x[1], call[c].key = x[2]
      PROVE  Abort(c)
  <2>1. ~(pc'[c] \in late /\ RequestOf(c)' = x[1] /\ call'[c].key = x[2])
    BY <1>1 DEF Carried
  <2>2. ~(pc'[c] = pc[c] /\ call'[c] = call[c])
    BY <1>4, <2>1 DEF RequestOf
  <2>3. ~RecordOutcome(c)
    BY <1>4, <2>1 DEF RecordOutcome, Goto, RequestOf, KnownInv, TypeInv, TypeOK
  <2>4. ~AuditOutcome(c)
    <3>1. pc[c] = "audit" => ~call[c].replay
      BY DEF KnownInv, RowInv, Know, Sending
    <3> QED BY <1>4, <2>1, <3>1
            DEF AuditOutcome, AfterGuard, Goto, RequestOf, KnownInv, TypeInv, TypeOK
  <2>5. ~Finalize(c)
    BY <1>1, <1>4, FinalizeWrites, OutcomeFacts
  <2>6. ~RollBack(c)
    BY <1>3, <1>4, RefusedMeansDecided DEF RollBack
  <2>7. Step(c) => \/ RecordOutcome(c) \/ AuditOutcome(c) \/ Finalize(c) \/ RollBack(c)
    BY <1>4 DEF Step, ResolveContract, InsertRequest, Load, CheckParents, ResolveTool,
                ResolvePolicy, LookupKey, Reserve, CallConnector
  <2> QED BY <1>4, <2>2, <2>3, <2>4, <2>5, <2>6, <2>7, OwnTurn DEF Running
<1> QED BY <1>2, <1>3, <1>4 DEF LeftUnrecorded, Carried, CutShort

-----------------------------------------------------------------------------
(* Counting them *)

LEMMA AtMostOneMore ==
  ASSUME NEW S, NEW T, NEW x, IsFiniteSet(S), T \subseteq S \cup {x}
  PROVE  IsFiniteSet(T) /\ Cardinality(T) <= Cardinality(S) + 1
<1>1. /\ IsFiniteSet(S \cup {x}) /\ Cardinality(S) \in Nat
      /\ Cardinality(S \cup {x}) \in {Cardinality(S), Cardinality(S) + 1}
  BY FS_AddElement, FS_CardinalityType
<1>2. IsFiniteSet(T) /\ Cardinality(T) <= Cardinality(S \cup {x})
  BY <1>1, FS_Subset
<1>3. Cardinality(T) \in Nat
  BY <1>2, FS_CardinalityType
<1> QED BY <1>1, <1>2, <1>3

HalfDoneInv == IsFiniteSet(HalfDone) /\ EveryHalfDoneIsACrash

LEMMA HalfDoneStep == KnownInv /\ GripInv /\ HalfDoneInv /\ [Next]_vars => HalfDoneInv'
<1> SUFFICES ASSUME KnownInv, GripInv, HalfDoneInv, [Next]_vars PROVE HalfDoneInv'
  OBVIOUS
<1>1. /\ aborts \in Nat /\ Cardinality(HalfDone) \in Nat
      /\ aborts' \in Nat /\ aborts <= aborts'
  <2>1. aborts \in Nat /\ aborts' \in Nat
    BY KnownStep DEF KnownInv, TypeInv, TypeOK
  <2>2. aborts' = aborts \/ aborts' = aborts + 1
    BY Footprint DEF Abort
  <2> QED BY <2>1, <2>2, FS_CardinalityType DEF HalfDoneInv
<1>2. \A x \in HalfDone' : x \in HalfDone \/ CutShort(x)
  BY InProgressStep, UnrecordedStep DEF HalfDone
<1>3. CASE \A x \in HalfDone' : x \in HalfDone
  <2>1. IsFiniteSet(HalfDone') /\ Cardinality(HalfDone') <= Cardinality(HalfDone)
    BY <1>3, FS_Subset DEF HalfDoneInv
  <2>2. Cardinality(HalfDone') \in Nat
    BY <2>1, FS_CardinalityType
  <2> QED BY <1>1, <2>1, <2>2 DEF HalfDoneInv, EveryHalfDoneIsACrash
<1>4. CASE \E x \in HalfDone' : CutShort(x)
  <2>1. PICK c \in Calls : Abort(c)
    BY <1>4 DEF CutShort
  <2>2. aborts' = aborts + 1 /\ Alone(c) /\ pc[c] \in Running /\ pc'[c] = "error"
    BY <2>1, StepAlone DEF Abort, Reply, KnownInv, TypeInv, TypeOK
  <2>3. \A x \in Requests \X Keys : CutShort(x) => x = <<RequestOf(c), call[c].key>>
    <3>1. ASSUME NEW d \in Calls, Abort(d), d # c PROVE FALSE
      <4>1. pc[d] \in Running /\ pc'[d] = "error" /\ pc'[d] = pc[d]
        BY <2>2, <3>1 DEF Abort, Reply, Alone, KnownInv, TypeInv, TypeOK
      <4> QED BY <4>1 DEF Running
    <3> QED BY <3>1 DEF CutShort
  <2>4. HalfDone' \subseteq HalfDone \cup {<<RequestOf(c), call[c].key>>}
    BY <1>2, <2>3 DEF HalfDone
  <2>5. IsFiniteSet(HalfDone') /\ Cardinality(HalfDone') <= Cardinality(HalfDone) + 1
    BY <2>4, AtMostOneMore DEF HalfDoneInv
  <2>6. Cardinality(HalfDone') \in Nat
    BY <2>5, FS_CardinalityType
  <2> QED BY <1>1, <2>2, <2>5, <2>6 DEF HalfDoneInv, EveryHalfDoneIsACrash
<1> QED BY <1>2, <1>3, <1>4

LEMMA InitHalfDone == Init => HalfDoneInv
<1> SUFFICES ASSUME Init PROVE HalfDoneInv
  OBVIOUS
<1>1. HalfDone = {}
  BY DEF Init, HalfDone, LeftInProgress, LeftUnrecorded
<1> QED BY <1>1, FS_EmptySet DEF Init, HalfDoneInv, EveryHalfDoneIsACrash

(* Nothing but a crash leaves an execution half done, and no crash leaves  *)
(* more than one, whatever calls race and whatever expires meanwhile.      *)
THEOREM HalfDoneByCrash == Spec => []EveryHalfDoneIsACrash
<1>1. HalfDoneInv => EveryHalfDoneIsACrash
  BY DEF HalfDoneInv
<1> QED BY <1>1, InitKnown, KnownStep, InitGrip, GripStep, InitHalfDone, HalfDoneStep, PTL
        DEF Spec

-----------------------------------------------------------------------------
(* Retries *)

(* While nobody has touched the registry, every tool is active and fits,   *)
(* every customer may use every tool, and every request, also one about to *)
(* be created, is bound to the tool a handler resolves for it.             *)
Untampered ==
  changes = 0 =>
    /\ \A kind \in Kinds : tool[kind].active /\ tool[kind].contract \in Fit[kind]
    /\ \A customer \in Customers : policy[customer] = Contracts
    /\ \A r \in Requests : status[r] # "absent" => contract[r] = tool[KindOf[r]].contract
    /\ \A c \in Calls : pc[c] \in {"insert", "policy"} =>
         call[c].contract = tool[KindOf[RequestOf(c)]].contract

(* An effect that took place has left its tool call. *)
AppliedBacked ==
  \A x \in applied : \E t \in toolCalls : t.request = x[1] /\ t.key = x[2]

RetryInv == Untampered /\ AppliedBacked

LEMMA InitRetry == Init => RetryInv
BY DEF Init, RetryInv, Untampered, AppliedBacked

(* Operators alone change the registry, and each change is counted. *)
LEMMA RegistryFootprint ==
  ASSUME [Next]_vars
  PROVE  UNCHANGED registry \/ changes' = changes + 1
<1>1. CASE Around
  <2>1. CASE \E r \in Requests : Expire(r)
    BY <2>1 DEF Expire
  <2>2. CASE \E kind \in Kinds, t \in Contracts, active \in BOOLEAN :
               ChangeTool(kind, t, active)
    BY <2>2 DEF ChangeTool
  <2>3. CASE \E customer \in Customers, t \in Contracts : ChangePolicy(customer, t)
    BY <2>3 DEF ChangePolicy
  <2>4. CASE UNCHANGED vars
    BY <2>4 DEF vars, registry
  <2> QED BY <1>1, <2>1, <2>2, <2>3, <2>4 DEF Around
<1>2. ASSUME NEW c \in Calls, Calling(c) \/ Guarded(c) PROVE UNCHANGED registry
  BY <1>2, CallingKeeps, GuardedKeeps
<1>3. ASSUME NEW c \in Calls, InsertRequest(c) \/ Finalize(c) \/ Abort(c)
      PROVE  UNCHANGED registry
  BY <1>3 DEF InsertRequest, Finalize, Abort
<1> QED BY <1>1, <1>2, <1>3, NextCases

(* The handlers that come to hold a contract take it from the registry. *)
LEMMA BoundToTool ==
  ASSUME KnownInv, Untampered, changes = 0, UNCHANGED registry, [Next]_vars,
         NEW d \in Calls, pc'[d] \in {"insert", "policy"}
  PROVE  call'[d].contract = tool[KindOf[RequestOf(d)']].contract
<1>1. CASE pc'[d] = pc[d] /\ call'[d] = call[d]
  BY <1>1 DEF Untampered, RequestOf
<1>2. CASE ResolveContract(d) \/ ResolveTool(d)
  <2>1. call[d] \in CallRecord /\ d \in DOMAIN pc /\ d \in DOMAIN call
    BY <1>2, RecordTypes, TypeParts
       DEF KnownInv, TypeInv, TypeOK, ResolveContract, ResolveTool, Running
  <2>2. call' = [call EXCEPT ![d].contract = tool[KindOf[RequestOf(d)]].contract]
    BY <1>2, <2>1 DEF ResolveContract, ResolveTool, Reply, Deny
  <2> QED BY <2>1, <2>2 DEF CallRecord, RequestOf
<1>3. \/ ResolveContract(d) \/ ResolveTool(d)
      \/ pc'[d] = pc[d] /\ call'[d] = call[d]
  <2>1. ASSUME Around PROVE pc'[d] = pc[d] /\ call'[d] = call[d]
    BY <2>1, AroundKeeps
  <2>2. ASSUME NEW c \in Calls, c # d,
               Calling(c) \/ Guarded(c) \/ InsertRequest(c) \/ Finalize(c) \/ Abort(c)
        PROVE  pc'[d] = pc[d] /\ call'[d] = call[d]
    <3>1. Alone(c)
      BY <2>2, StepAlone DEF KnownInv, Calling, Guarded, Step
    <3> QED BY <2>2, <3>1 DEF Alone
  <2>3. d \in DOMAIN pc
    BY DEF KnownInv, TypeInv, TypeOK
  <2>4. CASE Calling(d)
    BY <2>3, <2>4 DEF Calling, StartCreate, StartDecision, Load, RollBack, Reply, Goto
  <2>5. CASE Guarded(d)
    BY <2>3, <2>5 DEF Guarded, CheckParents, ResolvePolicy, LookupKey, Reserve,
       CallConnector, RecordOutcome, AuditOutcome, AfterGuard, Deny, Reply, Goto
  <2>6. CASE InsertRequest(d) \/ Finalize(d) \/ Abort(d)
    BY <2>3, <2>6 DEF InsertRequest, Finalize, Abort, Reply
  <2> QED BY <2>1, <2>2, <2>4, <2>5, <2>6, NextCases
<1> QED BY <1>1, <1>2, <1>3

LEMMA UntamperedStep == KnownInv /\ Untampered /\ [Next]_vars => Untampered'
<1> SUFFICES ASSUME KnownInv, Untampered, [Next]_vars, changes' = 0 PROVE Untampered'
  BY DEF Untampered
<1>1. changes = 0 /\ UNCHANGED registry
  <2>1. changes \in Nat
    BY DEF KnownInv, TypeInv, TypeOK
  <2> QED BY <2>1, RegistryFootprint DEF registry
<1>2. UNCHANGED <<tool, policy>>
  BY <1>1 DEF registry
<1>3. \A r \in Requests : status'[r] # "absent" => contract'[r] = tool[KindOf[r]].contract
  <2>1. CASE UNCHANGED db
    BY <1>1, <2>1 DEF Untampered, db
  <2>2. ASSUME NEW c \in Calls, InsertRequest(c)
        PROVE  \A r \in Requests : status'[r] # "absent" =>
                 contract'[r] = tool[KindOf[r]].contract
    <3>1. call[c].contract = tool[KindOf[RequestOf(c)]].contract
      BY <1>1, <2>2 DEF Untampered, InsertRequest
    <3>2. contract' = [contract EXCEPT ![RequestOf(c)] = call[c].contract]
      BY <2>2 DEF InsertRequest
    <3> QED BY <1>1, <2>2, <3>1, <3>2, InsertWrites
            DEF Untampered, KnownInv, TypeInv, TypeOK
  <2>3. ASSUME NEW c \in Calls, Finalize(c)
        PROVE  \A r \in Requests : status'[r] # "absent" =>
                 contract'[r] = tool[KindOf[r]].contract
    <3>1. UNCHANGED contract
      BY <2>3 DEF Finalize
    <3>2. status[RequestOf(c)] # "absent"
      BY <2>3, FinalizeWrites DEF OpenStatuses
    <3> QED BY <1>1, <2>3, <3>1, <3>2, FinalizeWrites DEF Untampered
  <2> QED BY <2>1, <2>2, <2>3, Footprint
<1>4. \A c \in Calls : pc'[c] \in {"insert", "policy"} =>
        call'[c].contract = tool[KindOf[RequestOf(c)']].contract
  BY <1>1, BoundToTool
<1>5. /\ \A kind \in Kinds : tool[kind].active /\ tool[kind].contract \in Fit[kind]
      /\ \A customer \in Customers : policy[customer] = Contracts
  BY <1>1 DEF Untampered
<1> QED BY <1>2, <1>3, <1>4, <1>5 DEF Untampered

LEMMA BackedStep == KnownInv /\ AppliedBacked /\ [Next]_vars => AppliedBacked'
<1> SUFFICES ASSUME KnownInv, AppliedBacked, [Next]_vars PROVE AppliedBacked'
  OBVIOUS
<1>1. \A x : (\E t \in toolCalls : t.request = x[1] /\ t.key = x[2]) =>
             (\E t \in toolCalls' : t.request = x[1] /\ t.key = x[2])
  BY RowsMonotone DEF KnownInv, RowsKept
<1>2. CASE UNCHANGED applied
  BY <1>1, <1>2 DEF AppliedBacked
<1>3. ASSUME NEW c \in Calls, CallConnector(c) PROVE AppliedBacked'
  <2>1. applied' \subseteq applied \cup {<<RequestOf(c), call[c].key>>}
    BY <1>3 DEF CallConnector
  <2>2. \E t \in toolCalls : t.request = RequestOf(c) /\ t.key = call[c].key
    BY <1>3 DEF CallConnector, KnownInv, RowInv, Know, Sending, OwnRow, RowsAt, SlotOf
  <2> QED BY <1>1, <2>1, <2>2 DEF AppliedBacked
<1> QED BY <1>2, <1>3, Footprint

(* With the row of its own effect under its key, the lookup finds no other *)
(* message's row.                                                          *)
LEMMA OwnRowIsNotForeign ==
  ASSUME KnownInv, GripInv, RetryInv, NEW c \in Calls, pc[c] \in Running,
         <<RequestOf(c), call[c].key>> \in applied,
         OwnsSession(ScopeOf(c), RequestOf(c))
  PROVE  ~Foreign(c)
<1>1. PICK t \in toolCalls : t.request = RequestOf(c) /\ t.key = call[c].key
  BY DEF RetryInv, AppliedBacked
<1>2. t.customer = ScopeOf(c).customer
  BY <1>1 DEF GripInv, Shelf, OwnsSession
<1>3. \A u \in RowsAt(SlotOf(c)) : u = t
  BY <1>1, <1>2 DEF RowsAt, SlotOf, KnownInv, RowInv, UniqueRows
<1> QED BY <1>1, <1>3 DEF Foreign

(* The stages at which a retry can be refused, one by one. *)
LEMMA RefusalOfRetry ==
  ASSUME KnownInv, GripInv, RetryInv, [Next]_vars, NEW c \in Calls,
         pc[c] \in Running, OpOf(c) \in Executing,
         <<RequestOf(c), call[c].key>> \in applied,
         status[RequestOf(c)] \in OpenStatuses,
         OwnsSession(ScopeOf(c), RequestOf(c)), Entitled(c), ScopeOf(c).permitted,
         pc'[c] \in Replies \ {"ok"}, aborts' = aborts
  PROVE  \/ pc[c] = "load" /\ expired[RequestOf(c)]
         \/ pc[c] \in {"tool", "policy"} /\ changes > 0
         \/ pc[c] = "reserve"
<1> DEFINE r == RequestOf(c)
<1>1. /\ r \in Requests /\ KindOf[r] \in Kinds /\ call[c] \in CallRecord
      /\ ScopeOf(c).customer \in Customers /\ call[c].key \in Keys
      /\ changes \in Nat /\ aborts \in Nat
      /\ pc \in [Calls -> Resting \cup Running]
  BY RecordTypes, TypeParts DEF KnownInv, TypeInv, TypeOK
<1>2. Step(c)
  <2>1. pc'[c] # pc[c]
    BY DEF Running, Replies
  <2>2. ~Abort(c)
    BY <1>1 DEF Abort
  <2> QED BY <2>1, <2>2, OwnTurn
<1>3. CASE ResolveContract(c) \/ InsertRequest(c)
  <2>1. OpOf(c) = "create"
    BY <1>3 DEF ResolveContract, InsertRequest, GripInv, Grip, Creating
  <2> QED BY <2>1 DEF Executing
<1>4. CASE Load(c)
  <2>1. VisibleTo(ScopeOf(c), r)
    BY <1>1 DEF VisibleTo, OwnsSession, Kinds
  <2>2. ~AlreadyDone(c)
    BY DEF AlreadyDone, Executing, Target, OpenStatuses
  <2>3. pc[c] = "load" /\ ~Decidable(c)
    BY <1>1, <1>4, <2>1, <2>2 DEF Load, Goto, Replies
  <2> QED BY <2>3 DEF Decidable
<1>5. CASE CheckParents(c)
  BY <1>1, <1>5, NullAssumption DEF CheckParents, Goto, Replies
<1>6. CASE ResolveTool(c)
  <2>1. pc[c] = "tool" /\ ~tool[KindOf[r]].active
    BY <1>1, <1>6 DEF ResolveTool, Goto, Replies
  <2>2. changes # 0
    BY <1>1, <2>1 DEF RetryInv, Untampered
  <2> QED BY <1>1, <2>1, <2>2
<1>7. CASE ResolvePolicy(c)
  <2>1. /\ pc[c] = "policy"
        /\ ~(/\ call[c].contract \in policy[ScopeOf(c).customer]
             /\ ContractMatches(c))
    BY <1>1, <1>7 DEF ResolvePolicy, Goto, Replies
  <2>2. ASSUME changes = 0 PROVE FALSE
    <3>1. /\ call[c].contract = tool[KindOf[r]].contract
          /\ tool[KindOf[r]].contract \in Fit[KindOf[r]]
          /\ contract[r] = tool[KindOf[r]].contract
          /\ policy[ScopeOf(c).customer] = Contracts
      BY <1>1, <2>1, <2>2 DEF RetryInv, Untampered, OpenStatuses
    <3>2. tool[KindOf[r]].contract \in Contracts
      BY <1>1 DEF KnownInv, TypeInv, TypeOK
    <3> QED BY <2>1, <3>1, <3>2 DEF ContractMatches
  <2> QED BY <1>1, <2>1, <2>2
<1>8. CASE LookupKey(c)
  <2>1. ~Foreign(c)
    BY OwnRowIsNotForeign
  <2> QED BY <1>1, <1>8, <2>1 DEF LookupKey, AfterGuard, Goto, Reply, Replies
<1>9. CASE Reserve(c)
  BY <1>9 DEF Reserve
<1>10. CASE CallConnector(c) \/ RecordOutcome(c)
  BY <1>1, <1>10 DEF CallConnector, RecordOutcome, Goto, Replies
<1>11. CASE AuditOutcome(c)
  BY <1>1, <1>11 DEF AuditOutcome, AfterGuard, Goto, Reply, Replies
<1>12. CASE Finalize(c)
  BY <1>1, <1>12 DEF Finalize, Reply
<1>13. CASE RollBack(c)
  BY <1>1, <1>13, RefusedMeansDecided DEF RollBack
<1> QED BY <1>2, <1>3, <1>4, <1>5, <1>6, <1>7, <1>8, <1>9, <1>10, <1>11, <1>12, <1>13
        DEF Step

(* A caller who may decide and sends the decision of an unrecorded effect  *)
(* again, with its key, is refused only because the request expired before *)
(* it was read, because an operator changed the registry, or because the   *)
(* reservation appeared after his lookup.                                  *)
THEOREM RetriesAreHeard == Spec => RetryIsHeard
<1> DEFINE Heard ==
      \A c \in Calls :
        LET r == RequestOf(c)
        IN  /\ pc[c] \in Running /\ OpOf(c) \in Executing
            /\ <<r, call[c].key>> \in applied /\ status[r] \in OpenStatuses
            /\ OwnsSession(ScopeOf(c), r) /\ Entitled(c) /\ ScopeOf(c).permitted
            /\ pc'[c] \in Replies \ {"ok"} /\ aborts' = aborts
            => \/ pc[c] = "load" /\ expired[r]
               \/ pc[c] \in {"tool", "policy"} /\ changes > 0
               \/ pc[c] = "reserve"
<1>1. KnownInv /\ GripInv /\ RetryInv /\ [Next]_vars => [Heard]_vars
  BY RefusalOfRetry
<1>2. KnownInv /\ RetryInv /\ [Next]_vars => RetryInv'
  BY UntamperedStep, BackedStep DEF RetryInv
<1> QED BY <1>1, <1>2, InitKnown, KnownStep, InitGrip, GripStep, InitRetry, PTL
        DEF Spec, RetryIsHeard
=============================================================================
