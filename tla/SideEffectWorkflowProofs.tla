---------------------- MODULE SideEffectWorkflowProofs ----------------------
(***************************************************************************)
(* Theorems about SideEffectWorkflow, for every number of calls, requests, *)
(* customers, actors and keys: the types of its variables, and the status  *)
(* of a request, its audit trail and the handlers deciding it.  The trail  *)
(* always tells the status, and the two together implement the abstract    *)
(* decision log.                                                           *)
(***************************************************************************)
EXTENDS SideEffectWorkflow, SequenceTheorems, TLAPS

-----------------------------------------------------------------------------
(* What a running handler has established so far *)

Deciding == {"load", "guard", "tool", "policy", "lookup", "reserve",
             "connector", "record", "audit", "finalize"}
Guarding == {"guard", "tool", "policy", "lookup", "reserve", "connector",
             "record", "audit"}
Keyed == {"tool", "policy", "lookup", "reserve", "connector", "record", "audit"}
Resolved == {"policy", "lookup", "reserve", "connector", "record", "audit"}

(* The fields of a call record that a stage of the handler relies on have  *)
(* been filled in by the stages before it.                                 *)
CallFilled(c) ==
  /\ pc[c] \in Deciding => OpOf(c) \in Decisions
  /\ pc[c] \in Guarding => OpOf(c) \in Executing
  /\ pc[c] \in Keyed => call[c].key \in Keys
  /\ pc[c] \in Resolved => call[c].contract \in Contracts
  /\ pc[c] \in {"record", "audit"} => call[c].outcome \in {"succeeded", "failed"}

TypeInv == TypeOK /\ \A c \in Calls : CallFilled(c)

(* What the handlers' variables look like to a proof about types. *)
Control == /\ pc \in [Calls -> Resting \cup Running]
           /\ call \in [Calls -> CallRecord \cup {NoCall}]
           /\ \A c \in Calls : pc[c] \in Running => call[c] \in CallRecord
           /\ \A c \in Calls : CallFilled(c)

LEMMA ResultTypes ==
  /\ \A o \in {"succeeded", "failed"} : ResultState[o] \in {"executed", "failed"}
  /\ \A o \in Decisions : Target[o] \in Statuses /\ EventOf[o] \in Events
  /\ \A k \in Kinds : InitialStatus[k] \in Statuses
BY DEF ResultState, Target, EventOf, Decisions, Statuses, Events, DraftStatuses,
       ApprovalStatuses, InitialStatus, Kinds

(* A handler that answers leaves the others alone and forgets its record.  *)
LEMMA ReplyControl ==
  ASSUME Control, NEW c \in Calls, NEW a \in Replies, Reply(c, a)
  PROVE  Control'
BY DEF Control, Reply, CallFilled, Resting, Replies, Running, Deciding, Guarding,
       Keyed, Resolved, OpOf

(* A handler that moves on with the record it has. *)
LEMMA GotoControl ==
  ASSUME Control, NEW c \in Calls, NEW l \in Running, Goto(c, l),
         call' = call, call[c] \in CallRecord,
         l \in Deciding => OpOf(c) \in Decisions,
         l \in Guarding => OpOf(c) \in Executing,
         l \in Keyed => call[c].key \in Keys,
         l \in Resolved => call[c].contract \in Contracts,
         l \in {"record", "audit"} => call[c].outcome \in {"succeeded", "failed"}
  PROVE  Control'
BY DEF Control, Goto, CallFilled, OpOf

(* A handler that moves on with a new record. *)
LEMMA MoveControl ==
  ASSUME Control, NEW c \in Calls, NEW l \in Running, NEW rec \in CallRecord,
         pc' = [pc EXCEPT ![c] = l], call' = [call EXCEPT ![c] = rec],
         l \in Deciding => rec.op \in Decisions,
         l \in Guarding => rec.op \in Executing,
         l \in Keyed => rec.key \in Keys,
         l \in Resolved => rec.contract \in Contracts,
         l \in {"record", "audit"} => rec.outcome \in {"succeeded", "failed"}
  PROVE  Control'
BY DEF Control, CallFilled, OpOf

-----------------------------------------------------------------------------
(* Types *)

(* The database, without the handlers. *)
Data ==
  /\ status \in [Requests -> Statuses]
  /\ reqKey \in [Requests -> Keys \cup {NoKey}]
  /\ approver \in [Requests -> Actors \cup {NoActor}]
  /\ contract \in [Requests -> Contracts \cup {NoContract}]
  /\ expired \in [Requests -> BOOLEAN]
  /\ journal \in [Requests -> Seq(Events)]
  /\ toolCalls \subseteq Rows
  /\ toolEvents \in [Requests -> SUBSET ToolEvents]
  /\ tool \in [Kinds -> [contract: Contracts, active: BOOLEAN]]
  /\ policy \in [Customers -> SUBSET Contracts]
  /\ sent \in [Slots -> Nat]
  /\ applied \subseteq Requests \X Keys
  /\ changes \in Nat
  /\ aborts \in Nat

LEMMA TypeParts == TypeInv <=> Data /\ Control
BY DEF TypeInv, TypeOK, Data, Control

LEMMA RecordTypes ==
  ASSUME Control, NEW c \in Calls, pc[c] \in Running
  PROVE  /\ call[c] \in CallRecord
         /\ RequestOf(c) \in Requests
         /\ KindOf[RequestOf(c)] \in Kinds
         /\ ScopeOf(c) \in Scopes
         /\ ScopeOf(c).customer \in Customers
         /\ ScopeOf(c).actor \in Actors
         /\ call[c].key \in Keys => SlotOf(c) \in Slots
BY ShapeAssumption
   DEF Control, CallRecord, RequestOf, ScopeOf, SlotOf, Slots, CallerScopes

LEMMA InitTypes == Init => TypeInv
<1> SUFFICES ASSUME Init PROVE TypeInv
  OBVIOUS
<1>1. Control
  BY DEF Init, Control, CallFilled, Resting, Running, Deciding, Guarding, Keyed,
         Resolved
<1>2. tool \in [Kinds -> [contract: Contracts, active: BOOLEAN]]
  BY DEF Init
<1>3. Data
  BY <1>2 DEF Init, Data, Statuses, Slots
<1> QED BY <1>1, <1>3, TypeParts

LEMMA CreateTypes ==
  ASSUME TypeInv, NEW c \in Calls,
         \/ \E r \in Requests, s \in Scopes : StartCreate(c, r, s)
         \/ ResolveContract(c) \/ InsertRequest(c)
  PROVE  TypeInv'
<1> USE TypeParts
<1>1. ASSUME NEW r \in Requests, NEW s \in Scopes, StartCreate(c, r, s)
      PROVE  TypeInv'
  <2> DEFINE rec == [op |-> "create", request |-> r, key |-> NoKey, scope |-> s,
                     seen |-> "absent", replay |-> FALSE,
                     contract |-> NoContract, outcome |-> "none"]
  <2>1. rec \in CallRecord BY DEF CallRecord, Statuses
  <2>2. "resolve" \in Running /\ "resolve" \notin Deciding \cup Guarding \cup Keyed \cup Resolved
    BY DEF Running, Deciding, Guarding, Keyed, Resolved
  <2>3. Control'
    BY <1>1, <2>1, <2>2, MoveControl DEF StartCreate, Goto
  <2>4. Data'
    BY <1>1 DEF StartCreate, db, execution, registry, Data
  <2> QED BY <2>3, <2>4 DEF TypeInv, TypeOK, Data, Control
<1>2. CASE ResolveContract(c)
  <2>1. call[c] \in CallRecord /\ tool[KindOf[RequestOf(c)]].contract \in Contracts
    BY <1>2, RecordTypes DEF ResolveContract, Running, Data
  <2>2. Control'
    <3>1. CASE \E a \in Replies : Reply(c, a) BY <3>1, ReplyControl
    <3>2. CASE /\ call' = [call EXCEPT ![c].contract = tool[KindOf[RequestOf(c)]].contract]
               /\ Goto(c, "insert")
      <4> DEFINE rec == [call[c] EXCEPT !.contract = tool[KindOf[RequestOf(c)]].contract]
      <4>1. rec \in CallRecord BY <2>1 DEF CallRecord
      <4>2. call' = [call EXCEPT ![c] = rec] BY <3>2
      <4>3. "insert" \in Running /\ "insert" \notin Deciding \cup Guarding \cup Keyed \cup Resolved
        BY DEF Running, Deciding, Guarding, Keyed, Resolved
      <4> QED BY <3>2, <4>1, <4>2, <4>3, MoveControl DEF Goto
    <3> QED BY <1>2, <3>1, <3>2 DEF ResolveContract, Replies
  <2>3. Data'
    BY <1>2 DEF ResolveContract, db, execution, registry, Data
  <2> QED BY <2>2, <2>3 DEF TypeInv, TypeOK, Data, Control
<1>3. CASE InsertRequest(c)
  <2>1. /\ call[c] \in CallRecord
        /\ RequestOf(c) \in Requests /\ KindOf[RequestOf(c)] \in Kinds
    BY <1>3, RecordTypes DEF InsertRequest, Running
  <2>2. Control'
    BY <1>3, ReplyControl DEF InsertRequest, Replies
  <2>3. journal' \in [Requests -> Seq(Events)]
    BY <1>3, <2>1 DEF InsertRequest, Data, Events
  <2>4. Data'
    BY <1>3, <2>1, <2>3, ResultTypes
       DEF InsertRequest, execution, registry, Data, CallRecord
  <2> QED BY <2>2, <2>4 DEF TypeInv, TypeOK, Data, Control
<1> QED BY <1>1, <1>2, <1>3

(* How loading a request can end: an answer, or on to the guard or to the  *)
(* transaction with what was read.                                         *)
LEMMA LoadOutcomes ==
  ASSUME NEW c \in Calls, Load(c)
  PROVE  \/ \E a \in Replies : Reply(c, a)
         \/ \E replay \in BOOLEAN, l \in {"guard", "finalize"} :
              /\ l = "guard" => OpOf(c) \in Executing
              /\ call' = [call EXCEPT ![c].seen = status[RequestOf(c)],
                                     ![c].replay = replay]
              /\ Goto(c, l)
<1>1. CASE Reply(c, "forbidden") \/ Reply(c, "not_found") \/ Reply(c, "conflict")
  BY <1>1 DEF Replies
<1>2. CASE /\ AlreadyDone(c) /\ Goto(c, "guard")
           /\ call' = [call EXCEPT ![c].seen = status[RequestOf(c)], ![c].replay = TRUE]
  BY <1>2 DEF AlreadyDone
<1>3. CASE /\ Goto(c, IF OpOf(c) \in Executing THEN "guard" ELSE "finalize")
           /\ call' = [call EXCEPT ![c].seen = status[RequestOf(c)], ![c].replay = FALSE]
  <2>1. CASE OpOf(c) \in Executing
    BY <1>3, <2>1
  <2>2. CASE OpOf(c) \notin Executing
    BY <1>3, <2>2
  <2> QED BY <2>1, <2>2
<1> QED BY <1>1, <1>2, <1>3 DEF Load

LEMMA DecisionTypes ==
  ASSUME TypeInv, NEW c \in Calls,
         \/ \E op \in Decisions, r \in Requests, k \in Keys \cup {NoKey}, s \in Scopes :
              StartDecision(c, op, r, k, s)
         \/ Load(c)
  PROVE  TypeInv'
<1> USE TypeParts
<1>1. ASSUME NEW op \in Decisions, NEW r \in Requests, NEW k \in Keys \cup {NoKey},
             NEW s \in Scopes, StartDecision(c, op, r, k, s)
      PROVE  TypeInv'
  <2> DEFINE rec == [op |-> op, request |-> r, key |-> k, scope |-> s,
                     seen |-> "absent", replay |-> FALSE,
                     contract |-> NoContract, outcome |-> "none"]
  <2>1. rec \in CallRecord BY DEF CallRecord, Statuses
  <2>2. "load" \in Running /\ "load" \notin Guarding \cup Keyed \cup Resolved
    BY DEF Running, Guarding, Keyed, Resolved
  <2>3. Control'
    BY <1>1, <2>1, <2>2, MoveControl DEF StartDecision, Goto
  <2>4. Data'
    BY <1>1 DEF StartDecision, db, execution, registry, Data
  <2> QED BY <2>3, <2>4 DEF TypeInv, TypeOK, Data, Control
<1>2. CASE Load(c)
  <2>1. /\ call[c] \in CallRecord /\ OpOf(c) \in Decisions
        /\ status[RequestOf(c)] \in Statuses
    BY <1>2, RecordTypes DEF Load, Running, Data, Control, CallFilled, Deciding
  <2>2. Control'
    <3>1. CASE \E a \in Replies : Reply(c, a) BY <3>1, ReplyControl
    <3>2. ASSUME NEW replay \in BOOLEAN, NEW l \in {"guard", "finalize"},
                 l = "guard" => OpOf(c) \in Executing,
                 call' = [call EXCEPT ![c].seen = status[RequestOf(c)],
                                      ![c].replay = replay],
                 Goto(c, l)
          PROVE  Control'
      <4> DEFINE rec == [call[c] EXCEPT !.seen = status[RequestOf(c)], !.replay = replay]
      <4>1. rec \in CallRecord /\ rec.op = OpOf(c) BY <2>1 DEF CallRecord, OpOf
      <4>2. call' = [call EXCEPT ![c] = rec] BY <3>2, <2>1 DEF Control
      <4>3. l \in Running /\ l \notin Keyed \cup Resolved /\ (l \in Guarding => l = "guard")
        BY DEF Running, Keyed, Resolved, Guarding
      <4> QED BY <2>1, <3>2, <4>1, <4>2, <4>3, MoveControl DEF Goto, Keyed, Resolved
    <3>3. \/ \E a \in Replies : Reply(c, a)
          \/ \E replay \in BOOLEAN, l \in {"guard", "finalize"} :
               /\ l = "guard" => OpOf(c) \in Executing
               /\ call' = [call EXCEPT ![c].seen = status[RequestOf(c)],
                                      ![c].replay = replay]
               /\ Goto(c, l)
      BY <1>2, LoadOutcomes
    <3> QED BY <3>1, <3>2, <3>3
  <2>3. Data'
    BY <1>2 DEF Load, db, execution, registry, Data
  <2> QED BY <2>2, <2>3 DEF TypeInv, TypeOK, Data, Control
<1> QED BY <1>1, <1>2

(* The gates: nothing but the execution audit is written. *)
LEMMA GateTypes ==
  ASSUME TypeInv, NEW c \in Calls,
         CheckParents(c) \/ ResolveTool(c) \/ ResolvePolicy(c) \/ LookupKey(c)
  PROVE  TypeInv'
<1> USE TypeParts
<1>1. /\ pc[c] \in {"guard", "tool", "policy", "lookup"}
      /\ call[c] \in CallRecord /\ RequestOf(c) \in Requests
      /\ KindOf[RequestOf(c)] \in Kinds
      /\ OpOf(c) \in Executing /\ OpOf(c) \in Decisions
      /\ pc[c] # "guard" => call[c].key \in Keys
      /\ pc[c] \in {"policy", "lookup"} => call[c].contract \in Contracts
  <2>1. pc[c] \in {"guard", "tool", "policy", "lookup"}
    BY DEF CheckParents, ResolveTool, ResolvePolicy, LookupKey
  <2> QED BY <2>1, RecordTypes DEF Running, Control, CallFilled, Deciding, Guarding, Keyed, Resolved
<1>2. Control'
  <2>1. CASE \E a \in Replies : Reply(c, a) BY <2>1, ReplyControl
  <2>2. CASE CheckParents(c) /\ Goto(c, "tool") /\ UNCHANGED call /\ call[c].key # NoKey
    BY <1>1, <2>2, GotoControl DEF CallRecord, Running, Keyed, Resolved
  <2>3. CASE /\ ResolveTool(c) /\ Goto(c, "policy")
             /\ call' = [call EXCEPT ![c].contract = tool[KindOf[RequestOf(c)]].contract]
    <3> DEFINE rec == [call[c] EXCEPT !.contract = tool[KindOf[RequestOf(c)]].contract]
    <3>1. /\ rec \in CallRecord /\ rec.op = OpOf(c) /\ rec.key = call[c].key
          /\ rec.contract \in Contracts
      BY <1>1 DEF Data, CallRecord, OpOf
    <3>2. call' = [call EXCEPT ![c] = rec] BY <2>3
    <3>3. "policy" \in Running /\ pc[c] = "tool" BY <2>3 DEF Running, ResolveTool
    <3> QED BY <1>1, <2>3, <3>1, <3>2, <3>3, MoveControl DEF Goto
  <2>4. CASE ResolvePolicy(c) /\ Goto(c, "lookup") /\ UNCHANGED call
    BY <1>1, <2>4, GotoControl DEF ResolvePolicy, Running
  <2>5. CASE LookupKey(c) /\ Goto(c, "reserve") /\ UNCHANGED call
    BY <1>1, <2>5, GotoControl DEF LookupKey, Running
  <2>6. CASE LookupKey(c) /\ Goto(c, "finalize") /\ UNCHANGED call
    BY <1>1, <2>6, GotoControl DEF Running, Guarding, Keyed, Resolved
  <2> QED BY <2>1, <2>2, <2>3, <2>4, <2>5, <2>6
          DEF CheckParents, ResolveTool, ResolvePolicy, LookupKey, Deny, AfterGuard,
              Replies
<1>3. toolEvents' \in [Requests -> SUBSET ToolEvents]
  BY <1>1 DEF Data, CheckParents, ResolveTool, ResolvePolicy, LookupKey, Deny, ToolEvents
<1>4. Data'
  BY <1>3 DEF CheckParents, ResolveTool, ResolvePolicy, LookupKey, db, registry, Data
<1> QED BY <1>2, <1>4 DEF TypeInv, TypeOK, Data, Control

LEMMA ExecutionTypes ==
  ASSUME TypeInv, NEW c \in Calls,
         Reserve(c) \/ CallConnector(c) \/ RecordOutcome(c) \/ AuditOutcome(c)
  PROVE  TypeInv'
<1> USE TypeParts
<1>1. /\ pc[c] \in {"reserve", "connector", "record", "audit"}
      /\ call[c] \in CallRecord /\ RequestOf(c) \in Requests
      /\ ScopeOf(c).customer \in Customers /\ SlotOf(c) \in Slots
      /\ OpOf(c) \in Executing /\ OpOf(c) \in Decisions
      /\ call[c].key \in Keys
      /\ call[c].contract \in Contracts
      /\ pc[c] \in {"record", "audit"} => call[c].outcome \in {"succeeded", "failed"}
  <2>1. pc[c] \in {"reserve", "connector", "record", "audit"}
    BY DEF Reserve, CallConnector, RecordOutcome, AuditOutcome
  <2> QED BY <2>1, RecordTypes
          DEF Running, Control, CallFilled, Deciding, Guarding, Keyed, Resolved
<1>2. CASE Reserve(c)
  <2>1. Control'
    <3>1. CASE Reply(c, "error") BY <3>1, ReplyControl DEF Replies
    <3>2. CASE Goto(c, "connector") /\ UNCHANGED call
      BY <1>1, <3>2, GotoControl DEF Running
    <3> QED BY <1>2, <3>1, <3>2 DEF Reserve
  <2>2. Data'
    BY <1>1, <1>2 DEF Reserve, Data, db, registry, Rows, RowStates
  <2> QED BY <2>1, <2>2 DEF TypeInv, TypeOK, Data, Control
<1>3. CASE CallConnector(c)
  <2>1. PICK outcome \in {"succeeded", "failed"} :
          /\ call' = [call EXCEPT ![c].outcome = outcome]
          /\ applied' = IF outcome = "succeeded"
                        THEN applied \cup {<<RequestOf(c), call[c].key>>}
                        ELSE applied
    BY <1>3 DEF CallConnector
  <2>2. Control'
    <3> DEFINE rec == [call[c] EXCEPT !.outcome = outcome]
    <3>1. /\ rec \in CallRecord /\ rec.op = OpOf(c) /\ rec.key = call[c].key
          /\ rec.contract \in Contracts /\ rec.outcome \in {"succeeded", "failed"}
      BY <1>1 DEF CallRecord, OpOf
    <3>2. call' = [call EXCEPT ![c] = rec] BY <2>1
    <3>3. "record" \in Running /\ Goto(c, "record") BY <1>3 DEF Running, CallConnector
    <3> QED BY <1>1, <3>1, <3>2, <3>3, MoveControl DEF Goto
  <2>3. applied' \subseteq Requests \X Keys
    BY <1>1, <2>1 DEF Data
  <2>4. sent' \in [Slots -> Nat]
    BY <1>1, <1>3 DEF Data, CallConnector
  <2>5. Data'
    BY <1>3, <2>3, <2>4 DEF CallConnector, Data, db, registry
  <2> QED BY <2>2, <2>5 DEF TypeInv, TypeOK, Data, Control
<1>4. CASE RecordOutcome(c)
  <2>1. Control'
    BY <1>1, <1>4, GotoControl DEF RecordOutcome, Running
  <2>2. toolCalls' \subseteq Rows
    <3>1. ResultState[call[c].outcome] \in RowStates
      BY <1>1, <1>4, ResultTypes DEF RecordOutcome, RowStates
    <3>2. \A t \in toolCalls :
            [t EXCEPT !.state = ResultState[call[c].outcome]] \in Rows
      BY <3>1 DEF Data, Rows
    <3> QED BY <1>4, <3>2 DEF RecordOutcome, Data
  <2>3. Data'
    BY <1>4, <2>2 DEF RecordOutcome, Data, db, registry
  <2> QED BY <2>1, <2>3 DEF TypeInv, TypeOK, Data, Control
<1>5. CASE AuditOutcome(c)
  <2>1. Control'
    <3>1. CASE Reply(c, "ok") BY <3>1, ReplyControl DEF Replies
    <3>2. CASE Goto(c, "finalize") /\ UNCHANGED call
      BY <1>1, <3>2, GotoControl DEF Running, Guarding, Keyed, Resolved
    <3> QED BY <1>5, <3>1, <3>2 DEF AuditOutcome, AfterGuard
  <2>2. toolEvents' \in [Requests -> SUBSET ToolEvents]
    BY <1>1, <1>5, ResultTypes DEF AuditOutcome, Data, ToolEvents
  <2>3. Data'
    BY <1>5, <2>2 DEF AuditOutcome, Data, db, registry
  <2> QED BY <2>1, <2>3 DEF TypeInv, TypeOK, Data, Control
<1> QED BY <1>2, <1>3, <1>4, <1>5

LEMMA CommitTypes ==
  ASSUME TypeInv, NEW c \in Calls, Finalize(c) \/ RollBack(c) \/ Abort(c)
  PROVE  TypeInv'
<1> USE TypeParts
<1>1. Control'
  BY ReplyControl DEF Finalize, RollBack, Abort, Replies
<1>2. CASE Finalize(c)
  <2>1. /\ call[c] \in CallRecord /\ RequestOf(c) \in Requests
        /\ ScopeOf(c).actor \in Actors /\ OpOf(c) \in Decisions
    BY <1>2, RecordTypes DEF Finalize, Running, Control, CallFilled, Deciding
  <2>2. /\ Target[OpOf(c)] \in Statuses
        /\ Append(journal[RequestOf(c)], EventOf[OpOf(c)]) \in Seq(Events)
    BY <2>1, ResultTypes DEF Data
  <2>3. /\ status' \in [Requests -> Statuses]
        /\ journal' \in [Requests -> Seq(Events)]
    BY <1>2, <2>1, <2>2 DEF Finalize, Data
  <2>4. /\ reqKey' \in [Requests -> Keys \cup {NoKey}]
        /\ approver' \in [Requests -> Actors \cup {NoActor}]
    BY <1>2, <2>1 DEF Finalize, Data, CallRecord
  <2>5. Data'
    BY <1>2, <2>3, <2>4 DEF Finalize, Data, execution, registry
  <2> QED BY <1>1, <2>5 DEF TypeInv, TypeOK, Data, Control
<1>3. CASE RollBack(c)
  <2>1. Data' BY <1>3 DEF RollBack, Data, db, execution, registry
  <2> QED BY <1>1, <2>1 DEF TypeInv, TypeOK, Data, Control
<1>4. CASE Abort(c)
  <2>1. Data' BY <1>4 DEF Abort, Data, db, execution, registry
  <2> QED BY <1>1, <2>1 DEF TypeInv, TypeOK, Data, Control
<1> QED BY <1>2, <1>3, <1>4

LEMMA AroundTypes ==
  ASSUME TypeInv,
         \/ \E r \in Requests : Expire(r)
         \/ \E kind \in Kinds, t \in Contracts, active \in BOOLEAN :
              ChangeTool(kind, t, active)
         \/ \E customer \in Customers, t \in Contracts : ChangePolicy(customer, t)
  PROVE  TypeInv'
<1>1. TypeOK'
  <2>1. CASE \E r \in Requests : Expire(r)
    BY <2>1 DEF TypeInv, TypeOK, Expire, db, execution, registry
  <2>2. CASE \E kind \in Kinds, t \in Contracts, active \in BOOLEAN :
               ChangeTool(kind, t, active)
    BY <2>2 DEF TypeInv, TypeOK, ChangeTool, db, execution
  <2>3. CASE \E customer \in Customers, t \in Contracts : ChangePolicy(customer, t)
    BY <2>3 DEF TypeInv, TypeOK, ChangePolicy, db, execution
  <2> QED BY <2>1, <2>2, <2>3
<1>2. UNCHANGED <<pc, call>>
  BY DEF Expire, ChangeTool, ChangePolicy
<1> QED BY <1>1, <1>2 DEF TypeInv, CallFilled, OpOf

-----------------------------------------------------------------------------
(* Who writes what.  A step is taken by a handler outside the guard, by    *)
(* the guard, by one of the two transactions that write the request, by a  *)
(* failure, or around the handlers.                                        *)

Calling(c) ==
  \/ \E r \in Requests, s \in Scopes : StartCreate(c, r, s)
  \/ \E op \in Decisions, r \in Requests, k \in Keys \cup {NoKey}, s \in Scopes :
       StartDecision(c, op, r, k, s)
  \/ ResolveContract(c) \/ Load(c) \/ RollBack(c)

Guarded(c) ==
  \/ CheckParents(c) \/ ResolveTool(c) \/ ResolvePolicy(c) \/ LookupKey(c)
  \/ Reserve(c) \/ CallConnector(c) \/ RecordOutcome(c) \/ AuditOutcome(c)

Around ==
  \/ \E r \in Requests : Expire(r)
  \/ \E kind \in Kinds, t \in Contracts, active \in BOOLEAN :
       ChangeTool(kind, t, active)
  \/ \E customer \in Customers, t \in Contracts : ChangePolicy(customer, t)
  \/ UNCHANGED vars

LEMMA NextCases ==
  ASSUME [Next]_vars
  PROVE  \/ Around
         \/ \E c \in Calls : \/ Calling(c) \/ Guarded(c) \/ InsertRequest(c)
                             \/ Finalize(c) \/ Abort(c)
<1>1. CASE UNCHANGED vars
  BY <1>1 DEF Around
<1>2. CASE \E r \in Requests : Expire(r)
  BY <1>2 DEF Around
<1>3. CASE \E kind \in Kinds, t \in Contracts, active \in BOOLEAN :
             ChangeTool(kind, t, active)
  BY <1>3 DEF Around
<1>4. CASE \E customer \in Customers, t \in Contracts : ChangePolicy(customer, t)
  BY <1>4 DEF Around
<1>5. CASE \E c \in Calls, r \in Requests, s \in Scopes : StartCreate(c, r, s)
  BY <1>5 DEF Calling
<1>6. CASE \E c \in Calls, op \in Decisions, r \in Requests, k \in Keys \cup {NoKey},
              s \in Scopes : StartDecision(c, op, r, k, s)
  BY <1>6 DEF Calling
<1>7. ASSUME NEW c \in Calls, Step(c)
      PROVE  Calling(c) \/ Guarded(c) \/ InsertRequest(c) \/ Finalize(c)
  BY <1>7 DEF Step, Calling, Guarded
<1> QED BY <1>1, <1>2, <1>3, <1>4, <1>5, <1>6, <1>7 DEF Next

LEMMA CallingKeeps ==
  ASSUME NEW c, Calling(c)
  PROVE  UNCHANGED <<db, execution, registry, expired, aborts>>
<1>1. CASE \E r \in Requests, s \in Scopes : StartCreate(c, r, s)
  BY <1>1 DEF StartCreate
<1>2. CASE \E op \in Decisions, r \in Requests, k \in Keys \cup {NoKey}, s \in Scopes :
             StartDecision(c, op, r, k, s)
  BY <1>2 DEF StartDecision
<1>3. CASE ResolveContract(c)
  BY <1>3 DEF ResolveContract
<1>4. CASE Load(c)
  BY <1>4 DEF Load
<1>5. CASE RollBack(c)
  BY <1>5 DEF RollBack
<1> QED BY <1>1, <1>2, <1>3, <1>4, <1>5 DEF Calling

LEMMA GuardedKeeps ==
  ASSUME NEW c, Guarded(c)
  PROVE  /\ UNCHANGED <<db, registry, expired, aborts>>
         /\ UNCHANGED toolCalls \/ Reserve(c) \/ RecordOutcome(c)
         /\ UNCHANGED <<sent, applied>> \/ CallConnector(c)
<1>1. CASE CheckParents(c)
  BY <1>1 DEF CheckParents
<1>2. CASE ResolveTool(c)
  BY <1>2 DEF ResolveTool
<1>3. CASE ResolvePolicy(c)
  BY <1>3 DEF ResolvePolicy
<1>4. CASE LookupKey(c)
  BY <1>4 DEF LookupKey
<1>5. CASE Reserve(c)
  BY <1>5 DEF Reserve
<1>6. CASE CallConnector(c)
  BY <1>6 DEF CallConnector
<1>7. CASE RecordOutcome(c)
  BY <1>7 DEF RecordOutcome
<1>8. CASE AuditOutcome(c)
  BY <1>8 DEF AuditOutcome
<1> QED BY <1>1, <1>2, <1>3, <1>4, <1>5, <1>6, <1>7, <1>8 DEF Guarded

LEMMA AroundKeeps ==
  ASSUME Around PROVE UNCHANGED <<db, execution, pc, call, aborts>>
<1>1. CASE \E r \in Requests : Expire(r)
  BY <1>1 DEF Expire
<1>2. CASE \E kind \in Kinds, t \in Contracts, active \in BOOLEAN :
             ChangeTool(kind, t, active)
  BY <1>2 DEF ChangeTool
<1>3. CASE \E customer \in Customers, t \in Contracts : ChangePolicy(customer, t)
  BY <1>3 DEF ChangePolicy
<1>4. CASE UNCHANGED vars
  BY <1>4 DEF vars, db, execution
<1> QED BY <1>1, <1>2, <1>3, <1>4 DEF Around

(* The request's columns are written by the two transactions alone,        *)
(* tool_calls by reserving and recording, and only the connector is sent   *)
(* an effect; only a failure is counted.                                   *)
LEMMA Footprint ==
  ASSUME [Next]_vars
  PROVE  /\ UNCHANGED db \/ \E c \in Calls : InsertRequest(c) \/ Finalize(c)
         /\ UNCHANGED toolCalls \/ \E c \in Calls : Reserve(c) \/ RecordOutcome(c)
         /\ UNCHANGED <<sent, applied>> \/ \E c \in Calls : CallConnector(c)
         /\ UNCHANGED aborts \/ \E c \in Calls : Abort(c)
<1>1. CASE Around
  BY <1>1, AroundKeeps DEF execution
<1>2. ASSUME NEW c \in Calls, Calling(c)
      PROVE  UNCHANGED <<db, toolCalls, sent, applied, aborts>>
  BY <1>2, CallingKeeps DEF execution
<1>3. ASSUME NEW c \in Calls, InsertRequest(c)
      PROVE  UNCHANGED <<toolCalls, sent, applied, aborts>>
  BY <1>3 DEF InsertRequest, execution
<1>4. ASSUME NEW c \in Calls, Finalize(c)
      PROVE  UNCHANGED <<toolCalls, sent, applied, aborts>>
  BY <1>4 DEF Finalize, execution
<1>5. ASSUME NEW c \in Calls, Abort(c)
      PROVE  UNCHANGED <<db, toolCalls, sent, applied>>
  BY <1>5 DEF Abort, execution
<1> QED BY <1>1, <1>2, <1>3, <1>4, <1>5, GuardedKeeps, NextCases

LEMMA StepTypes == TypeInv /\ [Next]_vars => TypeInv'
<1> SUFFICES ASSUME TypeInv, [Next]_vars PROVE TypeInv'
  OBVIOUS
<1>1. CASE Around
  <2>1. CASE UNCHANGED vars
    BY <2>1 DEF vars, TypeInv, TypeOK, CallFilled, OpOf
  <2> QED BY <1>1, <2>1, AroundTypes DEF Around
<1>2. ASSUME NEW c \in Calls, Calling(c) PROVE TypeInv'
  BY <1>2, CreateTypes, DecisionTypes, CommitTypes DEF Calling
<1>3. ASSUME NEW c \in Calls, Guarded(c) PROVE TypeInv'
  BY <1>3, GateTypes, ExecutionTypes DEF Guarded
<1>4. ASSUME NEW c \in Calls, InsertRequest(c) \/ Finalize(c) \/ Abort(c) PROVE TypeInv'
  BY <1>4, CreateTypes, CommitTypes
<1> QED BY <1>1, <1>2, <1>3, <1>4, NextCases

(* Every variable keeps its type, and each stage of a handler finds the    *)
(* fields it reads (op, key, contract, outcome) already filled in.         *)
THEOREM TypeCorrect == Spec => []TypeOK
<1>1. TypeInv => TypeOK
  BY DEF TypeInv
<1> QED BY <1>1, InitTypes, StepTypes, PTL DEF Spec

-----------------------------------------------------------------------------
(* The inductive invariant: a handler and the status of its request *)

Creating == {"resolve", "insert"}
Seen == Guarding \cup {"finalize"}

(* A request being created is absent and has one creator; one being        *)
(* decided exists; a call that will record a decision saw an open request. *)
Frame ==
  /\ \A c \in Calls : pc[c] \in Creating => status[RequestOf(c)] = "absent"
  /\ \A c, d \in Calls : /\ c # d /\ pc[c] \in Creating /\ pc[d] \in Creating
                         => RequestOf(c) # RequestOf(d)
  /\ \A c \in Calls : pc[c] \in Deciding => status[RequestOf(c)] # "absent"
  /\ \A c \in Calls : /\ pc[c] \in Seen /\ ~call[c].replay
                      => call[c].seen \in OpenStatuses
  /\ \A c \in Calls : pc[c] = "finalize" => ~call[c].replay

JournalInv == Frame /\ JournalAgrees

LEMMA OutcomeFacts ==
  /\ \A k \in Kinds : InitialStatus[k] \in OpenStatuses
  /\ \A o \in Decisions : /\ Target[o] \in DecidedStatuses
                          /\ OutcomeOf[Target[o]] = EventOf[o]
  /\ \A s \in OpenStatuses : s # "absent" /\ OutcomeOf[s] = "open"
  /\ \A s \in DecidedStatuses : s # "absent" /\ s \notin OpenStatuses
BY DEF InitialStatus, OpenStatuses, Decisions, Target, DecidedStatuses, OutcomeOf,
       EventOf, Kinds

LEMMA InitJournal == Init => JournalInv
BY DEF Init, JournalInv, Frame, JournalAgrees, Creating, Seen, Deciding, Guarding

(* The steps that leave every status and every trail alone. *)
Quiet == UNCHANGED <<status, journal>>

LEMMA QuietJournal == ASSUME JournalAgrees, Quiet PROVE JournalAgrees'
BY DEF Quiet, JournalAgrees

(* A handler that answers. *)
LEMMA ReplyFrame ==
  ASSUME TypeInv, Frame, Quiet, NEW c \in Calls, NEW a \in Replies, Reply(c, a)
  PROVE  Frame'
BY DEF TypeInv, TypeOK, Frame, Quiet, Reply, Replies, RequestOf, Creating, Seen,
       Deciding, Guarding

(* A handler that moves on, keeping its request. *)
LEMMA GotoFrame ==
  ASSUME TypeInv, Frame, Quiet, NEW c \in Calls, NEW l \in Running, Goto(c, l),
         \A d \in Calls : d # c => call'[d] = call[d],
         call'[c].request = call[c].request,
         l \in Creating => pc[c] \in Creating,
         l \in Deciding => pc[c] \in Deciding,
         l \in Seen /\ ~call'[c].replay => call'[c].seen \in OpenStatuses,
         l = "finalize" => ~call'[c].replay
  PROVE  Frame'
BY DEF TypeInv, TypeOK, Frame, Quiet, Goto, RequestOf

(* Everything a handler does short of inserting or deciding its request.   *)
LEMMA QuietStep ==
  ASSUME TypeInv, JournalInv, NEW c \in Calls,
         \/ ResolveContract(c) \/ Load(c)
         \/ CheckParents(c) \/ ResolveTool(c) \/ ResolvePolicy(c) \/ LookupKey(c)
         \/ Reserve(c) \/ CallConnector(c) \/ RecordOutcome(c) \/ AuditOutcome(c)
         \/ RollBack(c) \/ Abort(c)
  PROVE  JournalInv'
<1>1. Quiet
  BY DEF Quiet, ResolveContract, Load, CheckParents, ResolveTool, ResolvePolicy,
         LookupKey, Reserve, CallConnector, RecordOutcome, AuditOutcome, RollBack,
         Abort, db
<1>2. CASE \E a \in Replies : Reply(c, a)
  BY <1>1, <1>2, ReplyFrame, QuietJournal DEF JournalInv
<1>3. pc[c] \in Running => call[c] \in CallRecord
  BY DEF TypeInv, TypeOK
<1>4. CASE ResolveContract(c) /\ Goto(c, "insert")
              /\ call' = [call EXCEPT ![c].contract = tool[KindOf[RequestOf(c)]].contract]
  <2>1. Frame'
    BY <1>1, <1>3, <1>4, GotoFrame
       DEF JournalInv, TypeInv, TypeOK, ResolveContract, Running, Creating, Deciding,
           Seen, Guarding, CallRecord
  <2> QED BY <1>1, <2>1, QuietJournal DEF JournalInv
<1>5. ASSUME NEW replay \in BOOLEAN, NEW l \in {"guard", "finalize"}, Load(c),
             l = "finalize" => ~replay,
             ~replay => status[RequestOf(c)] \in OpenStatuses,
             call' = [call EXCEPT ![c].seen = status[RequestOf(c)], ![c].replay = replay],
             Goto(c, l)
      PROVE  JournalInv'
  <2>1. pc[c] = "load" /\ call[c] \in CallRecord
    BY <1>3, <1>5 DEF Load, Running
  <2>2. /\ call'[c].request = call[c].request /\ call'[c].replay = replay
        /\ call'[c].seen = status[RequestOf(c)]
        /\ \A d \in Calls : d # c => call'[d] = call[d]
    BY <1>5, <2>1 DEF TypeInv, TypeOK, CallRecord
  <2>3. Frame'
    BY <1>1, <1>5, <2>1, <2>2, GotoFrame
       DEF JournalInv, Running, Creating, Deciding, Seen, Guarding
  <2> QED BY <1>1, <2>3, QuietJournal DEF JournalInv
<1>6. ASSUME NEW l \in Guarding, Goto(c, l), pc[c] \in Guarding,
             \/ UNCHANGED call
             \/ \E x \in Contracts : call' = [call EXCEPT ![c].contract = x]
             \/ \E x \in {"succeeded", "failed"} : call' = [call EXCEPT ![c].outcome = x]
      PROVE  JournalInv'
  <2>1. call[c] \in CallRecord /\ pc[c] \in Deciding /\ pc[c] \in Seen
    BY <1>3, <1>6 DEF Guarding, Running, Deciding, Seen
  <2>2. /\ call'[c].request = call[c].request /\ call'[c].replay = call[c].replay
        /\ call'[c].seen = call[c].seen
        /\ \A d \in Calls : d # c => call'[d] = call[d]
    BY <1>6, <2>1 DEF TypeInv, TypeOK, CallRecord
  <2>3. l \in Running /\ l \notin Creating /\ l # "finalize"
    BY <1>6 DEF Guarding, Running, Creating
  <2>4. Frame'
    BY <1>1, <1>6, <2>1, <2>2, <2>3, GotoFrame DEF JournalInv, Frame
  <2> QED BY <1>1, <2>4, QuietJournal DEF JournalInv
<1>7. ASSUME pc[c] \in Guarding, Goto(c, "finalize"), ~call[c].replay, UNCHANGED call
      PROVE  JournalInv'
  <2>1. Frame'
    BY <1>1, <1>7, GotoFrame
       DEF JournalInv, Frame, Running, Creating, Deciding, Seen, Guarding
  <2> QED BY <1>1, <2>1, QuietJournal DEF JournalInv
<1>8. CASE ResolveContract(c)
  BY <1>2, <1>4, <1>8 DEF ResolveContract, Replies
<1>9. CASE Load(c)
  BY <1>2, <1>5, <1>9 DEF Load, Decidable, Replies
<1>10. CASE CheckParents(c) \/ ResolvePolicy(c) \/ LookupKey(c)
  BY <1>2, <1>6, <1>7, <1>10
     DEF CheckParents, ResolvePolicy, LookupKey, Deny, AfterGuard, Replies, Guarding
<1>11. CASE ResolveTool(c)
  <2>1. tool[KindOf[RequestOf(c)]].contract \in Contracts
    BY <1>11, RecordTypes, TypeParts DEF Data, ResolveTool, Running
  <2> QED BY <1>2, <1>6, <1>11, <2>1 DEF ResolveTool, Deny, Replies, Guarding
<1>12. CASE Reserve(c) \/ RecordOutcome(c)
  BY <1>2, <1>6, <1>12 DEF Reserve, RecordOutcome, Replies, Guarding
<1>13. CASE CallConnector(c)
  BY <1>6, <1>13 DEF CallConnector, Guarding
<1>14. CASE AuditOutcome(c)
  BY <1>2, <1>7, <1>14 DEF AuditOutcome, AfterGuard, Replies, Guarding
<1>15. CASE RollBack(c) \/ Abort(c)
  BY <1>2, <1>15 DEF RollBack, Abort, Replies
<1> QED BY <1>8, <1>9, <1>10, <1>11, <1>12, <1>13, <1>14, <1>15

LEMMA CreateJournal ==
  ASSUME TypeInv, JournalInv, NEW c \in Calls, NEW r \in Requests, NEW s \in Scopes,
         StartCreate(c, r, s)
  PROVE  JournalInv'
<1>1. /\ \A d \in Calls : d # c => pc'[d] = pc[d] /\ call'[d] = call[d]
      /\ pc'[c] = "resolve" /\ call'[c].request = r
      /\ Quiet
  BY DEF StartCreate, Goto, TypeInv, TypeOK, Quiet, db
<1>2. Frame'
  BY <1>1 DEF StartCreate, JournalInv, Frame, Quiet, RequestOf, Creating, Seen,
              Deciding, Guarding
<1> QED BY <1>1, <1>2, QuietJournal DEF JournalInv

LEMMA DecideJournal ==
  ASSUME TypeInv, JournalInv, NEW c \in Calls, NEW op \in Decisions,
         NEW r \in Requests, NEW k \in Keys \cup {NoKey}, NEW s \in Scopes,
         StartDecision(c, op, r, k, s)
  PROVE  JournalInv'
<1>1. /\ \A d \in Calls : d # c => pc'[d] = pc[d] /\ call'[d] = call[d]
      /\ pc'[c] = "load" /\ call'[c].request = r
      /\ Quiet
  BY DEF StartDecision, Goto, TypeInv, TypeOK, Quiet, db
<1>2. Frame'
  BY <1>1 DEF StartDecision, JournalInv, Frame, Quiet, RequestOf, Creating, Seen,
              Deciding, Guarding
<1> QED BY <1>1, <1>2, QuietJournal DEF JournalInv

LEMMA EmptyAppend == ASSUME NEW S, NEW e \in S PROVE Append(<<>>, e) = <<e>>
<1>1. <<>> \in Seq(S) /\ <<e>> \in Seq(S) /\ Append(<<>>, e) \in Seq(S)
  OBVIOUS
<1>2. Len(Append(<<>>, e)) = 1 /\ Append(<<>>, e)[1] = e
  OBVIOUS
<1> QED BY <1>1, <1>2, SeqEqual

LEMMA SecondAppend ==
  ASSUME NEW S, NEW a \in S, NEW e \in S PROVE Append(<<a>>, e) = <<a, e>>
<1>1. <<a>> \in Seq(S) /\ Len(<<a>>) = 1 /\ <<a>>[1] = a
  OBVIOUS
<1>2. <<a, e>> \in Seq(S)
  OBVIOUS
<1>3. /\ Append(<<a>>, e) \in Seq(S) /\ Len(Append(<<a>>, e)) = 2
      /\ Append(<<a>>, e)[1] = a /\ Append(<<a>>, e)[2] = e
  BY <1>1, AppendProperties
<1>4. Len(<<a, e>>) = 2 /\ <<a, e>>[1] = a /\ <<a, e>>[2] = e
  OBVIOUS
<1>5. \A i \in 1 .. Len(<<a, e>>) : <<a, e>>[i] = Append(<<a>>, e)[i]
  <2>1. \A i \in 1 .. 2 : i = 1 \/ i = 2
    OBVIOUS
  <2> QED BY <1>3, <1>4, <2>1
<1> QED BY ONLY <1>2, <1>3, <1>4, <1>5, SeqEqual

LEMMA TrailFacts ==
  /\ Append(<<>>, "created") = <<"created">>
  /\ \A e \in Events : Append(<<"created">>, e) = <<"created", e>>
  /\ \A o \in Decisions : EventOf[o] \in Events
<1>1. "created" \in Events /\ \A o \in Decisions : EventOf[o] \in Events
  BY DEF Events, Decisions, EventOf
<1>2. Append(<<>>, "created") = <<"created">>
  BY <1>1, EmptyAppend
<1>3. \A e \in Events : Append(<<"created">>, e) = <<"created", e>>
  BY <1>1, SecondAppend
<1> QED BY <1>1, <1>2, <1>3

(* The two steps that write a status, each with its audit event. *)
LEMMA WriteJournal ==
  ASSUME TypeInv, JournalInv, NEW c \in Calls, InsertRequest(c) \/ Finalize(c)
  PROVE  JournalInv'
<1> DEFINE r == RequestOf(c)
<1>1. /\ pc[c] \in {"insert", "finalize"} /\ call[c] \in CallRecord
      /\ r \in Requests /\ KindOf[r] \in Kinds
      /\ pc[c] = "finalize" => OpOf(c) \in Decisions
  BY RecordTypes, TypeParts
     DEF InsertRequest, Finalize, Running, Control, CallFilled, Deciding
<1>2. /\ pc'[c] = "ok"
      /\ \A d \in Calls : d # c => pc'[d] = pc[d] /\ call'[d] = call[d]
      /\ \A q \in Requests : q # r => status'[q] = status[q] /\ journal'[q] = journal[q]
  BY <1>1 DEF InsertRequest, Finalize, Reply, TypeInv, TypeOK
<1>3. CASE InsertRequest(c)
  <2>1. status[r] = "absent" /\ journal[r] = <<>>
    BY <1>1, <1>3 DEF InsertRequest, JournalInv, Frame, JournalAgrees, Creating
  <2>2. status'[r] \in OpenStatuses /\ journal'[r] = <<"created">>
    BY <1>1, <1>3, <2>1, OutcomeFacts, TrailFacts DEF InsertRequest, TypeInv, TypeOK
  <2>3. Frame'
    BY <1>2, <1>3, <2>1, <2>2, OutcomeFacts
       DEF InsertRequest, JournalInv, Frame, RequestOf, Creating, Seen, Deciding,
           Guarding
  <2>4. JournalAgrees'
    BY <1>2, <2>2, OutcomeFacts DEF JournalInv, JournalAgrees
  <2> QED BY <2>3, <2>4 DEF JournalInv
<1>4. CASE Finalize(c)
  <2>1. status[r] = call[c].seen /\ status[r] \in OpenStatuses
    BY <1>4 DEF Finalize, CanCommit, JournalInv, Frame, Seen
  <2>2. journal[r] = <<"created">>
    BY <1>1, <2>1, OutcomeFacts DEF JournalInv, JournalAgrees
  <2>3. /\ status'[r] = Target[OpOf(c)] /\ status'[r] \in DecidedStatuses
        /\ journal'[r] = <<"created", EventOf[OpOf(c)]>>
    BY <1>1, <1>4, <2>2, OutcomeFacts, TrailFacts DEF Finalize, TypeInv, TypeOK
  <2>4. Frame'
    BY <1>2, <1>4, <2>1, <2>3, OutcomeFacts
       DEF Finalize, JournalInv, Frame, RequestOf, Creating, Seen, Deciding, Guarding
  <2>5. JournalAgrees'
    <3>1. /\ OutcomeOf[status'[r]] = EventOf[OpOf(c)]
          /\ status'[r] # "absent" /\ status'[r] \notin OpenStatuses
      BY <1>1, <1>4, <2>3, OutcomeFacts DEF Finalize
    <3> QED BY <1>2, <2>3, <3>1 DEF JournalInv, JournalAgrees
  <2> QED BY <2>4, <2>5 DEF JournalInv
<1> QED BY <1>3, <1>4

LEMMA AroundJournal ==
  ASSUME JournalInv,
         \/ \E r \in Requests : Expire(r)
         \/ \E kind \in Kinds, t \in Contracts, active \in BOOLEAN :
              ChangeTool(kind, t, active)
         \/ \E customer \in Customers, t \in Contracts : ChangePolicy(customer, t)
         \/ UNCHANGED vars
  PROVE  JournalInv'
<1>1. UNCHANGED <<status, journal, pc, call>>
  BY DEF Expire, ChangeTool, ChangePolicy, vars, db
<1> QED BY <1>1 DEF JournalInv, Frame, JournalAgrees, RequestOf

LEMMA JournalStep == TypeInv /\ JournalInv /\ [Next]_vars => JournalInv'
<1> SUFFICES ASSUME TypeInv, JournalInv, [Next]_vars PROVE JournalInv'
  OBVIOUS
<1>1. CASE Around
  BY <1>1, AroundJournal DEF Around
<1>2. ASSUME NEW c \in Calls, Calling(c) PROVE JournalInv'
  BY <1>2, CreateJournal, DecideJournal, QuietStep DEF Calling
<1>3. ASSUME NEW c \in Calls, Guarded(c) PROVE JournalInv'
  BY <1>3, QuietStep DEF Guarded
<1>4. ASSUME NEW c \in Calls, InsertRequest(c) \/ Finalize(c) \/ Abort(c)
      PROVE  JournalInv'
  BY <1>4, WriteJournal, QuietStep
<1> QED BY <1>1, <1>2, <1>3, <1>4, NextCases

(* The audit trail of a request and its status tell one story, whatever    *)
(* confirmations, refusals and failures race.                              *)
THEOREM JournalCorrect == Spec => []JournalAgrees
<1>1. JournalInv => JournalAgrees
  BY DEF JournalInv
<1> QED BY <1>1, InitTypes, StepTypes, InitJournal, JournalStep, PTL DEF Spec

(* Only creating and deciding a request touch its status and its trail. *)
LEMMA QuietOrWrite ==
  [Next]_vars => Quiet \/ \E c \in Calls : InsertRequest(c) \/ Finalize(c)
<1>1. UNCHANGED db => Quiet
  BY DEF db, Quiet
<1> QED BY <1>1, Footprint

LEMMA LogStep == TypeInv /\ JournalInv /\ [Next]_vars => [Log!Next]_(Log!vars)
<1> SUFFICES ASSUME TypeInv, JournalInv, [Next]_vars PROVE [Log!Next]_(Log!vars)
  OBVIOUS
<1>1. CASE Quiet
  BY <1>1 DEF Quiet, Log!vars
<1>2. ASSUME NEW c \in Calls, InsertRequest(c) PROVE Log!Next
  <2>1. PICK r \in Requests : r = RequestOf(c) /\ KindOf[r] \in Kinds
    BY <1>2, RecordTypes, TypeParts DEF InsertRequest, Running
  <2>2. status[r] = "absent"
    BY <1>2, <2>1 DEF InsertRequest, JournalInv, Frame, Creating
  <2>3. OutcomeOf[status[r]] = "none" /\ OutcomeOf[status'[r]] = "open"
    BY <1>2, <2>1, <2>2, OutcomeFacts DEF InsertRequest, OutcomeOf, TypeInv, TypeOK
  <2>4. \A q \in Requests : q # r => status'[q] = status[q]
    BY <1>2, <2>1 DEF InsertRequest, TypeInv, TypeOK
  <2>5. [q \in Requests |-> OutcomeOf[status'[q]]]
          = [[q \in Requests |-> OutcomeOf[status[q]]] EXCEPT ![r] = "open"]
    BY <2>3, <2>4
  <2>6. Log!Open(r)
    BY <1>2, <2>1, <2>3, <2>5 DEF InsertRequest, Log!Open
  <2> QED BY <2>6 DEF Log!Next
<1>3. ASSUME NEW c \in Calls, Finalize(c) PROVE Log!Next
  <2>1. PICK r \in Requests, op \in Decisions : r = RequestOf(c) /\ op = OpOf(c)
    BY <1>3, RecordTypes, TypeParts
       DEF Finalize, Running, Control, CallFilled, Deciding
  <2>2. status[r] \in OpenStatuses
    BY <1>3, <2>1 DEF Finalize, CanCommit, JournalInv, Frame, Seen
  <2>3. /\ OutcomeOf[status[r]] = "open"
        /\ OutcomeOf[status'[r]] = EventOf[op]
        /\ EventOf[op] \in {"confirmed", "approved", "rejected", "cancelled"}
    BY <1>3, <2>1, <2>2, OutcomeFacts
       DEF Finalize, TypeInv, TypeOK, Decisions, EventOf
  <2>4. \A q \in Requests : q # r => status'[q] = status[q]
    BY <1>3, <2>1 DEF Finalize, TypeInv, TypeOK
  <2>5. [q \in Requests |-> OutcomeOf[status'[q]]]
          = [[q \in Requests |-> OutcomeOf[status[q]]] EXCEPT ![r] = EventOf[op]]
    BY <2>3, <2>4
  <2>6. Log!Decide(r, EventOf[op])
    BY <1>3, <2>1, <2>3, <2>5 DEF Finalize, Log!Decide
  <2> QED BY <2>3, <2>6 DEF Log!Next
<1> QED BY <1>1, <1>2, <1>3, QuietOrWrite

(* Drafts and approval requests implement the decision log: opened once,   *)
(* decided at most once, for good, with the matching audit event.          *)
THEOREM DecisionLogImplemented == Spec => ImplementsDecisionLog
<1>1. Init => Log!Init
  BY DEF Init, Log!Init, OutcomeOf
<1> QED BY <1>1, InitTypes, StepTypes, InitJournal, JournalStep, LogStep, PTL
        DEF Spec, ImplementsDecisionLog, Log!Spec
=============================================================================
