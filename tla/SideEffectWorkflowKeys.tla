------------------------ MODULE SideEffectWorkflowKeys ------------------------
(***************************************************************************)
(* What a handler knows at each of its stages, and the rows of the         *)
(* ToolCall table it relies on, for every number of calls, requests and    *)
(* keys.                                                                   *)
(***************************************************************************)
EXTENDS SideEffectWorkflowProofs

-----------------------------------------------------------------------------
(* The inductive invariant *)

(* The stages after the policy, and those after the reservation. *)
Passed == {"lookup", "reserve", "connector", "record", "audit"}
Sending == {"connector", "record", "audit"}

(* The key of the call is held by the call's own request. *)
OwnRow(c) == \E t \in RowsAt(SlotOf(c)) : t.request = RequestOf(c)

(* The gates a handler has been through, and the row it relies on.  A      *)
(* replay has a row from the decision it repeats, so it never reserves.    *)
Know(c) ==
  /\ pc[c] \in Deciding => OpOf(c) \in OpsOf[KindOf[RequestOf(c)]]
  /\ pc[c] \in Seen =>
       Entitled(c) /\ ScopeOf(c).customer = SessionOf[RequestOf(c)].customer
  /\ pc[c] \in Keyed => OwnsSession(ScopeOf(c), RequestOf(c))
  /\ pc[c] \in Passed =>
       ScopeOf(c).permitted /\ call[c].contract = contract[RequestOf(c)]
  /\ pc[c] \in Guarding /\ call[c].replay => OwnRow(c)
  /\ pc[c] \in Sending \cup {"reserve"} => ~call[c].replay
  /\ pc[c] \in Sending => OwnRow(c)
  /\ pc[c] = "finalize" /\ OpOf(c) \in Executing => OwnRow(c)

UniqueRows == \A t, u \in toolCalls : t.customer = u.customer /\ t.key = u.key => t = u

RowInv == UniqueRows /\ DecidedHasToolCall /\ \A c \in Calls : Know(c)

-----------------------------------------------------------------------------
(* What no step undoes *)

(* A row keeps its customer, its key and its request. *)
RowsKept ==
  \A t \in toolCalls : \E u \in toolCalls' :
    u.customer = t.customer /\ u.key = t.key /\ u.request = t.request

(* A request keeps the contract it was created with. *)
ContractsKept ==
  \A r \in Requests : status[r] # "absent" => contract'[r] = contract[r]

(* A step of one handler leaves the records of the others alone. *)
Alone(c) == \A d \in Calls : d # c => pc'[d] = pc[d] /\ call'[d] = call[d]

LEMMA RowUpdate ==
  ASSUME NEW t \in Rows, NEW s
  PROVE  /\ [t EXCEPT !.state = s].customer = t.customer
         /\ [t EXCEPT !.state = s].key = t.key
         /\ [t EXCEPT !.state = s].request = t.request
         /\ [t EXCEPT !.state = s].state = s
BY DEF Rows

LEMMA RowsMonotone == TypeInv /\ [Next]_vars => RowsKept
<1> SUFFICES ASSUME TypeInv, [Next]_vars PROVE RowsKept
  OBVIOUS
<1>1. CASE toolCalls \subseteq toolCalls'
  BY <1>1 DEF RowsKept
<1>2. ASSUME NEW c \in Calls, RecordOutcome(c) PROVE RowsKept
  <2> DEFINE s == ResultState[call[c].outcome]
             new(t) == IF t \in RowsAt(SlotOf(c)) THEN [t EXCEPT !.state = s] ELSE t
  <2>1. toolCalls' = {new(t) : t \in toolCalls}
    BY <1>2 DEF RecordOutcome
  <2>2. \A t \in toolCalls : /\ new(t).customer = t.customer /\ new(t).key = t.key
                            /\ new(t).request = t.request
    BY RowUpdate DEF TypeInv, TypeOK
  <2>3. \A t \in toolCalls : new(t) \in toolCalls'
    BY <2>1
  <2> QED BY <2>2, <2>3 DEF RowsKept
<1>3. toolCalls \subseteq toolCalls' \/ \E c \in Calls : RecordOutcome(c)
  <2>1. ASSUME NEW c \in Calls, Reserve(c) PROVE toolCalls \subseteq toolCalls'
    BY <2>1 DEF Reserve
  <2> QED BY <2>1, Footprint
<1> QED BY <1>1, <1>2, <1>3

LEMMA ContractsMonotone == TypeInv /\ JournalInv /\ [Next]_vars => ContractsKept
<1> SUFFICES ASSUME TypeInv, JournalInv, [Next]_vars PROVE ContractsKept
  OBVIOUS
<1>1. CASE contract' = contract
  BY <1>1 DEF ContractsKept
<1>2. ASSUME NEW c \in Calls, InsertRequest(c) PROVE ContractsKept
  BY <1>2 DEF InsertRequest, ContractsKept, JournalInv, Frame, Creating, TypeInv, TypeOK
<1>3. contract' = contract \/ \E c \in Calls : InsertRequest(c)
  <2>1. ASSUME NEW c \in Calls, Finalize(c) PROVE contract' = contract
    BY <2>1 DEF Finalize
  <2> QED BY <2>1, Footprint DEF db
<1> QED BY <1>1, <1>2, <1>3

LEMMA StepAlone ==
  ASSUME TypeInv, NEW c \in Calls,
         \/ Step(c) \/ Abort(c)
         \/ \E r \in Requests, s \in Scopes : StartCreate(c, r, s)
         \/ \E op \in Decisions, r \in Requests, k \in Keys \cup {NoKey}, s \in Scopes :
              StartDecision(c, op, r, k, s)
  PROVE  Alone(c)
<1>1. CASE \/ \E r \in Requests, s \in Scopes : StartCreate(c, r, s)
           \/ \E op \in Decisions, r \in Requests, k \in Keys \cup {NoKey}, s \in Scopes :
                StartDecision(c, op, r, k, s)
           \/ ResolveContract(c) \/ Load(c)
  BY <1>1 DEF TypeInv, TypeOK, Alone, StartCreate, StartDecision, ResolveContract, Load,
     Reply, Goto
<1>2. CASE \/ CheckParents(c) \/ ResolveTool(c) \/ ResolvePolicy(c) \/ LookupKey(c)
           \/ AuditOutcome(c)
  BY <1>2 DEF TypeInv, TypeOK, Alone, CheckParents, ResolveTool, ResolvePolicy,
     LookupKey, AuditOutcome, Reply, Goto, Deny, AfterGuard
<1>3. CASE Reserve(c) \/ CallConnector(c) \/ RecordOutcome(c)
  BY <1>3 DEF TypeInv, TypeOK, Alone, Reserve, CallConnector, RecordOutcome, Reply, Goto
<1>4. CASE InsertRequest(c) \/ Finalize(c) \/ RollBack(c) \/ Abort(c)
  BY <1>4 DEF TypeInv, TypeOK, Alone, InsertRequest, Finalize, RollBack, Abort, Reply
<1> QED BY <1>1, <1>2, <1>3, <1>4 DEF Step

-----------------------------------------------------------------------------
(* What a handler knows stays true while others run *)

SameRecord(c) == /\ call'[c].op = call[c].op
                 /\ call'[c].request = call[c].request
                 /\ call'[c].key = call[c].key
                 /\ call'[c].scope = call[c].scope
                 /\ call'[c].replay = call[c].replay

LEMMA OwnRowKept ==
  ASSUME RowsKept, NEW c \in Calls, SameRecord(c), OwnRow(c)
  PROVE  OwnRow(c)'
BY DEF RowsKept, SameRecord, OwnRow, RowsAt, SlotOf, RequestOf, ScopeOf

LEMMA KnowKept ==
  ASSUME TypeInv, JournalInv, RowsKept, ContractsKept, NEW d \in Calls, Know(d),
         pc'[d] = pc[d], call'[d] = call[d]
  PROVE  Know(d)'
<1>1. OwnRow(d) => OwnRow(d)'
  BY OwnRowKept DEF SameRecord
<1>2. pc[d] \in Passed => contract'[RequestOf(d)] = contract[RequestOf(d)]
  <2>1. pc[d] \in Passed => pc[d] \in Running /\ pc[d] \in Deciding
    BY DEF Passed, Running, Deciding
  <2> QED BY <2>1, RecordTypes, TypeParts DEF JournalInv, Frame, ContractsKept
<1> QED BY <1>1, <1>2 DEF Know, OpOf, RequestOf, ScopeOf, Entitled, OwnsSession

(* A handler that stops, or that has not read its request yet. *)
LEMMA KnowNothing ==
  ASSUME NEW c \in Calls,
         \/ pc'[c] \in Resting \cup Creating
         \/ pc'[c] = "load" /\ OpOf(c)' \in OpsOf[KindOf[RequestOf(c)']]
  PROVE  Know(c)'
BY DEF Know, Resting, Replies, Creating, Deciding, Seen, Guarding, Keyed, Passed, Sending

(* A handler that moves on inside the guard, or out of it. *)
LEMMA KnowMore ==
  ASSUME TypeInv, JournalInv, RowsKept, ContractsKept, NEW c \in Calls, Know(c),
         NEW l \in Guarding \cup {"finalize"}, pc[c] \in Guarding, pc'[c] = l,
         SameRecord(c),
         l \in Keyed => pc[c] \in Keyed \/ OwnsSession(ScopeOf(c), RequestOf(c)),
         l \in Passed => \/ pc[c] \in Passed /\ call'[c].contract = call[c].contract
                         \/ /\ ScopeOf(c).permitted
                            /\ call'[c].contract = contract[RequestOf(c)],
         l \in Sending \cup {"reserve"} => ~call[c].replay,
         l \in Sending \cup {"finalize"} => OwnRow(c) \/ OwnRow(c)'
  PROVE  Know(c)'
<1>1. OwnRow(c) => OwnRow(c)'
  BY OwnRowKept
<1>2. contract'[RequestOf(c)] = contract[RequestOf(c)]
  <2>1. pc[c] \in Running /\ pc[c] \in Deciding
    BY DEF Guarding, Running, Deciding
  <2> QED BY <2>1, RecordTypes, TypeParts DEF JournalInv, Frame, ContractsKept
<1>3. pc[c] \in Deciding /\ pc[c] \in Seen
  BY DEF Guarding, Deciding, Seen
<1>4. ScopeOf(c)' = ScopeOf(c) /\ RequestOf(c)' = RequestOf(c) /\ OpOf(c)' = OpOf(c)
  BY DEF SameRecord, ScopeOf, RequestOf, OpOf
<1> QED BY <1>1, <1>2, <1>3, <1>4
        DEF Know, SameRecord, Entitled, OwnsSession, Guarding, Sending

-----------------------------------------------------------------------------
(* What each stage adds to it *)

LEMMA LoadKnows ==
  ASSUME TypeInv, RowInv, JournalInv, RowsKept, NEW c \in Calls, Load(c)
  PROVE  Know(c)'
<1>1. /\ pc[c] = "load" /\ call[c] \in CallRecord /\ RequestOf(c) \in Requests
      /\ Know(c)
  BY RecordTypes, TypeParts DEF Load, Running, RowInv
<1>2. CASE \E a \in Replies : Reply(c, a)
  BY <1>2, KnowNothing DEF Reply, Resting, TypeInv, TypeOK
<1>3. ASSUME NEW replay \in BOOLEAN, NEW l \in {"guard", "finalize"},
             Entitled(c), VisibleTo(ScopeOf(c), RequestOf(c)),
             l = "finalize" => ~replay /\ OpOf(c) \notin Executing,
             replay => AlreadyDone(c) /\ SameKey(c),
             call' = [call EXCEPT ![c].seen = status[RequestOf(c)], ![c].replay = replay],
             Goto(c, l)
      PROVE  Know(c)'
  <2>1. pc'[c] = l /\ call'[c].replay = replay
    BY <1>1, <1>3 DEF Goto, TypeInv, TypeOK, CallRecord
  <2>2. /\ OpOf(c)' = OpOf(c) /\ RequestOf(c)' = RequestOf(c)
        /\ ScopeOf(c)' = ScopeOf(c) /\ SlotOf(c)' = SlotOf(c)
    BY <1>1, <1>3 DEF OpOf, RequestOf, ScopeOf, SlotOf, TypeInv, TypeOK, CallRecord
  <2>3. ScopeOf(c).customer = SessionOf[RequestOf(c)].customer
    BY <1>3 DEF VisibleTo, OwnsSession
  <2>4. replay => OwnRow(c)'
    <3>1. SUFFICES ASSUME replay PROVE OwnRow(c)'
      OBVIOUS
    <3>2. status[RequestOf(c)] \in {"executed", "approved"}
      BY <1>3, <3>1 DEF AlreadyDone, Executing, Target
    <3>3. PICK t \in toolCalls : /\ t.customer = SessionOf[RequestOf(c)].customer
                                 /\ t.key = reqKey[RequestOf(c)]
                                 /\ t.request = RequestOf(c)
      BY <1>1, <3>2 DEF RowInv, DecidedHasToolCall
    <3>4. PICK u \in toolCalls' : /\ u.customer = t.customer /\ u.key = t.key
                                  /\ u.request = t.request
      BY <3>3 DEF RowsKept
    <3>5. u.customer = SlotOf(c)[1] /\ u.key = SlotOf(c)[2] /\ u.request = RequestOf(c)
      BY <1>3, <2>3, <3>1, <3>3, <3>4 DEF SameKey, SlotOf
    <3> QED BY <2>2, <3>5 DEF OwnRow, RowsAt
  <2>5. OpOf(c) \in OpsOf[KindOf[RequestOf(c)]]
    BY <1>1 DEF Know, Deciding
  <2> QED BY <1>3, <2>1, <2>2, <2>3, <2>4, <2>5
          DEF Know, Entitled, Keyed, Passed, Sending, Guarding
<1> QED BY <1>2, <1>3 DEF Load, AlreadyDone, Replies

LEMMA GateKnows ==
  ASSUME TypeInv, RowInv, JournalInv, RowsKept, ContractsKept, NEW c \in Calls,
         CheckParents(c) \/ ResolveTool(c) \/ ResolvePolicy(c)
  PROVE  Know(c)'
<1>1. /\ pc[c] \in {"guard", "tool", "policy"} /\ call[c] \in CallRecord
      /\ Know(c)
  <2>1. pc[c] \in {"guard", "tool", "policy"}
    BY DEF CheckParents, ResolveTool, ResolvePolicy
  <2> QED BY <2>1 DEF Running, RowInv, TypeInv, TypeOK
<1>2. CASE \E a \in Replies : Reply(c, a)
  BY <1>2, KnowNothing DEF Reply, Resting, TypeInv, TypeOK
<1>3. CASE CheckParents(c) /\ Goto(c, "tool") /\ UNCHANGED call
              /\ OwnsSession(ScopeOf(c), RequestOf(c))
  <2>1. pc'[c] = "tool" /\ SameRecord(c)
    BY <1>3 DEF Goto, SameRecord, TypeInv, TypeOK
  <2> QED BY <1>1, <1>3, <2>1, KnowMore DEF CheckParents, Guarding, Passed, Sending
<1>4. CASE /\ ResolveTool(c) /\ Goto(c, "policy")
           /\ call' = [call EXCEPT ![c].contract = tool[KindOf[RequestOf(c)]].contract]
  <2>1. pc'[c] = "policy" /\ SameRecord(c)
    BY <1>1, <1>4 DEF Goto, SameRecord, TypeInv, TypeOK, CallRecord
  <2> QED BY <1>1, <1>4, <2>1, KnowMore DEF ResolveTool, Guarding, Keyed, Passed, Sending
<1>5. CASE /\ ResolvePolicy(c) /\ Goto(c, "lookup") /\ UNCHANGED call
           /\ ContractMatches(c) /\ ScopeOf(c).permitted
  <2>1. pc'[c] = "lookup" /\ SameRecord(c)
    BY <1>5 DEF Goto, SameRecord, TypeInv, TypeOK
  <2> QED BY <1>1, <1>5, <2>1, KnowMore
          DEF ResolvePolicy, ContractMatches, Guarding, Keyed, Passed, Sending
<1> QED BY <1>2, <1>3, <1>4, <1>5
        DEF CheckParents, ResolveTool, ResolvePolicy, Deny, Replies

(* A row that is not foreign belongs to the request of the call: a message *)
(* belongs to one request.                                                 *)
LEMMA NotForeign ==
  ASSUME TypeInv, NEW c \in Calls, RequestOf(c) \in Requests,
         RowsAt(SlotOf(c)) # {}, ~Foreign(c)
  PROVE  OwnRow(c)
<1>1. PICK t \in RowsAt(SlotOf(c)) : MessageOf[t.request] = MessageOf[RequestOf(c)]
  BY DEF Foreign
<1>2. t.request \in Requests
  BY <1>1 DEF RowsAt, TypeInv, TypeOK, Rows
<1> QED BY <1>1, <1>2, ShapeAssumption DEF OwnRow

LEMMA LookupKnows ==
  ASSUME TypeInv, RowInv, JournalInv, RowsKept, ContractsKept, NEW c \in Calls,
         LookupKey(c)
  PROVE  Know(c)'
<1>1. /\ pc[c] = "lookup" /\ call[c] \in CallRecord /\ RequestOf(c) \in Requests
      /\ Know(c)
  BY RecordTypes, TypeParts DEF LookupKey, Running, RowInv
<1>2. CASE \E a \in Replies : Reply(c, a)
  BY <1>2, KnowNothing DEF Reply, Resting, TypeInv, TypeOK
<1>3. CASE RowsAt(SlotOf(c)) = {} /\ Goto(c, "reserve") /\ UNCHANGED call
  <2>1. pc'[c] = "reserve" /\ SameRecord(c)
    BY <1>3 DEF Goto, SameRecord, TypeInv, TypeOK
  <2>2. ~call[c].replay
    BY <1>1, <1>3 DEF Know, OwnRow, Guarding
  <2> QED BY <1>1, <1>3, <2>1, <2>2, KnowMore DEF Guarding, Keyed, Passed, Sending
<1>4. CASE /\ RowsAt(SlotOf(c)) # {} /\ ~Foreign(c)
           /\ Goto(c, "finalize") /\ UNCHANGED call
  <2>1. pc'[c] = "finalize" /\ SameRecord(c)
    BY <1>4 DEF Goto, SameRecord, TypeInv, TypeOK
  <2>2. OwnRow(c)
    BY <1>1, <1>4, NotForeign
  <2> QED BY <1>1, <2>1, <2>2, KnowMore DEF Guarding, Keyed, Passed, Sending
<1> QED BY <1>2, <1>3, <1>4 DEF LookupKey, AfterGuard, Replies

LEMMA SendKnows ==
  ASSUME TypeInv, RowInv, JournalInv, RowsKept, ContractsKept, NEW c \in Calls,
         Reserve(c) \/ CallConnector(c) \/ RecordOutcome(c) \/ AuditOutcome(c)
  PROVE  Know(c)'
<1>1. /\ pc[c] \in {"reserve", "connector", "record", "audit"}
      /\ call[c] \in CallRecord /\ Know(c)
  <2>1. pc[c] \in {"reserve", "connector", "record", "audit"}
    BY DEF Reserve, CallConnector, RecordOutcome, AuditOutcome
  <2> QED BY <2>1 DEF Running, RowInv, TypeInv, TypeOK
<1>2. CASE \E a \in Replies : Reply(c, a)
  BY <1>2, KnowNothing DEF Reply, Resting, TypeInv, TypeOK
<1>3. CASE /\ Reserve(c) /\ Goto(c, "connector") /\ UNCHANGED call
           /\ toolCalls' = toolCalls \cup
                {[customer |-> ScopeOf(c).customer, key |-> call[c].key,
                  request |-> RequestOf(c), contract |-> call[c].contract,
                  state |-> "in_progress"]}
  <2>1. pc'[c] = "connector" /\ SameRecord(c)
    BY <1>3 DEF Goto, SameRecord, TypeInv, TypeOK
  <2>2. OwnRow(c)'
    <3> DEFINE u == [customer |-> ScopeOf(c).customer, key |-> call[c].key,
                     request |-> RequestOf(c), contract |-> call[c].contract,
                     state |-> "in_progress"]
    <3>1. /\ u \in toolCalls' /\ u.request = RequestOf(c)
          /\ u.customer = SlotOf(c)[1] /\ u.key = SlotOf(c)[2]
      BY <1>3 DEF SlotOf
    <3>2. SlotOf(c)' = SlotOf(c) /\ RequestOf(c)' = RequestOf(c)
      BY <1>3 DEF SlotOf, ScopeOf, RequestOf
    <3> QED BY <3>1, <3>2 DEF OwnRow, RowsAt
  <2> QED BY <1>1, <1>3, <2>1, <2>2, KnowMore
          DEF Reserve, Know, Guarding, Keyed, Passed, Sending
<1>4. ASSUME NEW l \in {"record", "audit", "finalize"}, Goto(c, l),
             pc[c] \in Sending,
             \/ UNCHANGED call
             \/ \E x \in {"succeeded", "failed"} : call' = [call EXCEPT ![c].outcome = x]
      PROVE  Know(c)'
  <2>1. pc'[c] = l /\ SameRecord(c) /\ call'[c].contract = call[c].contract
    BY <1>1, <1>4 DEF Goto, SameRecord, TypeInv, TypeOK, CallRecord
  <2> QED BY <1>1, <1>4, <2>1, KnowMore DEF Know, Guarding, Keyed, Passed, Sending
<1> QED BY <1>2, <1>3, <1>4
        DEF Reserve, CallConnector, RecordOutcome, AuditOutcome, AfterGuard, Replies,
            Sending

LEMMA StepKnows ==
  ASSUME TypeInv, RowInv, JournalInv, [Next]_vars
  PROVE  \A c \in Calls : Know(c)'
<1>1. RowsKept /\ ContractsKept
  BY RowsMonotone, ContractsMonotone
<1>2. ASSUME NEW c \in Calls, Alone(c), Know(c)' PROVE \A d \in Calls : Know(d)'
  <2>1. \A d \in Calls : d # c => Know(d)'
    BY <1>1, <1>2, KnowKept DEF Alone, RowInv
  <2> QED BY <1>2, <2>1
<1>3. ASSUME NEW c \in Calls, Step(c) \/ Abort(c) PROVE Know(c)'
  <2>1. CASE \E a \in Replies : Reply(c, a)
    BY <2>1, KnowNothing DEF Reply, Resting, TypeInv, TypeOK
  <2>2. CASE ResolveContract(c) /\ Goto(c, "insert")
    BY <2>2, KnowNothing DEF Goto, Creating, TypeInv, TypeOK
  <2> QED BY <1>1, <1>3, <2>1, <2>2, LoadKnows, GateKnows, LookupKnows, SendKnows
          DEF Step, ResolveContract, InsertRequest, Finalize, RollBack, Abort, Replies
<1>4. ASSUME NEW c \in Calls, NEW r \in Requests, NEW s \in Scopes, StartCreate(c, r, s)
      PROVE  Know(c)'
  BY <1>4, KnowNothing DEF StartCreate, Goto, Creating, TypeInv, TypeOK
<1>5. ASSUME NEW c \in Calls, NEW op \in Decisions, NEW r \in Requests,
             NEW k \in Keys \cup {NoKey}, NEW s \in Scopes, StartDecision(c, op, r, k, s)
      PROVE  Know(c)'
  BY <1>5, KnowNothing DEF StartDecision, Goto, OpOf, RequestOf, TypeInv, TypeOK
<1>6. CASE UNCHANGED <<pc, call>>
  BY <1>1, <1>6, KnowKept DEF RowInv
<1>7. CASE Next
  BY <1>2, <1>3, <1>4, <1>5, <1>6, <1>7, StepAlone
     DEF Next, Expire, ChangeTool, ChangePolicy
<1> QED BY <1>6, <1>7 DEF vars

-----------------------------------------------------------------------------
(* The rows *)

LEMMA UniqueRowsKept == TypeInv /\ RowInv /\ [Next]_vars => UniqueRows'
<1> SUFFICES ASSUME TypeInv, RowInv, [Next]_vars PROVE UniqueRows'
  OBVIOUS
<1>1. CASE UNCHANGED toolCalls
  BY <1>1 DEF RowInv, UniqueRows
<1>2. ASSUME NEW c \in Calls, Reserve(c) PROVE UniqueRows'
  BY <1>2 DEF Reserve, RowInv, UniqueRows, RowsAt, SlotOf, ScopeOf
<1>3. ASSUME NEW c \in Calls, RecordOutcome(c) PROVE UniqueRows'
  <2> DEFINE s == ResultState[call[c].outcome]
             new(t) == IF t \in RowsAt(SlotOf(c)) THEN [t EXCEPT !.state = s] ELSE t
  <2>1. toolCalls' = {new(t) : t \in toolCalls}
    BY <1>3 DEF RecordOutcome
  <2>2. \A t \in toolCalls : new(t).customer = t.customer /\ new(t).key = t.key
    BY RowUpdate DEF TypeInv, TypeOK
  <2>3. \A t, u \in toolCalls : t.customer = u.customer /\ t.key = u.key => t = u
    BY DEF RowInv, UniqueRows
  <2>4. \A t, u \in toolCalls :
          new(t).customer = new(u).customer /\ new(t).key = new(u).key => new(t) = new(u)
    BY <2>2, <2>3
  <2> HIDE DEF new
  <2> QED BY <2>1, <2>4 DEF UniqueRows
<1>4. UNCHANGED toolCalls \/ \E c \in Calls : Reserve(c) \/ RecordOutcome(c)
  BY Footprint
<1> QED BY <1>1, <1>2, <1>3, <1>4

LEMMA DecidedKept ==
  TypeInv /\ JournalInv /\ RowInv /\ [Next]_vars => DecidedHasToolCall'
<1> SUFFICES ASSUME TypeInv, JournalInv, RowInv, [Next]_vars PROVE DecidedHasToolCall'
  OBVIOUS
<1> DEFINE HasRow(r) == \E t \in toolCalls : /\ t.customer = SessionOf[r].customer
                                             /\ t.key = reqKey[r]
                                             /\ t.request = r
<1>1. RowsKept
  BY RowsMonotone
<1>2. ASSUME NEW r \in Requests, HasRow(r), reqKey'[r] = reqKey[r] PROVE HasRow(r)'
  BY <1>1, <1>2 DEF RowsKept
<1>3. CASE UNCHANGED <<status, reqKey>>
  BY <1>2, <1>3 DEF RowInv, DecidedHasToolCall
<1>4. ASSUME NEW c \in Calls, InsertRequest(c) PROVE DecidedHasToolCall'
  <2>1. RequestOf(c) \in Requests /\ KindOf[RequestOf(c)] \in Kinds
    BY <1>4, RecordTypes, TypeParts DEF InsertRequest, Running
  <2>2. status'[RequestOf(c)] \in OpenStatuses
    BY <1>4, <2>1, OutcomeFacts DEF InsertRequest, TypeInv, TypeOK
  <2>3. UNCHANGED reqKey /\ \A r \in Requests : r # RequestOf(c) => status'[r] = status[r]
    BY <1>4, <2>1 DEF InsertRequest, TypeInv, TypeOK
  <2> QED BY <1>2, <2>2, <2>3 DEF RowInv, DecidedHasToolCall, OpenStatuses
<1>5. ASSUME NEW c \in Calls, Finalize(c) PROVE DecidedHasToolCall'
  <2>1. PICK r \in Requests : r = RequestOf(c)
    BY <1>5, RecordTypes, TypeParts DEF Finalize, Running
  <2>2. OpOf(c) \in Decisions /\ Know(c) /\ pc[c] = "finalize"
    BY <1>5 DEF Finalize, CallFilled, Deciding, RowInv, TypeInv
  <2>3. \A q \in Requests : q # r => status'[q] = status[q] /\ reqKey'[q] = reqKey[q]
    BY <1>5, <2>1 DEF Finalize, TypeInv, TypeOK
  <2>4. status'[r] = Target[OpOf(c)]
    BY <1>5, <2>1 DEF Finalize, TypeInv, TypeOK
  <2>5. CASE OpOf(c) \in Executing
    <3>1. reqKey'[r] = call[c].key /\ toolCalls' = toolCalls
      BY <1>5, <2>1, <2>5 DEF Finalize, TypeInv, TypeOK, execution
    <3>2. PICK t \in toolCalls : /\ t.customer = ScopeOf(c).customer
                                 /\ t.key = call[c].key /\ t.request = r
      BY <2>1, <2>2, <2>5 DEF Know, OwnRow, RowsAt, SlotOf
    <3>3. ScopeOf(c).customer = SessionOf[r].customer
      BY <2>1, <2>2 DEF Know, Seen
    <3>4. HasRow(r)'
      BY <3>1, <3>2, <3>3
    <3> QED BY <1>2, <2>3, <3>4 DEF RowInv, DecidedHasToolCall
  <2>6. CASE OpOf(c) \notin Executing
    <3>1. Target[OpOf(c)] \notin {"executed", "approved"}
      BY <2>2, <2>6 DEF Target, Executing, Decisions
    <3> QED BY <1>2, <2>3, <2>4, <3>1 DEF RowInv, DecidedHasToolCall
  <2> QED BY <2>5, <2>6
<1>6. UNCHANGED <<status, reqKey>> \/ \E c \in Calls : InsertRequest(c) \/ Finalize(c)
  BY Footprint DEF db
<1> QED BY <1>3, <1>4, <1>5, <1>6

LEMMA InitRows == Init => RowInv
BY DEF Init, RowInv, UniqueRows, DecidedHasToolCall, Know, Deciding, Seen, Guarding,
       Keyed, Passed, Sending

LEMMA RowStep == TypeInv /\ JournalInv /\ RowInv /\ [Next]_vars => RowInv'
BY StepKnows, UniqueRowsKept, DecidedKept DEF RowInv

(* An executed draft or approved request always has a tool call of its own *)
(* under its key: no request is finalised on another one's execution.      *)
THEOREM DecidedIsBacked == Spec => []DecidedHasToolCall
<1>1. RowInv => DecidedHasToolCall
  BY DEF RowInv
<1> QED BY <1>1, InitTypes, StepTypes, InitJournal, JournalStep, InitRows, RowStep, PTL
        DEF Spec

(* Every connector invocation has passed the gates and still holds what    *)
(* they checked, whatever operators re-register in the meantime.           *)
THEOREM EveryExecutionGated == Spec => []ConnectorGated
<1>1. TypeInv /\ JournalInv /\ RowInv => ConnectorGated
  <2> SUFFICES ASSUME TypeInv, JournalInv, RowInv, NEW c \in Calls, pc[c] = "connector"
               PROVE  LET r == RequestOf(c)
                      IN  /\ OpOf(c) \in Executing /\ ~call[c].replay
                          /\ call[c].seen \in OpenStatuses
                          /\ OwnsSession(ScopeOf(c), r) /\ ScopeOf(c).permitted
                          /\ KindOf[r] = "approval_request" => ScopeOf(c).approver
                          /\ call[c].contract = contract[r]
    BY DEF ConnectorGated
  <2>1. Know(c) /\ OpOf(c) \in Executing
    BY DEF RowInv, TypeInv, CallFilled, Guarding
  <2>2. KindOf[RequestOf(c)] = "approval_request" => OpOf(c) = "approve"
    BY <2>1 DEF Know, Deciding, OpsOf, Executing
  <2>3. call[c].seen \in OpenStatuses
    BY <2>1 DEF Know, Sending, JournalInv, Frame, Seen, Guarding
  <2> QED BY <2>1, <2>2, <2>3 DEF Know, Entitled, Sending, Seen, Guarding, Keyed, Passed
<1> QED BY <1>1, InitTypes, StepTypes, InitJournal, JournalStep, InitRows, RowStep, PTL
        DEF Spec
=============================================================================
