------------------------ MODULE SideEffectWorkflowOnce ------------------------
(***************************************************************************)
(* One connector invocation per key, and an execution audit that never     *)
(* runs ahead of the tool calls it reports.  The inductive step is the     *)
(* pairing of the handlers that are about to send, or have just sent, with *)
(* the rows they reserved (Ledger, Settled).                               *)
(***************************************************************************)
EXTENDS SideEffectWorkflowKeys

-----------------------------------------------------------------------------
(* The inductive invariant *)

(* A key is sent under only after it was reserved, and only by the one     *)
(* handler that reserved it.                                               *)
Ledger ==
  /\ \A x \in Slots : sent[x] <= 1
  /\ \A x \in Slots : sent[x] > 0 => RowsAt(x) # {}
  /\ \A c \in Calls : pc[c] = "connector" => sent[SlotOf(c)] = 0
  /\ \A c, d \in Calls : c # d /\ pc[c] \in Sending /\ pc[d] \in Sending
                           => SlotOf(c) # SlotOf(d)

(* The row of a handler says "in progress" until the handler records how   *)
(* the connector answered, and then says so until it is audited.           *)
SettledAt(c) ==
  /\ pc[c] \in {"connector", "record"} =>
       \A t \in RowsAt(SlotOf(c)) : t.state = "in_progress"
  /\ pc[c] \in {"record", "audit"} /\ call[c].outcome = "succeeded" =>
       <<RequestOf(c), call[c].key>> \in applied
  /\ pc[c] = "audit" =>
       \A t \in RowsAt(SlotOf(c)) : t.state = ResultState[call[c].outcome]

AuditInv == AuditNeverAhead /\ \A c \in Calls : SettledAt(c)

KnownInv == TypeInv /\ JournalInv /\ RowInv

LEMMA KnownStep == KnownInv /\ [Next]_vars => KnownInv'
BY StepTypes, JournalStep, RowStep DEF KnownInv

LEMMA InitKnown == Init => KnownInv
BY InitTypes, InitJournal, InitRows DEF KnownInv

-----------------------------------------------------------------------------
(* Sending *)

(* Nobody comes to hold a slot, or comes back before its connector call. *)
NoNewSender ==
  \A d \in Calls : pc'[d] \in Sending =>
    /\ pc[d] \in Sending /\ SlotOf(d)' = SlotOf(d)
    /\ pc'[d] = "connector" => pc[d] = "connector"

LEMMA SlotTypes ==
  ASSUME TypeInv, NEW c \in Calls, pc[c] \in Sending \cup {"reserve"}
  PROVE  SlotOf(c) \in Slots
<1>1. pc[c] \in Running /\ pc[c] \in Keyed
  BY DEF Sending, Running, Keyed
<1> QED BY <1>1, RecordTypes, TypeParts DEF TypeInv, CallFilled

LEMMA LedgerKept ==
  ASSUME TypeInv, Ledger, RowsKept, UNCHANGED sent, NoNewSender
  PROVE  Ledger'
<1>1. \A x \in Slots : RowsAt(x) # {} => RowsAt(x)' # {}
  BY DEF RowsKept, RowsAt
<1> QED BY <1>1 DEF Ledger, NoNewSender, Sending

LEMMA StepSenders ==
  ASSUME TypeInv, [Next]_vars
  PROVE  \/ NoNewSender /\ UNCHANGED sent
         \/ \E c \in Calls : Reserve(c) \/ CallConnector(c)
<1>1. ASSUME NEW c \in Calls, Alone(c), pc'[c] \notin Sending PROVE NoNewSender
  BY <1>1 DEF Alone, NoNewSender, SlotOf, ScopeOf
<1>2. ASSUME NEW c \in Calls, RecordOutcome(c) PROVE NoNewSender
  BY <1>2 DEF RecordOutcome, Goto, NoNewSender, SlotOf, ScopeOf, Sending, TypeInv, TypeOK
<1>3. ASSUME UNCHANGED <<pc, call>> PROVE NoNewSender
  <2>1. \A d \in Calls : SlotOf(d)' = SlotOf(d)
    BY <1>3 DEF SlotOf, ScopeOf
  <2> QED BY <1>3, <2>1 DEF NoNewSender
<1>4. UNCHANGED sent \/ \E c \in Calls : CallConnector(c)
  BY Footprint
<1>5. ASSUME NEW c \in Calls,
             \/ Step(c) \/ Abort(c)
             \/ \E r \in Requests, s \in Scopes : StartCreate(c, r, s)
             \/ \E op \in Decisions, r \in Requests, k \in Keys \cup {NoKey}, s \in Scopes :
                  StartDecision(c, op, r, k, s)
      PROVE  pc'[c] \notin Sending \/ Reserve(c) \/ CallConnector(c) \/ RecordOutcome(c)
  <2>1. pc \in [Calls -> Resting \cup Running]
    BY DEF TypeInv, TypeOK
  <2>2. CASE \/ \E r \in Requests, s \in Scopes : StartCreate(c, r, s)
             \/ \E op \in Decisions, r \in Requests, k \in Keys \cup {NoKey}, s \in Scopes :
                  StartDecision(c, op, r, k, s)
             \/ ResolveContract(c) \/ Load(c)
    BY <2>1, <2>2 DEF StartCreate, StartDecision, ResolveContract, Load, Reply, Goto,
       Sending
  <2>3. CASE \/ CheckParents(c) \/ ResolveTool(c) \/ ResolvePolicy(c) \/ LookupKey(c)
             \/ AuditOutcome(c)
    BY <2>1, <2>3 DEF CheckParents, ResolveTool, ResolvePolicy, LookupKey, AuditOutcome,
       Reply, Goto, Deny, AfterGuard, Sending
  <2>4. CASE InsertRequest(c) \/ Finalize(c) \/ RollBack(c) \/ Abort(c)
    BY <2>1, <2>4 DEF InsertRequest, Finalize, RollBack, Abort, Reply, Sending
  <2> QED BY <1>5, <2>2, <2>3, <2>4 DEF Step
<1>6. CASE Next
  BY <1>1, <1>2, <1>3, <1>4, <1>5, <1>6, StepAlone
     DEF Next, Expire, ChangeTool, ChangePolicy
<1> QED BY <1>3, <1>4, <1>6 DEF vars

LEMMA ReserveLedger ==
  ASSUME KnownInv, Ledger, RowsKept, NEW c \in Calls, Reserve(c)
  PROVE  Ledger'
<1>1. SlotOf(c) \in Slots /\ sent \in [Slots -> Nat] /\ pc[c] = "reserve"
  BY SlotTypes DEF KnownInv, Reserve, TypeInv, TypeOK
<1>2. Alone(c) /\ UNCHANGED sent
  BY StepAlone DEF Step, KnownInv, Reserve
<1>3. CASE Reply(c, "error")
  BY <1>2, <1>3, LedgerKept
     DEF KnownInv, Reply, NoNewSender, Alone, SlotOf, ScopeOf, Sending, TypeInv, TypeOK
<1>4. CASE RowsAt(SlotOf(c)) = {} /\ Goto(c, "connector") /\ UNCHANGED call
  <2>1. sent[SlotOf(c)] = 0
    BY <1>1, <1>4 DEF Ledger
  <2>2. pc'[c] = "connector"
    BY <1>4 DEF Goto, KnownInv, TypeInv, TypeOK
  <2>3. \A d \in Calls : SlotOf(d)' = SlotOf(d)
    BY <1>4 DEF SlotOf, ScopeOf
  <2>4. \A d \in Calls : d # c /\ pc[d] \in Sending => SlotOf(d) # SlotOf(c)
    BY <1>4 DEF KnownInv, RowInv, Know, OwnRow
  <2>5. \A x \in Slots : RowsAt(x) # {} => RowsAt(x)' # {}
    BY DEF RowsKept, RowsAt
  <2> QED BY <1>2, <2>1, <2>2, <2>3, <2>4, <2>5 DEF Ledger, Alone, Sending
<1> QED BY <1>3, <1>4 DEF Reserve

LEMMA SendLedger ==
  ASSUME KnownInv, Ledger, RowsKept, NEW c \in Calls, CallConnector(c)
  PROVE  Ledger'
<1>1. SlotOf(c) \in Slots /\ sent \in [Slots -> Nat] /\ pc[c] = "connector"
  BY SlotTypes DEF KnownInv, CallConnector, TypeInv, TypeOK, Sending
<1>2. Alone(c) /\ pc'[c] = "record" /\ call[c] \in CallRecord
  BY StepAlone DEF Step, KnownInv, CallConnector, Goto, TypeInv, TypeOK, Running
<1>3. sent[SlotOf(c)] = 0 /\ RowsAt(SlotOf(c)) # {}
  BY <1>1 DEF Ledger, KnownInv, RowInv, Know, OwnRow, Sending
<1>4. \A x \in Slots : sent'[x] = IF x = SlotOf(c) THEN 1 ELSE sent[x]
  BY <1>1, <1>3 DEF CallConnector
<1>5. \A d \in Calls : SlotOf(d)' = SlotOf(d)
  BY <1>2 DEF CallConnector, Alone, SlotOf, ScopeOf, KnownInv, TypeInv, TypeOK, CallRecord
<1>6. \A x \in Slots : RowsAt(x)' = RowsAt(x)
  BY DEF CallConnector, RowsAt
<1>7. \A d \in Calls : d # c /\ pc[d] \in Sending => SlotOf(d) # SlotOf(c)
  BY <1>1 DEF Ledger, Sending
<1>8. \A d \in Calls : pc[d] = "connector" => SlotOf(d) \in Slots
  BY SlotTypes DEF KnownInv, Sending
<1> QED BY <1>1, <1>2, <1>3, <1>4, <1>5, <1>6, <1>7, <1>8 DEF Ledger, Alone, Sending

LEMMA LedgerStep == KnownInv /\ Ledger /\ [Next]_vars => Ledger'
BY StepSenders, RowsMonotone, LedgerKept, ReserveLedger, SendLedger DEF KnownInv

LEMMA InitLedger == Init => Ledger
BY DEF Init, Ledger, Sending

(* Inside a customer the connector is invoked at most once under a key,    *)
(* however many calls race, repeat or are cut short.                       *)
THEOREM KeySentAtMostOnce == Spec => []KeySentOnce
<1>1. Ledger => KeySentOnce
  BY DEF Ledger, KeySentOnce
<1> QED BY <1>1, InitKnown, KnownStep, InitLedger, LedgerStep, PTL DEF Spec

-----------------------------------------------------------------------------
(* The reservation of keys, abstractly *)

NewRowsAreOld ==
  \A u \in toolCalls' : \E t \in toolCalls : t.customer = u.customer /\ t.key = u.key

LEMMA HolderIs ==
  ASSUME UniqueRows, NEW x, NEW t \in RowsAt(x)
  PROVE  Holder(x) = t.request
BY DEF UniqueRows, RowsAt, Holder

LEMMA HolderKept ==
  ASSUME UniqueRows, UniqueRows', RowsKept, NEW x, RowsAt(x) # {}
  PROVE  Holder(x)' = Holder(x)
<1>1. PICK t \in RowsAt(x) : TRUE
  OBVIOUS
<1>2. PICK u \in toolCalls' : u.customer = t.customer /\ u.key = t.key /\ u.request = t.request
  BY <1>1 DEF RowsKept, RowsAt
<1>3. u \in RowsAt(x)'
  BY <1>1, <1>2 DEF RowsAt
<1>4. Holder(x) = t.request
  BY <1>1, HolderIs
<1>5. Holder(x)' = u.request
  BY <1>3 DEF UniqueRows, RowsAt, Holder
<1> QED BY <1>2, <1>4, <1>5

LEMMA StepRows ==
  ASSUME TypeInv, [Next]_vars
  PROVE  NewRowsAreOld \/ \E c \in Calls : Reserve(c)
<1>1. CASE UNCHANGED toolCalls
  BY <1>1 DEF NewRowsAreOld
<1>2. ASSUME NEW c \in Calls, RecordOutcome(c) PROVE NewRowsAreOld
  <2> DEFINE s == ResultState[call[c].outcome]
             new(t) == IF t \in RowsAt(SlotOf(c)) THEN [t EXCEPT !.state = s] ELSE t
  <2>1. toolCalls' = {new(t) : t \in toolCalls}
    BY <1>2 DEF RecordOutcome
  <2>2. \A t \in toolCalls : new(t).customer = t.customer /\ new(t).key = t.key
    BY RowUpdate DEF TypeInv, TypeOK
  <2> HIDE DEF new
  <2> QED BY <2>1, <2>2 DEF NewRowsAreOld
<1>3. UNCHANGED toolCalls \/ \E c \in Calls : Reserve(c) \/ RecordOutcome(c)
  BY Footprint
<1> QED BY <1>1, <1>2, <1>3

LEMMA HoldersKept ==
  ASSUME UniqueRows, UniqueRows', RowsKept, NewRowsAreOld
  PROVE  \A x \in Slots : Holder(x)' = Holder(x)
<1> TAKE x \in Slots
<1>1. CASE RowsAt(x) # {}
  BY <1>1, HolderKept
<1>2. CASE RowsAt(x) = {}
  <2>1. RowsAt(x)' = {}
    BY <1>2 DEF NewRowsAreOld, RowsAt
  <2> QED BY <1>2, <2>1 DEF Holder
<1> QED BY <1>1, <1>2

LEMMA OnceStep == KnownInv /\ Ledger /\ [Next]_vars => [Once!Next]_(Once!vars)
<1> SUFFICES ASSUME KnownInv, Ledger, [Next]_vars PROVE [Once!Next]_(Once!vars)
  OBVIOUS
<1>1. UniqueRows /\ UniqueRows' /\ RowsKept
  BY KnownStep, RowsMonotone DEF KnownInv, RowInv
<1>2. CASE NewRowsAreOld /\ UNCHANGED sent
  <2>1. [x \in Slots |-> Holder(x)'] = [x \in Slots |-> Holder(x)]
    BY <1>1, <1>2, HoldersKept
  <2> QED BY <1>2, <2>1 DEF Once!vars
<1>3. ASSUME NEW c \in Calls, CallConnector(c) PROVE Once!Next
  <2>1. PICK x \in Slots : x = SlotOf(c)
    BY <1>3, SlotTypes DEF KnownInv, CallConnector, Sending
  <2>2. sent[x] = 0 /\ sent \in [Slots -> Nat] /\ OwnRow(c)
    BY <1>3, <2>1
       DEF CallConnector, Ledger, KnownInv, RowInv, Know, Sending, TypeInv, TypeOK
  <2>3. Holder(x) # NoCall
    <3>1. PICK t \in RowsAt(x) : t.request \in Requests
      BY <2>1, <2>2 DEF OwnRow, KnownInv, TypeInv, TypeOK, RowsAt, Rows
    <3> QED BY <1>1, <3>1, HolderIs, NullAssumption
  <2>4. sent' = [sent EXCEPT ![x] = 1]
    BY <1>3, <2>1, <2>2 DEF CallConnector
  <2>5. [y \in Slots |-> Holder(y)'] = [y \in Slots |-> Holder(y)]
    BY <1>3 DEF CallConnector, Holder, RowsAt
  <2>6. Once!Send(x)
    BY <2>2, <2>3, <2>4, <2>5 DEF Once!Send
  <2> QED BY <2>6 DEF Once!Next
<1>4. ASSUME NEW c \in Calls, Reserve(c), ~Reply(c, "error") PROVE Once!Next
  <2>1. PICK x \in Slots, r \in Requests : x = SlotOf(c) /\ r = RequestOf(c)
    BY <1>4, SlotTypes, RecordTypes, TypeParts DEF KnownInv, Reserve, Sending, Running
  <2>2. RowsAt(x) = {} /\ UNCHANGED sent
    BY <1>4, <2>1 DEF Reserve
  <2> DEFINE u == [customer |-> ScopeOf(c).customer, key |-> call[c].key,
                   request |-> r, contract |-> call[c].contract,
                   state |-> "in_progress"]
  <2>3. toolCalls' = toolCalls \cup {u}
    BY <1>4, <2>1 DEF Reserve
  <2>4. u.customer = x[1] /\ u.key = x[2] /\ u.request = r /\ x = <<u.customer, u.key>>
    BY <2>1 DEF SlotOf
  <2>5. Holder(x) = NoCall /\ Holder(x)' = r
    <3>1. RowsAt(x)' = {u}
      <4>1. u \in RowsAt(x)'
        BY <2>3, <2>4 DEF RowsAt
      <4>2. \A t \in RowsAt(x)' : t = u
        BY <2>2, <2>3 DEF RowsAt
      <4> QED BY <4>1, <4>2
    <3> QED BY <2>2, <2>4, <3>1 DEF Holder
  <2>6. \A y \in Slots : y # x => Holder(y)' = Holder(y)
    <3>1. ASSUME NEW y \in Slots, y # x PROVE RowsAt(y)' = RowsAt(y)
      <4>1. y = <<y[1], y[2]>>
        BY DEF Slots
      <4>2. ~(u.customer = y[1] /\ u.key = y[2])
        BY <2>4, <3>1, <4>1
      <4> HIDE DEF u
      <4> QED BY <2>3, <4>2 DEF RowsAt
    <3>2. \A y \in Slots : RowsAt(y)' = RowsAt(y) => Holder(y)' = Holder(y)
      BY DEF Holder
    <3> QED BY <3>1, <3>2
  <2>7. [y \in Slots |-> Holder(y)'] = [[y \in Slots |-> Holder(y)] EXCEPT ![x] = r]
    BY <2>5, <2>6
  <2>8. Once!Reserve(x, r)
    BY <2>2, <2>5, <2>7 DEF Once!Reserve
  <2> QED BY <2>8 DEF Once!Next
<1>5. ASSUME NEW c \in Calls, Reserve(c), Reply(c, "error") PROVE UNCHANGED sent
  BY <1>5 DEF Reserve
<1>6. \/ NewRowsAreOld /\ UNCHANGED sent
      \/ \E c \in Calls : CallConnector(c)
      \/ \E c \in Calls : Reserve(c) /\ ~Reply(c, "error")
  <2>1. UNCHANGED sent \/ \E c \in Calls : CallConnector(c)
    BY StepSenders, <1>1 DEF KnownInv, Reserve
  <2>2. ASSUME NEW c \in Calls, Reserve(c), Reply(c, "error") PROVE UNCHANGED toolCalls
    <3>1. pc'[c] = "error"
      BY <2>2 DEF Reply, KnownInv, TypeInv, TypeOK
    <3>2. ~Goto(c, "connector")
      BY <3>1 DEF Goto, KnownInv, TypeInv, TypeOK
    <3> QED BY <2>2, <3>2 DEF Reserve
  <2>3. NewRowsAreOld \/ \E c \in Calls : Reserve(c) /\ ~Reply(c, "error")
    BY StepRows, <2>2 DEF KnownInv, NewRowsAreOld
  <2> QED BY <2>1, <2>3
<1> QED BY <1>2, <1>3, <1>4, <1>6

(* The tool-call table implements the reservation of keys: one request     *)
(* holds a key for good and at most one connector invocation follows.      *)
THEOREM KeyedOnceImplemented == Spec => ImplementsKeyedOnce
<1>1. Init => Once!Init
  BY DEF Init, Once!Init, Holder, RowsAt
<1> QED BY <1>1, InitKnown, KnownStep, InitLedger, LedgerStep, OnceStep, PTL
        DEF Spec, ImplementsKeyedOnce, Once!Spec

-----------------------------------------------------------------------------
(* The execution audit *)

LEMMA InitAudit == Init => AuditInv
BY DEF Init, AuditInv, AuditNeverAhead, SettledAt

(* The handlers that do not write the ToolCall table. *)
LEMMA SettledKept ==
  ASSUME NEW d \in Calls, SettledAt(d), applied \subseteq applied',
         pc'[d] = pc[d], call'[d] = call[d],
         pc[d] \in Sending => RowsAt(SlotOf(d))' = RowsAt(SlotOf(d))
  PROVE  SettledAt(d)'
<1>1. SlotOf(d)' = SlotOf(d) /\ RequestOf(d)' = RequestOf(d)
  BY DEF SlotOf, ScopeOf, RequestOf
<1> QED BY <1>1 DEF SettledAt, Sending, RowsAt

LEMMA ReserveAudit ==
  ASSUME KnownInv, Ledger, AuditInv, NEW c \in Calls, Reserve(c)
  PROVE  AuditInv'
<1>1. Alone(c) /\ UNCHANGED <<toolEvents, applied>>
  BY StepAlone DEF Step, KnownInv, Reserve
<1>2. CASE Reply(c, "error") /\ UNCHANGED toolCalls
  <2>1. AuditNeverAhead'
    BY <1>1, <1>2 DEF AuditInv, AuditNeverAhead
  <2>2. \A d \in Calls : d # c => SettledAt(d)'
    BY <1>1, <1>2, SettledKept DEF AuditInv, Alone, RowsAt, SlotOf, ScopeOf
  <2>3. SettledAt(c)'
    BY <1>2 DEF Reply, SettledAt, KnownInv, TypeInv, TypeOK
  <2> QED BY <2>1, <2>2, <2>3 DEF AuditInv
<1>3. CASE /\ RowsAt(SlotOf(c)) = {} /\ Goto(c, "connector") /\ UNCHANGED call
           /\ toolCalls' = toolCalls \cup
                {[customer |-> ScopeOf(c).customer, key |-> call[c].key,
                  request |-> RequestOf(c), contract |-> call[c].contract,
                  state |-> "in_progress"]}
  <2> DEFINE u == [customer |-> ScopeOf(c).customer, key |-> call[c].key,
                   request |-> RequestOf(c), contract |-> call[c].contract,
                   state |-> "in_progress"]
  <2>1. /\ toolCalls' = toolCalls \cup {u} /\ u.state = "in_progress"
        /\ u.customer = SlotOf(c)[1] /\ u.key = SlotOf(c)[2]
    BY <1>3 DEF SlotOf
  <2> HIDE DEF u
  <2>2. AuditNeverAhead'
    BY <1>1, <2>1 DEF AuditInv, AuditNeverAhead
  <2>3. ASSUME NEW d \in Calls, d # c PROVE SettledAt(d)'
    <3>1. pc[d] \in Sending => SlotOf(d) # SlotOf(c)
      BY <1>3 DEF KnownInv, RowInv, Know, OwnRow
    <3>2. SlotOf(d)' = SlotOf(d)
      BY <1>3 DEF SlotOf, ScopeOf
    <3>3. pc[d] \in Sending => RowsAt(SlotOf(d))' = RowsAt(SlotOf(d))
      BY <2>1, <3>1, <3>2 DEF RowsAt, SlotOf
    <3> QED BY <1>1, <2>3, <3>3, SettledKept DEF Alone, AuditInv
  <2>4. SettledAt(c)'
    <3>1. SlotOf(c)' = SlotOf(c) /\ pc'[c] = "connector"
      BY <1>3 DEF SlotOf, ScopeOf, Goto, KnownInv, TypeInv, TypeOK
    <3>2. \A t \in RowsAt(SlotOf(c))' : t = u
      BY <1>3, <2>1, <3>1 DEF RowsAt
    <3> QED BY <2>1, <3>1, <3>2 DEF SettledAt
  <2> QED BY <2>2, <2>3, <2>4 DEF AuditInv
<1> QED BY <1>2, <1>3 DEF Reserve

LEMMA SendAudit ==
  ASSUME KnownInv, Ledger, AuditInv, NEW c \in Calls, CallConnector(c)
  PROVE  AuditInv'
<1>1. Alone(c) /\ UNCHANGED <<toolEvents, toolCalls>> /\ applied \subseteq applied'
  BY StepAlone DEF Step, KnownInv, CallConnector
<1>2. pc[c] = "connector" /\ pc'[c] = "record" /\ call[c] \in CallRecord
  BY DEF CallConnector, Goto, KnownInv, TypeInv, TypeOK, Running
<1>3. /\ SlotOf(c)' = SlotOf(c) /\ RequestOf(c)' = RequestOf(c)
      /\ call'[c].key = call[c].key
      /\ call'[c].outcome = "succeeded" => <<RequestOf(c), call[c].key>> \in applied'
  BY <1>2 DEF CallConnector, SlotOf, ScopeOf, RequestOf, KnownInv, TypeInv, TypeOK, CallRecord
<1>4. AuditNeverAhead'
  BY <1>1 DEF AuditInv, AuditNeverAhead
<1>5. \A d \in Calls : d # c => SettledAt(d)'
  BY <1>1, SettledKept DEF AuditInv, Alone, RowsAt, SlotOf, ScopeOf
<1>6. SettledAt(c)'
  BY <1>1, <1>2, <1>3 DEF AuditInv, SettledAt, RowsAt
<1> QED BY <1>4, <1>5, <1>6 DEF AuditInv

LEMMA RecordAudit ==
  ASSUME KnownInv, Ledger, AuditInv, NEW c \in Calls, RecordOutcome(c)
  PROVE  AuditInv'
<1> DEFINE s == ResultState[call[c].outcome]
           new(t) == IF t \in RowsAt(SlotOf(c)) THEN [t EXCEPT !.state = s] ELSE t
<1>1. Alone(c) /\ UNCHANGED <<toolEvents, applied, call>>
  BY StepAlone DEF Step, KnownInv, RecordOutcome
<1>2. /\ pc[c] = "record" /\ pc'[c] = "audit"
      /\ call[c].outcome \in {"succeeded", "failed"}
  BY DEF RecordOutcome, Goto, KnownInv, TypeInv, TypeOK, CallFilled
<1>3. toolCalls' = {new(t) : t \in toolCalls}
  BY DEF RecordOutcome
<1>4. \A t \in toolCalls :
        /\ new(t).customer = t.customer /\ new(t).key = t.key /\ new(t).request = t.request
        /\ t \in RowsAt(SlotOf(c)) => new(t).state = s
        /\ t \notin RowsAt(SlotOf(c)) => new(t) = t
  BY RowUpdate DEF KnownInv, TypeInv, TypeOK
<1>5. \A t \in RowsAt(SlotOf(c)) :
        /\ t \in toolCalls /\ t.key = call[c].key
        /\ t.state = "in_progress" /\ t.request = RequestOf(c)
  <2>1. PICK o \in RowsAt(SlotOf(c)) : o.request = RequestOf(c)
    BY <1>2 DEF KnownInv, RowInv, Know, Sending, OwnRow
  <2>2. \A t \in RowsAt(SlotOf(c)) : t = o
    BY <2>1 DEF KnownInv, RowInv, UniqueRows, RowsAt
  <2> QED BY <1>2, <2>1, <2>2 DEF AuditInv, SettledAt, RowsAt, SlotOf
<1> HIDE DEF new
<1>6. AuditNeverAhead'
  <2>1. \A r \in Requests : \A e \in {"executed", "failed"} \cap toolEvents'[r] :
          \E t \in toolCalls' : t.request = r /\ t.state = e
    <3> TAKE r \in Requests
    <3> TAKE e \in {"executed", "failed"} \cap toolEvents'[r]
    <3>1. PICK t \in toolCalls : t.request = r /\ t.state = e
      BY <1>1 DEF AuditInv, AuditNeverAhead
    <3>2. new(t) = t
      BY <1>4, <1>5, <3>1
    <3> QED BY <1>3, <3>1, <3>2
  <2>2. \A r \in Requests : "skipped_duplicate" \in toolEvents'[r] =>
          \E t \in toolCalls' : t.request = r
    BY <1>1, <1>3, <1>4 DEF AuditInv, AuditNeverAhead
  <2>3. \A t \in toolCalls' : t.state = "executed" => <<t.request, t.key>> \in applied'
    <3>1. ASSUME NEW t \in toolCalls, new(t).state = "executed"
          PROVE  <<t.request, t.key>> \in applied
      <4>1. CASE t \in RowsAt(SlotOf(c))
        <5>1. call[c].outcome = "succeeded"
          BY <1>2, <1>4, <3>1, <4>1 DEF ResultState
        <5> QED BY <1>2, <1>5, <4>1, <5>1 DEF AuditInv, SettledAt
      <4>2. CASE t \notin RowsAt(SlotOf(c))
        BY <1>4, <3>1, <4>2 DEF AuditInv, AuditNeverAhead
      <4> QED BY <4>1, <4>2
    <3> QED BY <1>1, <1>3, <1>4, <3>1
  <2> QED BY <2>1, <2>2, <2>3 DEF AuditNeverAhead
<1>7. ASSUME NEW d \in Calls, d # c PROVE SettledAt(d)'
  <2>1. pc[d] \in Sending => SlotOf(d) # SlotOf(c)
    BY <1>2, <1>7 DEF Ledger, Sending
  <2>2. SlotOf(d)' = SlotOf(d)
    BY <1>1 DEF SlotOf, ScopeOf
  <2>3. pc[d] \in Sending => RowsAt(SlotOf(d))' = RowsAt(SlotOf(d))
    BY <1>3, <1>4, <2>1, <2>2 DEF RowsAt, SlotOf
  <2> QED BY <1>1, <1>7, <2>3, SettledKept DEF Alone, AuditInv
<1>8. SettledAt(c)'
  <2>1. SlotOf(c)' = SlotOf(c) /\ RequestOf(c)' = RequestOf(c)
    BY <1>1 DEF SlotOf, ScopeOf, RequestOf
  <2>2. \A t \in RowsAt(SlotOf(c))' : t.state = s
    BY <1>3, <1>4, <2>1 DEF RowsAt
  <2> QED BY <1>1, <1>2, <2>1, <2>2 DEF AuditInv, SettledAt
<1> QED BY <1>6, <1>7, <1>8 DEF AuditInv

LEMMA OutcomeAudit ==
  ASSUME KnownInv, Ledger, AuditInv, NEW c \in Calls, AuditOutcome(c)
  PROVE  AuditInv'
<1>1. /\ Alone(c) /\ UNCHANGED <<toolCalls, applied>>
      /\ toolEvents' = [toolEvents EXCEPT
                          ![RequestOf(c)] = @ \cup {ResultState[call[c].outcome]}]
  BY StepAlone DEF Step, KnownInv, AuditOutcome
<1>2. /\ pc[c] = "audit" /\ pc'[c] \in {"ok", "finalize"}
      /\ call[c].outcome \in {"succeeded", "failed"} /\ RequestOf(c) \in Requests
  BY RecordTypes, TypeParts
     DEF AuditOutcome, AfterGuard, Reply, Goto, KnownInv, TypeInv, TypeOK, CallFilled, Running
<1>3. PICK t \in toolCalls : /\ t.request = RequestOf(c)
                             /\ t.state = ResultState[call[c].outcome]
  BY <1>2 DEF KnownInv, RowInv, Know, OwnRow, RowsAt, Sending, AuditInv, SettledAt
<1>4. ResultState[call[c].outcome] # "skipped_duplicate"
  BY <1>2 DEF ResultState
<1>5. toolEvents \in [Requests -> SUBSET ToolEvents]
  BY DEF KnownInv, TypeInv, TypeOK
<1>6. AuditNeverAhead'
  BY <1>1, <1>2, <1>3, <1>4, <1>5 DEF AuditInv, AuditNeverAhead
<1>7. \A d \in Calls : d # c => SettledAt(d)'
  BY <1>1, SettledKept DEF AuditInv, Alone, RowsAt, SlotOf, ScopeOf
<1>8. SettledAt(c)'
  BY <1>2 DEF SettledAt
<1> QED BY <1>6, <1>7, <1>8 DEF AuditInv

(* The gates append "denied"; a row found under the key, "skipped". *)
LEMMA GateAudit ==
  ASSUME KnownInv, Ledger, AuditInv, NEW c \in Calls,
         CheckParents(c) \/ ResolveTool(c) \/ ResolvePolicy(c) \/ LookupKey(c)
  PROVE  AuditInv'
<1>1. Alone(c) /\ UNCHANGED <<toolCalls, applied>>
  BY StepAlone DEF Step, KnownInv, CheckParents, ResolveTool, ResolvePolicy, LookupKey
<1>2. pc[c] \in {"guard", "tool", "policy", "lookup"}
  BY DEF CheckParents, ResolveTool, ResolvePolicy, LookupKey
<1>3. RequestOf(c) \in Requests
  BY <1>2, RecordTypes, TypeParts DEF KnownInv, Running
<1>4. pc'[c] \notin Sending
  BY DEF CheckParents, ResolveTool, ResolvePolicy, LookupKey, Deny, Reply, Goto,
         AfterGuard, KnownInv, TypeInv, TypeOK, Sending
<1>5. \/ toolEvents' = toolEvents
      \/ toolEvents' = [toolEvents EXCEPT ![RequestOf(c)] = @ \cup {"denied"}]
      \/ /\ toolEvents' = [toolEvents EXCEPT ![RequestOf(c)] = @ \cup {"skipped_duplicate"}]
         /\ RowsAt(SlotOf(c)) # {} /\ ~Foreign(c)
  BY DEF CheckParents, ResolveTool, ResolvePolicy, LookupKey, Deny
<1>6. RowsAt(SlotOf(c)) # {} /\ ~Foreign(c) => \E t \in toolCalls : t.request = RequestOf(c)
  BY <1>3, NotForeign DEF KnownInv, OwnRow, RowsAt
<1>7. toolEvents \in [Requests -> SUBSET ToolEvents]
  BY DEF KnownInv, TypeInv, TypeOK
<1>8. AuditNeverAhead'
  BY <1>1, <1>3, <1>5, <1>6, <1>7 DEF AuditInv, AuditNeverAhead
<1>9. \A d \in Calls : d # c => SettledAt(d)'
  BY <1>1, SettledKept DEF AuditInv, Alone, RowsAt, SlotOf, ScopeOf
<1>10. SettledAt(c)'
  BY <1>4 DEF SettledAt, Sending
<1> QED BY <1>8, <1>9, <1>10 DEF AuditInv

LEMMA OtherAudit ==
  ASSUME KnownInv, Ledger, AuditInv, NEW c \in Calls, Alone(c), pc'[c] \notin Sending,
         UNCHANGED <<toolCalls, applied, toolEvents>>
  PROVE  AuditInv'
<1>1. AuditNeverAhead'
  BY DEF AuditInv, AuditNeverAhead
<1>2. \A d \in Calls : d # c => SettledAt(d)'
  BY SettledKept DEF AuditInv, Alone, RowsAt, SlotOf, ScopeOf
<1>3. SettledAt(c)'
  BY DEF SettledAt, Sending
<1> QED BY <1>1, <1>2, <1>3 DEF AuditInv

LEMMA AuditStep == KnownInv /\ Ledger /\ AuditInv /\ [Next]_vars => AuditInv'
<1> SUFFICES ASSUME KnownInv, Ledger, AuditInv, [Next]_vars PROVE AuditInv'
  OBVIOUS
<1>1. ASSUME NEW c \in Calls,
             \/ ResolveContract(c) \/ InsertRequest(c) \/ Load(c)
             \/ Finalize(c) \/ RollBack(c) \/ Abort(c)
             \/ \E r \in Requests, s \in Scopes : StartCreate(c, r, s)
             \/ \E op \in Decisions, r \in Requests, k \in Keys \cup {NoKey}, s \in Scopes :
                  StartDecision(c, op, r, k, s)
      PROVE  AuditInv'
  <2>1. Alone(c)
    BY <1>1, StepAlone DEF Step, KnownInv
  <2>2. pc'[c] \notin Sending
    BY <1>1 DEF ResolveContract, InsertRequest, Load, Finalize, RollBack, Abort,
                StartCreate, StartDecision, Reply, Goto, Sending, KnownInv, TypeInv, TypeOK
  <2>3. UNCHANGED <<toolCalls, applied, toolEvents>>
    BY <1>1 DEF ResolveContract, InsertRequest, Load, Finalize, RollBack, Abort,
                StartCreate, StartDecision, execution
  <2> QED BY <2>1, <2>2, <2>3, OtherAudit
<1>2. CASE UNCHANGED <<toolCalls, applied, toolEvents, pc, call>>
  <2>1. AuditNeverAhead'
    BY <1>2 DEF AuditInv, AuditNeverAhead
  <2>2. \A d \in Calls : SettledAt(d)'
    BY <1>2, SettledKept DEF AuditInv, RowsAt, SlotOf, ScopeOf
  <2> QED BY <2>1, <2>2 DEF AuditInv
<1>3. CASE Next
  BY <1>1, <1>2, <1>3, ReserveAudit, SendAudit, RecordAudit, OutcomeAudit, GateAudit
     DEF Next, Step, Expire, ChangeTool, ChangePolicy, execution
<1> QED BY <1>2, <1>3 DEF vars

(* The execution audit reports nothing that is not in the database, and no *)
(* tool call is marked executed without its effect.                        *)
THEOREM AuditIsBacked == Spec => []AuditNeverAhead
<1>1. AuditInv => AuditNeverAhead
  BY DEF AuditInv
<1> QED BY <1>1, InitKnown, KnownStep, InitLedger, LedgerStep, InitAudit, AuditStep, PTL
        DEF Spec
=============================================================================
