SPECIFICATION FairSpec
CONSTANTS
  m1 = m1
  m2 = m2
  alice = alice
  bob = bob
  acme = acme
  other = other
  d1 = d1
  d2 = d2
  d3 = d3
  old = old
  new = new
  status = status
  price = price
  Messages = {m1, m2}
  BranchOf <- MCBranchOf
  CallerOf <- MCCallerOf
  ColumnsOf <- MCColumnsOf
  ShowsEntity <- MCShowsEntity
  Callers = {alice, bob}
  Customers = {acme, other}
  CustomerOf <- MCCustomerOf
  Documents = {d1, d2, d3}
  OwnerOf <- MCOwnerOf
  Texts = {old, new}
  Fields = {status, price}
  DefaultField = status
  Settings <- MCSettings
  Revisions <- MCRevisions
  ToolRevisions <- MCToolRevisions
  PolicyRevisions <- MCPolicyRevisions
  MaxChanges = 1
  MaxErrors = 1
  MaxAborts = 1
CHECK_DEADLOCK FALSE
INVARIANTS TypeOK QuotesWhatWasReadable CallsWerePermitted GroundedAnswers OpenByCrash
PROPERTIES ImplementsAnswerLedger EveryMessageAnswered
