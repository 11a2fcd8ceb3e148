SPECIFICATION FairSpec
CONSTANTS
  s1 = s1
  m1 = m1
  m2 = m2
  so1 = so1
  so2 = so2
  NoId = NoId
  NoType = NoType
  NoMessage = NoMessage
  NoInput = NoInput
  Ids = {so1, so2}
  Sessions = {s1}
  Messages = {m1, m2}
  SessionOf <- MCSessionOf
  Inputs <- MCInputs
  Start <- MCStart
  Registries <- MCRegistries
  MaxAborts = 1
CHECK_DEADLOCK FALSE
INVARIANTS TypeOK ContextExplained NoGuess NoBlindRequest AuditNeverAhead StrandedByCrash
PROPERTIES ImplementsAnswerLedger EveryMessageSettles
