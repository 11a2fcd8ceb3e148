SPECIFICATION Spec
CONSTANTS
  c1 = c1
  c2 = c2
  e1 = e1
  e2 = e2
  custA = custA
  custB = custB
  org = org
  ann = ann
  bob = bob
  Calls = {c1, c2}
  Requests = {e1, e2}
  Customers = {custA, custB}
  Organizations = {org}
  Actors = {ann, bob}
  SessionOf <- MCSessionOf
  Scopes <- Everyone
  Expiring = {e1}
  MaxAborts = 1
  NoActor = NoActor
  NoCall = NoCall
SYMMETRY Symmetry
VIEW View
INVARIANTS TypeOK TrailTellsStory
PROPERTIES DecidedWithAuthority RepliesAreTrue ImplementsDecisionLog
