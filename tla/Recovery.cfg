SPECIFICATION FairSpec
CONSTANTS
  c1 = c1
  c2 = c2
  k1 = k1
  k2 = k2
  dr = dr
  dr2 = dr2
  ap = ap
  t1 = t1
  t2 = t2
  t3 = t3
  m1 = m1
  m2 = m2
  m3 = m3
  custA = custA
  custB = custB
  org = org
  ann = ann
  bob = bob
  Calls = {c1, c2}
  Requests = {dr}
  Customers = {custA}
  Organizations = {org}
  Actors = {ann, bob}
  Keys = {k1}
  Contracts = {t1, t2, t3}
  Messages = {m1, m2, m3}
  KindOf <- MCKindOf
  SessionOf <- MCSessionOf
  MessageOf <- MCMessageOf
  Scopes <- Owner
  Fit <- MCFit
  Expiring = {}
  MaxChanges = 0
  MaxAborts = 2
  NoKey = NoKey
  NoActor = NoActor
  NoContract = NoContract
  NoCall = NoCall
PROPERTIES AppliedGetsRecorded
