CONSTANTS
  r1 = r1
  k1 = k1
  k2 = k2
  devops = devops
  hr = hr
  d1 = d1
  e1 = e1
  None = None
  Requests = {r1}
  Queries <- MCQueries
  Keys = {k1, k2}
  Salts = {1}
  KeyOf <- MCKeyOf
  Score <- MCScore
  Threshold = 1
  Agents = {devops, hr}
  Models = {d1, e1}
  DefaultPool <- MCDefaultPool
  EscalationPool <- MCEscalationPool
  SemanticRoute <- MCSemanticRoute
  Expected <- MCExpected
  Lengths = {0, 1}
SPECIFICATION DeliverySpec
INVARIANTS
  DeliveryTypeOK
  VerdictIsSound
PROPERTIES
  AbandonedCallStops
  EveryCallEnds
CHECK_DEADLOCK FALSE
