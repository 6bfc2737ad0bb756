CONSTANTS
  r1 = r1
  r2 = r2
  k1 = k1
  k2 = k2
  devops = devops
  hr = hr
  d1 = d1
  d2 = d2
  e1 = e1
  e2 = e2
  e3 = e3
  None = None
  Requests = {r1}
  Queries <- MCQueries
  Keys = {k1, k2}
  Salts = {1}
  KeyOf <- MCKeyOf
  Score <- MCScore
  Threshold = 1
  Agents = {devops, hr}
  Models = {d1, d2, e1, e2, e3}
  DefaultPool <- TwoModels
  EscalationPool <- ThreeStrongModels
  SemanticRoute <- MCSemanticRoute
  Lengths = {1}
SPECIFICATION Spec
INVARIANT RedisOutageOnlyMisses
