CONSTANTS
  t1 = t1
  t2 = t2
  k1 = k1
  k2 = k2
  None = None
  Tasks = {t1, t2}
  Keys = {k1, k2}
  Salts = {1, 2}
  Values = {v}
  Queries <- MCQueries
  KeyOf <- MCKeyOf
  Score <- MCScore
  Threshold = 1
SPECIFICATION HSpec
INVARIANTS
  HTypeOK
  NoStaleHit
  ScanInv
PROPERTIES
  NoFalseMiss
  HitIsMostSimilar
  LookupEnds
