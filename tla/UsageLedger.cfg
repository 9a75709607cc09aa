SPECIFICATION Spec
CONSTANTS
  c1 = c1
  c2 = c2
  d1 = d1
  d2 = d2
  m1 = m1
  k1 = k1
  k2 = k2
  None = None
  Conn = {c1, c2}
  Day = {d1, d2}
  Model = {m1}
  Event <- MCEvent
  Sample <- MCSample
  Batch <- MCBatch
INVARIANTS
  TypeOK
  RollupsExact
  NothingWithoutConnection
  ModelsWithinDay
PROPERTIES
  DailySamplesKept
  StoreRefined
SYMMETRY Symmetric
