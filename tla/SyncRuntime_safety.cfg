SPECIFICATION Spec
CONSTANTS
  c1 = c1
  a1 = a1
  a2 = a2
  f1 = f1
  Conn = {c1}
  RejectConn = {c1}
  AutoTask = {a1, a2}
  ForceTask = {f1}
  Target <- OneTarget
  MaxPolls = 2
  MaxFaults = 1
  MaxCrashes = 1
  MayRemove = TRUE
INVARIANTS
  TypeOK
  SingleFlight
  CommitOnCurrentCursor
  RemovedLeavesNothing
  ReservationAccounted
  ForceAnswerExplained
PROPERTIES
  ErrorsLeaveThroughSyncing
  LeaseRefined
SYMMETRY Symmetric
