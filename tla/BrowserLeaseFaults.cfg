SPECIFICATION Spec
CONSTANTS
  r1 = r1
  r2 = r2
  s1 = s1
  None = None
  Runs = {r1, r2}
  Sessions = {s1}
  SessionOf <- MCSessionOf
  HumanControl = FALSE
  CleanupMayFail = FALSE
  Bumps = {1}
  MaxEpoch = 3
  MaxAttachments = 2
  MaxQueue = 1
  MaxRevocations = 1
  MaxTime = 0
  MaxFaults = 1
  MaxCrashes = 1
SYMMETRY RunSymmetry
INVARIANTS
  TypeOK
  EpochsNotReused
  RevokedNotExecuted
  ClosureOutlivesLease
PROPERTIES
  ExecutedInOrder
  CloseTearsDown
