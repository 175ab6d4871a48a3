SPECIFICATION Spec
CONSTANTS
  r1 = r1
  r2 = r2
  s1 = s1
  None = None
  Runs = {r1}
  Sessions = {s1}
  SessionOf <- MCSessionOf
  HumanControl = TRUE
  CleanupMayFail = FALSE
  Bumps = {0}
  MaxEpoch = 4
  MaxAttachments = 1
  MaxQueue = 1
  MaxRevocations = 1
  MaxTime = 1
  MaxFaults = 0
  MaxCrashes = 0
SYMMETRY RunSymmetry
PROPERTIES
  ExecutedInOrder
