SPECIFICATION Spec
CONSTANTS
  r1 = r1
  r2 = r2
  s1 = s1
  None = None
  Runs = {r1, r2}
  Sessions = {s1}
  SessionOf <- MCSessionOf
  HumanControl = TRUE
  CleanupMayFail = FALSE
  Bumps = {0}
  MaxEpoch = 2
  MaxAttachments = 2
  MaxQueue = 1
  MaxRevocations = 1
  MaxTime = 0
  MaxFaults = 1
  MaxCrashes = 0
SYMMETRY RunSymmetry
INVARIANTS
  ActiveLeaseOfHolder
