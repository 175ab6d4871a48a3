SPECIFICATION HostSpec
CONSTANTS
  None = None
  g1 = g1
  g2 = g2
  a1 = a1
  a2 = a2
  k1 = k1
  k2 = k2
  u1 = u1
  u2 = u2
  v1 = v1
  Generations = {g1, g2}
  Attachments = {a1, a2}
  MaxCalls = 2
  MaxStray = 1
  Keys = {k1, k2}
  MaxEpoch = 2
  MaxVersion = 2
  MaxFaults = 2
  MaxCrashes = 2
  Public = {u1, u2}
  Private = {v1}
  MaxTunnelDials = 2
  MaxEntries = 2
  MaxRecords = 3
  MaxStarts = 2
  MaxAttempt = 2
INVARIANTS
  HostTypeOK
  OneBackendShown
  OwnAnswer
  ClaimSpansAction
  ModeTruthful
  EpochEvidenced
  OneValidatedDestination
  JournalAccounts
  FrameOfAttempt
PROPERTIES
  SessionKeepsBackend
  RequestsEnd
  CancelledEnds
  NothingAfterClose
  MigrationKeeps
  FinalizeCompletes
  NewerSurvives
CHECK_DEADLOCK FALSE
