SPECIFICATION ProfilesSpec
CONSTANTS
  Versions = {1, 2, 3}
  None = None
  Torn = Torn
  MaxFaults = 2
  MaxCrashes = 2
  s1 = s1
  s3 = s3
  p1 = p1
  p2 = p2
  Sessions = {s1, s3}
  ProfileOf <- MCProfileOf
  Epochs = {1, 2}
  Images = {1, 2}
  Labels = {7}
INVARIANTS
  ProfilesTypeOK
  WorkOfActive
  ObservedIsActive
  SavedNeverOlder
PROPERTIES
  StoreIsRegister
  SavedNotQuarantined
  UpgradeProved
