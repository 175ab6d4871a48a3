SPECIFICATION Spec
CONSTANTS
  Versions = {1, 2}
  None = None
  Torn = Torn
  MaxFaults = 0
  MaxCrashes = 1
PROPERTIES
  DurableOnceSaved
