SPECIFICATION Spec
CONSTANTS
  a1 = a1
  a2 = a2
  a3 = a3
  b1 = b1
  ra = ra
  rb = rb
  n1 = n1
  n2 = n2
  i1 = i1
  i2 = i2
  i3 = i3
  None = None
  Scopes = {a1, a2, b1}
  Runs = {ra, rb}
  Navigations = {n1, n2}
  RunOf <- MCRunOf
  NavigationOf <- MCNavigationOf
  HumanScopes = {a2}
  Ids = {i1, i2}
  HumanControl = FALSE
  MaxRequests = 2
  MaxViewer = 1
  MaxClose = 2
  MaxNavigationClicks = 1
  MaxRunClicks = 1
  MaxBatch = 2
  MaxInstance = 2
  MaxGeneration = 2
  MaxDisplaced = 1
SYMMETRY IdSymmetry
PROPERTIES
  LateCloseIsInert
