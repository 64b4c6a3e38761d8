CONSTANTS
  End = 5
  Maps <- MCMaps
  Begins <- MCBegins
  KernelRegions <- MCRegions
  MaxGets = 2
  WordSize = 8
  Stack <- MCStack
  Pointers <- MCPointers
SPECIFICATION MCSpec
INVARIANTS TableIsTheMap SelfIsSelf RegionsAgree StubsKeepTheContract HandleIsReceived
PROPERTIES Terminates GetReturns WalkEnds
CHECK_DEADLOCK FALSE
