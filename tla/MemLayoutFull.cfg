CONSTANTS
  End = 5
  Maps <- MCMaps
  Begins <- MCBegins
SPECIFICATION Spec
INVARIANT NotTooManyAccepted
CHECK_DEADLOCK FALSE
