CONSTANTS
  Pages = 10
  NumReservations = 5
  AliasRegion <- MCAlias
  HeapRegion <- MCHeap
  AslrRegion <- MCAslr
  PageWords = 1024
  JitWords = 1024
  TrampolineSize = 50
  JitPage = 3
  Targets <- MCTargets
  Far <- MCFar
SPECIFICATION Spec
INVARIANT MappingsMatch
CHECK_DEADLOCK FALSE
