CONSTANTS
  Pages = 6
  NumReservations = 3
  AliasRegion <- MCAlias
  HeapRegion <- MCHeap
  AslrRegion <- MCAslr
  MaxSize = 2
  Background = {1}
SPECIFICATION Spec
INVARIANTS ListConsistent FoundIsFree
PROPERTY AbsSpec
CHECK_DEADLOCK FALSE
