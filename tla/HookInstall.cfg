CONSTANTS
  Pages = 10
  NumReservations = 5
  AliasRegion <- MCAlias
  HeapRegion <- MCHeap
  AslrRegion <- MCAslr
  PageWords = 1024
  JitWords = 250
  TrampolineSize = 50
  JitPage = 3
  Targets <- MCTargets
  Far <- MCFar
  Reach14 = 64
  Reach19 = 128
  Reach26 = 256
  Wrap = 4096
  PageSize = 64
  Programs <- MCPrograms
  Operations <- MCOperations
  Space = 6
  MaxLength = 4
  AreaWords = 16
  CachePage = 8
  LineFields = {1, 3}
SPECIFICATION MCSpec
INVARIANTS
  HooksIntact OnlyJitStaysWritable FittingHooksInstall PoolBounded
  MovedMeansTheSame DataIsAligned EncodesTheOperands AliasIsTheSource FlushedIsFetched
CHECK_DEADLOCK FALSE
