CONSTANTS
  ModCount = 2
  RomfsCount = 3
  MaxRead = 6
  Chars = {"s", "d", "a", "b", "/"}
  OutSize = 9
  Root <- MCRoot
  Names <- MCNames
SPECIFICATION MCSpec
INVARIANTS LossOnlyByError BufferHolds FittingIsIndexed HookOpensTheIndexed
PROPERTIES AbsSpec WalkDescends
CHECK_DEADLOCK FALSE
