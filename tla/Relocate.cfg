CONSTANTS
  Reach14 = 64
  Reach19 = 128
  Reach26 = 256
  Wrap = 4096
  PageSize = 64
  Programs <- MCPrograms
SPECIFICATION RelocateSpec
INVARIANT AddressKept
CHECK_DEADLOCK FALSE
