SPECIFICATION Spec
CONSTANTS
  k1 = k1
  k2 = k2
  k3 = k3
  Keys = {k1, k2, k3}
  Readers = {r1, r2}
  FILTER_SIZE = 4
  HASH_FUNCTION_COUNT = 2
  HashMod = 8
  HashA <- MCHashA
  HashB <- MCHashB
INVARIANT NoFalseNegative
PROPERTY AbsSpec
