\* A function with an else if.
CONSTANTS
  Names <- MCNames
  BUCKETS = 2
  hash_sv <- MCHash
  MaxScopes = 5
  MaxSymbols = 7
  IntTypes <- MCIntTypes
  FloatBits = {32, 64}
  MaxTypeDepth = 2
  MaxLoose = 4
  UINT64 = 16
  Programs <- ElseIfPrograms
  MaxOperands = 2
  MaxElements = 3
  MaxConst = 3
  MaxErrors = 1
SPECIFICATION SemaSpec
INVARIANT NoUndefined
CHECK_DEADLOCK FALSE
