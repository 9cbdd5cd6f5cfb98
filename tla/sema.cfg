\* One small module per question, every body over its nodes up to the bounds.
CONSTANTS
  Names <- MCNames
  BUCKETS = 2
  hash_sv <- MCHash
  MaxScopes = 5
  MaxSymbols = 7
  IntTypes <- MCIntTypes
  FloatBits = {32, 64}
  MaxTypeDepth = 2
  MaxLoose = 4
  UINT64 = 16
  Programs <- MCPrograms
  MaxOperands = 2
  MaxElements = 3
  MaxConst = 3
  MaxErrors = 1
SPECIFICATION SemaSpec
INVARIANT SemaTypeOK
INVARIANT ContextMatchesFrames
INVARIANT Interned
INVARIANT CoercionTransitive
INVARIANT SignaturesAgree
INVARIANT ElementsFit
INVARIANT MethodSignaturesAgree
INVARIANT MethodsAgree
INVARIANT UndefinedOnlyIf
PROPERTY TableSpec
PROPERTY RefinesEnvironment
CHECK_DEADLOCK FALSE
