\* Any three arguments; programs that fill both arrays and make them grow.
CONSTANTS
  TokenCapacity = 2
  DiagCapacity = 1
  DumpLimit = 1
  MaxArgs = 3
  MaxTokens = 3
  MaxSemaErrors = 2
SPECIFICATION Spec
INVARIANTS TypeOK MemorySafe OnlyMessagesLeak BuiltFromCheckedProgram StatusTellsErrors
CHECK_DEADLOCK FALSE
