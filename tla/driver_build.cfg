\* A program with a parse error under --build.
CONSTANTS
  TokenCapacity = 2
  DiagCapacity = 1
  DumpLimit = 1
  MaxArgs = 2
  MaxTokens = 1
  MaxSemaErrors = 1
SPECIFICATION Spec
INVARIANTS BuildSucceedsWithoutErrors
CHECK_DEADLOCK FALSE
