\* Octal and binary literals.
CONSTANTS
  Alphabets <- OctalAndBinary
  Keywords <- KeywordTable
  MAX_COMMENT_DEPTH = 2
  INT64_MAX = 100
SPECIFICATION Spec
INVARIANTS IntLiteralValues
CHECK_DEADLOCK FALSE
