\* Functions of up to four nested bodies with full levels: no slice loop, no
\* trailing expression in a function body. A fifth body is one more than the
\* arrays have levels for; the walk stops where it is opened.
CONSTANTS
  e1 = e1
  e2 = e2
  Exprs = {e1, e2}
  MAX_DEFER_DEPTH = 4
  MAX_DEFERS_PER_BLOCK = 2
  LoopForms = {"while"}
  TrailingFn = FALSE
  MaxNesting = 5
  MaxDefers = 2
SPECIFICATION Spec
PROPERTIES RefinesScopes CleanupOnReturn
CHECK_DEADLOCK FALSE
