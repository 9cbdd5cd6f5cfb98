\* Function bodies may end in a trailing expression.
CONSTANTS
  e1 = e1
  e2 = e2
  Exprs = {e1}
  MAX_DEFER_DEPTH = 3
  MAX_DEFERS_PER_BLOCK = 2
  LoopForms = {"while"}
  TrailingFn = TRUE
  MaxNesting = 2
  MaxDefers = 2
SPECIFICATION Spec
PROPERTIES CleanupOnReturn
