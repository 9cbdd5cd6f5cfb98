\* Every statement form, more defer statements in a block than a level holds,
\* and one body more than the arrays have levels: the walk may run off them and
\* stop there.
CONSTANTS
  e1 = e1
  e2 = e2
  Exprs = {e1}
  MAX_DEFER_DEPTH = 3
  MAX_DEFERS_PER_BLOCK = 2
  LoopForms = {"while", "for_range", "for_slice"}
  TrailingFn = TRUE
  MaxNesting = 4
  MaxDefers = 3
SPECIFICATION Spec
INVARIANTS TypeOK CountersRestored ArraysSuffice
CHECK_DEADLOCK FALSE
