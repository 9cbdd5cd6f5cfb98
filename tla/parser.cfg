\* Every continuation of five program beginnings by four or five tokens.
CONSTANTS
  Vocabularies <- AllPrograms
SPECIFICATION FairSpec
INVARIANTS TypeOK NullMeansError AcceptedIsBalanced OnlyMatchArmsGetStuck
PROPERTIES TerminatesOutsideMatch
CHECK_DEADLOCK FALSE
