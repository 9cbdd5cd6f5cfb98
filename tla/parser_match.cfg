\* One token behind `fn id() { match int {` is enough.
CONSTANTS
  Vocabularies <- OneArm
SPECIFICATION FairSpec
PROPERTIES Terminates
CHECK_DEADLOCK FALSE
