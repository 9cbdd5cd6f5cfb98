\* Every text of up to 8 characters of comments, 5 of strings, 4 of anything else.
CONSTANTS
  Alphabets <- AllTexts
  Keywords <- KeywordTable
  MAX_COMMENT_DEPTH = 2
  INT64_MAX = 100
SPECIFICATION FairSpec
INVARIANTS TypeOK TokensInOrder LinesRight ColumnsRight MaximalMunch StringsEnd DecimalAndHexValues
PROPERTIES Terminates
CHECK_DEADLOCK FALSE
