SPECIFICATION Spec
CONSTANTS
  Sources <- MCSources
  Keywords <- MCKeywords
  MaxLength = 4
INVARIANTS
  TypeOK
  NothingLost
  PositionsRight
  LexemesRight
  OverrunOnlyAfterSlashes
PROPERTY
  Terminates
