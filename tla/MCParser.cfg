SPECIFICATION Spec
CONSTANTS
  Sources <- MCSources
  Idents <- MCIdents
  Value <- MCValue
  MaxItems = 24
  MaxErrors = 2
  MaxFile = 3
  MaxHeader = 4
  MaxBody = 2
  MaxStatements = 4
  MaxExpression = 4
INVARIANTS
  TypeOK
  ReportedOrWellFormed
  NothingDropped
  PrecedenceRight
  SpinsOnlyWhenStuck
  RepositoryProgramsParsed
PROPERTY
  Terminates
