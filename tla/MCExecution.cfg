SPECIFICATION Execution
CONSTANTS
  Names <- AnyName
  Programs <- MCPrograms
  ParserErrors <- NoMessages
  ParserWarnings <- NoMessages
  MaxErrors = 3
  ByteSize = 16
  Garbage = {0}
  StackMax = 16
  MaxInt = 31
INVARIANT
  RunsAsWritten
PROPERTY
  DecodesInstructions
