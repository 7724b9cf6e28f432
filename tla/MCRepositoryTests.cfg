SPECIFICATION Spec
CONSTANTS
  Names <- AnyName
  Programs <- MCPrograms
  ParserErrors <- NoMessages
  ParserWarnings <- NoMessages
  MaxErrors = 3
  ByteSize = 256
  Garbage = {0, 200}
INVARIANT
  RepositoryTestsPass
