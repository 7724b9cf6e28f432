SPECIFICATION Spec
CONSTANTS
  Names <- AnyName
  Programs <- MCPrograms
  ParserErrors <- NoMessages
  ParserWarnings <- NoMessages
  MaxErrors = 3
  ByteSize = 16
  Garbage = {0, 200}
INVARIANTS
  JumpsLand
  ConstantsFaithful
