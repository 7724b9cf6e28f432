SPECIFICATION Spec
CONSTANTS
  Names <- AnyName
  Programs <- MCPrograms
  ParserErrors <- MCParserErrors
  ParserWarnings <- MCParserWarnings
  MaxErrors = 2
  ByteSize = 256
  Garbage = {200}
INVARIANTS
  TypeOK
  SlotsDense
  BindingsAgree
  CrashOnlyWhereUnchecked
  NoDanglingMessage
  JumpsLand
  DisassemblyAligned
  AcceptedIsComplete
  CodeVerifies
PROPERTIES
  PatchOnlyOperands
  Terminates
