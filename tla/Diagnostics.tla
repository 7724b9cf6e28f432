----------------------------- MODULE Diagnostics -----------------------------
(***************************************************************************)
(* The error and warning buffers (compiler/error/error.c): two arrays of   *)
(* MAX_ERRORS entries and their counters, filled by error, errorFromCause, *)
(* warn and warnFromCause, read by errorsCount and printErrors.  A full    *)
(* buffer drops what is reported next.                                     *)
(*                                                                         *)
(* Of an entry the model keeps the text and who owns the memory the        *)
(* "message" pointer points to: a string literal, or the arena of the      *)
(* compilation (parsePrimary formats its message there).                   *)
(***************************************************************************)
EXTENDS Integers, Sequences

CONSTANT MaxErrors     \* MAX_ERRORS

ASSUME MaxErrorsAssumption == MaxErrors \in Nat \ {0}

ParserTexts == {"Expected ...", "Unexpected ...", "Remove the 'then'"}
CheckerTexts ==
  {"Cannot have let bindings at the global scope",
   "Specified type does not match type of initial",
   "Redefinition of symbol", "Redefinition of variable",
   "Cannot have a const binding in a function body",
   "Cannot have a func declaration in a function body",
   "Unused result of expression", "Use of undeclared identifier",
   "Operand types mismatch", "Unknown binop category",
   "Expected an integer", "Expected a boolean", "Unknown unary operator",
   "Not a boolean", "If expression must have an else clause",
   "Return types of true and false branches do not match",
   "Cannot call on a non-function value", "Unexpected number of arguments",
   "Type mismatch", "cannot typecheck"}
GeneratorTexts == {"this operator is not yet supported", "Cannot codegen this construct"}
Texts == ParserTexts \cup CheckerTexts \cup GeneratorTexts

Message == [text : Texts, owner : {"static", "arena"}]
Static(text) == [text |-> text, owner |-> "static"]
Formatted(text) == [text |-> text, owner |-> "arena"]

(* An off-by-one of the bound test: the buffer is overrun by one entry.    *)
LaxReport(buffer, message) ==
  IF Len(buffer) > MaxErrors THEN buffer ELSE Append(buffer, message)

Report(buffer, message) ==
  IF Len(buffer) >= MaxErrors THEN buffer ELSE Append(buffer, message)

ReportIf(condition, buffer, text) ==
  IF condition THEN Report(buffer, Static(text)) ELSE buffer
=============================================================================
