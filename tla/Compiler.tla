------------------------------ MODULE Compiler ------------------------------
(***************************************************************************)
(* compile() (compiler/compiler.c) and the end of buildMain (main.zig):    *)
(* parse, resolve names and check types, generate code, disassemble; after *)
(* each of the first three the error buffer decides whether to go on.      *)
(*                                                                         *)
(* The parser is an environment here: it delivers some tree of Programs    *)
(* and some sequence of messages.                                          *)
(***************************************************************************)
EXTENDS SemanticAnalysis, Codegen

CONSTANT ParserErrors     \* the error buffers a parse may leave behind
CONSTANT ParserWarnings   \* the warning buffers a parse may leave behind

ASSUME ParserAssumption ==
  /\ \A buffer \in ParserErrors \cup ParserWarnings :
       buffer \in Seq(Message) /\ Len(buffer) <= MaxErrors
  /\ \A buffer \in ParserWarnings : \A i \in DOMAIN buffer : buffer[i].owner = "static"

VARIABLES
  arena,      \* the allocator of compile(): "live" or "destroyed"
  status,     \* what compile() returned
  cursor,     \* the offset disassembleChunk has reached
  dangling    \* history: printErrors read a message of a destroyed arena

driverVars == <<arena, status, cursor, dangling>>
vars == <<phase, ast, stack, diagnostics, scopes, annotations, codegenVars, driverVars>>

TypeOK ==
  /\ phase \in Phases
  /\ WellFormed(ast)
  /\ stack \in Seq(Tasks)
  /\ errors \in Seq(Message) /\ Len(errors) <= MaxErrors
  /\ warnings \in Seq(Message) /\ Len(warnings) <= MaxErrors
  /\ scopes \in Seq(Scope)
  /\ scopeOf \in [DOMAIN ast -> 0..Len(scopes)]
  /\ unused \in [DOMAIN ast -> BOOLEAN]
  /\ typeOf \in [DOMAIN ast -> Type]
  /\ bound \in [DOMAIN ast -> [scope : Nat, index : Nat]]
  /\ code \in Seq(Byte)
  /\ consts \in Seq(Int)
  /\ mainLocation \in Nat
  /\ log \in Seq([at : Nat, op : DOMAIN Opcode, n : Nat])
  /\ letAt \in [DOMAIN ast -> Nat]
  /\ arena \in {"live", "destroyed"}
  /\ status \in {"none", "ok", "failed"}
  /\ cursor \in Nat
  /\ dangling \in BOOLEAN

(* The tree is chosen at the start and read from the end of the parse on.  *)
Init ==
  /\ phase = "parse"
  /\ ast \in Programs
  /\ stack = <<>> /\ errors = <<>> /\ warnings = <<>> /\ scopes = <<>>
  /\ scopeOf = [n \in DOMAIN ast |-> 0]
  /\ unused = [n \in DOMAIN ast |-> FALSE]
  /\ typeOf = [n \in DOMAIN ast |-> NoType]
  /\ bound = [n \in DOMAIN ast |-> NullSymbol]
  /\ code = <<>> /\ consts = <<>> /\ mainLocation = 0 /\ log = <<>>
  /\ letAt = [n \in DOMAIN ast |-> 0]
  /\ arena = "live"
  /\ status = "none"
  /\ cursor = 0
  /\ dangling = FALSE

ArenaOwned(buffer) == \E i \in DOMAIN buffer : buffer[i].owner = "arena"

(* printErrors reads the message of every warning and error.               *)
printErrors ==
  dangling' = (dangling \/ (arena = "destroyed" /\ ArenaOwned(warnings \o errors)))

Parse ==
  /\ phase = "parse"
  /\ phase' = "parsed"
  /\ errors' \in ParserErrors
  /\ warnings' \in ParserWarnings
  /\ UNCHANGED <<ast, stack, scopes, annotations, codegenVars, driverVars>>

(* The two early returns: print while the arena is alive, destroy it, and  *)
(* return 1.                                                               *)
RejectLate ==
  /\ errors # <<>>
  /\ dangling' = (dangling \/ ArenaOwned(warnings \o errors))
  /\ arena' = "destroyed"
  /\ status' = "failed"
  /\ phase' = "returned"
  /\ UNCHANGED <<ast, stack, diagnostics, scopes, annotations, codegenVars, cursor>>

Reject ==
  /\ errors # <<>>
  /\ printErrors
  /\ arena' = "destroyed"
  /\ status' = "failed"
  /\ phase' = "returned"
  /\ UNCHANGED <<ast, stack, diagnostics, scopes, annotations, codegenVars, cursor>>

RejectSyntax == phase = "parsed" /\ Reject

RejectSemantics == phase = "analyse" /\ stack = <<>> /\ Reject

BeginAnalysis ==
  /\ phase = "parsed"
  /\ errors = <<>>
  /\ phase' = "analyse"
  /\ scopes' = <<initScope(<<>>, 0)>>
  /\ stack' = ForEach("resolveNode", ast[1].kids, 1)
                \o ForEach("typecheckStmt", ast[1].kids, 1)
  /\ UNCHANGED <<ast, diagnostics, annotations, codegenVars, driverVars>>

(* What typecheckStmt does with the global constants: nothing, as topScope *)
(* is no function scope.                                                   *)
Analyse ==
  /\ phase = "analyse"
  /\ AnalysisStep
  /\ UNCHANGED <<codegenVars, driverVars>>

EagerCodegen ==
  /\ phase = "analyse" /\ stack = <<>>
  /\ phase' = "generate"
  /\ beginCode
  /\ UNCHANGED <<ast, diagnostics, scopes, annotations, driverVars>>

BeginCodegen ==
  /\ phase = "analyse" /\ stack = <<>>
  /\ errors = <<>>
  /\ phase' = "generate"
  /\ beginCode
  /\ UNCHANGED <<ast, diagnostics, scopes, annotations, driverVars>>

Generate ==
  /\ phase = "generate"
  /\ CodegenStep
  /\ UNCHANGED driverVars

(* After code generation the arena goes first, then the buffers are read.  *)
DestroyArena ==
  /\ phase = "generate" /\ stack = <<>>
  /\ arena' = "destroyed"
  /\ phase' = "print"
  /\ UNCHANGED <<ast, stack, diagnostics, scopes, annotations, codegenVars,
                 status, cursor, dangling>>

PrintAndReturn ==
  /\ phase = "print"
  /\ printErrors
  /\ status' = IF errors # <<>> THEN "failed" ELSE "ok"
  /\ phase' = "returned"
  /\ UNCHANGED <<ast, stack, diagnostics, scopes, annotations, codegenVars,
                 arena, cursor>>

-----------------------------------------------------------------------------
(* buildMain: exit 1, or disassemble the chunk and free it.                *)

ExitWithError ==
  /\ phase = "returned" /\ status = "failed"
  /\ phase' = "done"
  /\ UNCHANGED <<ast, stack, diagnostics, scopes, annotations, codegenVars, driverVars>>

BeginDisassembly ==
  /\ phase = "returned" /\ status = "ok"
  /\ phase' = "disassemble"
  /\ cursor' = 0
  /\ UNCHANGED <<ast, stack, diagnostics, scopes, annotations, codegenVars,
                 arena, status, dangling>>

(* How far disassembleInstruction moves on for each opcode; the default,   *)
(* with which the comparisons end up, is one byte.                         *)
NarrowJumpWidth(opcode) ==
  CASE opcode \in {Opcode.CONSTANT, Opcode.GET_LOCAL} -> 2
    [] opcode \in {Opcode.JUMP, Opcode.CALL} -> 3
    [] OTHER -> 1

StuckOnUnknown(opcode) ==
  CASE opcode \in {Opcode.CONSTANT, Opcode.GET_LOCAL} -> 2
    [] opcode \in {Opcode.JUMP, Opcode.JUMP_IF_ZERO, Opcode.CALL} -> 3
    [] opcode \in {Opcode.POP, Opcode.ADD, Opcode.SUBTRACT, Opcode.EQUAL,
                   Opcode.RETURN} -> 1
    [] OTHER -> 0

InstructionWidth(opcode) ==
  CASE opcode \in {Opcode.CONSTANT, Opcode.GET_LOCAL} -> 2
    [] opcode \in {Opcode.JUMP, Opcode.JUMP_IF_ZERO, Opcode.CALL} -> 3
    [] OTHER -> 1

disassembleInstruction ==
  /\ phase = "disassemble"
  /\ cursor < Len(code)
  /\ cursor' = cursor + InstructionWidth(code[cursor + 1])
  /\ UNCHANGED <<phase, ast, stack, diagnostics, scopes, annotations, codegenVars,
                 arena, status, dangling>>

EndDisassembly ==
  /\ phase = "disassemble"
  /\ cursor >= Len(code)
  /\ phase' = "done"
  /\ UNCHANGED <<ast, stack, diagnostics, scopes, annotations, codegenVars, driverVars>>

(* The process has ended.                                                  *)
Finished == phase \in {"done", "crashed"} /\ UNCHANGED vars

compile ==
  \/ Parse \/ RejectSyntax
  \/ BeginAnalysis \/ Analyse \/ RejectSemantics
  \/ BeginCodegen \/ Generate
  \/ DestroyArena \/ PrintAndReturn

buildMain ==
  \/ ExitWithError
  \/ BeginDisassembly \/ disassembleInstruction \/ EndDisassembly

Next == compile \/ buildMain \/ Finished

(* A single thread that never waits: it takes a step whenever it can.      *)
Fairness == WF_vars(compile \/ buildMain)

Spec == Init /\ [][Next]_vars /\ Fairness
=============================================================================
