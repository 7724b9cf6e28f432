------------------------------- MODULE Codegen -------------------------------
(***************************************************************************)
(* The code generator (compiler/codegen/codegen.c) and the chunk it writes *)
(* (vm/chunk.c, vm/value.c): one recursive walk over the checked tree that *)
(* appends bytes, leaves two bytes open behind every jump and fills them   *)
(* in when the target is known.                                            *)
(*                                                                         *)
(* Offsets count from 0 as in the source: the byte at offset o is          *)
(* code[o + 1].                                                            *)
(***************************************************************************)
EXTENDS CompilationUnit

CONSTANT ByteSize     \* the number of values of a uint8_t

ASSUME ByteSizeAssumption == ByteSize \in Nat /\ ByteSize >= 16

VARIABLES
  code,           \* chunk.bytecode
  consts,         \* chunk.constants
  mainLocation,   \* ctx.mainLocation
  log,            \* history: where each instruction starts, and its node
  letAt           \* history: DECL_VAR node -> instructions before its initial

chunk == <<code, consts>>
codegenVars == <<code, consts, mainLocation, log, letAt>>

(* Opcode of vm/chunk.h.                                                   *)
Opcode ==
  [CONSTANT |-> 0, POP |-> 1, GET_LOCAL |-> 2, ADD |-> 3, SUBTRACT |-> 4,
   EQUAL |-> 5, LESS |-> 6, LESS_EQ |-> 7, GREATER |-> 8, GREATER_EQ |-> 9,
   JUMP |-> 10, JUMP_IF_ZERO |-> 11, CALL |-> 12, RETURN |-> 13]

Byte == 0..(ByteSize - 1)
uint8(i) == i % ByteSize
Unpatched == ByteSize - 1     \* 0xff

Logged(at, op, n) == [at |-> at, op |-> op, n |-> n]

(* One instruction with its operand bytes: a few calls of writeChunk.      *)
emit(op, operands, n) ==
  /\ code' = code \o <<Opcode[op]>> \o operands
  /\ log' = Append(log, Logged(Len(code), op, n))

emitByte(op, n) == emit(op, <<>>, n)

(* addConstant returns (uint8_t)length - 1, which emitting the operand     *)
(* narrows to a byte: a pool longer than ByteSize is indexed modulo it.    *)
SevenBitConstant(value, n) ==
  /\ consts' = Append(consts, value)
  /\ emit("CONSTANT", <<Len(consts) % (ByteSize \div 2)>>, n)

emitConstant(value, n) ==
  /\ consts' = Append(consts, value)
  /\ emit("CONSTANT", <<uint8(Len(consts))>>, n)

(* emitJump returns the offset of the first of the two open bytes.         *)
emitJump(op, n) == emit(op, <<Unpatched, Unpatched>>, n)
JumpOffset == Len(code) + 1

ForgottenHighByte(bytes, offset, with) ==
  [bytes EXCEPT ![offset + 2] = uint8(with - offset - 2)]

JumpFromOperand(bytes, offset, with) ==
  LET jump == with - offset
  IN  [bytes EXCEPT ![offset + 1] = uint8(jump \div ByteSize),
                    ![offset + 2] = uint8(jump)]

PatchedOneEarly(bytes, offset, with) ==
  LET jump == with - offset - 2
  IN  [bytes EXCEPT ![offset] = uint8(jump \div ByteSize),
                    ![offset + 1] = uint8(jump)]

patchJump(bytes, offset, with) ==
  LET jump == with - offset - 2
  IN  [bytes EXCEPT ![offset + 1] = uint8(jump \div ByteSize),
                    ![offset + 2] = uint8(jump)]

genStmts(n) ==
  ForEach("genStmt", ast[n].kids, scopeOf[n]) \o <<Task("endScope", n, scopeOf[n])>>

(* A case that only makes recursive calls, and one that ends with bytes    *)
(* written.                                                                *)
Expand(tasks) == Call(tasks) /\ UNCHANGED <<phase, diagnostics, codegenVars>>
Written == Return /\ UNCHANGED <<phase, consts, mainLocation, letAt>>

(* One OP_POP for every symbol of the scope.  A block the checker did not  *)
(* see has no scope.                                                       *)
LeavingLocals ==
  /\ Running("endScope")
  /\ Return
  /\ UNCHANGED <<phase, diagnostics, codegenVars>>

endScope ==
  /\ Running("endScope")
  /\ IF Top.s = 0
     THEN Crash /\ UNCHANGED codegenVars
     ELSE /\ LET pops == Len(scopes[Top.s].symbols)
             IN  /\ code' = code \o [i \in 1..pops |-> Opcode.POP]
                 /\ log' = log \o [i \in 1..pops |->
                                     Logged(Len(code) + i - 1, "POP", Top.n)]
          /\ Written
  /\ UNCHANGED diagnostics

-----------------------------------------------------------------------------
(* genStmt, by the kind of the statement.                                  *)

genFunc ==
  /\ RunningOn("genStmt", "DECL_FUNC")
  /\ mainLocation' = IF ast[Top.n].name = "main" THEN Len(code) ELSE mainLocation
  /\ Call(genStmts(Top.n) \o <<Task("emitReturn", Top.n, 0)>>)
  /\ UNCHANGED <<phase, diagnostics, chunk, log, letAt>>

genVar ==
  /\ RunningOn("genStmt", "DECL_VAR")
  /\ letAt' = [letAt EXCEPT ![Top.n] = Len(log)]
  /\ Call(<<Task("genExpression", Kid(Top.n, 1), Top.s)>>)
  /\ UNCHANGED <<phase, diagnostics, chunk, mainLocation, log>>

genExprStmt ==
  /\ Running("genStmt")
  /\ ast[Top.n].kind \in ExprKinds
  /\ Expand(<<Task("genExpression", Top.n, Top.s), Task("popUnused", Top.n, 0)>>)

popUnused ==
  /\ Running("popUnused")
  /\ \/ unused[Top.n] /\ emitByte("POP", Top.n)
     \/ ~ unused[Top.n] /\ UNCHANGED <<code, log>>
  /\ Written
  /\ UNCHANGED diagnostics

emitReturn ==
  /\ Running("emitReturn")
  /\ emitByte("RETURN", Top.n)
  /\ Written
  /\ UNCHANGED diagnostics

-----------------------------------------------------------------------------
(* genExpression, by the kind of the expression.                           *)

Gen(kind) == RunningOn("genExpression", kind)

(* Both bool literals are compiled to the constant 1.                      *)
genLiteral ==
  /\ Gen("LITERAL")
  /\ emitConstant(IF ast[Top.n].op = "INT" THEN ast[Top.n].val ELSE 1, Top.n)
  /\ Return
  /\ UNCHANGED <<phase, diagnostics, mainLocation, letAt>>

(* The right operand is generated first.                                   *)
genBinop ==
  /\ Gen("BINOP")
  /\ Expand(<<Task("genExpression", Kid(Top.n, 2), Top.s),
              Task("genExpression", Kid(Top.n, 1), Top.s),
              Task("operator", Top.n, 0)>>)

operators == {"+", "-", "==", "<", "<=", ">", ">="}

OperatorOp(op) ==
  CASE op = "+" -> "ADD"   [] op = "-" -> "SUBTRACT"   [] op = "==" -> "EQUAL"
    [] op = "<" -> "LESS"  [] op = "<=" -> "LESS_EQ"
    [] op = ">" -> "GREATER" [] op = ">=" -> "GREATER_EQ"

SilentOperator ==
  /\ Running("operator")
  /\ IF ast[Top.n].op \in operators
     THEN emitByte(OperatorOp(ast[Top.n].op), Top.n)
     ELSE UNCHANGED <<code, log>>
  /\ Written
  /\ UNCHANGED diagnostics

operator ==
  /\ Running("operator")
  /\ LET op == ast[Top.n].op
     IN  \/ /\ op \in operators
            /\ emitByte(OperatorOp(op), Top.n)
            /\ UNCHANGED errors
         \/ /\ op \notin operators
            /\ errors' = Report(errors, Static("this operator is not yet supported"))
            /\ UNCHANGED <<code, log>>
  /\ Written
  /\ UNCHANGED warnings

(* The name is looked up again, in the scopes as the checker left them; a  *)
(* name that is not found is dereferenced all the same.                    *)
genIdent ==
  /\ Gen("IDENT")
  /\ LET symbol == scopeLookup(scopes, Top.s, ast[Top.n].name)
     IN  \/ /\ symbol = NullSymbol
            /\ Crash
            /\ UNCHANGED <<code, log>>
         \/ /\ symbol # NullSymbol
            /\ emit("GET_LOCAL", <<uint8(SymbolAt(scopes, symbol).funcIndex)>>, Top.n)
            /\ Return
            /\ UNCHANGED phase
  /\ UNCHANGED <<diagnostics, consts, mainLocation, letAt>>

BlockInOuterScope ==
  /\ Gen("BLOCK")
  /\ Expand(ForEach("genStmt", ast[Top.n].kids, Top.s)
              \o <<Task("endScope", Top.n, scopeOf[Top.n])>>)

genBlock ==
  /\ Gen("BLOCK")
  /\ Expand(genStmts(Top.n))

genIf ==
  /\ Gen("IF")
  /\ Expand(<<Task("genExpression", Kid(Top.n, 1), Top.s),
              Task("elseJump", Top.n, Top.s)>>)

elseJump ==
  /\ Running("elseJump")
  /\ emitJump("JUMP_IF_ZERO", Top.n)
  /\ Call(<<Task("genExpression", Kid(Top.n, 2), Top.s),
            TaskAt("outJump", Top.n, Top.s, JumpOffset)>>)
  /\ UNCHANGED <<phase, diagnostics, consts, mainLocation, letAt>>

(* Behind the true branch: the jump over the false branch, whose first     *)
(* byte is where the condition's jump lands.                               *)
FalseBranch(n) == SubSeq(ast[n].kids, 3, Len(ast[n].kids))

outJump ==
  /\ Running("outJump")
  /\ LET jump == <<Opcode.JUMP, Unpatched, Unpatched>>
     IN  code' = patchJump(code \o jump, Top.at, Len(code) + 3)
  /\ log' = Append(log, Logged(Len(code), "JUMP", Top.n))
  /\ Call(ForEach("genExpression", FalseBranch(Top.n), Top.s)
            \o <<TaskAt("patchOut", Top.n, 0, JumpOffset)>>)
  /\ UNCHANGED <<phase, diagnostics, consts, mainLocation, letAt>>

patchOut ==
  /\ Running("patchOut")
  /\ code' = patchJump(code, Top.at, Len(code))
  /\ Return
  /\ UNCHANGED <<phase, diagnostics, consts, mainLocation, log, letAt>>

(* A break evaluates nothing and emits nothing.                            *)
genExit ==
  /\ Gen("EXIT")
  /\ \/ /\ ast[Top.n].op = "return"
        /\ Call(<<Task("genExpression", Kid(Top.n, 1), Top.s),
                  Task("emitReturn", Top.n, 0)>>)
     \/ /\ ast[Top.n].op = "break"
        /\ Return
  /\ UNCHANGED <<phase, diagnostics, codegenVars>>

genDefault ==
  /\ Running("genExpression")
  /\ ast[Top.n].kind \in {"CALL", "UNOP", "TUPLE"}
  /\ errors' = Report(errors, Static("Cannot codegen this construct"))
  /\ Return
  /\ UNCHANGED <<phase, warnings, codegenVars>>

-----------------------------------------------------------------------------
(* generateBytecode: a call of main first, whose operand is filled in last *)
(* (with location 0 when no function is called main).                      *)
beginCode ==
  /\ code' = <<Opcode.CALL, Unpatched, Unpatched>>
  /\ consts' = <<>>
  /\ mainLocation' = 0
  /\ log' = <<Logged(0, "CALL", 1)>>
  /\ stack' = ForEach("genStmt", ast[1].kids, 1) \o <<TaskAt("patchEntry", 1, 0, 1)>>
  /\ UNCHANGED letAt

patchEntry ==
  /\ Running("patchEntry")
  /\ code' = patchJump(code, Top.at, mainLocation)
  /\ Return
  /\ UNCHANGED <<phase, diagnostics, consts, mainLocation, log, letAt>>

genStmt == genFunc \/ genVar \/ genExprStmt \/ popUnused \/ emitReturn \/ endScope

genExpression ==
  \/ genLiteral \/ genIdent
  \/ genBinop \/ operator
  \/ genBlock
  \/ genIf \/ elseJump \/ outJump \/ patchOut
  \/ genExit
  \/ genDefault

(* A step of generateBytecode.                                             *)
CodegenStep ==
  (genStmt \/ genExpression \/ patchEntry) /\ UNCHANGED <<ast, scopes, annotations>>
==============================================================================
