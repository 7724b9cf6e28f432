-------------------------- MODULE CompilerProperties --------------------------
(***************************************************************************)
(* What the compiler of module Compiler is expected to guarantee.  The     *)
(* properties of generated code read it through "log", the list of         *)
(* instructions in the order they were emitted, each with its node.        *)
(***************************************************************************)
EXTENDS Compiler, FiniteSets, SequencesExt

Generated == phase \in {"print", "returned", "disassemble", "done"} /\ log # <<>>
Accepted == status = "ok"

-----------------------------------------------------------------------------
(* Where a node stands in the tree.                                        *)

Subtree ==
  LET sub[n \in DOMAIN ast] == {n} \cup UNION {sub[m] : m \in Range(ast[n].kids)}
  IN  sub

Under(p, n) == n \in Subtree[p]

Unreached(n) == \E p \in DOMAIN ast : ast[p].op = "break" /\ p # n /\ Under(p, n)

(* A declaration of the same name that follows the use of a name, in a     *)
(* block around the use, or whose own initial the use is.                  *)
DeclaredLater(n) ==
  \E p \in DOMAIN ast :
    /\ ast[p].kind \in {"BLOCK", "DECL_FUNC"}
    /\ \E i, j \in DOMAIN ast[p].kids :
         /\ i <= j
         /\ Under(Kid(p, i), n)
         /\ ast[Kid(p, j)].kind = "DECL_VAR"
         /\ ast[Kid(p, j)].op # "const"
         /\ ast[Kid(p, j)].name = ast[n].name

-----------------------------------------------------------------------------
(* The slots of the locals.                                                *)

VisibleLets(s) ==
  {ref \in UNION {{[scope |-> c, index |-> i] : i \in DOMAIN scopes[c].symbols} :
                    c \in scopes[s].chain} :
     SymbolAt(scopes, ref).origin = "let"}

(* The locals visible from the scope being checked occupy the slots below  *)
(* its funcIndex, each exactly one: no two live locals share a slot, and   *)
(* none is skipped (initScope, typecheckVarDec).                           *)
SlotsDense ==
  phase = "analyse" /\ stack # <<>> =>
    LET lets == VisibleLets(Top.s)
        next == scopes[Top.s].funcIndex
    IN  /\ {SymbolAt(scopes, ref).funcIndex : ref \in lets} = 0..(next - 1)
        /\ Cardinality(lets) = next

(* The checker and the generator look a name up at different times.  They  *)
(* mean the same symbol, except where a later declaration of the name has  *)
(* come into scope in between.                                             *)
BindingsAgree ==
  \A i \in DOMAIN log :
    LET n == log[i].n
    IN  log[i].op = "GET_LOCAL" /\ bound[n] # NullSymbol =>
          \/ code[log[i].at + 2] = uint8(SymbolAt(scopes, bound[n]).funcIndex)
          \/ DeclaredLater(n)

-----------------------------------------------------------------------------
(* Undefined behaviour is reached only by the constructs that the checker  *)
(* does not look into, a const in a block and the unit value.  No other    *)
(* accepted program makes genExpression dereference a NULL symbol or       *)
(* scope.                                                                  *)
UnsafeNode(n) ==
  \/ ast[n].kind = "TUPLE"
  \/ ast[n].kind = "BLOCK"
       /\ \E d \in Range(ast[n].kids) :
            ast[d].kind = "DECL_VAR" /\ ast[d].op = "const"

CrashOnlyWhereUnchecked == phase = "crashed" => \E n \in DOMAIN ast : UnsafeNode(n)

(* printErrors never reads a message whose memory arenaDestroy released,   *)
(* although the last printErrors of compile() comes after arenaDestroy.    *)
NoDanglingMessage == ~ dangling

-----------------------------------------------------------------------------
(* Generated code.                                                         *)

Jumps == {"CALL", "JUMP", "JUMP_IF_ZERO"}

(* The target of a jump as jumpInstruction shows it.                       *)
Target(i) ==
  LET at == log[i].at
  IN  at + 3 + code[at + 2] * ByteSize + code[at + 3]

InstructionsOf(n) == {i \in DOMAIN log : log[i].n \in Subtree[n]}

(* The end of a construct, without the OP_POP for its unused result.       *)
EndOf(n) ==
  LET own == {i \in InstructionsOf(n) : log[i].op # "POP" \/ log[i].n # n}
  IN  Max({log[i].at + InstructionWidth(Opcode[log[i].op]) : i \in own})

StartOf(n) == Min({log[i].at : i \in InstructionsOf(n)})

Mains == {n \in DOMAIN ast : ast[n].kind = "DECL_FUNC" /\ ast[n].name = "main"}

(* When the chunk is complete every jump has been patched to where the     *)
(* construct says: the condition's jump to the code behind the true        *)
(* branch, the jump behind the true branch to the end of the whole if, and *)
(* the entry call to main (emitJump, patchJump, mainLocation).             *)
JumpsLand ==
  Generated =>
    \A i \in DOMAIN log :
      LET n == log[i].n
      IN  CASE log[i].op = "JUMP_IF_ZERO" ->
                 \E j \in DOMAIN log : /\ log[j].op = "JUMP" /\ log[j].n = n
                                       /\ Target(i) = log[j].at + 3
            [] log[i].op = "JUMP" -> Target(i) = EndOf(n)
            [] log[i].op = "CALL" -> \A m \in Mains : Target(i) = StartOf(m)
            [] OTHER -> TRUE

(* A byte of the chunk changes only if it is the open operand of a jump,   *)
(* and nothing emitted is ever taken back.                                 *)
OpenOperand(o) ==
  /\ code[o] = Unpatched
  /\ \E i \in DOMAIN log : log[i].op \in Jumps /\ o \in {log[i].at + 2, log[i].at + 3}

PatchOnlyOperands ==
  [][/\ Len(code') >= Len(code)
     /\ \A o \in DOMAIN code : code'[o] # code[o] => OpenOperand(o)]_vars

(* disassembleInstruction steps from instruction to instruction: its idea  *)
(* of their widths is the generator's, and it never reads past the chunk.  *)
DisassemblyAligned ==
  phase = "disassemble" =>
    cursor \in {log[i].at : i \in DOMAIN log} \cup {Len(code)}

(* The constant an int literal loads is its value, as long as the pool has *)
(* no more entries than a byte can number (addConstant narrows the index). *)
ConstantsFaithful ==
  Len(consts) <= ByteSize =>
    \A i \in DOMAIN log :
      log[i].op = "CONSTANT" /\ ast[log[i].n].op = "INT" =>
        LET index == code[log[i].at + 2]
        IN  index < Len(consts) /\ consts[index + 1] = ast[log[i].n].val

(* Exit status 0 means that nothing was left out: every literal, name,     *)
(* operator, if and return outside a break was compiled, exactly once, and *)
(* no construct the generator does not know is among them.                 *)
Compiled(n) ==
  CASE ast[n].kind = "LITERAL" -> {"CONSTANT"}
    [] ast[n].kind = "IDENT" -> {"GET_LOCAL"}
    [] ast[n].kind = "BINOP" -> DOMAIN Opcode \ {"CONSTANT", "GET_LOCAL", "POP", "RETURN"}
    [] ast[n].kind = "IF" -> {"JUMP_IF_ZERO"}
    [] ast[n].kind = "EXIT" -> {"RETURN"}
    [] OTHER -> {}

AcceptedIsComplete ==
  Accepted =>
    \A n \in DOMAIN ast : ~ Unreached(n) /\ ast[n].op # "break" =>
      /\ ast[n].kind \notin {"UNOP", "CALL", "TUPLE"}
      /\ Compiled(n) # {} =>
           Cardinality({i \in DOMAIN log : log[i].n = n /\ log[i].op \in Compiled(n)}) = 1

-----------------------------------------------------------------------------
(* The stack discipline of generated code, as a bytecode verifier sees it. *)

(* The programs for which the slots of the checker are meant to be stack   *)
(* positions: operands, initials, conditions and returned expressions have *)
(* a type, the branches of an if agree on leaving a value, and every name  *)
(* is a local whose declaration precedes the use.                          *)
Valued(n) == typeOf[n] # NoType

Disciplined(n) ==
  CASE ast[n].kind \in {"BINOP", "UNOP"} -> \A i \in DOMAIN ast[n].kids : Valued(Kid(n, i))
    [] ast[n].kind = "DECL_VAR" -> ast[n].op # "const" /\ Valued(Kid(n, 1))
    [] ast[n].kind = "EXIT" -> Valued(Kid(n, 1))
    [] ast[n].kind = "IF" ->
         /\ Valued(Kid(n, 1))
         /\ Len(ast[n].kids) = 3 => (Valued(Kid(n, 2)) <=> Valued(Kid(n, 3)))
    [] ast[n].kind = "IDENT" ->
         /\ bound[n] # NullSymbol
         /\ SymbolAt(scopes, bound[n]).origin = "let"
         /\ SymbolAt(scopes, bound[n]).funcIndex < ByteSize
         /\ ~ DeclaredLater(n)
    [] ast[n].kind = "DECL_FUNC" -> ast[n].params = <<>>
    [] OTHER -> TRUE

(* What an instruction takes from the stack and what it leaves more of.    *)
Binary == {"ADD", "SUBTRACT", "EQUAL", "LESS", "LESS_EQ", "GREATER", "GREATER_EQ"}
Takes(i) ==
  CASE log[i].op \in Binary -> 2
    [] log[i].op \in {"POP", "JUMP_IF_ZERO", "RETURN"} -> 1
    [] OTHER -> 0
Leaves(i) == IF log[i].op \in Binary \cup {"CONSTANT", "GET_LOCAL"} THEN 1 ELSE 0

(* The stack depths with which control can reach each instruction.  All    *)
(* jumps inside a function go forward, so one pass from front to back is   *)
(* enough.                                                                 *)
Entries ==
  {StartOf(n) : n \in {m \in DOMAIN ast : ast[m].kind = "DECL_FUNC"}}

Flow(depths, i) ==
  LET after(j) == {d - Takes(j) + Leaves(j) : d \in depths[j]}
      before == {j \in 1..(i - 1) :
                   \/ j = i - 1 /\ log[j].op \notin {"CALL", "JUMP", "RETURN"}
                   \/ log[j].op \in {"JUMP", "JUMP_IF_ZERO"} /\ Target(j) = log[i].at}
  IN  UNION {after(j) : j \in before} \cup (IF log[i].at \in Entries THEN {0} ELSE {})

Depths ==
  FoldLeft(LAMBDA depths, i : Append(depths, Flow(depths, i)),
           <<>>, [i \in DOMAIN log |-> i])

(* The RETURN that genStmt emits behind the statements of a function: it   *)
(* is reached when the function ends without a return.                     *)
FallsOff(i) == log[i].op = "RETURN" /\ ast[log[i].n].kind = "DECL_FUNC"

(* At every instruction that can be reached the stack depth is known, and  *)
(* a name reads the position its declaration left the value at.  What an   *)
(* instruction takes is there, with one exception: where a function falls  *)
(* off its end its locals have been popped, the stack is as empty as it    *)
(* was at the entry, and the RETURN there has nothing to pop, although     *)
(* evaluate pops a value for every RETURN (vm.c): the stack underflows.    *)
CodeVerifies ==
  Accepted /\ (\A n \in DOMAIN ast : Disciplined(n)) =>
    LET depths == Depths
    IN  \A i \in DOMAIN log : \A d \in depths[i] :
          /\ depths[i] = {d}
          /\ FallsOff(i) => d = 0
          /\ ~ FallsOff(i) => Takes(i) <= d
          /\ log[i].op = "GET_LOCAL" =>
               LET decl == SymbolAt(scopes, bound[log[i].n]).decl
               IN  /\ code[log[i].at + 2] < d
                   /\ depths[letAt[decl] + 1] = {code[log[i].at + 2]}

-----------------------------------------------------------------------------
(* Compilation of a tree comes to an end, whatever the tree.               *)
Terminates == <>(phase \in {"done", "crashed"})
==============================================================================
