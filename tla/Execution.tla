------------------------------ MODULE Execution ------------------------------
(***************************************************************************)
(* The compiler and the virtual machine together.  No code of the          *)
(* repository calls evaluate: here the chunk that compile() returned with  *)
(* status 0 is handed to it, whole or as a chunk that begins with the code *)
(* of main (jumps are relative, so nothing else changes).                  *)
(***************************************************************************)
EXTENDS CompilerProperties, Vm

executionVars == <<vars, vmVars>>

InitExecution == Init /\ Loaded

CompileFirst == compile /\ UNCHANGED vmVars

Run ==
  /\ phase = "returned" /\ status = "ok"
  /\ \E offset \in {0, mainLocation} : start(offset)
  /\ UNCHANGED vars

Evaluate == evaluate /\ UNCHANGED vars

Ended ==
  /\ phase = "crashed" \/ status = "failed" \/ result \notin {"idle", "running"}
  /\ UNCHANGED executionVars

NextExecution == CompileFirst \/ Run \/ Evaluate \/ Ended

Execution == InitExecution /\ [][NextExecution]_executionVars

-----------------------------------------------------------------------------
(* The offsets where an instruction of the generator starts.               *)
Instructions == {log[i].at : i \in DOMAIN log}

(* Generator and machine agree on the width of everything but jumps: from  *)
(* the start of an instruction evaluate comes to the start of the next     *)
(* one, or to the end.  Between jumps no operand is run as an instruction. *)
DecodesInstructions ==
  [][result = "running" /\ ip \in Instructions
       /\ code[ip + 1] \notin {Opcode[op] : op \in Jumps}
     => ip' \in Instructions \cup {Len(code)} /\ result' # "INTERPRET_RUNTIME_ERROR"]_vmVars

-----------------------------------------------------------------------------
(* What a program without branches means: the value of an expression, a    *)
(* name being the value of its declaration's initial, as nothing can be    *)
(* assigned to.                                                            *)

Statement(n) ==
  \E p \in DOMAIN ast : ast[p].kind \in {"DECL_FUNC", "BLOCK"} /\ n \in Range(ast[p].kids)

Straight(n) ==
  /\ Disciplined(n)
  /\ CASE ast[n].kind = "LITERAL" -> ast[n].op = "INT" \/ ast[n].val = 1
       [] ast[n].kind = "BINOP" -> ast[n].op \in operators
       [] ast[n].kind = "EXIT" -> ast[n].op = "return" /\ Statement(n)
       [] ast[n].kind = "BLOCK" -> Statement(n)
       [] OTHER -> ast[n].kind \in {"PROGRAM", "DECL_FUNC", "DECL_VAR", "IDENT"}

Meaning ==
  LET value[n \in DOMAIN ast] ==
        LET l == value[Kid(n, 1)]
            r == value[Kid(n, 2)]
        IN  CASE ast[n].kind = "LITERAL" -> ast[n].val
              [] ast[n].kind = "IDENT" -> value[Kid(SymbolAt(scopes, bound[n]).decl, 1)]
              [] ast[n].kind = "BINOP" /\ ast[n].op = "+" -> l + r
              [] ast[n].kind = "BINOP" /\ ast[n].op = "-" -> l - r
              [] ast[n].kind = "BINOP" /\ ast[n].op = "==" -> Truth(l = r)
              [] ast[n].kind = "BINOP" /\ ast[n].op = "<" -> Truth(l < r)
              [] ast[n].kind = "BINOP" /\ ast[n].op = "<=" -> Truth(l <= r)
              [] ast[n].kind = "BINOP" /\ ast[n].op = ">" -> Truth(l > r)
              [] ast[n].kind = "BINOP" /\ ast[n].op = ">=" -> Truth(l >= r)
  IN  value

Expressions == {n \in DOMAIN ast : ast[n].kind \in {"LITERAL", "IDENT", "BINOP"}}
Returns == {n \in DOMAIN ast : ast[n].kind = "EXIT"}

(* A program of one function main without branches, whose values fit into  *)
(* an int and onto the stack.                                              *)
StraightLine ==
  /\ ast[1].kids # <<>> /\ Mains = {2} /\ Len(ast[1].kids) = 1
  /\ \A n \in DOMAIN ast : Straight(n)
  /\ \A n \in Expressions : Meaning[n] \in Ints
  /\ Cardinality(Expressions) <= StackMax

(* At the RETURN behind the last statement, with nothing on the stack.     *)
OffTheEnd == result = "undefined" /\ ip = Last(log).at /\ sp = 0

(* Accepted by the compiler and run from main on, such a program prints    *)
(* what its first return says: order of the operands, slots of the locals, *)
(* pops at the end of blocks and statements, and constants are all what    *)
(* the machine takes them for.  One without a return never ends well: it   *)
(* gets to the RETURN behind its last statement, which pops a value        *)
(* although none is left (genStmt in codegen.c, evaluate in vm.c).         *)
RunsAsWritten ==
  result # "idle" /\ StraightLine =>
    /\ result \in {"running", "INTERPRET_OK"} \/ ip = 0 \/ (Returns = {} /\ OffTheEnd)
    /\ result = "INTERPRET_OK" =>
         Returns # {} /\ output = <<Meaning[Kid(Min(Returns), 1)]>>
==============================================================================
