--------------------------- MODULE CompilationUnit ---------------------------
(***************************************************************************)
(* The state the passes of one compilation share, and the discipline of    *)
(* their recursion.                                                        *)
(*                                                                         *)
(* The passes are recursive C functions over the tree.  "stack" is the C   *)
(* call stack turned into data: the calls and the remainders of calls that *)
(* are still to be executed, the next one first.  A task is the point in   *)
(* the code ("do"), the node and the scope it works on, and one local      *)
(* variable ("at": the number of an argument, the offset of a jump).       *)
(***************************************************************************)
EXTENDS SymbolTable, Diagnostics

VARIABLES
  phase,      \* where compile() and buildMain() stand
  ast,        \* the tree the parser returned
  stack,      \* the pending calls
  errors,     \* errors[0 .. errorCount-1]
  warnings,   \* warnings[0 .. warningCount-1]
  scopes,     \* every Scope allocated so far; scope 1 is topScope
  scopeOf,    \* node -> block.scope or func.scope, 0 while not written
  unused,     \* node -> expr.unusedResult
  typeOf,     \* node -> what typecheckExpr returned for it
  bound       \* history: IDENT node -> the Symbol* the checker resolved

Phases == {"parse", "parsed", "analyse", "generate", "print",
           "returned", "disassemble", "done", "crashed"}

SemanticTasks ==
  {"resolveNode", "addConst", "typecheckStmt", "addLocal", "stmtEnd",
   "typecheckExpr", "binopEnd", "unopEnd", "ifTrue", "ifFalse", "ifEnd",
   "argument"}

CodegenTasks ==
  {"genStmt", "genExpression", "endScope", "emitReturn", "popUnused",
   "operator", "elseJump", "outJump", "patchOut", "patchEntry"}

Tasks == [do : SemanticTasks \cup CodegenTasks, n : Nat, s : Nat, at : Nat]

Task(do, n, s) == [do |-> do, n |-> n, s |-> s, at |-> 0]
TaskAt(do, n, s, at) == [do |-> do, n |-> n, s |-> s, at |-> at]

(* One call for each node of a sequence, in order: the for loops.          *)
ForEach(do, nodes, s) == [i \in DOMAIN nodes |-> Task(do, nodes[i], s)]

Top == Head(stack)
Running(do) == stack # <<>> /\ Top.do = do
RunningOn(do, kind) == Running(do) /\ ast[Top.n].kind = kind

Call(tasks) == stack' = tasks \o Tail(stack)
Return == stack' = Tail(stack)

(* Undefined behaviour that ends in a fault: the process is gone.          *)
Crash == phase' = "crashed" /\ stack' = <<>>

Kid(n, i) == ast[n].kids[i]

annotations == <<scopeOf, unused, typeOf, bound>>
diagnostics == <<errors, warnings>>
==============================================================================
