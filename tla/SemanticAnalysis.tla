-------------------------- MODULE SemanticAnalysis --------------------------
(***************************************************************************)
(* Name resolution and type checking (compiler/semantic_analysis):         *)
(* resolveNames enters the declarations of the program into the top scope, *)
(* typeCheck then walks the bodies, builds the scopes of functions and     *)
(* blocks, gives every local its slot (funcIndex) and annotates the tree   *)
(* for the code generator.                                                 *)
(***************************************************************************)
EXTENDS CompilationUnit, FiniteSets

CONSTANT Garbage     \* what an int in fresh arena memory may contain

ASSUME GarbageAssumption == Garbage \subseteq Int /\ Garbage # {}

(* Types are equal by name, a pointer by its operand, a function type by   *)
(* its address; NULL stands for "unknown" and is equal to everything.      *)
typeEquals(t1, t2) == t1 = t2 \/ NoType \in {t1, t2}

getCategory(op) ==
  CASE op \in {"+", "-", "*", "/", "%"} -> "ARITHMETIC"
    [] op \in {"<", ">", "<=", ">=", "==", "!="} -> "COMPARISON"
    [] op \in {"&", "|"} -> "BITWISE"
    [] op = "=" -> "ASSIGNMENT"
    [] OTHER -> "ACCESS"

Mismatch(n) ==
  ast[n].type # NoType /\ ~ typeEquals(ast[n].type, typeOf[Kid(n, 1)])

NewSymbol(name, type, funcIndex, origin, decl) ==
  [name |-> name, type |-> type, funcIndex |-> funcIndex, origin |-> origin,
   decl |-> decl]

Declared(s, name) == scopeLookupCurrent(scopes, s, name) # {}

(* A case that only makes recursive calls.                                 *)
Visit(tasks) == Call(tasks) /\ UNCHANGED <<phase, diagnostics, scopes, annotations>>

-----------------------------------------------------------------------------
(* resolveNode, by the kind of the declaration.                            *)

resolveLet ==
  /\ RunningOn("resolveNode", "DECL_VAR")
  /\ ast[Top.n].op # "const"
  /\ errors' = Report(errors, Static("Cannot have let bindings at the global scope"))
  /\ Return
  /\ UNCHANGED <<phase, warnings, scopes, annotations>>

resolveConst ==
  /\ RunningOn("resolveNode", "DECL_VAR")
  /\ ast[Top.n].op = "const"
  /\ Visit(<<Task("typecheckExpr", Kid(Top.n, 1), Top.s),
             Task("addConst", Top.n, Top.s)>>)

(* The symbol gets the declared type, which is NULL when there is none.    *)
addConst ==
  /\ Running("addConst")
  /\ LET n == Top.n
         mismatch == ReportIf(Mismatch(n), errors,
                        "Specified type does not match type of initial")
     IN  /\ errors' = ReportIf(Declared(Top.s, ast[n].name), mismatch,
                               "Redefinition of symbol")
         /\ \E garbage \in Garbage :
              scopes' = scopeAddSymbol(scopes, Top.s,
                NewSymbol(ast[n].name, ast[n].type, garbage, "global", n))
  /\ Return
  /\ UNCHANGED <<phase, warnings, annotations>>

resolveFunc ==
  /\ RunningOn("resolveNode", "DECL_FUNC")
  /\ LET n == Top.n
     IN  /\ errors' = ReportIf(Declared(Top.s, ast[n].name), errors,
                               "Redefinition of symbol")
         /\ \E garbage \in Garbage :
              scopes' = scopeAddSymbol(scopes, Top.s,
                NewSymbol(ast[n].name, FuncType(n), garbage, "global", n))
  /\ Return
  /\ UNCHANGED <<phase, warnings, annotations>>

-----------------------------------------------------------------------------
(* typecheckStmt, with typecheckVarDec and typecheckFuncDec.               *)

typecheckLocal ==
  /\ RunningOn("typecheckStmt", "DECL_VAR")
  /\ ast[Top.n].op # "const"
  /\ Visit(<<Task("typecheckExpr", Kid(Top.n, 1), Top.s),
             Task("addLocal", Top.n, Top.s)>>)

(* A const below the top is refused in the scope of a function body only,  *)
(* and its initial is not looked at.                                       *)
typecheckConst ==
  /\ RunningOn("typecheckStmt", "DECL_VAR")
  /\ ast[Top.n].op = "const"
  /\ errors' = ReportIf(scopes[Top.s].isFuncScope, errors,
                        "Cannot have a const binding in a function body")
  /\ Return
  /\ UNCHANGED <<phase, warnings, scopes, annotations>>

(* A slot is taken by a declaration that was added, and by no other.       *)
TakeSlot(n, s) ==
  LET slot == scopes[s].funcIndex
      added == scopeAddSymbol(scopes, s,
                 NewSymbol(ast[n].name, typeOf[Kid(n, 1)], slot, "let", n))
  IN  [added EXCEPT ![s].funcIndex = slot + 1]

addLocal ==
  /\ Running("addLocal")
  /\ LET n == Top.n
         mismatch == ReportIf(Mismatch(n), errors,
                        "Specified type does not match type of initial")
     IN  IF Declared(Top.s, ast[n].name)
         THEN /\ errors' = Report(mismatch, Static("Redefinition of variable"))
              /\ UNCHANGED scopes
         ELSE /\ errors' = mismatch
              /\ scopes' = TakeSlot(n, Top.s)
  /\ Return
  /\ UNCHANGED <<phase, warnings, annotations>>

(* The parameters get symbols but no slots; one whose name is taken is     *)
(* dropped without a word.                                                 *)
ParameterScope(n, funcScope, garbage) ==
  LET params == ast[n].params
      fresh == {i \in DOMAIN params :
                  \A j \in 1..(i - 1) : params[j].name # params[i].name}
      kth(k) == params[CHOOSE i \in fresh : Cardinality({j \in fresh : j <= i}) = k]
  IN  [funcScope EXCEPT
        !.isFuncScope = TRUE,
        !.symbols = [k \in 1..Cardinality(fresh) |->
                       NewSymbol(kth(k).name, kth(k).type, garbage, "param", n)]]

typecheckFuncDec ==
  /\ RunningOn("typecheckStmt", "DECL_FUNC")
  /\ LET n == Top.n
         funcScope == Len(scopes) + 1
     IN  IF scopes[Top.s].isFuncScope
         THEN /\ errors' = Report(errors,
                   Static("Cannot have a func declaration in a function body"))
              /\ Return
              /\ UNCHANGED <<scopes, scopeOf>>
         ELSE /\ \E garbage \in Garbage :
                   scopes' = Append(scopes,
                     ParameterScope(n, initScope(scopes, Top.s), garbage))
              /\ scopeOf' = [scopeOf EXCEPT ![n] = funcScope]
              /\ Call(ForEach("typecheckStmt", ast[n].kids, funcScope))
              /\ UNCHANGED errors
  /\ UNCHANGED <<phase, warnings, unused, typeOf, bound>>

typecheckExprStmt ==
  /\ Running("typecheckStmt")
  /\ ast[Top.n].kind \in ExprKinds
  /\ Visit(<<Task("typecheckExpr", Top.n, Top.s), Task("stmtEnd", Top.n, Top.s)>>)

stmtEnd ==
  /\ Running("stmtEnd")
  /\ LET leaves == typeOf[Top.n] # NoType
     IN  /\ warnings' = ReportIf(leaves, warnings, "Unused result of expression")
         /\ unused' = [unused EXCEPT ![Top.n] = leaves]
  /\ Return
  /\ UNCHANGED <<phase, errors, scopes, scopeOf, typeOf, bound>>

-----------------------------------------------------------------------------
(* typecheckExpr.  A node is checked at most once and typeOf starts as     *)
(* NULL, so the paths that return NULL leave it alone.                     *)

Expr(kind) == RunningOn("typecheckExpr", kind)

(* The two ways a case ends: "return type;", and an error with NULL.       *)
Yields(type) == typeOf' = [typeOf EXCEPT ![Top.n] = type] /\ UNCHANGED errors
Fails(text) == errors' = Report(errors, Static(text)) /\ UNCHANGED typeOf
Checked == Return /\ UNCHANGED <<phase, warnings, scopes, scopeOf, unused>>

typecheckLiteral ==
  /\ Expr("LITERAL")
  /\ Yields(Named(IF ast[Top.n].op = "INT" THEN "i32" ELSE "bool"))
  /\ Checked
  /\ UNCHANGED bound

typecheckIdent ==
  /\ Expr("IDENT")
  /\ LET symbol == scopeLookup(scopes, Top.s, ast[Top.n].name)
     IN  IF symbol = NullSymbol
         THEN Fails("Use of undeclared identifier") /\ UNCHANGED bound
         ELSE /\ Yields(SymbolAt(scopes, symbol).type)
              /\ bound' = [bound EXCEPT ![Top.n] = symbol]
  /\ Checked

typecheckBinop ==
  /\ Expr("BINOP")
  /\ Visit(ForEach("typecheckExpr", ast[Top.n].kids, Top.s)
             \o <<Task("binopEnd", Top.n, Top.s)>>)

binopEnd ==
  /\ Running("binopEnd")
  /\ LET n == Top.n
         lhsType == typeOf[Kid(n, 1)]
         category == getCategory(ast[n].op)
         mismatch == ~ typeEquals(lhsType, typeOf[Kid(n, 2)])
     IN  \/ /\ category \in {"ARITHMETIC", "COMPARISON"} /\ mismatch
            /\ Fails("Operand types mismatch")
         \/ category = "ARITHMETIC" /\ ~ mismatch /\ Yields(lhsType)
         \/ category = "COMPARISON" /\ ~ mismatch /\ Yields(Named("bool"))
         \/ category = "ASSIGNMENT" /\ Fails("Unknown binop category")
         \/ category \in {"ACCESS", "BITWISE"} /\ UNCHANGED <<errors, typeOf>>
  /\ Checked
  /\ UNCHANGED bound

typecheckUnop ==
  /\ Expr("UNOP")
  /\ Visit(<<Task("typecheckExpr", Kid(Top.n, 1), Top.s),
             Task("unopEnd", Top.n, Top.s)>>)

(* The case of a '*' is left out: no prefix operator of the parser is one. *)
unopEnd ==
  /\ Running("unopEnd")
  /\ LET op == ast[Top.n].op
         operandType == typeOf[Kid(Top.n, 1)]
         wanted == Named(IF op = "!" THEN "bool" ELSE "i32")
         wrong == ~ typeEquals(operandType, wanted)
     IN  \/ op \in {"+", "-", "!"} /\ ~ wrong /\ Yields(operandType)
         \/ op \in {"+", "-"} /\ wrong /\ Fails("Expected an integer")
         \/ op = "!" /\ wrong /\ Fails("Expected a boolean")
         \/ op \notin {"+", "-", "!"} /\ Fails("Unknown unary operator")
  /\ Checked
  /\ UNCHANGED bound

typecheckIf ==
  /\ Expr("IF")
  /\ Visit(<<Task("typecheckExpr", Kid(Top.n, 1), Top.s),
             Task("ifTrue", Top.n, Top.s)>>)

ifTrue ==
  /\ Running("ifTrue")
  /\ errors' = ReportIf(typeOf[Kid(Top.n, 1)] # Named("bool"), errors, "Not a boolean")
  /\ Call(<<Task("typecheckExpr", Kid(Top.n, 2), Top.s),
            Task("ifFalse", Top.n, Top.s)>>)
  /\ UNCHANGED <<phase, warnings, scopes, annotations>>

ifFalse ==
  /\ Running("ifFalse")
  /\ IF Len(ast[Top.n].kids) = 2
     THEN /\ errors' = ReportIf(typeOf[Kid(Top.n, 2)] # NoType, errors,
                                "If expression must have an else clause")
          /\ Return
     ELSE /\ Call(<<Task("typecheckExpr", Kid(Top.n, 3), Top.s),
                    Task("ifEnd", Top.n, Top.s)>>)
          /\ UNCHANGED errors
  /\ UNCHANGED <<phase, warnings, scopes, annotations>>

ifEnd ==
  /\ Running("ifEnd")
  /\ LET trueType == typeOf[Kid(Top.n, 2)]
     IN  IF typeEquals(trueType, typeOf[Kid(Top.n, 3)])
         THEN Yields(trueType)
         ELSE Fails("Return types of true and false branches do not match")
  /\ Checked
  /\ UNCHANGED bound

typecheckBlock ==
  /\ Expr("BLOCK")
  /\ scopes' = Append(scopes, initScope(scopes, Top.s))
  /\ scopeOf' = [scopeOf EXCEPT ![Top.n] = Len(scopes) + 1]
  /\ Call(ForEach("typecheckStmt", ast[Top.n].kids, Len(scopes) + 1))
  /\ UNCHANGED <<phase, diagnostics, unused, typeOf, bound>>

typecheckCall ==
  /\ Expr("CALL")
  /\ Visit(<<Task("typecheckExpr", Kid(Top.n, 1), Top.s),
             TaskAt("argument", Top.n, Top.s, 1)>>)

(* Where a call has been checked up to argument "at"-1: the callee when    *)
(* "at" is 1, then one argument after the other.                           *)
Callee(n) == typeOf[Kid(n, 1)]
Params(n) == ast[Callee(n).decl].params
ArgsCount(n) == Len(ast[n].kids) - 1

refusedCall ==
  /\ Running("argument")
  /\ Top.at = 1
  /\ LET n == Top.n
     IN  \/ /\ Callee(n) = NoType
            /\ UNCHANGED errors
         \/ /\ Callee(n) # NoType
            /\ Callee(n).kind # "TYPE_FUNC"
            /\ errors' = Report(errors, Static("Cannot call on a non-function value"))
         \/ /\ Callee(n).kind = "TYPE_FUNC"
            /\ Len(Params(n)) # ArgsCount(n)
            /\ errors' = Report(errors, Static("Unexpected number of arguments"))
  /\ Return
  /\ UNCHANGED <<phase, warnings, scopes, annotations>>

ArgumentMismatch(n, i) ==
  i > 0 /\ ~ typeEquals(typeOf[Kid(n, i + 1)], Params(n)[i].type)

argument ==
  /\ Running("argument")
  /\ Callee(Top.n).kind = "TYPE_FUNC"
  /\ Len(Params(Top.n)) = ArgsCount(Top.n)
  /\ Top.at <= ArgsCount(Top.n)
  /\ errors' = ReportIf(ArgumentMismatch(Top.n, Top.at - 1), errors, "Type mismatch")
  /\ Call(<<Task("typecheckExpr", Kid(Top.n, Top.at + 1), Top.s),
            TaskAt("argument", Top.n, Top.s, Top.at + 1)>>)
  /\ UNCHANGED <<phase, warnings, scopes, annotations>>

callEnd ==
  /\ Running("argument")
  /\ LET n == Top.n
     IN  /\ Callee(n).kind = "TYPE_FUNC"
         /\ Len(Params(n)) = ArgsCount(n)
         /\ Top.at > ArgsCount(n)
         /\ errors' = ReportIf(ArgumentMismatch(n, Top.at - 1), errors, "Type mismatch")
         /\ typeOf' = [typeOf EXCEPT ![n] = ast[Callee(n).decl].type]
  /\ Return
  /\ UNCHANGED <<phase, warnings, scopes, scopeOf, unused, bound>>

typecheckExit ==
  /\ Expr("EXIT")
  /\ Visit(<<Task("typecheckExpr", Kid(Top.n, 1), Top.s)>>)

(* The default case reports and then runs off the end of the function: the *)
(* caller gets whatever the register holds.                                *)
typecheckDefault ==
  /\ Expr("TUPLE")
  /\ errors' = Report(errors, Static("cannot typecheck"))
  /\ \/ /\ \E wild \in {NoType, WildType} : typeOf' = [typeOf EXCEPT ![Top.n] = wild]
        /\ Return
        /\ UNCHANGED phase
     \/ /\ Crash
        /\ UNCHANGED typeOf
  /\ UNCHANGED <<warnings, scopes, scopeOf, unused, bound>>

-----------------------------------------------------------------------------
resolveNode == resolveLet \/ resolveConst \/ addConst \/ resolveFunc

typecheckStmt ==
  \/ typecheckLocal \/ typecheckConst \/ addLocal
  \/ typecheckFuncDec
  \/ typecheckExprStmt \/ stmtEnd

typecheckExpr ==
  \/ typecheckLiteral \/ typecheckIdent
  \/ typecheckBinop \/ binopEnd
  \/ typecheckUnop \/ unopEnd
  \/ typecheckIf \/ ifTrue \/ ifFalse \/ ifEnd
  \/ typecheckBlock
  \/ typecheckCall \/ refusedCall \/ argument \/ callEnd
  \/ typecheckExit
  \/ typecheckDefault

(* A step of resolveNames or typeCheck.                                    *)
AnalysisStep == (resolveNode \/ typecheckStmt \/ typecheckExpr) /\ UNCHANGED ast
=============================================================================
