---------------------------- MODULE CompilerProofs ----------------------------
(***************************************************************************)
(* Proofs about the compiler, for every set of well-formed programs and    *)
(* every parser outcome: the buffers of diagnostics never overflow, the    *)
(* messages printed after arenaDestroy are not in the arena, and every     *)
(* pass keeps the tree, the scopes, the annotations, the pending calls and *)
(* the code in the form the other passes rely on.                          *)
(***************************************************************************)
EXTENDS CompilerProperties, FiniteSetTheorems, WellFoundedInduction, SequenceTheorems, TLAPS

-----------------------------------------------------------------------------
(* A buffer that fits and whose messages are all string literals.          *)
Clean(buffer) ==
  /\ buffer \in Seq(Message)
  /\ Len(buffer) <= MaxErrors
  /\ \A i \in DOMAIN buffer : buffer[i].owner = "static"

(* Reporting a string literal keeps a buffer clean, full or not.           *)
LEMMA ReportClean ==
  ASSUME NEW buffer, Clean(buffer), NEW text \in Texts
  PROVE  Clean(Report(buffer, Static(text)))
<1> DEFINE message == Static(text)
<1>1. message \in Message /\ message.owner = "static"
  BY DEF Static, Message
<1> HIDE DEF message
<1>2. Clean(Report(buffer, message))
  <2>1. CASE Len(buffer) >= MaxErrors
    BY <2>1 DEF Report
  <2>2. CASE ~ (Len(buffer) >= MaxErrors)
    <3>1. Report(buffer, message) = Append(buffer, message)
      BY <2>2 DEF Report
    <3>2. /\ Append(buffer, message) \in Seq(Message)
          /\ Len(Append(buffer, message)) = Len(buffer) + 1
      BY <1>1 DEF Clean
    <3>3. ASSUME NEW i \in DOMAIN Append(buffer, message)
          PROVE  Append(buffer, message)[i].owner = "static"
      BY <1>1 DEF Clean
    <3>4. Len(buffer) + 1 <= MaxErrors
      BY <2>2, MaxErrorsAssumption DEF Clean
    <3>5. Clean(Append(buffer, message))
      BY <3>2, <3>3, <3>4 DEF Clean
    <3> QED BY <3>1, <3>5
  <2> QED BY <2>1, <2>2
<1> QED BY <1>2 DEF message

LEMMA ReportIfClean ==
  ASSUME NEW buffer, Clean(buffer), NEW text \in Texts, NEW condition
  PROVE  Clean(ReportIf(condition, buffer, text))
BY ReportClean DEF ReportIf

CleanBuffers == Clean(errors) /\ Clean(warnings)

(* What most steps do with the buffers: leave both alone, or one.          *)
LEMMA NothingReported ==
  ASSUME CleanBuffers, UNCHANGED diagnostics
  PROVE  CleanBuffers'
BY DEF CleanBuffers, Clean, diagnostics

LEMMA ErrorReported ==
  ASSUME CleanBuffers, Clean(errors'), UNCHANGED warnings
  PROVE  CleanBuffers'
BY DEF CleanBuffers, Clean

-----------------------------------------------------------------------------
(* The checker reports nothing but string literals, and either goes on or  *)
(* crashes.                                                                *)

LEMMA ResolveNodeClean ==
  ASSUME CleanBuffers, resolveNode
  PROVE  CleanBuffers' /\ phase' = phase
<1> USE DEF CleanBuffers, Texts, CheckerTexts, Visit
<1>1. CASE resolveLet
  <2>1. Clean(errors')
    BY <1>1, ReportClean DEF resolveLet
  <2> QED BY <1>1, <2>1, ErrorReported DEF resolveLet
<1>2. CASE resolveConst
  BY <1>2, NothingReported DEF resolveConst
<1>3. CASE addConst
  <2> DEFINE mismatch == ReportIf(Mismatch(Top.n), errors,
                                  "Specified type does not match type of initial")
  <2>1. Clean(mismatch)
    BY ReportIfClean
  <2>2. errors' = ReportIf(Declared(Top.s, ast[Top.n].name), mismatch,
                           "Redefinition of symbol")
    BY <1>3 DEF addConst
  <2>3. Clean(errors')
    <3> HIDE DEF mismatch
    <3> QED BY <2>1, <2>2, ReportIfClean
  <2> QED BY <1>3, <2>3, ErrorReported DEF addConst
<1>4. CASE resolveFunc
  <2>1. Clean(errors')
    BY <1>4, ReportIfClean DEF resolveFunc
  <2> QED BY <1>4, <2>1, ErrorReported DEF resolveFunc
<1> QED BY <1>1, <1>2, <1>3, <1>4 DEF resolveNode

LEMMA TypecheckStmtClean ==
  ASSUME CleanBuffers, typecheckStmt
  PROVE  CleanBuffers' /\ phase' = phase
<1> USE DEF CleanBuffers, Texts, CheckerTexts, Visit
<1>1. CASE typecheckLocal
  BY <1>1, NothingReported DEF typecheckLocal
<1>2. CASE typecheckConst
  <2>1. Clean(errors')
    BY <1>2, ReportIfClean DEF typecheckConst
  <2> QED BY <1>2, <2>1, ErrorReported DEF typecheckConst
<1>3. CASE addLocal
  <2> DEFINE mismatch == ReportIf(Mismatch(Top.n), errors,
                                  "Specified type does not match type of initial")
  <2>1. Clean(mismatch)
    BY ReportIfClean
  <2>2. errors' \in {mismatch, Report(mismatch, Static("Redefinition of variable"))}
    BY <1>3 DEF addLocal
  <2>3. Clean(errors')
    <3> HIDE DEF mismatch
    <3> QED BY <2>1, <2>2, ReportClean
  <2> QED BY <1>3, <2>3, ErrorReported DEF addLocal
<1>4. CASE typecheckFuncDec
  <2>1. errors' \in {errors, Report(errors,
                       Static("Cannot have a func declaration in a function body"))}
    BY <1>4 DEF typecheckFuncDec
  <2>2. Clean(errors')
    BY <2>1, ReportClean
  <2> QED BY <1>4, <2>2, ErrorReported DEF typecheckFuncDec
<1>5. CASE typecheckExprStmt
  BY <1>5, NothingReported DEF typecheckExprStmt
<1>6. CASE stmtEnd
  <2>1. Clean(warnings')
    BY <1>6, ReportIfClean DEF stmtEnd
  <2>2. phase' = phase /\ errors' = errors
    BY <1>6 DEF stmtEnd
  <2> QED BY <2>1, <2>2 DEF Clean
<1> QED BY <1>1, <1>2, <1>3, <1>4, <1>5, <1>6 DEF typecheckStmt

(* The steps of typecheckExpr come in three sorts: silent ones, ones that  *)
(* report at most one error, and the default case, which may crash.        *)
LEMMA TypecheckExprClean ==
  ASSUME CleanBuffers, typecheckExpr
  PROVE  CleanBuffers' /\ phase' \in {phase, "crashed"}
<1> USE DEF CleanBuffers, Texts, CheckerTexts, Visit, Yields, Fails, Checked
<1>1. CASE \/ typecheckLiteral \/ typecheckBinop \/ typecheckUnop \/ typecheckIf
           \/ typecheckBlock \/ typecheckCall \/ typecheckExit
  BY <1>1, NothingReported
     DEF typecheckLiteral, typecheckBinop, typecheckUnop, typecheckIf,
         typecheckBlock, typecheckCall, typecheckExit
<1>2. CASE \/ typecheckIdent \/ binopEnd \/ unopEnd \/ ifTrue \/ ifFalse \/ ifEnd
           \/ refusedCall \/ argument \/ callEnd
  <2>1. CASE typecheckIdent
    <3>1. Clean(errors')
      BY <2>1, ReportClean DEF typecheckIdent
    <3> QED BY <2>1, <3>1, ErrorReported DEF typecheckIdent
  <2>2. CASE binopEnd
    <3>1. errors' \in {errors, Report(errors, Static("Operand types mismatch")),
                       Report(errors, Static("Unknown binop category"))}
      BY <2>2 DEF binopEnd, getCategory
    <3>2. Clean(errors')
      BY <3>1, ReportClean
    <3> QED BY <2>2, <3>2, ErrorReported DEF binopEnd
  <2>3. CASE unopEnd
    <3>1. errors' \in {errors, Report(errors, Static("Expected an integer")),
                       Report(errors, Static("Expected a boolean")),
                       Report(errors, Static("Unknown unary operator"))}
      BY <2>3 DEF unopEnd
    <3>2. Clean(errors')
      BY <3>1, ReportClean
    <3> QED BY <2>3, <3>2, ErrorReported DEF unopEnd
  <2>4. CASE ifTrue
    <3>1. Clean(errors')
      BY <2>4, ReportIfClean DEF ifTrue
    <3> QED BY <2>4, <3>1, ErrorReported DEF ifTrue
  <2>5. CASE ifFalse
    <3>1. Clean(errors')
      BY <2>5, ReportIfClean DEF ifFalse
    <3> QED BY <2>5, <3>1, ErrorReported DEF ifFalse
  <2>6. CASE ifEnd
    <3>1. errors' \in {errors, Report(errors,
                       Static("Return types of true and false branches do not match"))}
      BY <2>6 DEF ifEnd
    <3>2. Clean(errors')
      BY <3>1, ReportClean
    <3> QED BY <2>6, <3>2, ErrorReported DEF ifEnd
  <2>7. CASE refusedCall
    <3>1. errors' \in {errors, Report(errors, Static("Cannot call on a non-function value")),
                       Report(errors, Static("Unexpected number of arguments"))}
      BY <2>7 DEF refusedCall
    <3>2. Clean(errors')
      BY <3>1, ReportClean
    <3> QED BY <2>7, <3>2, ErrorReported DEF refusedCall
  <2>8. CASE argument
    <3>1. Clean(errors')
      BY <2>8, ReportIfClean DEF argument
    <3> QED BY <2>8, <3>1, ErrorReported DEF argument
  <2>9. CASE callEnd
    <3>1. Clean(errors')
      BY <2>9, ReportIfClean DEF callEnd
    <3> QED BY <2>9, <3>1, ErrorReported DEF callEnd
  <2> QED BY <1>2, <2>1, <2>2, <2>3, <2>4, <2>5, <2>6, <2>7, <2>8, <2>9
<1>3. CASE typecheckDefault
  <2>1. Clean(errors')
    BY <1>3, ReportClean DEF typecheckDefault
  <2>2. UNCHANGED warnings /\ phase' \in {phase, "crashed"}
    BY <1>3 DEF typecheckDefault, Crash
  <2> QED BY <2>1, <2>2, ErrorReported
<1> QED BY <1>1, <1>2, <1>3 DEF typecheckExpr

LEMMA AnalysisStepClean ==
  ASSUME CleanBuffers, AnalysisStep
  PROVE  CleanBuffers' /\ phase' \in {phase, "crashed"}
BY ResolveNodeClean, TypecheckStmtClean, TypecheckExprClean DEF AnalysisStep

-----------------------------------------------------------------------------
(* The generator too reports only string literals.                         *)
LEMMA CodegenStepClean ==
  ASSUME CleanBuffers, CodegenStep
  PROVE  CleanBuffers' /\ phase' \in {phase, "crashed"}
<1> USE DEF CleanBuffers, Texts, GeneratorTexts, Expand, Written
<1>1. CASE genStmt
  BY <1>1, NothingReported
     DEF genStmt, genFunc, genVar, genExprStmt, popUnused, emitReturn, endScope, Crash
<1>2. CASE \/ genLiteral \/ genIdent \/ genBinop \/ genBlock \/ genIf \/ elseJump
           \/ outJump \/ patchOut \/ genExit \/ patchEntry
  BY <1>2, NothingReported
     DEF genLiteral, genIdent, genBinop, genBlock, genIf, elseJump, outJump,
         patchOut, genExit, patchEntry, Crash
<1>3. CASE operator
  <2>1. Clean(errors')
    BY <1>3, ReportClean DEF operator
  <2> QED BY <1>3, <2>1, ErrorReported DEF operator
<1>4. CASE genDefault
  <2>1. Clean(errors')
    BY <1>4, ReportClean DEF genDefault
  <2> QED BY <1>4, <2>1, ErrorReported DEF genDefault
<1> QED BY <1>1, <1>2, <1>3, <1>4 DEF CodegenStep, genExpression

-----------------------------------------------------------------------------
(* The inductive invariant.  That no message dangles needs to know that    *)
(* from the analysis on, which a program with syntax errors does not       *)
(* reach, the messages are string literals, and that the arena is alive    *)
(* wherever a message of the parser can still be printed.                  *)

Bounded(buffer) == buffer \in Seq(Message) /\ Len(buffer) <= MaxErrors

BuffersBounded == Bounded(errors) /\ Bounded(warnings)

WarningsStatic == Clean(warnings)

ErrorsStatic ==
  /\ phase = "parse" => errors = <<>>
  /\ phase \in {"analyse", "generate", "print"} => Clean(errors)

ArenaAlive == phase \in {"parse", "parsed", "analyse", "generate"} => arena = "live"

MessageInv ==
  /\ BuffersBounded
  /\ WarningsStatic
  /\ ErrorsStatic
  /\ ArenaAlive
  /\ NoDanglingMessage

LEMMA EmptyClean == Clean(<<>>) /\ Bounded(<<>>)
BY MaxErrorsAssumption DEF Clean, Bounded

LEMMA CleanBounded == CleanBuffers => BuffersBounded /\ WarningsStatic
BY DEF CleanBuffers, Clean, BuffersBounded, Bounded, WarningsStatic

(* No message of two clean buffers is in the arena.                        *)
LEMMA CleanOwned == CleanBuffers => ~ ArenaOwned(warnings \o errors)
<1> SUFFICES ASSUME CleanBuffers, NEW i \in DOMAIN (warnings \o errors)
             PROVE  (warnings \o errors)[i].owner # "arena"
  BY DEF ArenaOwned
<1>1. warnings \in Seq(Message) /\ errors \in Seq(Message)
  BY DEF CleanBuffers, Clean
<1>2. CASE i <= Len(warnings)
  <2>1. (warnings \o errors)[i] = warnings[i] /\ i \in DOMAIN warnings
    BY <1>1, <1>2
  <2> QED BY <2>1 DEF CleanBuffers, Clean
<1>3. CASE i > Len(warnings)
  <2>1. /\ (warnings \o errors)[i] = errors[i - Len(warnings)]
        /\ i - Len(warnings) \in DOMAIN errors
    BY <1>1, <1>3
  <2> QED BY <2>1 DEF CleanBuffers, Clean
<1> QED BY <1>1, <1>2, <1>3

LEMMA MessageInit == Init => MessageInv
BY EmptyClean
   DEF Init, MessageInv, BuffersBounded, WarningsStatic, ErrorsStatic, ArenaAlive,
       NoDanglingMessage

(* A step inside the analysis or the generation, which leaves the driver's *)
(* variables alone.                                                        *)
LEMMA MessagePassStep ==
  ASSUME MessageInv, phase \in {"analyse", "generate"},
         CleanBuffers => CleanBuffers' /\ phase' \in {phase, "crashed"},
         UNCHANGED driverVars
  PROVE  MessageInv'
<1>1. CleanBuffers
  BY DEF MessageInv, WarningsStatic, ErrorsStatic, CleanBuffers
<1>2. CleanBuffers' /\ phase' \in {phase, "crashed"}
  BY <1>1
<1>3. BuffersBounded' /\ WarningsStatic' /\ Clean(errors)'
  BY <1>2 DEF CleanBuffers, Clean, BuffersBounded, Bounded, WarningsStatic
<1>4. arena' = arena /\ dangling' = dangling
  BY DEF driverVars
<1> QED BY <1>2, <1>3, <1>4
        DEF MessageInv, ErrorsStatic, ArenaAlive, NoDanglingMessage

(* A step after the passes: it leaves the buffers alone.                   *)
LEMMA MessageQuietStep ==
  ASSUME MessageInv, UNCHANGED diagnostics, ~ dangling',
         phase' \in {"returned", "disassemble", "done"}
  PROVE  MessageInv'
BY DEF MessageInv, diagnostics, BuffersBounded, Bounded, WarningsStatic, ErrorsStatic,
       Clean, ArenaAlive, NoDanglingMessage

LEMMA MessageStep == MessageInv /\ [Next]_vars => MessageInv'
<1> SUFFICES ASSUME MessageInv, [Next]_vars PROVE MessageInv'
  OBVIOUS
<1> USE DEF diagnostics, driverVars
<1>1. CASE Parse
  <2>1. /\ errors' \in ParserErrors /\ warnings' \in ParserWarnings
        /\ phase' = "parsed" /\ phase = "parse"
        /\ arena' = arena /\ dangling' = dangling
    BY <1>1 DEF Parse
  <2>2. Bounded(errors') /\ Clean(warnings')
    BY <2>1, ParserAssumption DEF Bounded, Clean
  <2> QED BY <2>1, <2>2
          DEF MessageInv, BuffersBounded, Bounded, WarningsStatic, ErrorsStatic, Clean,
              ArenaAlive, NoDanglingMessage
<1>2. ASSUME Reject, phase \in {"parsed", "analyse"} PROVE MessageInv'
  <2>1. arena = "live" /\ ~ dangling
    BY <1>2 DEF MessageInv, ArenaAlive, NoDanglingMessage
  <2>2. ~ dangling' /\ phase' = "returned" /\ UNCHANGED diagnostics
    BY <1>2, <2>1 DEF Reject, printErrors
  <2> QED BY <2>2, MessageQuietStep
<1>3. CASE BeginAnalysis
  BY <1>3, EmptyClean
     DEF BeginAnalysis, MessageInv, BuffersBounded, Bounded, WarningsStatic, ErrorsStatic,
         Clean, ArenaAlive, NoDanglingMessage
<1>4. CASE Analyse
  <2>1. CleanBuffers => CleanBuffers' /\ phase' \in {phase, "crashed"}
    BY <1>4, AnalysisStepClean DEF Analyse
  <2> QED BY <1>4, <2>1, MessagePassStep DEF Analyse
<1>5. CASE BeginCodegen
  BY <1>5
     DEF BeginCodegen, MessageInv, BuffersBounded, Bounded, WarningsStatic, ErrorsStatic,
         Clean, ArenaAlive, NoDanglingMessage
<1>6. CASE Generate
  <2>1. CleanBuffers => CleanBuffers' /\ phase' \in {phase, "crashed"}
    BY <1>6, CodegenStepClean DEF Generate
  <2> QED BY <1>6, <2>1, MessagePassStep DEF Generate
<1>7. CASE DestroyArena
  BY <1>7
     DEF DestroyArena, MessageInv, BuffersBounded, Bounded, WarningsStatic, ErrorsStatic,
         Clean, ArenaAlive, NoDanglingMessage
<1>8. CASE PrintAndReturn
  <2>1. ~ ArenaOwned(warnings \o errors) /\ ~ dangling
    BY <1>8, CleanOwned
       DEF PrintAndReturn, MessageInv, WarningsStatic, ErrorsStatic, CleanBuffers,
           NoDanglingMessage
  <2>2. ~ dangling' /\ phase' = "returned" /\ UNCHANGED diagnostics
    BY <1>8, <2>1 DEF PrintAndReturn, printErrors
  <2> QED BY <2>2, MessageQuietStep
<1>9. CASE buildMain
  <2>1. UNCHANGED diagnostics /\ ~ dangling' /\ phase' \in {"disassemble", "done"}
    BY <1>9 DEF buildMain, ExitWithError, BeginDisassembly, disassembleInstruction,
                EndDisassembly, MessageInv, NoDanglingMessage
  <2> QED BY <2>1, MessageQuietStep
<1>10. CASE UNCHANGED vars
  BY <1>10
     DEF vars, MessageInv, BuffersBounded, Bounded, WarningsStatic, ErrorsStatic, Clean,
         ArenaAlive, NoDanglingMessage
<1> QED BY <1>1, <1>2, <1>3, <1>4, <1>5, <1>6, <1>7, <1>8, <1>9, <1>10
        DEF Next, compile, RejectSyntax, RejectSemantics, Finished

(* printErrors never reads a message that arenaDestroy has released,       *)
(* although compile() destroys the arena before its last printErrors.      *)
THEOREM MessagesOutliveTheArena == Spec => []NoDanglingMessage
<1>1. MessageInv => NoDanglingMessage
  BY DEF MessageInv
<1> QED BY MessageInit, MessageStep, <1>1, PTL DEF Spec

(* However much is reported, neither buffer of MAX_ERRORS entries is       *)
(* overrun (error, warn).                                                  *)
THEOREM BuffersNeverOverrun == Spec => []BuffersBounded
<1>1. MessageInv => BuffersBounded
  BY DEF MessageInv
<1> QED BY MessageInit, MessageStep, <1>1, PTL DEF Spec

-----------------------------------------------------------------------------
(* The ends of bounded sets of numbers.                                    *)

LEMMA LeastNatural ==
  ASSUME NEW T, T \subseteq Nat, T # {}
  PROVE  \E x \in T : \A y \in T : x <= y
<1> DEFINE R == {ss \in Nat \X Nat : ss[1] < ss[2]}
<1>1. IsWellFoundedOn(R, Nat)
  BY NatLessThanWellFounded DEF OpToRel
<1>2. PICK x \in T : \A y \in T : ~ (<<y, x>> \in R)
  <2> HIDE DEF R
  <2> QED BY <1>1, WFMin
<1>3. ASSUME NEW y \in T
      PROVE  x <= y
  <2>1. ~ (y < x)
    <3>1. <<y, x>> \in Nat \X Nat
      OBVIOUS
    <3> QED BY <1>2, <3>1
  <2>2. x \in Nat /\ y \in Nat
    OBVIOUS
  <2> QED BY <2>1, <2>2
<1> QED BY <1>3

LEMMA GreatestNatural ==
  ASSUME NEW T, NEW n \in Nat, T \subseteq 0..n, T # {}
  PROVE  \E x \in T : \A y \in T : y <= x
<1> DEFINE D == {d \in 0..n : n - d \in T}
<1>1. D \subseteq Nat
  OBVIOUS
<1>2. D # {}
  <2>1. PICK x \in T : TRUE
    OBVIOUS
  <2>2. n - x \in 0..n /\ n - (n - x) = x
    BY <2>1
  <2>3. n - x \in D
    BY <2>1, <2>2
  <2> QED BY <2>3
<1>3. PICK d \in D : \A e \in D : d <= e
  <2> HIDE DEF D
  <2> QED BY <1>1, <1>2, LeastNatural
<1>4. ASSUME NEW y \in T
      PROVE  n - y \in D /\ y \in 0..n
  <2>1. n - y \in 0..n /\ n - (n - y) = y
    OBVIOUS
  <2> QED BY <2>1
<1>5. d \in 0..n /\ n - d \in T
  OBVIOUS
<1> HIDE DEF D
<1>6. \A y \in T : y <= n - d
  BY <1>3, <1>4, <1>5
<1> QED BY <1>5, <1>6

-----------------------------------------------------------------------------
(* Types and scopes.                                                       *)

(* A function type belongs to a node of the tree.                          *)
Fine(type) == type \in Type /\ (type.kind = "TYPE_FUNC" => type.decl \in DOMAIN ast)

FineScope(scope) ==
  scope \in Scope /\ \A i \in DOMAIN scope.symbols : Fine(scope.symbols[i].type)

(* A chain leads to scopes that are older.                                 *)
FineScopes(ss) ==
  /\ ss \in Seq(Scope)
  /\ \A s \in DOMAIN ss : FineScope(ss[s]) /\ ss[s].chain \subseteq 1..s

LEMMA WrittenFine ==
  ASSUME NEW type \in WrittenType
  PROVE  Fine(type)
BY DEF WrittenType, Fine

LEMMA NoTypeFine == NoType \in WrittenType /\ Fine(NoType) /\ Fine(WildType)
<1>1. NoType \in Type /\ WildType \in Type
  BY NamesAssumption DEF NoType, WildType, Type
<1>2. NoType.kind = "NULL" /\ WildType.kind = "WILD"
  BY DEF NoType, WildType
<1> QED BY <1>1, <1>2 DEF WrittenType, Fine

LEMMA NamedFine ==
  ASSUME NEW name \in Names
  PROVE  Fine(Named(name))
BY DEF Named, Type, Fine

LEMMA FuncTypeFine ==
  ASSUME ast \in Seq(Node), NEW n \in DOMAIN ast
  PROVE  Fine(FuncType(n))
<1>1. n \in Nat
  OBVIOUS
<1>2. FuncType(n) \in Type /\ FuncType(n).decl = n
  BY <1>1, NamesAssumption DEF FuncType, Type
<1> QED BY <1>2 DEF Fine

(* A symbol that is found is in a scope of the chain.                      *)
LEMMA SymbolFound ==
  ASSUME NEW ss, FineScopes(ss), NEW s \in 0..Len(ss), NEW name
  PROVE  LET ref == scopeLookup(ss, s, name)
         IN  \/ ref = NullSymbol
             \/ /\ ref \in [scope : Nat, index : Nat]
                /\ ref.scope \in DOMAIN ss /\ ref.scope \in ss[s].chain
                /\ ref.index \in DOMAIN ss[ref.scope].symbols
                /\ ss[ref.scope].symbols[ref.index].name = name
<1> DEFINE owners == IF s = 0 THEN {}
                     ELSE {c \in ss[s].chain : scopeLookupCurrent(ss, c, name) # {}}
           c == CHOOSE c \in owners : \A d \in owners : d <= c
           found == scopeLookupCurrent(ss, c, name)
           index == CHOOSE i \in found : \A j \in found : i <= j
<1>1. scopeLookup(ss, s, name)
        = IF owners = {} THEN NullSymbol ELSE [scope |-> c, index |-> index]
  BY DEF scopeLookup
<1>2. CASE owners = {}
  <2> HIDE DEF owners, c, index
  <2> QED BY <1>1, <1>2
<1>3. CASE owners # {}
  <2>1. s \in DOMAIN ss /\ owners \subseteq ss[s].chain /\ ss[s].chain \subseteq 1..s
        /\ Len(ss) \in Nat /\ DOMAIN ss = 1..Len(ss)
    BY <1>3 DEF FineScopes
  <2>2. owners \subseteq 0..s /\ s \in Nat
    <3> HIDE DEF owners
    <3>1. s \in Nat /\ 1..s \subseteq 0..s
      BY <2>1
    <3> QED BY <2>1, <3>1
  <2>3. c \in owners
    <3>1. \E x \in owners : \A y \in owners : y <= x
      <4> HIDE DEF owners
      <4> QED BY <1>3, <2>2, GreatestNatural
    <3> QED BY <3>1
  <2>4. c \in ss[s].chain /\ c \in DOMAIN ss /\ found # {}
    <3>1. c \in ss[s].chain /\ found # {}
      <4>1. s # 0
        BY <1>3
      <4>2. \A d \in owners : d \in ss[s].chain /\ scopeLookupCurrent(ss, d, name) # {}
        BY <4>1
      <4> HIDE DEF owners, c
      <4> QED BY <2>3, <4>2
    <3>2. c \in 1..s /\ s \in 1..Len(ss)
      BY <2>1, <3>1
    <3> HIDE DEF c
    <3> QED BY <2>1, <3>1, <3>2
  <2>5. found \subseteq Nat /\ found \subseteq DOMAIN ss[c].symbols
        /\ \A i \in found : ss[c].symbols[i].name = name
    <3> HIDE DEF c
    <3>1. ss[c] \in Scope
      BY <2>4 DEF FineScopes, FineScope
    <3>2. ss[c].symbols \in Seq(Symbol)
      BY <3>1 DEF Scope
    <3> QED BY <3>2 DEF scopeLookupCurrent
  <2>6. index \in found
    <3> HIDE DEF found
    <3>1. \E x \in found : \A y \in found : x <= y
      BY <2>4, <2>5, LeastNatural
    <3> QED BY <3>1
  <2> HIDE DEF owners, c, found, index
  <2>7. index \in Nat /\ index \in DOMAIN ss[c].symbols /\ ss[c].symbols[index].name = name
        /\ c \in Nat
    BY <2>1, <2>4, <2>5, <2>6
  <2>8. scopeLookup(ss, s, name) = [scope |-> c, index |-> index]
    BY <1>1, <1>3
  <2> QED BY <2>4, <2>7, <2>8
<1> QED BY <1>2, <1>3

(* The type of a symbol that is found.                                     *)
LEMMA SymbolFoundType ==
  ASSUME NEW ss, FineScopes(ss), NEW s \in 0..Len(ss), NEW name,
         scopeLookup(ss, s, name) # NullSymbol
  PROVE  /\ SymbolAt(ss, scopeLookup(ss, s, name)) \in Symbol
         /\ Fine(SymbolAt(ss, scopeLookup(ss, s, name)).type)
<1> DEFINE ref == scopeLookup(ss, s, name)
<1>1. ref.scope \in DOMAIN ss /\ ref.index \in DOMAIN ss[ref.scope].symbols
  BY SymbolFound
<1> HIDE DEF ref
<1>2. FineScope(ss[ref.scope])
  BY <1>1 DEF FineScopes
<1>3. ss[ref.scope].symbols \in Seq(Symbol)
  BY <1>2 DEF FineScope, Scope
<1>4. SymbolAt(ss, ref) \in Symbol /\ Fine(SymbolAt(ss, ref).type)
  BY <1>1, <1>2, <1>3 DEF FineScope, SymbolAt
<1> QED BY <1>4 DEF ref

(* A new scope below one that exists.                                      *)
LEMMA InitScopeFine ==
  ASSUME NEW ss, FineScopes(ss), NEW parent \in 0..Len(ss)
  PROVE  /\ FineScope(initScope(ss, parent))
         /\ initScope(ss, parent).chain \subseteq 1..(Len(ss) + 1)
<1> DEFINE scope == initScope(ss, parent)
           chain == {Len(ss) + 1} \cup (IF parent = 0 THEN {} ELSE ss[parent].chain)
           funcIndex == IF parent = 0 THEN 0 ELSE ss[parent].funcIndex
<1>1. Len(ss) \in Nat
  BY DEF FineScopes
<1>2. parent # 0 => ss[parent] \in Scope /\ ss[parent].chain \subseteq 1..parent
  BY <1>1 DEF FineScopes, FineScope
<1>3. chain \subseteq 1..(Len(ss) + 1) /\ funcIndex \in Nat
  <2>1. CASE parent = 0
    BY <1>1, <2>1
  <2>2. CASE parent # 0
    <3>1. ss[parent].chain \subseteq 1..(Len(ss) + 1)
      <4>1. 1..parent \subseteq 1..(Len(ss) + 1)
        BY <1>1
      <4> QED BY <1>2, <2>2, <4>1
    <3>2. ss[parent].funcIndex \in Nat
      BY <1>2, <2>2 DEF Scope
    <3> QED BY <1>1, <2>2, <3>1, <3>2
  <2> QED BY <2>1, <2>2
<1>4. scope = [chain |-> chain, isFuncScope |-> FALSE, funcIndex |-> funcIndex,
               symbols |-> <<>>]
  BY DEF initScope
<1> HIDE DEF scope, chain, funcIndex
<1>5. chain \in SUBSET Nat
  <2>1. 1..(Len(ss) + 1) \subseteq Nat
    BY <1>1
  <2> QED BY <1>3, <2>1
<1>6. scope \in Scope
  BY <1>3, <1>4, <1>5 DEF Scope
<1>7. scope.symbols = <<>> /\ scope.chain = chain
  BY <1>4
<1> QED BY <1>3, <1>6, <1>7 DEF FineScope, scope

(* Another scope behind those that exist.                                  *)
LEMMA AppendScopeFine ==
  ASSUME NEW ss, FineScopes(ss), NEW scope, FineScope(scope),
         scope.chain \subseteq 1..(Len(ss) + 1)
  PROVE  FineScopes(Append(ss, scope)) /\ Len(Append(ss, scope)) = Len(ss) + 1
<1>1. ss \in Seq(Scope) /\ scope \in Scope
  BY DEF FineScopes, FineScope
<1>2. /\ Append(ss, scope) \in Seq(Scope) /\ Len(Append(ss, scope)) = Len(ss) + 1
      /\ DOMAIN Append(ss, scope) = 1..(Len(ss) + 1) /\ DOMAIN ss = 1..Len(ss)
      /\ Len(ss) \in Nat
      /\ \A i \in 1..Len(ss) : Append(ss, scope)[i] = ss[i]
      /\ Append(ss, scope)[Len(ss) + 1] = scope
  BY <1>1
<1>3. ASSUME NEW s \in 1..(Len(ss) + 1)
      PROVE  FineScope(Append(ss, scope)[s]) /\ Append(ss, scope)[s].chain \subseteq 1..s
  <2>1. CASE s \in 1..Len(ss)
    BY <1>2, <2>1 DEF FineScopes
  <2>2. CASE s = Len(ss) + 1
    BY <1>2, <2>2
  <2> QED BY <1>2, <2>1, <2>2
<1> QED BY <1>2, <1>3 DEF FineScopes

(* A scope that is replaced by one of the same chain.                      *)
LEMMA ChangeScopeFine ==
  ASSUME NEW ss, FineScopes(ss), NEW s \in DOMAIN ss, NEW scope, FineScope(scope),
         scope.chain = ss[s].chain
  PROVE  FineScopes([ss EXCEPT ![s] = scope]) /\ Len([ss EXCEPT ![s] = scope]) = Len(ss)
<1>1. ss \in Seq(Scope) /\ scope \in Scope
  BY DEF FineScopes, FineScope
<1> QED BY <1>1 DEF FineScopes

(* A symbol behind those a scope has.                                      *)
LEMMA AppendSymbolFine ==
  ASSUME NEW scope, FineScope(scope), NEW symbol \in Symbol, Fine(symbol.type)
  PROVE  /\ FineScope([scope EXCEPT !.symbols = Append(@, symbol)])
         /\ [scope EXCEPT !.symbols = Append(@, symbol)].chain = scope.chain
<1> DEFINE new == [scope EXCEPT !.symbols = Append(@, symbol)]
<1>1. scope \in Scope /\ scope.symbols \in Seq(Symbol)
  BY DEF FineScope, Scope
<1>2. Append(scope.symbols, symbol) \in Seq(Symbol)
  BY <1>1
<1>3. new \in Scope /\ new.symbols = Append(scope.symbols, symbol) /\ new.chain = scope.chain
  BY <1>1, <1>2 DEF Scope
<1>4. \A i \in DOMAIN Append(scope.symbols, symbol) :
        Fine(Append(scope.symbols, symbol)[i].type)
  BY <1>1 DEF FineScope
<1> QED BY <1>3, <1>4 DEF FineScope

LEMMA AddSymbolFine ==
  ASSUME NEW ss, FineScopes(ss), NEW s \in DOMAIN ss, NEW symbol \in Symbol,
         Fine(symbol.type)
  PROVE  /\ FineScopes(scopeAddSymbol(ss, s, symbol))
         /\ Len(scopeAddSymbol(ss, s, symbol)) = Len(ss)
<1> DEFINE scope == [ss[s] EXCEPT !.symbols = Append(@, symbol)]
<1>1. FineScope(scope) /\ scope.chain = ss[s].chain
  BY AppendSymbolFine DEF FineScopes
<1>2. [ss EXCEPT ![s].symbols = Append(@, symbol)] = [ss EXCEPT ![s] = scope]
  OBVIOUS
<1>3. scopeAddSymbol(ss, s, symbol) \in {ss, [ss EXCEPT ![s] = scope]}
  BY <1>2 DEF scopeAddSymbol
<1> HIDE DEF scope
<1> QED BY <1>1, <1>3, ChangeScopeFine

-----------------------------------------------------------------------------
(* The inductive invariant, a part for each module of the model.           *)

TreeOK == ast \in Programs

(* What a pending call needs of the tree and of the scopes: the checker    *)
(* always has a scope, names are resolved in topScope, and the rest of a   *)
(* call stands at a node of the kind the call began with.                  *)
Fits(t, count) ==
  /\ t \in Tasks
  /\ t.n \in DOMAIN ast
  /\ t.s \in 0..count
  /\ t.do \in SemanticTasks => t.s # 0
  /\ t.do = "resolveNode" => t.s = 1
  /\ t.do \in {"addConst", "addLocal"} => ast[t.n].kind = "DECL_VAR"
  /\ t.do = "binopEnd" => ast[t.n].kind = "BINOP"
  /\ t.do = "unopEnd" => ast[t.n].kind = "UNOP"
  /\ t.do \in {"ifTrue", "ifFalse", "ifEnd", "elseJump", "outJump"} =>
       ast[t.n].kind = "IF"
  /\ t.do = "ifEnd" => Len(ast[t.n].kids) = 3
  /\ t.do = "argument" => ast[t.n].kind = "CALL" /\ t.at # 0

StackOK ==
  /\ stack \in Seq(Tasks)
  /\ \A i \in DOMAIN stack : Fits(stack[i], Len(scopes))

ScopesOK == FineScopes(scopes)

NotesOK ==
  /\ scopeOf \in [DOMAIN ast -> 0..Len(scopes)]
  /\ unused \in [DOMAIN ast -> BOOLEAN]
  /\ typeOf \in [DOMAIN ast -> Type]
  /\ \A n \in DOMAIN ast : Fine(typeOf[n])
  /\ bound \in [DOMAIN ast -> [scope : Nat, index : Nat]]

Code(bytes) == bytes \in Seq(Byte)
Instruction == [at : Nat, op : DOMAIN Opcode, n : Nat]

CodeOK ==
  /\ Code(code)
  /\ consts \in Seq(Int)
  /\ mainLocation \in Nat
  /\ log \in Seq(Instruction)
  /\ letAt \in [DOMAIN ast -> Nat]

DriverOK ==
  /\ arena \in {"live", "destroyed"}
  /\ status \in {"none", "ok", "failed"}
  /\ cursor \in Nat
  /\ dangling \in BOOLEAN

(* The passes run one after the other.                                     *)
PhaseOK ==
  /\ phase \in Phases
  /\ phase \in {"parse", "parsed"} => scopes = <<>>
  /\ phase \in {"analyse", "generate"} => scopes # <<>>
  /\ phase \notin {"analyse", "generate"} => stack = <<>>

StateInv ==
  TreeOK /\ StackOK /\ ScopesOK /\ NotesOK /\ CodeOK /\ DriverOK /\ PhaseOK

-----------------------------------------------------------------------------
(* The tree.                                                               *)

LEMMA TreeWellFormed == TreeOK => WellFormed(ast)
BY ProgramsAssumption DEF TreeOK

LEMMA TreeNodes ==
  ASSUME WellFormed(ast)
  PROVE  /\ ast \in Seq(Node) /\ DOMAIN ast \subseteq Nat /\ 1 \in DOMAIN ast
         /\ \A n \in DOMAIN ast : /\ ast[n] \in Node
                                  /\ ast[n].kids \in Seq(DOMAIN ast)
<1>1. ast \in Seq(Node) /\ ast # <<>> /\ Len(ast) \in Nat /\ DOMAIN ast = 1..Len(ast)
  BY DEF WellFormed
<1>2. Len(ast) # 0
  BY <1>1
<1>3. ASSUME NEW n \in DOMAIN ast
      PROVE  ast[n] \in Node /\ ast[n].kids \in Seq(DOMAIN ast)
  <2>1. ast[n] \in Node /\ ast[n].kids \in Seq((n + 1)..Len(ast)) /\ n \in Nat
    BY <1>1 DEF WellFormed
  <2>2. (n + 1)..Len(ast) \subseteq DOMAIN ast
    BY <1>1, <2>1
  <2>3. ast[n].kids \in Seq(DOMAIN ast)
    <3> DEFINE kids == ast[n].kids
               S == (n + 1)..Len(ast)
    <3>1. kids \in Seq(S) /\ S \subseteq DOMAIN ast
      BY <2>1, <2>2
    <3> HIDE DEF kids, S
    <3>2. kids \in Seq(DOMAIN ast)
      BY <3>1
    <3> QED BY <3>2 DEF kids
  <2> QED BY <2>1, <2>3
<1> QED BY <1>1, <1>2, <1>3

(* A node has its kids in the tree.                                        *)
LEMMA KidOfTree ==
  ASSUME WellFormed(ast), NEW n \in DOMAIN ast, NEW i \in 1..Len(ast[n].kids)
  PROVE  Kid(n, i) \in DOMAIN ast
<1>1. ast[n].kids \in Seq(DOMAIN ast)
  BY TreeNodes
<1> QED BY <1>1 DEF Kid

(* How many kids the kinds have that the passes index.                     *)
LEMMA KidsCount ==
  ASSUME WellFormed(ast), NEW n \in DOMAIN ast
  PROVE  /\ Len(ast[n].kids) \in Nat
         /\ ast[n].kind \in {"DECL_VAR", "UNOP", "EXIT"} => Len(ast[n].kids) = 1
         /\ ast[n].kind = "BINOP" => Len(ast[n].kids) = 2
         /\ ast[n].kind = "IF" => Len(ast[n].kids) \in {2, 3}
         /\ ast[n].kind = "CALL" => Len(ast[n].kids) >= 1
<1>1. ast[n].kids \in Seq(DOMAIN ast)
  BY TreeNodes
<1>2. Shape(ast, n)
  BY DEF WellFormed
<1>3. Len(ast[n].kids) \in Nat
  BY <1>1
<1>4. ast[n].kind \in {"DECL_VAR", "UNOP", "EXIT"} => Len(ast[n].kids) = 1
  BY <1>2 DEF Shape
<1>5. ast[n].kind = "BINOP" => Len(ast[n].kids) = 2
  BY <1>2 DEF Shape
<1>6. ast[n].kind = "IF" => Len(ast[n].kids) \in {2, 3}
  BY <1>2, <1>3 DEF Shape
<1>7. ast[n].kind = "CALL" => Len(ast[n].kids) >= 1
  <2>1. ast[n].kind = "CALL" => ast[n].kids # <<>>
    BY <1>2 DEF Shape
  <2> QED BY <1>1, <1>3, <2>1
<1> QED BY <1>3, <1>4, <1>5, <1>6, <1>7

LEMMA OnlyKid ==
  ASSUME WellFormed(ast), NEW n \in DOMAIN ast,
         ast[n].kind \in {"DECL_VAR", "UNOP", "EXIT", "BINOP", "IF", "CALL"}
  PROVE  1 \in 1..Len(ast[n].kids) /\ Kid(n, 1) \in DOMAIN ast
<1> DEFINE count == Len(ast[n].kids)
<1>1. count \in Nat /\ count >= 1
  <2>1. /\ count \in Nat
        /\ ast[n].kind \in {"DECL_VAR", "UNOP", "EXIT"} => count = 1
        /\ ast[n].kind = "BINOP" => count = 2
        /\ ast[n].kind = "IF" => count \in {2, 3}
        /\ ast[n].kind = "CALL" => count >= 1
    BY KidsCount
  <2> HIDE DEF count
  <2>2. CASE ast[n].kind \in {"DECL_VAR", "UNOP", "EXIT"}
    BY <2>1, <2>2
  <2>3. CASE ast[n].kind \in {"BINOP", "IF", "CALL"}
    BY <2>1, <2>3
  <2> QED BY <2>2, <2>3
<1> HIDE DEF count
<1>2. 1 \in 1..count
  BY <1>1
<1> QED BY <1>2, KidOfTree DEF count

-----------------------------------------------------------------------------
(* The pending calls.                                                      *)

AllFit(tasks, count) ==
  tasks \in Seq(Tasks) /\ \A i \in DOMAIN tasks : Fits(tasks[i], count)

LEMMA FitsLater ==
  ASSUME NEW t, NEW m \in Nat, NEW n \in Nat, m <= n, Fits(t, m)
  PROVE  Fits(t, n)
BY DEF Fits

LEMMA TopFits ==
  ASSUME StackOK, stack # <<>>
  PROVE  Fits(Top, Len(scopes)) /\ AllFit(Tail(stack), Len(scopes))
<1>1. stack \in Seq(Tasks) /\ Len(stack) \in Nat /\ Len(stack) # 0
      /\ DOMAIN stack = 1..Len(stack)
  BY DEF StackOK
<1>2. Top = stack[1] /\ 1 \in DOMAIN stack
  BY <1>1 DEF Top
<1>3. /\ Tail(stack) \in Seq(Tasks)
      /\ \A i \in DOMAIN Tail(stack) : /\ Tail(stack)[i] = stack[i + 1]
                                       /\ i + 1 \in DOMAIN stack
  BY <1>1
<1> QED BY <1>2, <1>3 DEF StackOK, AllFit

(* The elements of two sequences, one behind the other.                    *)
LEMMA Joined ==
  ASSUME NEW S, NEW a \in Seq(S), NEW b \in Seq(S)
  PROVE  /\ a \o b \in Seq(S) /\ Len(a \o b) = Len(a) + Len(b)
         /\ Len(a) \in Nat /\ Len(b) \in Nat
         /\ DOMAIN (a \o b) = 1..(Len(a) + Len(b))
         /\ DOMAIN a = 1..Len(a) /\ DOMAIN b = 1..Len(b)
         /\ \A i \in 1..Len(a) : (a \o b)[i] = a[i]
         /\ \A i \in 1..Len(b) : (a \o b)[Len(a) + i] = b[i]
         /\ \A i \in DOMAIN (a \o b) :
              i \in 1..Len(a) \/ (i > Len(a) /\ i - Len(a) \in 1..Len(b)
                                    /\ (a \o b)[i] = b[i - Len(a)])
OBVIOUS

LEMMA AllFitTogether ==
  ASSUME NEW count, NEW s, AllFit(s, count), NEW t, AllFit(t, count)
  PROVE  AllFit(s \o t, count)
<1>1. s \in Seq(Tasks) /\ t \in Seq(Tasks)
  BY DEF AllFit
<1>2. s \o t \in Seq(Tasks)
  BY <1>1
<1>3. ASSUME NEW i \in DOMAIN (s \o t)
      PROVE  \/ i \in DOMAIN s /\ (s \o t)[i] = s[i]
             \/ i - Len(s) \in DOMAIN t /\ (s \o t)[i] = t[i - Len(s)]
  <2>1. CASE i <= Len(s)
    BY <1>1, <2>1
  <2>2. CASE ~ (i <= Len(s))
    BY <1>1, <2>2
  <2> QED BY <2>1, <2>2
<1> QED BY <1>2, <1>3 DEF AllFit

LEMMA AllFitLater ==
  ASSUME NEW tasks, NEW m \in Nat, NEW n \in Nat, m <= n, AllFit(tasks, m)
  PROVE  AllFit(tasks, n)
BY FitsLater DEF AllFit

(* The scopes may have become more.                                        *)
Grown == Len(scopes) \in Nat /\ Len(scopes') \in Nat /\ Len(scopes) <= Len(scopes')

LEMMA StackReturns ==
  ASSUME StackOK, stack # <<>>, Return, ast' = ast, Grown
  PROVE  StackOK'
<1>1. AllFit(Tail(stack), Len(scopes'))
  BY TopFits, AllFitLater DEF Grown
<1>2. AllFit(stack', Len(scopes'))
  BY <1>1 DEF Return
<1> QED BY <1>2 DEF AllFit, StackOK, Fits

LEMMA StackCalls ==
  ASSUME StackOK, stack # <<>>, NEW tasks, Call(tasks), ast' = ast, Grown,
         AllFit(tasks, Len(scopes'))
  PROVE  StackOK'
<1>1. AllFit(Tail(stack), Len(scopes'))
  BY TopFits, AllFitLater DEF Grown
<1>2. AllFit(tasks \o Tail(stack), Len(scopes'))
  BY <1>1, AllFitTogether
<1>3. AllFit(stack', Len(scopes'))
  BY <1>2 DEF Call
<1> QED BY <1>3 DEF AllFit, StackOK, Fits

LEMMA NothingPending ==
  ASSUME stack' = <<>>
  PROVE  StackOK'
BY DEF StackOK

-----------------------------------------------------------------------------
(* The sequences of calls the passes make.                                 *)

(* The calls that can be made for every node.                              *)
PlainTasks ==
  {"resolveNode", "typecheckStmt", "stmtEnd", "typecheckExpr",
   "genStmt", "genExpression", "endScope", "emitReturn", "popUnused", "operator",
   "patchOut", "patchEntry"}

LEMMA PlainFits ==
  ASSUME WellFormed(ast), NEW do \in PlainTasks, NEW n \in DOMAIN ast,
         NEW count \in Nat, NEW s \in 0..count, do \in SemanticTasks => s # 0,
         do = "resolveNode" => s = 1, NEW at \in Nat
  PROVE  Fits(TaskAt(do, n, s, at), count) /\ Fits(Task(do, n, s), count)
<1>1. n \in Nat /\ s \in Nat
  BY TreeNodes
<1>2. do \in SemanticTasks \cup CodegenTasks
  BY DEF PlainTasks, SemanticTasks, CodegenTasks
<1>3. TaskAt(do, n, s, at) \in Tasks /\ TaskAt(do, n, s, 0) \in Tasks
  BY <1>1, <1>2 DEF TaskAt, Tasks
<1>4. \A k \in Nat : TaskAt(do, n, s, k).do = do /\ TaskAt(do, n, s, k).n = n
                     /\ TaskAt(do, n, s, k).s = s /\ TaskAt(do, n, s, k).at = k
  BY DEF TaskAt
<1>5. Fits(TaskAt(do, n, s, at), count) /\ Fits(TaskAt(do, n, s, 0), count)
  BY <1>3, <1>4 DEF Fits, PlainTasks
<1> QED BY <1>5 DEF Task, TaskAt

LEMMA ForEachFits ==
  ASSUME WellFormed(ast), NEW do \in PlainTasks, NEW nodes \in Seq(DOMAIN ast),
         NEW count \in Nat, NEW s \in 0..count, do \in SemanticTasks => s # 0,
         do = "resolveNode" => s = 1
  PROVE  AllFit(ForEach(do, nodes, s), count)
<1> DEFINE calls == ForEach(do, nodes, s)
<1>1. DOMAIN nodes = 1..Len(nodes) /\ Len(nodes) \in Nat
  OBVIOUS
<1>2. ASSUME NEW i \in 1..Len(nodes)
      PROVE  Fits(Task(do, nodes[i], s), count)
  <2>1. nodes[i] \in DOMAIN ast
    BY <1>1
  <2> QED BY <2>1, PlainFits
<1>3. ASSUME NEW i \in 1..Len(nodes)
      PROVE  Task(do, nodes[i], s) \in Tasks
  BY <1>2 DEF Fits
<1>4. calls = [i \in 1..Len(nodes) |-> Task(do, nodes[i], s)]
  BY <1>1 DEF ForEach
<1>5. calls \in Seq(Tasks) /\ DOMAIN calls = 1..Len(nodes)
  BY <1>1, <1>3, <1>4
<1>6. \A i \in DOMAIN calls : Fits(calls[i], count)
  BY <1>2, <1>4
<1> QED BY <1>5, <1>6 DEF AllFit

LEMMA OneFits ==
  ASSUME NEW t, NEW count, Fits(t, count)
  PROVE  AllFit(<<t>>, count)
BY DEF AllFit, Fits

LEMMA TwoFit ==
  ASSUME NEW t, NEW u, NEW count, Fits(t, count), Fits(u, count)
  PROVE  AllFit(<<t, u>>, count)
<1>1. t \in Tasks /\ u \in Tasks
  BY DEF Fits
<1> QED BY <1>1 DEF AllFit

LEMMA ThreeFit ==
  ASSUME NEW t, NEW u, NEW v, NEW count, Fits(t, count), Fits(u, count), Fits(v, count)
  PROVE  AllFit(<<t, u, v>>, count)
<1>1. t \in Tasks /\ u \in Tasks /\ v \in Tasks
  BY DEF Fits
<1> QED BY <1>1 DEF AllFit

(* The calls that stand at a node of one kind.                             *)
LEMMA RestFits ==
  ASSUME WellFormed(ast), NEW n \in DOMAIN ast, NEW count \in Nat, NEW s \in 0..count,
         NEW at \in Nat
  PROVE  /\ ast[n].kind = "DECL_VAR" /\ s # 0 =>
              Fits(Task("addConst", n, s), count) /\ Fits(Task("addLocal", n, s), count)
         /\ ast[n].kind = "BINOP" /\ s # 0 => Fits(Task("binopEnd", n, s), count)
         /\ ast[n].kind = "UNOP" /\ s # 0 => Fits(Task("unopEnd", n, s), count)
         /\ ast[n].kind = "IF" /\ s # 0 =>
              /\ Fits(Task("ifTrue", n, s), count) /\ Fits(Task("ifFalse", n, s), count)
              /\ Len(ast[n].kids) = 3 => Fits(Task("ifEnd", n, s), count)
         /\ ast[n].kind = "IF" =>
              Fits(Task("elseJump", n, s), count) /\ Fits(TaskAt("outJump", n, s, at), count)
         /\ ast[n].kind = "CALL" /\ s # 0 /\ at # 0 =>
              Fits(TaskAt("argument", n, s, at), count)
<1>1. n \in Nat /\ s \in Nat
  BY TreeNodes
<1> USE DEF Fits, Task, TaskAt, Tasks, SemanticTasks, CodegenTasks
<1>2. ast[n].kind = "DECL_VAR" /\ s # 0 =>
        Fits(Task("addConst", n, s), count) /\ Fits(Task("addLocal", n, s), count)
  BY <1>1
<1>3. ast[n].kind = "BINOP" /\ s # 0 => Fits(Task("binopEnd", n, s), count)
  BY <1>1
<1>4. ast[n].kind = "UNOP" /\ s # 0 => Fits(Task("unopEnd", n, s), count)
  BY <1>1
<1>5. ast[n].kind = "IF" /\ s # 0 =>
        /\ Fits(Task("ifTrue", n, s), count) /\ Fits(Task("ifFalse", n, s), count)
        /\ Len(ast[n].kids) = 3 => Fits(Task("ifEnd", n, s), count)
  BY <1>1
<1>6. ast[n].kind = "IF" =>
        Fits(Task("elseJump", n, s), count) /\ Fits(TaskAt("outJump", n, s, at), count)
  BY <1>1
<1>7. ast[n].kind = "CALL" /\ s # 0 /\ at # 0 =>
        Fits(TaskAt("argument", n, s, at), count)
  BY <1>1
<1> QED BY <1>2, <1>3, <1>4, <1>5, <1>6, <1>7

-----------------------------------------------------------------------------
(* The scopes a function and a declaration make.                           *)

(* The members of a finite set of numbers can be counted off: there is a   *)
(* k-th one for every k up to how many they are.                           *)
LEMMA CountedOff ==
  ASSUME NEW m \in Nat, NEW T \in SUBSET (1..m), NEW k \in 1..Cardinality(T)
  PROVE  \E i \in T : Cardinality({j \in T : j <= i}) = k
<1> DEFINE upTo(i) == {j \in T : j <= i}
           rank == [i \in T |-> Cardinality(upTo(i))]
           count == Cardinality(T)
<1>1. IsFiniteSet(T) /\ count \in Nat
  <2>1. IsFiniteSet(1..m)
    BY FS_Interval
  <2>2. IsFiniteSet(T)
    BY <2>1, FS_Subset
  <2> QED BY <2>2, FS_CardinalityType
<1>2. ASSUME NEW i \in T
      PROVE  /\ IsFiniteSet(upTo(i)) /\ Cardinality(upTo(i)) \in 1..count
             /\ i \in upTo(i)
  <2>1. upTo(i) \in SUBSET T /\ i \in upTo(i)
    OBVIOUS
  <2>2. IsFiniteSet(upTo(i)) /\ Cardinality(upTo(i)) <= count
    BY <1>1, <2>1, FS_Subset
  <2>3. Cardinality(upTo(i)) \in Nat /\ Cardinality(upTo(i)) # 0
    <3> HIDE DEF upTo
    <3> QED BY <2>1, <2>2, FS_CardinalityType, FS_EmptySet
  <2> HIDE DEF upTo
  <2> QED BY <1>1, <2>1, <2>2, <2>3
<1>3. rank \in [T -> 1..count]
  <2> HIDE DEF upTo, count
  <2> QED BY <1>2
<1>4. ASSUME NEW i \in T, NEW j \in T, i < j
      PROVE  Cardinality(upTo(i)) # Cardinality(upTo(j))
  <2>1. upTo(i) \in SUBSET upTo(j) /\ j \notin upTo(i)
    <3>1. \A h \in T : h \in Int
      OBVIOUS
    <3>2. ~ (j <= i) /\ \A h \in T : h <= i => h <= j
      BY <1>4, <3>1
    <3> QED BY <3>2
  <2> HIDE DEF upTo
  <2> QED BY <1>2, <2>1, FS_Subset
<1>5. \A i, j \in T : rank[i] = rank[j] => i = j
  <2> SUFFICES ASSUME NEW i \in T, NEW j \in T, i # j
               PROVE  rank[i] # rank[j]
    OBVIOUS
  <2>1. rank[i] = Cardinality(upTo(i)) /\ rank[j] = Cardinality(upTo(j))
    OBVIOUS
  <2>2. i < j \/ j < i
    OBVIOUS
  <2> HIDE DEF upTo, rank
  <2> QED BY <1>4, <2>1, <2>2
<1>6. rank \in Injection(T, 1..count)
  <2> HIDE DEF rank, count
  <2> QED BY <1>3, <1>5 DEF Injection, IsInjective
<1>7. IsFiniteSet(1..count) /\ Cardinality(1..count) = count
  <2> HIDE DEF count
  <2> QED BY <1>1, FS_Interval
<1>8. rank \in Surjection(T, 1..count)
  <2> HIDE DEF rank
  <2> QED BY <1>6, <1>7, FS_Injection
<1>9. \E i \in T : rank[i] = k
  <2> HIDE DEF rank
  <2> QED BY <1>8 DEF Surjection
<1> QED BY <1>9

LEMMA ParameterScopeFine ==
  ASSUME WellFormed(ast), NEW n \in DOMAIN ast, NEW funcScope, FineScope(funcScope),
         NEW garbage \in Garbage
  PROVE  /\ FineScope(ParameterScope(n, funcScope, garbage))
         /\ ParameterScope(n, funcScope, garbage).chain = funcScope.chain
<1> DEFINE params == ast[n].params
           fresh == {i \in DOMAIN params :
                       \A j \in 1..(i - 1) : params[j].name # params[i].name}
           kth(k) == params[CHOOSE i \in fresh : Cardinality({j \in fresh : j <= i}) = k]
           symbol(k) == NewSymbol(kth(k).name, kth(k).type, garbage, "param", n)
           symbols == [k \in 1..Cardinality(fresh) |-> symbol(k)]
           scope == [funcScope EXCEPT !.isFuncScope = TRUE, !.symbols = symbols]
<1>1. params \in Seq(Param) /\ n \in Nat /\ garbage \in Int
  BY TreeNodes, GarbageAssumption DEF Node
<1>2. fresh \in SUBSET (1..Len(params)) /\ Len(params) \in Nat /\ DOMAIN params = 1..Len(params)
  <2> HIDE DEF params
  <2> QED BY <1>1
<1>3. Cardinality(fresh) \in Nat
  <2> HIDE DEF fresh
  <2>1. IsFiniteSet(1..Len(params))
    <3> HIDE DEF params
    <3> QED BY <1>2, FS_Interval
  <2>2. IsFiniteSet(fresh)
    BY <1>2, <2>1, FS_Subset
  <2> QED BY <2>2, FS_CardinalityType
<1>4. ASSUME NEW k \in 1..Cardinality(fresh)
      PROVE  kth(k) \in Param
  <2> DEFINE Kth(i) == Cardinality({j \in fresh : j <= i}) = k
             chosen == CHOOSE i \in fresh : Kth(i)
  <2>1. \E i \in fresh : Kth(i)
    <3> HIDE DEF fresh
    <3> QED BY <1>2, CountedOff
  <2>2. chosen \in fresh
    <3> HIDE DEF fresh, Kth
    <3> QED BY <2>1
  <2>3. kth(k) = params[chosen]
    OBVIOUS
  <2> HIDE DEF kth, fresh, params, chosen
  <2> QED BY <1>1, <1>2, <2>2, <2>3
<1>5. ASSUME NEW k \in 1..Cardinality(fresh)
      PROVE  symbol(k) \in Symbol /\ Fine(symbol(k).type)
  <2> HIDE DEF kth, fresh, params
  <2>1. kth(k) \in Param
    BY <1>4
  <2>2. kth(k).name \in Names /\ kth(k).type \in WrittenType
    BY <2>1 DEF Param
  <2>3. Fine(kth(k).type) /\ kth(k).type \in Type
    BY <2>2, WrittenFine DEF Fine
  <2> QED BY <1>1, <2>2, <2>3 DEF NewSymbol, Symbol
<1>6. symbols \in Seq(Symbol) /\ \A i \in DOMAIN symbols : Fine(symbols[i].type)
  <2> HIDE DEF symbol, fresh
  <2> QED BY <1>3, <1>5
<1>7. ParameterScope(n, funcScope, garbage) = scope
  BY DEF ParameterScope
<1> HIDE DEF symbols
<1>8. scope \in Scope /\ scope.symbols = symbols /\ scope.chain = funcScope.chain
  BY <1>6 DEF FineScope, Scope
<1> HIDE DEF scope
<1> QED BY <1>6, <1>7, <1>8 DEF FineScope

LEMMA TakeSlotFine ==
  ASSUME WellFormed(ast), FineScopes(scopes), NEW n \in DOMAIN ast,
         NEW s \in DOMAIN scopes, Fine(typeOf[Kid(n, 1)])
  PROVE  FineScopes(TakeSlot(n, s)) /\ Len(TakeSlot(n, s)) = Len(scopes)
<1> DEFINE slot == scopes[s].funcIndex
           symbol == NewSymbol(ast[n].name, typeOf[Kid(n, 1)], slot, "let", n)
           added == scopeAddSymbol(scopes, s, symbol)
           scope == [added[s] EXCEPT !.funcIndex = slot + 1]
<1>1. scopes[s] \in Scope
  BY DEF FineScopes, FineScope
<1>2. slot \in Nat
  BY <1>1 DEF Scope
<1>3. ast[n].name \in Names /\ n \in Nat
  BY TreeNodes DEF Node
<1>4. symbol \in Symbol /\ Fine(symbol.type)
  BY <1>2, <1>3 DEF NewSymbol, Symbol, Fine
<1>5. FineScopes(added) /\ Len(added) = Len(scopes)
  <2> HIDE DEF symbol
  <2> QED BY <1>4, AddSymbolFine
<1>6. TakeSlot(n, s) = [added EXCEPT ![s].funcIndex = slot + 1]
  BY DEF TakeSlot
<1> HIDE DEF added, slot, symbol
<1>7. s \in DOMAIN added
  BY <1>5 DEF FineScopes
<1>8. FineScope(added[s])
  BY <1>5, <1>7 DEF FineScopes
<1>9. FineScope(scope) /\ scope.chain = added[s].chain
  BY <1>2, <1>8 DEF FineScope, Scope
<1>10. TakeSlot(n, s) = [added EXCEPT ![s] = scope]
  BY <1>6
<1> HIDE DEF scope
<1>11. FineScopes([added EXCEPT ![s] = scope]) /\ Len([added EXCEPT ![s] = scope]) = Len(added)
  BY <1>5, <1>7, <1>9, ChangeScopeFine
<1> QED BY <1>5, <1>10, <1>11

-----------------------------------------------------------------------------
(* The annotations.                                                        *)

LEMMA NotesStay ==
  ASSUME NotesOK, ast' = ast, Grown, UNCHANGED annotations
  PROVE  NotesOK'
<1>1. /\ scopeOf' = scopeOf /\ unused' = unused /\ typeOf' = typeOf /\ bound' = bound
      /\ 0..Len(scopes) \subseteq 0..Len(scopes')
  BY DEF annotations, Grown
<1> QED BY <1>1 DEF NotesOK, Fine

LEMMA ChangedAt ==
  ASSUME NEW D, NEW S, NEW f \in [D -> S], NEW n, NEW value \in S
  PROVE  [f EXCEPT ![n] = value] \in [D -> S]
OBVIOUS

(* typecheckExpr returns a type for a node.                                *)
LEMMA TypeNoted ==
  ASSUME NotesOK, ast' = ast, scopes' = scopes, NEW n \in DOMAIN ast, NEW type, Fine(type),
         typeOf' = [typeOf EXCEPT ![n] = type], UNCHANGED <<scopeOf, unused>>,
         bound' \in [DOMAIN ast -> [scope : Nat, index : Nat]]
  PROVE  NotesOK'
<1>1. typeOf' \in [DOMAIN ast -> Type]
  BY DEF NotesOK, Fine
<1>2. ASSUME NEW m \in DOMAIN ast
      PROVE  Fine(typeOf'[m])
  BY DEF NotesOK
<1> QED BY <1>1, <1>2 DEF NotesOK, Fine

(* A function or a block gets a new scope.                                 *)
LEMMA ScopeNoted ==
  ASSUME NotesOK, ast' = ast, Grown, NEW n \in DOMAIN ast, NEW s \in 0..Len(scopes'),
         scopeOf' = [scopeOf EXCEPT ![n] = s], UNCHANGED <<unused, typeOf, bound>>
  PROVE  NotesOK'
<1>1. 0..Len(scopes) \subseteq 0..Len(scopes')
  BY DEF Grown
<1>2. scopeOf' \in [DOMAIN ast -> 0..Len(scopes')]
  BY <1>1 DEF NotesOK
<1> QED BY <1>2 DEF NotesOK, Fine

-----------------------------------------------------------------------------
(* The passes keep the calls, the scopes and the annotations in form, and  *)
(* go on or crash.                                                         *)

PassOK == StackOK /\ ScopesOK /\ NotesOK

GoesOn == phase' = phase \/ (phase' = "crashed" /\ stack' = <<>>)

LEMMA ScopesStay ==
  ASSUME ScopesOK, scopes' = scopes, ast' = ast
  PROVE  ScopesOK' /\ Grown
<1>1. Len(scopes) \in Nat
  BY DEF ScopesOK, FineScopes
<1> QED BY <1>1 DEF ScopesOK, FineScopes, FineScope, Fine, Grown

LEMMA ScopesReplaced ==
  ASSUME ScopesOK, FineScopes(scopes'), Len(scopes) <= Len(scopes'), ast' = ast
  PROVE  ScopesOK' /\ Grown
<1>1. Len(scopes) \in Nat /\ Len(scopes') \in Nat
  BY DEF ScopesOK, FineScopes
<1> QED BY <1>1 DEF ScopesOK, FineScopes, FineScope, Fine, Grown

LEMMA VisitKeeps ==
  ASSUME PassOK, stack # <<>>, NEW tasks, Visit(tasks), ast' = ast,
         AllFit(tasks, Len(scopes))
  PROVE  PassOK' /\ Grown /\ GoesOn
<1>1. Call(tasks) /\ phase' = phase /\ scopes' = scopes /\ UNCHANGED annotations
  BY DEF Visit
<1>2. ScopesOK' /\ Grown
  BY <1>1, ScopesStay DEF PassOK
<1>3. StackOK'
  BY <1>1, <1>2, StackCalls DEF PassOK
<1> QED BY <1>1, <1>2, <1>3, NotesStay DEF PassOK, GoesOn

LEMMA ReturnKeeps ==
  ASSUME PassOK, stack # <<>>, Return, ast' = ast, UNCHANGED <<phase, scopes, annotations>>
  PROVE  PassOK' /\ Grown /\ GoesOn
<1>1. ScopesOK' /\ Grown
  BY ScopesStay DEF PassOK
<1> QED BY <1>1, StackReturns, NotesStay DEF PassOK, GoesOn

(* A declaration or a function that enters a symbol.                       *)
LEMMA DeclareKeeps ==
  ASSUME PassOK, stack # <<>>, Return, ast' = ast, UNCHANGED <<phase, annotations>>,
         FineScopes(scopes'), Len(scopes') = Len(scopes)
  PROVE  PassOK' /\ Grown /\ GoesOn
<1>1. Len(scopes) \in Nat
  BY DEF PassOK, ScopesOK, FineScopes
<1>2. ScopesOK' /\ Grown
  BY <1>1, ScopesReplaced DEF PassOK
<1> QED BY <1>2, StackReturns, NotesStay DEF PassOK, GoesOn

(* typecheckExpr is done with a node.                                      *)
LEMMA YieldKeeps ==
  ASSUME PassOK, stack # <<>>, Return, ast' = ast, UNCHANGED <<phase, scopes>>,
         NotesOK'
  PROVE  PassOK' /\ Grown /\ GoesOn
<1>1. ScopesOK' /\ Grown
  BY ScopesStay DEF PassOK
<1> QED BY <1>1, StackReturns DEF PassOK, GoesOn

(* A new scope whose statements are checked next.                          *)
LEMMA EnterKeeps ==
  ASSUME WellFormed(ast), PassOK, stack # <<>>, ast' = ast, NEW n \in DOMAIN ast, NEW scope,
         FineScope(scope), scope.chain \subseteq 1..(Len(scopes) + 1),
         scopes' = Append(scopes, scope),
         scopeOf' = [scopeOf EXCEPT ![n] = Len(scopes) + 1],
         Call(ForEach("typecheckStmt", ast[n].kids, Len(scopes) + 1)),
         UNCHANGED <<phase, unused, typeOf, bound>>
  PROVE  PassOK' /\ Grown /\ GoesOn
<1>1. FineScopes(scopes') /\ Len(scopes') = Len(scopes) + 1
  BY AppendScopeFine DEF PassOK, ScopesOK
<1>2. Len(scopes) \in Nat
  BY DEF PassOK, ScopesOK, FineScopes
<1>3. ScopesOK' /\ Grown
  BY <1>1, <1>2, ScopesReplaced DEF PassOK
<1>4. Len(scopes) + 1 \in 0..Len(scopes') /\ Len(scopes) + 1 # 0 /\ Len(scopes') \in Nat
  BY <1>1, <1>2
<1>5. ast[n].kids \in Seq(DOMAIN ast)
  BY TreeNodes
<1>6. AllFit(ForEach("typecheckStmt", ast[n].kids, Len(scopes) + 1), Len(scopes'))
  BY <1>4, <1>5, ForEachFits DEF PlainTasks
<1>7. StackOK'
  BY <1>3, <1>6, StackCalls DEF PassOK
<1>8. NotesOK'
  BY <1>3, <1>4, ScopeNoted DEF PassOK
<1> QED BY <1>3, <1>7, <1>8 DEF PassOK, GoesOn

(* Where a step of the checker finds itself.                               *)
LEMMA SemanticTop ==
  ASSUME WellFormed(ast), PassOK, NEW do \in SemanticTasks, Running(do)
  PROVE  /\ stack # <<>> /\ Top.do = do /\ Fits(Top, Len(scopes))
         /\ Top.n \in DOMAIN ast
         /\ Top.s \in 0..Len(scopes) /\ Top.s # 0 /\ Top.s \in DOMAIN scopes
         /\ Len(scopes) \in Nat
         /\ Fine(NoType) /\ FineScopes(scopes) /\ NotesOK
<1>1. stack # <<>> /\ Top.do = do /\ Fits(Top, Len(scopes))
  BY TopFits DEF PassOK, Running
<1>2. Len(scopes) \in Nat /\ DOMAIN scopes = 1..Len(scopes) /\ FineScopes(scopes)
  BY DEF PassOK, ScopesOK, FineScopes
<1>3. Top.n \in DOMAIN ast /\ Top.s \in 0..Len(scopes) /\ Top.s # 0
  BY <1>1 DEF Fits
<1> QED BY <1>1, <1>2, <1>3, NoTypeFine DEF PassOK

(* The checker looks at a kid next.                                        *)
LEMMA KidFits ==
  ASSUME WellFormed(ast), NEW n \in DOMAIN ast, NEW i \in 1..Len(ast[n].kids),
         NEW count \in Nat, NEW s \in 0..count
  PROVE  /\ s # 0 => Fits(Task("typecheckExpr", Kid(n, i), s), count)
         /\ Fits(Task("genExpression", Kid(n, i), s), count)
<1> DEFINE kid == Kid(n, i)
<1>1. kid \in DOMAIN ast
  BY KidOfTree
<1> HIDE DEF kid
<1>2. s # 0 => Fits(Task("typecheckExpr", kid, s), count)
  BY <1>1, PlainFits DEF PlainTasks
<1>3. Fits(Task("genExpression", kid, s), count)
  BY <1>1, PlainFits DEF PlainTasks, SemanticTasks
<1> QED BY <1>2, <1>3 DEF kid

LEMMA ResolveNodeKeeps ==
  ASSUME WellFormed(ast), PassOK, resolveNode, ast' = ast
  PROVE  PassOK' /\ Grown /\ GoesOn
<1> USE DEF SemanticTasks, RunningOn
<1>1. CASE resolveLet
  BY <1>1, SemanticTop, ReturnKeeps DEF resolveLet
<1>2. CASE resolveConst
  <2>1. /\ stack # <<>> /\ Top.n \in DOMAIN ast /\ Len(scopes) \in Nat
        /\ Top.s \in 0..Len(scopes) /\ Top.s # 0
        /\ ast[Top.n].kind = "DECL_VAR"
    BY <1>2, SemanticTop DEF resolveConst
  <2>2. 1 \in 1..Len(ast[Top.n].kids)
    BY <2>1, OnlyKid
  <2>3. Fits(Task("typecheckExpr", Kid(Top.n, 1), Top.s), Len(scopes))
    BY <2>1, <2>2, KidFits
  <2>4. Fits(Task("addConst", Top.n, Top.s), Len(scopes))
    BY <2>1, RestFits
  <2>5. AllFit(<<Task("typecheckExpr", Kid(Top.n, 1), Top.s), Task("addConst", Top.n, Top.s)>>,
               Len(scopes))
    BY <2>3, <2>4, TwoFit
  <2> QED BY <1>2, <2>1, <2>5, VisitKeeps DEF resolveConst
<1>3. CASE addConst
  <2>1. /\ stack # <<>> /\ Top.n \in DOMAIN ast /\ Top.s \in DOMAIN scopes
        /\ FineScopes(scopes)
    BY <1>3, SemanticTop DEF addConst
  <2>2. PICK garbage \in Garbage :
          scopes' = scopeAddSymbol(scopes, Top.s,
                NewSymbol(ast[Top.n].name, ast[Top.n].type, garbage, "global", Top.n))
    BY <1>3 DEF addConst
  <2> DEFINE symbol == NewSymbol(ast[Top.n].name, ast[Top.n].type, garbage, "global", Top.n)
  <2>3. ast[Top.n].name \in Names /\ ast[Top.n].type \in WrittenType /\ Top.n \in Nat
    BY <2>1, TreeNodes DEF Node
  <2>4. Fine(ast[Top.n].type) /\ ast[Top.n].type \in Type
    BY <2>3, WrittenFine DEF Fine
  <2>5. symbol \in Symbol /\ Fine(symbol.type)
    <3>1. garbage \in Int
      BY GarbageAssumption
    <3> QED BY <2>3, <2>4, <3>1 DEF NewSymbol, Symbol
  <2> HIDE DEF symbol
  <2>6. FineScopes(scopes') /\ Len(scopes') = Len(scopes)
    <3>1. scopes' = scopeAddSymbol(scopes, Top.s, symbol)
      BY <2>2 DEF symbol
    <3> QED BY <2>1, <2>5, <3>1, AddSymbolFine
  <2> QED BY <1>3, <2>1, <2>6, DeclareKeeps DEF addConst
<1>4. CASE resolveFunc
  <2>1. /\ stack # <<>> /\ Top.n \in DOMAIN ast /\ Top.s \in DOMAIN scopes
        /\ FineScopes(scopes)
    BY <1>4, SemanticTop DEF resolveFunc
  <2>2. PICK garbage \in Garbage :
          scopes' = scopeAddSymbol(scopes, Top.s,
                NewSymbol(ast[Top.n].name, FuncType(Top.n), garbage, "global", Top.n))
    BY <1>4 DEF resolveFunc
  <2> DEFINE symbol == NewSymbol(ast[Top.n].name, FuncType(Top.n), garbage, "global", Top.n)
  <2>3. ast[Top.n].name \in Names /\ Top.n \in Nat /\ ast \in Seq(Node)
    BY <2>1, TreeNodes DEF Node
  <2>4. Fine(FuncType(Top.n)) /\ FuncType(Top.n) \in Type
    BY <2>1, <2>3, FuncTypeFine DEF Fine
  <2>5. symbol \in Symbol /\ Fine(symbol.type)
    <3>1. garbage \in Int
      BY GarbageAssumption
    <3> QED BY <2>3, <2>4, <3>1 DEF NewSymbol, Symbol
  <2> HIDE DEF symbol
  <2>6. FineScopes(scopes') /\ Len(scopes') = Len(scopes)
    <3>1. scopes' = scopeAddSymbol(scopes, Top.s, symbol)
      BY <2>2 DEF symbol
    <3> QED BY <2>1, <2>5, <3>1, AddSymbolFine
  <2> QED BY <1>4, <2>1, <2>6, DeclareKeeps DEF resolveFunc
<1> QED BY <1>1, <1>2, <1>3, <1>4 DEF resolveNode

LEMMA TypecheckStmtKeeps ==
  ASSUME WellFormed(ast), PassOK, typecheckStmt, ast' = ast
  PROVE  PassOK' /\ Grown /\ GoesOn
<1> USE DEF SemanticTasks, RunningOn
<1>1. CASE typecheckLocal
  <2>1. /\ stack # <<>> /\ Top.n \in DOMAIN ast /\ Len(scopes) \in Nat
        /\ Top.s \in 0..Len(scopes) /\ Top.s # 0
        /\ ast[Top.n].kind = "DECL_VAR"
    BY <1>1, SemanticTop DEF typecheckLocal
  <2>2. 1 \in 1..Len(ast[Top.n].kids)
    BY <2>1, OnlyKid
  <2>3. Fits(Task("typecheckExpr", Kid(Top.n, 1), Top.s), Len(scopes))
    BY <2>1, <2>2, KidFits
  <2>4. Fits(Task("addLocal", Top.n, Top.s), Len(scopes))
    BY <2>1, RestFits
  <2>5. AllFit(<<Task("typecheckExpr", Kid(Top.n, 1), Top.s), Task("addLocal", Top.n, Top.s)>>,
               Len(scopes))
    BY <2>3, <2>4, TwoFit
  <2> QED BY <1>1, <2>1, <2>5, VisitKeeps DEF typecheckLocal
<1>2. CASE typecheckConst
  BY <1>2, SemanticTop, ReturnKeeps DEF typecheckConst
<1>3. CASE addLocal
  <2>1. /\ stack # <<>> /\ Top.n \in DOMAIN ast /\ Top.s \in DOMAIN scopes
        /\ FineScopes(scopes) /\ ast[Top.n].kind = "DECL_VAR" /\ NotesOK
    BY <1>3, SemanticTop DEF addLocal, Fits
  <2>2. Kid(Top.n, 1) \in DOMAIN ast
    BY <2>1, OnlyKid
  <2>3. Fine(typeOf[Kid(Top.n, 1)])
    BY <2>1, <2>2 DEF NotesOK
  <2>4. FineScopes(TakeSlot(Top.n, Top.s)) /\ Len(TakeSlot(Top.n, Top.s)) = Len(scopes)
    BY <2>1, <2>3, TakeSlotFine
  <2>5. FineScopes(scopes') /\ Len(scopes') = Len(scopes)
    BY <1>3, <2>1, <2>4 DEF addLocal
  <2> QED BY <1>3, <2>1, <2>5, DeclareKeeps DEF addLocal
<1>4. CASE typecheckFuncDec
  <2>1. /\ stack # <<>> /\ Top.n \in DOMAIN ast /\ Len(scopes) \in Nat
        /\ Top.s \in 0..Len(scopes) /\ FineScopes(scopes)
    BY <1>4, SemanticTop DEF typecheckFuncDec
  <2>2. CASE scopes[Top.s].isFuncScope
    <3>1. Return /\ UNCHANGED <<phase, scopes, annotations>>
      BY <1>4, <2>2 DEF typecheckFuncDec, annotations
    <3> QED BY <2>1, <3>1, ReturnKeeps
  <2>3. CASE ~ scopes[Top.s].isFuncScope
    <3>1. /\ scopeOf' = [scopeOf EXCEPT ![Top.n] = Len(scopes) + 1]
          /\ Call(ForEach("typecheckStmt", ast[Top.n].kids, Len(scopes) + 1))
          /\ UNCHANGED <<phase, unused, typeOf, bound>>
      BY <1>4, <2>3 DEF typecheckFuncDec
    <3>2. PICK garbage \in Garbage :
            scopes' = Append(scopes, ParameterScope(Top.n, initScope(scopes, Top.s), garbage))
      BY <1>4, <2>3 DEF typecheckFuncDec
    <3> DEFINE scope == ParameterScope(Top.n, initScope(scopes, Top.s), garbage)
    <3>3. /\ FineScope(initScope(scopes, Top.s))
          /\ initScope(scopes, Top.s).chain \subseteq 1..(Len(scopes) + 1)
      BY <2>1, InitScopeFine
    <3>4. FineScope(scope) /\ scope.chain = initScope(scopes, Top.s).chain
      BY <2>1, <3>3, ParameterScopeFine
    <3>5. scopes' = Append(scopes, scope)
      BY <3>2
    <3> HIDE DEF scope
    <3>6. scope.chain \subseteq 1..(Len(scopes) + 1)
      BY <3>3, <3>4
    <3> QED BY <2>1, <3>1, <3>4, <3>5, <3>6, EnterKeeps
  <2> QED BY <2>2, <2>3
<1>5. CASE typecheckExprStmt
  <2>1. /\ stack # <<>> /\ Top.n \in DOMAIN ast /\ Len(scopes) \in Nat
        /\ Top.s \in 0..Len(scopes) /\ Top.s # 0
    BY <1>5, SemanticTop DEF typecheckExprStmt
  <2>2. /\ Fits(Task("typecheckExpr", Top.n, Top.s), Len(scopes))
        /\ Fits(Task("stmtEnd", Top.n, Top.s), Len(scopes))
    BY <2>1, PlainFits DEF PlainTasks
  <2>3. AllFit(<<Task("typecheckExpr", Top.n, Top.s), Task("stmtEnd", Top.n, Top.s)>>,
               Len(scopes))
    BY <2>2, TwoFit
  <2> QED BY <1>5, <2>1, <2>3, VisitKeeps DEF typecheckExprStmt
<1>6. CASE stmtEnd
  <2>1. stack # <<>> /\ Top.n \in DOMAIN ast /\ NotesOK
    BY <1>6, SemanticTop DEF stmtEnd
  <2> DEFINE leaves == typeOf[Top.n] # NoType
  <2>2. unused' = [unused EXCEPT ![Top.n] = leaves] /\ leaves \in BOOLEAN
    BY <1>6 DEF stmtEnd
  <2> HIDE DEF leaves
  <2>3. unused \in [DOMAIN ast -> BOOLEAN]
    BY <2>1 DEF NotesOK
  <2>4. unused' \in [DOMAIN ast -> BOOLEAN]
    BY <2>2, <2>3, ChangedAt
  <2>5. UNCHANGED <<phase, scopes, scopeOf, typeOf, bound>> /\ Return
    BY <1>6 DEF stmtEnd
  <2>6. NotesOK'
    BY <2>1, <2>4, <2>5 DEF NotesOK, Fine
  <2> QED BY <2>1, <2>5, <2>6, YieldKeeps
<1> QED BY <1>1, <1>2, <1>3, <1>4, <1>5, <1>6 DEF typecheckStmt

(* A case of typecheckExpr that returns: the node gets a type, or keeps    *)
(* the NULL it started with.                                               *)
LEMMA CheckedKeeps ==
  ASSUME PassOK, stack # <<>>, ast' = ast, Checked, NEW n \in DOMAIN ast, NEW type, Fine(type),
         typeOf' \in {typeOf, [typeOf EXCEPT ![n] = type]},
         bound' \in [DOMAIN ast -> [scope : Nat, index : Nat]]
  PROVE  PassOK' /\ Grown /\ GoesOn
<1>1. Return /\ UNCHANGED <<phase, scopes, scopeOf, unused>> /\ NotesOK
  BY DEF Checked, PassOK
<1>2. NotesOK'
  <2>1. CASE typeOf' = typeOf
    BY <1>1, <2>1 DEF NotesOK, Fine
  <2>2. CASE typeOf' = [typeOf EXCEPT ![n] = type]
    BY <1>1, <2>2, TypeNoted
  <2> QED BY <2>1, <2>2
<1> QED BY <1>1, <1>2, YieldKeeps

(* The type the checker found for a kid.                                   *)
LEMMA KidTypeFine ==
  ASSUME WellFormed(ast), NotesOK, NEW n \in DOMAIN ast, NEW i \in 1..Len(ast[n].kids)
  PROVE  Fine(typeOf[Kid(n, i)])
<1> DEFINE kid == Kid(n, i)
<1>1. kid \in DOMAIN ast
  BY KidOfTree
<1> HIDE DEF kid
<1>2. Fine(typeOf[kid])
  BY <1>1 DEF NotesOK
<1> QED BY <1>2 DEF kid

LEMMA BoundStays ==
  ASSUME NotesOK, UNCHANGED bound
  PROVE  bound' \in [DOMAIN ast -> [scope : Nat, index : Nat]]
BY DEF NotesOK

(* The cases for which only the kids are checked next.                     *)
LEMMA VisitExprKeeps ==
  ASSUME WellFormed(ast), PassOK, ast' = ast,
         typecheckBinop \/ typecheckUnop \/ typecheckIf \/ typecheckCall \/ typecheckExit
  PROVE  PassOK' /\ Grown /\ GoesOn
<1> DEFINE n == Top.n
           s == Top.s
<1>1. /\ Running("typecheckExpr")
      /\ ast[n].kind \in {"BINOP", "UNOP", "IF", "CALL", "EXIT"}
  BY DEF typecheckBinop, typecheckUnop, typecheckIf, typecheckCall, typecheckExit, Expr,
         RunningOn
<1>2. /\ stack # <<>> /\ n \in DOMAIN ast /\ Len(scopes) \in Nat
      /\ s \in 0..Len(scopes) /\ s # 0
  BY <1>1, SemanticTop DEF SemanticTasks
<1>3. Fits(Task("typecheckExpr", Kid(n, 1), s), Len(scopes))
  <2> HIDE DEF n, s
  <2>1. 1 \in 1..Len(ast[n].kids)
    BY <1>1, <1>2, OnlyKid
  <2> QED BY <1>2, <2>1, KidFits
<1>4. CASE typecheckBinop
  <2>1. ast[n].kind = "BINOP"
    BY <1>4 DEF typecheckBinop, Expr, RunningOn
  <2> DEFINE operands == ForEach("typecheckExpr", ast[n].kids, s)
             rest == Task("binopEnd", n, s)
  <2>2. Visit(operands \o <<rest>>)
    BY <1>4 DEF typecheckBinop
  <2>3. AllFit(operands, Len(scopes))
    <3> HIDE DEF n, s
    <3>1. ast[n].kids \in Seq(DOMAIN ast)
      BY <1>2, TreeNodes
    <3> QED BY <1>2, <3>1, ForEachFits DEF PlainTasks
  <2>4. AllFit(<<rest>>, Len(scopes))
    <3> HIDE DEF n, s
    <3>1. Fits(rest, Len(scopes))
      BY <1>2, <2>1, RestFits
    <3> QED BY <3>1, OneFits
  <2> HIDE DEF operands, rest
  <2>5. AllFit(operands \o <<rest>>, Len(scopes))
    BY <2>3, <2>4, AllFitTogether
  <2> QED BY <1>2, <2>2, <2>5, VisitKeeps
<1>5. CASE typecheckUnop
  <2>1. ast[n].kind = "UNOP"
    BY <1>5 DEF typecheckUnop, Expr, RunningOn
  <2>2. Visit(<<Task("typecheckExpr", Kid(n, 1), s), Task("unopEnd", n, s)>>)
    BY <1>5 DEF typecheckUnop
  <2> HIDE DEF n, s
  <2>3. Fits(Task("unopEnd", n, s), Len(scopes))
    BY <1>2, <2>1, RestFits
  <2>4. AllFit(<<Task("typecheckExpr", Kid(n, 1), s), Task("unopEnd", n, s)>>, Len(scopes))
    BY <1>3, <2>3, TwoFit
  <2> QED BY <1>2, <2>2, <2>4, VisitKeeps
<1>6. CASE typecheckIf
  <2>1. ast[n].kind = "IF"
    BY <1>6 DEF typecheckIf, Expr, RunningOn
  <2>2. Visit(<<Task("typecheckExpr", Kid(n, 1), s), Task("ifTrue", n, s)>>)
    BY <1>6 DEF typecheckIf
  <2> HIDE DEF n, s
  <2>3. Fits(Task("ifTrue", n, s), Len(scopes))
    BY <1>2, <2>1, RestFits
  <2>4. AllFit(<<Task("typecheckExpr", Kid(n, 1), s), Task("ifTrue", n, s)>>, Len(scopes))
    BY <1>3, <2>3, TwoFit
  <2> QED BY <1>2, <2>2, <2>4, VisitKeeps
<1>7. CASE typecheckCall
  <2>1. ast[n].kind = "CALL"
    BY <1>7 DEF typecheckCall, Expr, RunningOn
  <2>2. Visit(<<Task("typecheckExpr", Kid(n, 1), s), TaskAt("argument", n, s, 1)>>)
    BY <1>7 DEF typecheckCall
  <2> HIDE DEF n, s
  <2>3. Fits(TaskAt("argument", n, s, 1), Len(scopes))
    BY <1>2, <2>1, RestFits
  <2>4. AllFit(<<Task("typecheckExpr", Kid(n, 1), s), TaskAt("argument", n, s, 1)>>,
               Len(scopes))
    BY <1>3, <2>3, TwoFit
  <2> QED BY <1>2, <2>2, <2>4, VisitKeeps
<1>8. CASE typecheckExit
  <2>1. Visit(<<Task("typecheckExpr", Kid(n, 1), s)>>)
    BY <1>8 DEF typecheckExit
  <2> HIDE DEF n, s
  <2>2. AllFit(<<Task("typecheckExpr", Kid(n, 1), s)>>, Len(scopes))
    BY <1>3, OneFits
  <2> QED BY <1>2, <2>1, <2>2, VisitKeeps
<1> QED BY <1>4, <1>5, <1>6, <1>7, <1>8

(* The cases that give the node a type or report an error.                 *)
LEMMA YieldExprKeeps ==
  ASSUME WellFormed(ast), PassOK, ast' = ast,
         \/ typecheckLiteral \/ typecheckIdent \/ binopEnd \/ unopEnd \/ ifEnd
  PROVE  PassOK' /\ Grown /\ GoesOn
<1> DEFINE n == Top.n
<1> USE DEF SemanticTasks
<1>1. CASE typecheckLiteral
  <2> DEFINE type == Named(IF ast[n].op = "INT" THEN "i32" ELSE "bool")
  <2>1. stack # <<>> /\ n \in DOMAIN ast /\ NotesOK
    BY <1>1, SemanticTop DEF typecheckLiteral, Expr, RunningOn
  <2>2. Fine(type)
    BY NamedFine, NamesAssumption
  <2>3. Checked /\ UNCHANGED bound /\ typeOf' = [typeOf EXCEPT ![n] = type]
    BY <1>1 DEF typecheckLiteral, Yields
  <2> HIDE DEF n, type
  <2> QED BY <2>1, <2>2, <2>3, BoundStays, CheckedKeeps
<1>2. CASE typecheckIdent
  <2> DEFINE symbol == scopeLookup(scopes, Top.s, ast[n].name)
             type == IF symbol = NullSymbol THEN NoType ELSE SymbolAt(scopes, symbol).type
  <2>1. /\ stack # <<>> /\ n \in DOMAIN ast /\ NotesOK /\ Fine(NoType)
        /\ FineScopes(scopes) /\ Top.s \in 0..Len(scopes)
    BY <1>2, SemanticTop DEF typecheckIdent, Expr, RunningOn
  <2>2. Fine(type)
    <3>1. CASE symbol = NullSymbol
      BY <2>1, <3>1
    <3>2. CASE symbol # NullSymbol
      <4>1. Fine(SymbolAt(scopes, symbol).type)
        BY <2>1, <3>2, SymbolFoundType
      <4> HIDE DEF symbol
      <4> QED BY <3>2, <4>1
    <3> QED BY <3>1, <3>2
  <2>3. symbol \in [scope : Nat, index : Nat]
    <3>1. NullSymbol \in [scope : Nat, index : Nat]
      BY DEF NullSymbol
    <3> QED BY <2>1, <3>1, SymbolFound
  <2>4. /\ Checked
        /\ typeOf' \in {typeOf, [typeOf EXCEPT ![n] = type]}
        /\ bound' \in {bound, [bound EXCEPT ![n] = symbol]}
    BY <1>2 DEF typecheckIdent, Yields, Fails
  <2> HIDE DEF n, type, symbol
  <2>5. bound' \in [DOMAIN ast -> [scope : Nat, index : Nat]]
    <3>1. bound \in [DOMAIN ast -> [scope : Nat, index : Nat]]
      BY <2>1 DEF NotesOK
    <3>2. [bound EXCEPT ![n] = symbol] \in [DOMAIN ast -> [scope : Nat, index : Nat]]
      BY <2>3, <3>1, ChangedAt
    <3> QED BY <2>4, <3>1, <3>2
  <2> QED BY <2>1, <2>2, <2>4, <2>5, CheckedKeeps
<1>3. CASE binopEnd
  <2> DEFINE lhsType == typeOf[Kid(n, 1)]
  <2>1. /\ stack # <<>> /\ n \in DOMAIN ast /\ NotesOK /\ Fine(NoType)
        /\ ast[n].kind = "BINOP"
    BY <1>3, SemanticTop DEF binopEnd, Fits
  <2>2. Fine(lhsType) /\ Fine(Named("bool"))
    <3> HIDE DEF n
    <3>1. 1 \in 1..Len(ast[n].kids)
      BY <2>1, OnlyKid
    <3> QED BY <2>1, <3>1, KidTypeFine, NamedFine, NamesAssumption
  <2>3. /\ Checked /\ UNCHANGED bound
        /\ \/ typeOf' = typeOf
           \/ typeOf' = [typeOf EXCEPT ![n] = lhsType]
           \/ typeOf' = [typeOf EXCEPT ![n] = Named("bool")]
    BY <1>3 DEF binopEnd, Yields, Fails
  <2> HIDE DEF n, lhsType
  <2> QED BY <2>1, <2>2, <2>3, BoundStays, CheckedKeeps
<1>4. CASE unopEnd
  <2> DEFINE operandType == typeOf[Kid(n, 1)]
  <2>1. /\ stack # <<>> /\ n \in DOMAIN ast /\ NotesOK /\ ast[n].kind = "UNOP"
    BY <1>4, SemanticTop DEF unopEnd, Fits
  <2>2. Fine(operandType)
    <3> HIDE DEF n
    <3>1. 1 \in 1..Len(ast[n].kids)
      BY <2>1, OnlyKid
    <3> QED BY <2>1, <3>1, KidTypeFine
  <2>3. /\ Checked /\ UNCHANGED bound
        /\ typeOf' \in {typeOf, [typeOf EXCEPT ![n] = operandType]}
    BY <1>4 DEF unopEnd, Yields, Fails
  <2> HIDE DEF n, operandType
  <2> QED BY <2>1, <2>2, <2>3, BoundStays, CheckedKeeps
<1>5. CASE ifEnd
  <2> DEFINE trueType == typeOf[Kid(n, 2)]
  <2>1. /\ stack # <<>> /\ n \in DOMAIN ast /\ NotesOK /\ Len(ast[n].kids) = 3
    BY <1>5, SemanticTop DEF ifEnd, Fits
  <2>2. Fine(trueType)
    <3> HIDE DEF n
    <3>1. 2 \in 1..Len(ast[n].kids)
      BY <2>1
    <3> QED BY <2>1, <3>1, KidTypeFine
  <2>3. /\ Checked /\ UNCHANGED bound
        /\ typeOf' \in {typeOf, [typeOf EXCEPT ![n] = trueType]}
    BY <1>5 DEF ifEnd, Yields, Fails
  <2> HIDE DEF n, trueType
  <2> QED BY <2>1, <2>2, <2>3, BoundStays, CheckedKeeps
<1> QED BY <1>1, <1>2, <1>3, <1>4, <1>5

(* The steps between the kids of an if and of a call: the next kid is      *)
(* checked, or the node is done without a type.                            *)
LEMMA CallKeeps ==
  ASSUME PassOK, stack # <<>>, ast' = ast, NEW tasks, Call(tasks),
         AllFit(tasks, Len(scopes)), UNCHANGED <<phase, scopes, annotations>>
  PROVE  PassOK' /\ Grown /\ GoesOn
<1>1. ScopesOK' /\ Grown
  BY ScopesStay DEF PassOK
<1>2. StackOK'
  BY <1>1, StackCalls DEF PassOK
<1> QED BY <1>1, <1>2, NotesStay DEF PassOK, GoesOn

LEMMA NextKidKeeps ==
  ASSUME WellFormed(ast), PassOK, ast' = ast, ifTrue \/ ifFalse \/ argument
  PROVE  PassOK' /\ Grown /\ GoesOn
<1> DEFINE n == Top.n
           s == Top.s
<1> USE DEF SemanticTasks
<1>1. /\ stack # <<>> /\ n \in DOMAIN ast /\ Len(scopes) \in Nat
      /\ s \in 0..Len(scopes) /\ s # 0 /\ Fits(Top, Len(scopes))
      /\ Top.do \in {"ifTrue", "ifFalse", "argument"}
  BY SemanticTop DEF ifTrue, ifFalse, argument
<1>2. CASE ifTrue
  <2>1. ast[n].kind = "IF"
    BY <1>1, <1>2 DEF ifTrue, Fits, Running
  <2>2. /\ Call(<<Task("typecheckExpr", Kid(n, 2), s), Task("ifFalse", n, s)>>)
        /\ UNCHANGED <<phase, scopes, annotations>>
    BY <1>2 DEF ifTrue
  <2> HIDE DEF n, s
  <2>3. 2 \in 1..Len(ast[n].kids)
    <3>1. Len(ast[n].kids) \in {2, 3}
      BY <1>1, <2>1, KidsCount
    <3> QED BY <3>1
  <2>4. /\ Fits(Task("typecheckExpr", Kid(n, 2), s), Len(scopes))
        /\ Fits(Task("ifFalse", n, s), Len(scopes))
    BY <1>1, <2>1, <2>3, KidFits, RestFits
  <2>5. AllFit(<<Task("typecheckExpr", Kid(n, 2), s), Task("ifFalse", n, s)>>, Len(scopes))
    BY <2>4, TwoFit
  <2> QED BY <1>1, <2>2, <2>5, CallKeeps
<1>3. CASE ifFalse
  <2>1. ast[n].kind = "IF" /\ UNCHANGED <<phase, scopes, annotations>>
    BY <1>1, <1>3 DEF ifFalse, Fits, Running
  <2>2. CASE Len(ast[n].kids) = 2
    <3>1. Return
      BY <1>3, <2>2 DEF ifFalse
    <3> QED BY <1>1, <2>1, <3>1, ReturnKeeps
  <2>3. CASE Len(ast[n].kids) # 2
    <3>1. Call(<<Task("typecheckExpr", Kid(n, 3), s), Task("ifEnd", n, s)>>)
      BY <1>3, <2>3 DEF ifFalse
    <3> HIDE DEF n, s
    <3>2. Len(ast[n].kids) \in {2, 3}
      BY <1>1, <2>1, KidsCount
    <3>3. Len(ast[n].kids) = 3 /\ 3 \in 1..Len(ast[n].kids)
      BY <2>3, <3>2
    <3>4. /\ Fits(Task("typecheckExpr", Kid(n, 3), s), Len(scopes))
          /\ Fits(Task("ifEnd", n, s), Len(scopes))
      BY <1>1, <2>1, <3>3, KidFits, RestFits
    <3>5. AllFit(<<Task("typecheckExpr", Kid(n, 3), s), Task("ifEnd", n, s)>>, Len(scopes))
      BY <3>4, TwoFit
    <3> QED BY <1>1, <2>1, <3>1, <3>5, CallKeeps
  <2> QED BY <2>2, <2>3
<1>4. CASE argument
  <2> DEFINE at == Top.at
  <2>1. ast[n].kind = "CALL" /\ at # 0 /\ at \in Nat
    BY <1>1, <1>4 DEF argument, Fits, Running, Tasks
  <2>2. /\ Call(<<Task("typecheckExpr", Kid(n, at + 1), s), TaskAt("argument", n, s, at + 1)>>)
        /\ UNCHANGED <<phase, scopes, annotations>>
        /\ at <= ArgsCount(n)
    BY <1>4 DEF argument
  <2> HIDE DEF n, s, at
  <2>3. at + 1 \in 1..Len(ast[n].kids) /\ at + 1 \in Nat /\ at + 1 # 0
    <3>1. Len(ast[n].kids) \in Nat
      BY <1>1, KidsCount
    <3> QED BY <2>1, <2>2, <3>1 DEF ArgsCount
  <2>4. /\ Fits(Task("typecheckExpr", Kid(n, at + 1), s), Len(scopes))
        /\ Fits(TaskAt("argument", n, s, at + 1), Len(scopes))
    BY <1>1, <2>1, <2>3, KidFits, RestFits
  <2>5. AllFit(<<Task("typecheckExpr", Kid(n, at + 1), s),
                 TaskAt("argument", n, s, at + 1)>>, Len(scopes))
    BY <2>4, TwoFit
  <2> QED BY <1>1, <2>2, <2>5, CallKeeps
<1> QED BY <1>2, <1>3, <1>4

(* The remaining cases: a block, the end of a call, and the default.       *)
LEMMA OtherExprKeeps ==
  ASSUME WellFormed(ast), PassOK, ast' = ast,
         typecheckBlock \/ refusedCall \/ callEnd \/ typecheckDefault
  PROVE  PassOK' /\ Grown /\ GoesOn
<1> DEFINE n == Top.n
           s == Top.s
<1> USE DEF SemanticTasks
<1>1. /\ stack # <<>> /\ n \in DOMAIN ast /\ s \in 0..Len(scopes)
      /\ Fits(Top, Len(scopes)) /\ Top.do \in {"typecheckExpr", "argument"}
      /\ FineScopes(scopes) /\ NotesOK /\ Fine(NoType)
  BY SemanticTop
     DEF typecheckBlock, refusedCall, callEnd, typecheckDefault, Expr, RunningOn
<1>2. CASE typecheckBlock
  <2> DEFINE scope == initScope(scopes, s)
  <2>1. /\ scopes' = Append(scopes, scope)
        /\ scopeOf' = [scopeOf EXCEPT ![n] = Len(scopes) + 1]
        /\ Call(ForEach("typecheckStmt", ast[n].kids, Len(scopes) + 1))
        /\ UNCHANGED <<phase, unused, typeOf, bound>>
    BY <1>2 DEF typecheckBlock
  <2>2. FineScope(scope) /\ scope.chain \subseteq 1..(Len(scopes) + 1)
    BY <1>1, InitScopeFine
  <2> HIDE DEF n, s, scope
  <2> QED BY <1>1, <2>1, <2>2, EnterKeeps
<1>3. CASE refusedCall
  <2>1. Return /\ UNCHANGED <<phase, scopes, annotations>>
    BY <1>3 DEF refusedCall
  <2> QED BY <1>1, <2>1, ReturnKeeps
<1>4. CASE callEnd
  <2> DEFINE callee == Callee(n)
             type == ast[callee.decl].type
  <2>1. /\ Return /\ UNCHANGED <<phase, warnings, scopes, scopeOf, unused, bound>>
        /\ typeOf' = [typeOf EXCEPT ![n] = type] /\ callee.kind = "TYPE_FUNC"
    BY <1>4 DEF callEnd
  <2>2. ast[n].kind = "CALL"
    BY <1>1, <1>4 DEF callEnd, Running, Fits
  <2>3. Fine(callee)
    <3> HIDE DEF n
    <3>1. 1 \in 1..Len(ast[n].kids)
      BY <1>1, <2>2, OnlyKid
    <3> QED BY <1>1, <3>1, KidTypeFine DEF Callee
  <2>4. Fine(type)
    <3> HIDE DEF callee, n
    <3>1. callee.decl \in DOMAIN ast
      BY <2>1, <2>3 DEF Fine
    <3>2. ast[callee.decl].type \in WrittenType
      BY <3>1, TreeNodes DEF Node
    <3> QED BY <3>2, WrittenFine
  <2>5. Checked
    BY <2>1 DEF Checked
  <2> HIDE DEF n, type, callee
  <2> QED BY <1>1, <2>1, <2>4, <2>5, BoundStays, CheckedKeeps
<1>5. CASE typecheckDefault
  <2>1. CASE Return /\ UNCHANGED phase /\ \E wild \in {NoType, WildType} :
               typeOf' = [typeOf EXCEPT ![n] = wild]
    <3>1. PICK wild \in {NoType, WildType} : typeOf' = [typeOf EXCEPT ![n] = wild]
      BY <2>1
    <3>2. Checked /\ UNCHANGED bound
      BY <1>5, <2>1 DEF typecheckDefault, Checked
    <3>3. Fine(wild)
      BY NoTypeFine
    <3> HIDE DEF n
    <3> QED BY <1>1, <3>1, <3>2, <3>3, BoundStays, CheckedKeeps
  <2>2. CASE Crash /\ UNCHANGED typeOf
    <3>1. phase' = "crashed" /\ stack' = <<>> /\ UNCHANGED <<scopes, annotations>>
      BY <1>5, <2>2 DEF typecheckDefault, Crash, annotations
    <3>2. ScopesOK' /\ Grown
      BY <3>1, ScopesStay DEF PassOK
    <3> QED BY <3>1, <3>2, NothingPending, NotesStay DEF PassOK, GoesOn
  <2> QED BY <1>5, <2>1, <2>2 DEF typecheckDefault
<1> QED BY <1>2, <1>3, <1>4, <1>5

LEMMA AnalysisStepKeeps ==
  ASSUME WellFormed(ast), PassOK, AnalysisStep
  PROVE  PassOK' /\ Grown /\ GoesOn
<1>1. ast' = ast
  BY DEF AnalysisStep
<1>2. CASE resolveNode
  BY <1>1, <1>2, ResolveNodeKeeps
<1>3. CASE typecheckStmt
  BY <1>1, <1>3, TypecheckStmtKeeps
<1>4. CASE typecheckExpr
  BY <1>1, <1>4, VisitExprKeeps, YieldExprKeeps, NextKidKeeps, OtherExprKeeps
     DEF typecheckExpr
<1> QED BY <1>2, <1>3, <1>4 DEF AnalysisStep

-----------------------------------------------------------------------------
(* The bytes of the generator.                                             *)

LEMMA UnsignedByte ==
  ASSUME NEW i \in Int
  PROVE  uint8(i) \in Byte
BY ByteSizeAssumption DEF uint8, Byte

LEMMA OpcodeByte ==
  ASSUME NEW op \in DOMAIN Opcode
  PROVE  Opcode[op] \in Byte
BY ByteSizeAssumption DEF Opcode, Byte

LEMMA OpenBytes == Unpatched \in Byte /\ <<Unpatched, Unpatched>> \in Seq(Byte)
<1>1. Unpatched \in Byte
  BY ByteSizeAssumption DEF Unpatched, Byte
<1> QED BY <1>1

LEMMA ByteChangedAt ==
  ASSUME NEW bytes \in Seq(Byte), NEW offset, NEW byte \in Byte
  PROVE  /\ [bytes EXCEPT ![offset] = byte] \in Seq(Byte)
         /\ Len([bytes EXCEPT ![offset] = byte]) = Len(bytes)
         /\ \A i \in DOMAIN bytes : i # offset => [bytes EXCEPT ![offset] = byte][i] = bytes[i]
<1> DEFINE new == [bytes EXCEPT ![offset] = byte]
<1>1. /\ Len(bytes) \in Nat /\ DOMAIN bytes = 1..Len(bytes)
      /\ \A i \in 1..Len(bytes) : bytes[i] \in Byte
  OBVIOUS
<1>2. /\ new = [i \in 1..Len(bytes) |-> new[i]]
      /\ \A i \in 1..Len(bytes) : new[i] \in Byte
  BY <1>1
<1>3. \A i \in DOMAIN bytes : i # offset => new[i] = bytes[i]
  OBVIOUS
<1> HIDE DEF new
<1>4. new \in Seq(Byte) /\ Len(new) = Len(bytes)
  BY <1>1, <1>2
<1> QED BY <1>3, <1>4 DEF new

(* The bytes a jump gets.                                                  *)
LEMMA PatchKeeps ==
  ASSUME NEW bytes, Code(bytes), NEW offset \in Int, NEW with \in Int
  PROVE  /\ Code(patchJump(bytes, offset, with))
         /\ Len(patchJump(bytes, offset, with)) = Len(bytes)
         /\ \A i \in DOMAIN bytes : i \notin {offset + 1, offset + 2} =>
              patchJump(bytes, offset, with)[i] = bytes[i]
<1> DEFINE jump == with - offset - 2
           high == uint8(jump \div ByteSize)
           low == uint8(jump)
<1>1. jump \in Int /\ jump \div ByteSize \in Int
  BY ByteSizeAssumption
<1>2. high \in Byte /\ low \in Byte
  <2> HIDE DEF jump
  <2> QED BY <1>1, UnsignedByte
<1>3. patchJump(bytes, offset, with)
        = [bytes EXCEPT ![offset + 1] = high, ![offset + 2] = low]
  BY DEF patchJump
<1> DEFINE first == offset + 1
           second == offset + 2
           once == [bytes EXCEPT ![first] = high]
<1>4. patchJump(bytes, offset, with) = [once EXCEPT ![second] = low]
  BY <1>3
<1> HIDE DEF jump, high, low, first, second
<1>5. once \in Seq(Byte) /\ Len(once) = Len(bytes)
      /\ \A i \in DOMAIN bytes : i # first => once[i] = bytes[i]
  BY <1>2, ByteChangedAt DEF Code
<1> HIDE DEF once
<1>6. [once EXCEPT ![second] = low] \in Seq(Byte)
      /\ Len([once EXCEPT ![second] = low]) = Len(once)
      /\ \A i \in DOMAIN once : i # second => [once EXCEPT ![second] = low][i] = once[i]
  BY <1>2, <1>5, ByteChangedAt
<1>7. DOMAIN once = DOMAIN bytes
  BY <1>5 DEF Code
<1>8. ASSUME NEW i \in DOMAIN bytes, i \notin {first, second}
      PROVE  patchJump(bytes, offset, with)[i] = bytes[i]
  BY <1>4, <1>5, <1>6, <1>7, <1>8
<1>9. Code(patchJump(bytes, offset, with)) /\ Len(patchJump(bytes, offset, with)) = Len(bytes)
  BY <1>4, <1>5, <1>6 DEF Code
<1> QED BY <1>8, <1>9 DEF first, second

LEMMA EmitKeeps ==
  ASSUME CodeOK, NEW op \in DOMAIN Opcode, NEW operands \in Seq(Byte), NEW n \in Nat,
         emit(op, operands, n)
  PROVE  Code(code') /\ log' \in Seq(Instruction)
<1>1. code \in Seq(Byte) /\ log \in Seq(Instruction) /\ Len(code) \in Nat
  BY DEF CodeOK, Code
<1>2. <<Opcode[op]>> \in Seq(Byte)
  BY OpcodeByte
<1>3. code' \in Seq(Byte)
  BY <1>1, <1>2 DEF emit
<1>4. Logged(Len(code), op, n) \in Instruction
  BY <1>1 DEF Logged, Instruction
<1>5. log' \in Seq(Instruction)
  BY <1>1, <1>4 DEF emit
<1> QED BY <1>3, <1>5 DEF Code

-----------------------------------------------------------------------------
(* The generator.                                                          *)

(* A step of the generator leaves the tree, the scopes and the annotations *)
(* alone.                                                                  *)
LEMMA GeneratorKeeps ==
  ASSUME PassOK, UNCHANGED <<ast, scopes, annotations>>, StackOK', CodeOK', GoesOn
  PROVE  PassOK' /\ Grown /\ CodeOK' /\ GoesOn
<1>1. ast' = ast /\ scopes' = scopes /\ UNCHANGED annotations
  OBVIOUS
<1>2. ScopesOK' /\ Grown
  BY <1>1, ScopesStay DEF PassOK
<1> QED BY <1>1, <1>2, NotesStay DEF PassOK

LEMMA GeneratorReturns ==
  ASSUME PassOK, stack # <<>>, UNCHANGED <<ast, scopes, annotations>>, Return
  PROVE  StackOK'
<1>1. ast' = ast /\ scopes' = scopes
  OBVIOUS
<1>2. Grown
  BY <1>1, ScopesStay DEF PassOK
<1> QED BY <1>1, <1>2, StackReturns DEF PassOK

LEMMA GeneratorCalls ==
  ASSUME PassOK, stack # <<>>, UNCHANGED <<ast, scopes, annotations>>, NEW tasks,
         Call(tasks), AllFit(tasks, Len(scopes))
  PROVE  StackOK'
<1>1. ast' = ast /\ scopes' = scopes
  OBVIOUS
<1>2. Grown
  BY <1>1, ScopesStay DEF PassOK
<1> QED BY <1>1, <1>2, StackCalls DEF PassOK

LEMMA CodeStays ==
  ASSUME CodeOK, ast' = ast, UNCHANGED codegenVars
  PROVE  CodeOK'
BY DEF CodeOK, Code, codegenVars

LEMMA CodeChanges ==
  ASSUME CodeOK, ast' = ast, Code(code'), log' \in Seq(Instruction),
         UNCHANGED <<consts, mainLocation, letAt>>
  PROVE  CodeOK'
BY DEF CodeOK, Code

(* Where a step of the generator finds itself.                             *)
LEMMA CodegenTop ==
  ASSUME WellFormed(ast), PassOK, NEW do \in CodegenTasks, Running(do)
  PROVE  /\ stack # <<>> /\ Top.do = do /\ Fits(Top, Len(scopes))
         /\ Top.n \in DOMAIN ast /\ Top.n \in Nat /\ Top.at \in Nat
         /\ Top.s \in 0..Len(scopes) /\ Len(scopes) \in Nat /\ 0 \in 0..Len(scopes)
         /\ FineScopes(scopes) /\ NotesOK
<1>1. stack # <<>> /\ Top.do = do /\ Fits(Top, Len(scopes))
  BY TopFits DEF PassOK, Running
<1>2. Len(scopes) \in Nat /\ 0 \in 0..Len(scopes) /\ FineScopes(scopes)
  BY DEF PassOK, ScopesOK, FineScopes
<1>3. Top.n \in DOMAIN ast /\ Top.s \in 0..Len(scopes) /\ Top.at \in Nat /\ Top.n \in Nat
  BY <1>1 DEF Fits, Tasks
<1> QED BY <1>1, <1>2, <1>3 DEF PassOK

LEMMA GenStmtsFit ==
  ASSUME WellFormed(ast), PassOK, NEW n \in DOMAIN ast
  PROVE  AllFit(genStmts(n), Len(scopes))
<1> DEFINE s == scopeOf[n]
           count == Len(scopes)
<1>1. count \in Nat /\ s \in 0..count
  BY DEF PassOK, ScopesOK, FineScopes, NotesOK
<1>2. ast[n].kids \in Seq(DOMAIN ast)
  BY TreeNodes
<1>3. genStmts(n) = ForEach("genStmt", ast[n].kids, s) \o <<Task("endScope", n, s)>>
  BY DEF genStmts
<1> HIDE DEF s, count
<1>4. AllFit(ForEach("genStmt", ast[n].kids, s), count)
  BY <1>1, <1>2, ForEachFits DEF PlainTasks, SemanticTasks
<1>5. Fits(Task("endScope", n, s), count)
  BY <1>1, PlainFits DEF PlainTasks, SemanticTasks
<1>6. AllFit(<<Task("endScope", n, s)>>, count)
  BY <1>5, OneFits
<1>7. AllFit(genStmts(n), count)
  BY <1>3, <1>4, <1>6, AllFitTogether
<1> QED BY <1>7 DEF count

LEMMA GenStmtKeeps ==
  ASSUME WellFormed(ast), PassOK, CodeOK, genStmt, UNCHANGED <<ast, scopes, annotations>>
  PROVE  PassOK' /\ Grown /\ CodeOK' /\ GoesOn
<1> DEFINE n == Top.n
           s == Top.s
<1> USE DEF CodegenTasks, RunningOn
<1>1. /\ stack # <<>> /\ n \in DOMAIN ast /\ n \in Nat /\ s \in 0..Len(scopes)
      /\ Len(scopes) \in Nat /\ 0 \in 0..Len(scopes) /\ FineScopes(scopes) /\ ast' = ast
  BY CodegenTop
     DEF genStmt, genFunc, genVar, genExprStmt, popUnused, emitReturn, endScope
<1>2. CASE genFunc
  <2>1. /\ Call(genStmts(n) \o <<Task("emitReturn", n, 0)>>)
        /\ UNCHANGED <<phase, chunk, log, letAt>>
        /\ mainLocation' \in {Len(code), mainLocation}
    BY <1>2 DEF genFunc
  <2> HIDE DEF n, s
  <2>2. AllFit(genStmts(n), Len(scopes))
    BY <1>1, GenStmtsFit
  <2>3. Fits(Task("emitReturn", n, 0), Len(scopes))
    BY <1>1, PlainFits DEF PlainTasks, SemanticTasks
  <2>4. AllFit(genStmts(n) \o <<Task("emitReturn", n, 0)>>, Len(scopes))
    BY <2>2, <2>3, OneFits, AllFitTogether
  <2>5. StackOK'
    BY <1>1, <2>1, <2>4, GeneratorCalls
  <2>6. CodeOK'
    BY <1>1, <2>1 DEF CodeOK, Code, chunk
  <2> QED BY <2>1, <2>5, <2>6, GeneratorKeeps DEF GoesOn
<1>3. CASE genVar
  <2>1. /\ Call(<<Task("genExpression", Kid(n, 1), s)>>)
        /\ letAt' = [letAt EXCEPT ![n] = Len(log)]
        /\ UNCHANGED <<phase, chunk, mainLocation, log>> /\ ast[n].kind = "DECL_VAR"
    BY <1>3 DEF genVar
  <2> HIDE DEF n, s
  <2>2. 1 \in 1..Len(ast[n].kids)
    BY <1>1, <2>1, OnlyKid
  <2>3. AllFit(<<Task("genExpression", Kid(n, 1), s)>>, Len(scopes))
    BY <1>1, <2>2, KidFits, OneFits
  <2>4. StackOK'
    BY <1>1, <2>1, <2>3, GeneratorCalls
  <2>5. CodeOK'
    BY <1>1, <2>1 DEF CodeOK, Code, chunk
  <2> QED BY <2>1, <2>4, <2>5, GeneratorKeeps DEF GoesOn
<1>4. CASE genExprStmt
  <2>1. /\ Call(<<Task("genExpression", n, s), Task("popUnused", n, 0)>>)
        /\ UNCHANGED <<phase, codegenVars>>
    BY <1>4 DEF genExprStmt, Expand
  <2> HIDE DEF n, s
  <2>2. /\ Fits(Task("genExpression", n, s), Len(scopes))
        /\ Fits(Task("popUnused", n, 0), Len(scopes))
    BY <1>1, PlainFits DEF PlainTasks, SemanticTasks
  <2>3. AllFit(<<Task("genExpression", n, s), Task("popUnused", n, 0)>>, Len(scopes))
    BY <2>2, TwoFit
  <2>4. StackOK'
    BY <1>1, <2>1, <2>3, GeneratorCalls
  <2> QED BY <1>1, <2>1, <2>4, CodeStays, GeneratorKeeps DEF GoesOn
<1>5. CASE popUnused \/ emitReturn
  <2>1. /\ Return /\ UNCHANGED <<phase, consts, mainLocation, letAt>>
        /\ \/ emit("POP", <<>>, n) \/ emit("RETURN", <<>>, n) \/ UNCHANGED <<code, log>>
    BY <1>5 DEF popUnused, emitReturn, emitByte, Written
  <2> HIDE DEF n
  <2>2. "POP" \in DOMAIN Opcode /\ "RETURN" \in DOMAIN Opcode /\ <<>> \in Seq(Byte)
    BY DEF Opcode
  <2>3. Code(code') /\ log' \in Seq(Instruction)
    <3>1. CASE emit("POP", <<>>, n)
      BY <1>1, <2>2, <3>1, EmitKeeps
    <3>2. CASE emit("RETURN", <<>>, n)
      BY <1>1, <2>2, <3>2, EmitKeeps
    <3>3. CASE UNCHANGED <<code, log>>
      BY <3>3 DEF CodeOK
    <3> QED BY <2>1, <3>1, <3>2, <3>3
  <2>4. CodeOK'
    BY <1>1, <2>1, <2>3, CodeChanges
  <2>5. StackOK'
    BY <1>1, <2>1, GeneratorReturns
  <2> QED BY <2>1, <2>4, <2>5, GeneratorKeeps DEF GoesOn
<1>6. CASE endScope
  <2>1. CASE s = 0
    <3>1. phase' = "crashed" /\ stack' = <<>> /\ UNCHANGED codegenVars
      BY <1>6, <2>1 DEF endScope, Crash
    <3> QED BY <1>1, <3>1, CodeStays, NothingPending, GeneratorKeeps DEF GoesOn
  <2>2. CASE s # 0
    <3> DEFINE pops == Len(scopes[s].symbols)
               bytes == [i \in 1..pops |-> Opcode.POP]
               entries == [i \in 1..pops |-> Logged(Len(code) + i - 1, "POP", n)]
    <3>1. /\ code' = code \o bytes /\ log' = log \o entries
          /\ Return /\ UNCHANGED <<phase, consts, mainLocation, letAt>>
      BY <1>6, <2>2 DEF endScope, Written
    <3>2. pops \in Nat
      <4>1. scopes[s] \in Scope
        BY <1>1, <2>2 DEF FineScopes, FineScope
      <4> QED BY <4>1 DEF Scope
    <3>3. "POP" \in DOMAIN Opcode /\ Opcode.POP \in Byte
      BY ByteSizeAssumption DEF Opcode, Byte
    <3>4. code \in Seq(Byte) /\ log \in Seq(Instruction) /\ Len(code) \in Nat
      BY DEF CodeOK, Code
    <3> HIDE DEF pops, n
    <3>5. bytes \in Seq(Byte)
      BY <3>2, <3>3
    <3>6. entries \in Seq(Instruction)
      <4>1. \A i \in 1..pops : Logged(Len(code) + i - 1, "POP", n) \in Instruction
        BY <1>1, <3>2, <3>3, <3>4 DEF Logged, Instruction
      <4> QED BY <3>2, <4>1
    <3> HIDE DEF bytes, entries
    <3>7. Code(code') /\ log' \in Seq(Instruction)
      BY <3>1, <3>4, <3>5, <3>6 DEF Code
    <3>8. CodeOK'
      BY <1>1, <3>1, <3>7, CodeChanges
    <3>9. StackOK'
      BY <1>1, <3>1, GeneratorReturns
    <3> QED BY <3>1, <3>8, <3>9, GeneratorKeeps DEF GoesOn
  <2> QED BY <2>1, <2>2
<1> QED BY <1>2, <1>3, <1>4, <1>5, <1>6 DEF genStmt

LEMMA OperatorOps ==
  ASSUME NEW op \in operators
  PROVE  OperatorOp(op) \in DOMAIN Opcode
BY DEF operators, OperatorOp, Opcode

(* The cases that write an instruction, or report an error, and return.    *)
LEMMA WriteExprKeeps ==
  ASSUME WellFormed(ast), PassOK, CodeOK, UNCHANGED <<ast, scopes, annotations>>,
         genLiteral \/ genIdent \/ operator \/ genDefault \/ patchOut \/ patchEntry
  PROVE  PassOK' /\ Grown /\ CodeOK' /\ GoesOn
<1> DEFINE n == Top.n
           s == Top.s
           at == Top.at
<1> USE DEF CodegenTasks, RunningOn, Gen
<1>1. /\ stack # <<>> /\ n \in DOMAIN ast /\ n \in Nat /\ s \in 0..Len(scopes)
      /\ at \in Nat /\ FineScopes(scopes) /\ ast' = ast
  BY CodegenTop DEF genLiteral, genIdent, operator, genDefault, patchOut, patchEntry
<1>2. /\ code \in Seq(Byte) /\ consts \in Seq(Int) /\ log \in Seq(Instruction)
      /\ Len(code) \in Nat /\ Len(consts) \in Nat /\ mainLocation \in Nat /\ Code(code)
  BY DEF CodeOK, Code
<1>3. CASE genLiteral
  <2> DEFINE value == IF ast[n].op = "INT" THEN ast[n].val ELSE 1
             operands == <<uint8(Len(consts))>>
  <2>1. /\ consts' = Append(consts, value) /\ emit("CONSTANT", operands, n)
        /\ Return /\ UNCHANGED <<phase, mainLocation, letAt>>
    BY <1>3 DEF genLiteral, emitConstant
  <2>2. value \in Int
    <3>1. ast[n].val \in Int
      BY <1>1, TreeNodes DEF Node
    <3> QED BY <3>1
  <2>3. operands \in Seq(Byte)
    BY <1>2, UnsignedByte
  <2> HIDE DEF n, value, operands
  <2>4. "CONSTANT" \in DOMAIN Opcode
    BY DEF Opcode
  <2>5. Code(code') /\ log' \in Seq(Instruction)
    BY <1>1, <2>1, <2>3, <2>4, EmitKeeps
  <2>6. consts' \in Seq(Int)
    BY <1>2, <2>1, <2>2
  <2>7. CodeOK'
    BY <1>1, <2>1, <2>5, <2>6 DEF CodeOK
  <2>8. StackOK'
    BY <1>1, <2>1, GeneratorReturns
  <2> QED BY <2>1, <2>7, <2>8, GeneratorKeeps DEF GoesOn
<1>4. CASE genIdent
  <2> DEFINE symbol == scopeLookup(scopes, s, ast[n].name)
  <2>1. CASE symbol = NullSymbol
    <3>1. phase' = "crashed" /\ stack' = <<>> /\ UNCHANGED codegenVars
      BY <1>4, <2>1 DEF genIdent, Crash, codegenVars
    <3> QED BY <1>1, <3>1, CodeStays, NothingPending, GeneratorKeeps DEF GoesOn
  <2>2. CASE symbol # NullSymbol
    <3> DEFINE operands == <<uint8(SymbolAt(scopes, symbol).funcIndex)>>
    <3>1. /\ emit("GET_LOCAL", operands, n)
          /\ Return /\ UNCHANGED <<phase, consts, mainLocation, letAt>>
      BY <1>4, <2>2 DEF genIdent
    <3>2. SymbolAt(scopes, symbol) \in Symbol
      BY <1>1, <2>2, SymbolFoundType
    <3>3. operands \in Seq(Byte)
      <4>1. SymbolAt(scopes, symbol).funcIndex \in Int
        BY <3>2 DEF Symbol
      <4> QED BY <4>1, UnsignedByte
    <3> HIDE DEF n, symbol, operands
    <3>4. "GET_LOCAL" \in DOMAIN Opcode
      BY DEF Opcode
    <3>5. Code(code') /\ log' \in Seq(Instruction)
      BY <1>1, <3>1, <3>3, <3>4, EmitKeeps
    <3>6. CodeOK'
      BY <1>1, <3>1, <3>5, CodeChanges
    <3>7. StackOK'
      BY <1>1, <3>1, GeneratorReturns
    <3> QED BY <3>1, <3>6, <3>7, GeneratorKeeps DEF GoesOn
  <2> QED BY <2>1, <2>2
<1>5. CASE operator
  <2> DEFINE op == ast[n].op
  <2>1. /\ Return /\ UNCHANGED <<phase, consts, mainLocation, letAt>>
        /\ \/ op \in operators /\ emit(OperatorOp(op), <<>>, n)
           \/ UNCHANGED <<code, log>>
    BY <1>5 DEF operator, Written, emitByte
  <2> HIDE DEF n, op
  <2>2. Code(code') /\ log' \in Seq(Instruction)
    <3>1. CASE op \in operators /\ emit(OperatorOp(op), <<>>, n)
      <4>1. OperatorOp(op) \in DOMAIN Opcode /\ <<>> \in Seq(Byte)
        BY <3>1, OperatorOps
      <4> QED BY <1>1, <3>1, <4>1, EmitKeeps
    <3>2. CASE UNCHANGED <<code, log>>
      BY <3>2 DEF CodeOK
    <3> QED BY <2>1, <3>1, <3>2
  <2>3. CodeOK'
    BY <1>1, <2>1, <2>2, CodeChanges
  <2>4. StackOK'
    BY <1>1, <2>1, GeneratorReturns
  <2> QED BY <2>1, <2>3, <2>4, GeneratorKeeps DEF GoesOn
<1>6. CASE genDefault
  <2>1. Return /\ UNCHANGED <<phase, codegenVars>>
    BY <1>6 DEF genDefault
  <2>2. StackOK'
    BY <1>1, <2>1, GeneratorReturns
  <2> QED BY <1>1, <2>1, <2>2, CodeStays, GeneratorKeeps DEF GoesOn
<1>7. CASE patchOut \/ patchEntry
  <2>1. PICK with \in {Len(code), mainLocation} : code' = patchJump(code, at, with)
    BY <1>7 DEF patchOut, patchEntry
  <2>2. Return /\ UNCHANGED <<phase, consts, mainLocation, log, letAt>>
    BY <1>7 DEF patchOut, patchEntry
  <2> HIDE DEF at
  <2>3. Code(code')
    <3>1. at \in Int /\ with \in Int
      BY <1>1, <1>2
    <3> QED BY <1>2, <2>1, <3>1, PatchKeeps
  <2>4. CodeOK'
    BY <1>1, <1>2, <2>2, <2>3, CodeChanges
  <2>5. StackOK'
    BY <1>1, <2>2, GeneratorReturns
  <2> QED BY <2>2, <2>4, <2>5, GeneratorKeeps DEF GoesOn
<1> QED BY <1>3, <1>4, <1>5, <1>6, <1>7

(* The cases that call genExpression or genStmt for the kids.              *)
LEMMA ExpandExprKeeps ==
  ASSUME WellFormed(ast), PassOK, CodeOK, UNCHANGED <<ast, scopes, annotations>>,
         genBinop \/ genBlock \/ genIf \/ genExit
  PROVE  PassOK' /\ Grown /\ CodeOK' /\ GoesOn
<1> DEFINE n == Top.n
           s == Top.s
           count == Len(scopes)
<1> USE DEF CodegenTasks, RunningOn, Gen
<1>1. /\ stack # <<>> /\ n \in DOMAIN ast /\ s \in 0..count /\ count \in Nat
      /\ 0 \in 0..count /\ ast' = ast
      /\ ast[n].kind \in {"BINOP", "BLOCK", "IF", "EXIT"}
  BY CodegenTop DEF genBinop, genBlock, genIf, genExit
<1>2. UNCHANGED <<phase, codegenVars>>
  BY DEF genBinop, genBlock, genIf, genExit, Expand
<1>3. SUFFICES StackOK'
  BY <1>1, <1>2, CodeStays, GeneratorKeeps DEF GoesOn
<1>4. CASE genBinop
  <2>1. /\ Call(<<Task("genExpression", Kid(n, 2), s), Task("genExpression", Kid(n, 1), s),
                  Task("operator", n, 0)>>)
        /\ ast[n].kind = "BINOP"
    BY <1>4 DEF genBinop, Expand
  <2> HIDE DEF n, s
  <2>2. 1 \in 1..Len(ast[n].kids) /\ 2 \in 1..Len(ast[n].kids)
    <3>1. Len(ast[n].kids) = 2
      BY <1>1, <2>1, KidsCount
    <3> QED BY <3>1
  <2>3. /\ Fits(Task("genExpression", Kid(n, 1), s), count)
        /\ Fits(Task("genExpression", Kid(n, 2), s), count)
    <3> HIDE DEF count
    <3> QED BY <1>1, <2>2, KidFits
  <2>4. Fits(Task("operator", n, 0), count)
    <3> HIDE DEF count
    <3> QED BY <1>1, PlainFits DEF PlainTasks, SemanticTasks
  <2>5. AllFit(<<Task("genExpression", Kid(n, 2), s), Task("genExpression", Kid(n, 1), s),
                 Task("operator", n, 0)>>, count)
    <3> HIDE DEF count
    <3> QED BY <2>3, <2>4, ThreeFit
  <2> QED BY <1>1, <2>1, <2>5, GeneratorCalls
<1>5. CASE genBlock
  <2>1. Call(genStmts(n))
    BY <1>5 DEF genBlock, Expand
  <2> HIDE DEF n, s
  <2>2. AllFit(genStmts(n), count)
    BY <1>1, GenStmtsFit
  <2> QED BY <1>1, <2>1, <2>2, GeneratorCalls
<1>6. CASE genIf
  <2>1. /\ Call(<<Task("genExpression", Kid(n, 1), s), Task("elseJump", n, s)>>)
        /\ ast[n].kind = "IF"
    BY <1>6 DEF genIf, Expand
  <2> HIDE DEF n, s
  <2>2. 1 \in 1..Len(ast[n].kids)
    BY <1>1, <2>1, OnlyKid
  <2>3. Fits(Task("genExpression", Kid(n, 1), s), count) /\ Fits(Task("elseJump", n, s), count)
    <3> HIDE DEF count
    <3> QED BY <1>1, <2>1, <2>2, KidFits, RestFits
  <2>4. AllFit(<<Task("genExpression", Kid(n, 1), s), Task("elseJump", n, s)>>, count)
    <3> HIDE DEF count
    <3> QED BY <2>3, TwoFit
  <2> QED BY <1>1, <2>1, <2>4, GeneratorCalls
<1>7. CASE genExit
  <2>1. /\ \/ Call(<<Task("genExpression", Kid(n, 1), s), Task("emitReturn", n, 0)>>)
           \/ Return
        /\ ast[n].kind = "EXIT"
    BY <1>7 DEF genExit
  <2> HIDE DEF n, s
  <2>2. 1 \in 1..Len(ast[n].kids)
    BY <1>1, <2>1, OnlyKid
  <2>3. Fits(Task("genExpression", Kid(n, 1), s), count) /\ Fits(Task("emitReturn", n, 0), count)
    <3> HIDE DEF count
    <3> QED BY <1>1, <2>2, KidFits, PlainFits DEF PlainTasks, SemanticTasks
  <2>4. AllFit(<<Task("genExpression", Kid(n, 1), s), Task("emitReturn", n, 0)>>, count)
    <3> HIDE DEF count
    <3> QED BY <2>3, TwoFit
  <2>5. CASE Return
    BY <1>1, <2>5, GeneratorReturns
  <2>6. CASE Call(<<Task("genExpression", Kid(n, 1), s), Task("emitReturn", n, 0)>>)
    BY <1>1, <2>4, <2>6, GeneratorCalls
  <2> QED BY <2>1, <2>5, <2>6
<1> QED BY <1>4, <1>5, <1>6, <1>7

(* The jumps of an if.                                                     *)
LEMMA JumpKeeps ==
  ASSUME WellFormed(ast), PassOK, CodeOK, UNCHANGED <<ast, scopes, annotations>>,
         elseJump \/ outJump
  PROVE  PassOK' /\ Grown /\ CodeOK' /\ GoesOn
<1> DEFINE n == Top.n
           s == Top.s
           at == Top.at
           count == Len(scopes)
<1> USE DEF CodegenTasks
<1>1. /\ stack # <<>> /\ n \in DOMAIN ast /\ n \in Nat /\ s \in 0..count /\ count \in Nat
      /\ 0 \in 0..count /\ at \in Nat /\ ast' = ast /\ ast[n].kind = "IF"
  BY CodegenTop DEF elseJump, outJump, Fits
<1>2. code \in Seq(Byte) /\ log \in Seq(Instruction) /\ Len(code) \in Nat
      /\ JumpOffset \in Nat
  BY DEF CodeOK, Code, JumpOffset
<1>3. CASE elseJump
  <2>1. /\ emit("JUMP_IF_ZERO", <<Unpatched, Unpatched>>, n)
        /\ Call(<<Task("genExpression", Kid(n, 2), s), TaskAt("outJump", n, s, JumpOffset)>>)
        /\ UNCHANGED <<phase, consts, mainLocation, letAt>>
    BY <1>3 DEF elseJump, emitJump
  <2> HIDE DEF n, s
  <2>2. "JUMP_IF_ZERO" \in DOMAIN Opcode
    BY DEF Opcode
  <2>3. Code(code') /\ log' \in Seq(Instruction)
    BY <1>1, <2>1, <2>2, OpenBytes, EmitKeeps
  <2>4. CodeOK'
    BY <1>1, <2>1, <2>3, CodeChanges
  <2>5. 2 \in 1..Len(ast[n].kids)
    <3>1. Len(ast[n].kids) \in {2, 3}
      BY <1>1, KidsCount
    <3> QED BY <3>1
  <2>6. /\ Fits(Task("genExpression", Kid(n, 2), s), count)
        /\ Fits(TaskAt("outJump", n, s, JumpOffset), count)
    <3> HIDE DEF count
    <3> QED BY <1>1, <1>2, <2>5, KidFits, RestFits
  <2>7. AllFit(<<Task("genExpression", Kid(n, 2), s), TaskAt("outJump", n, s, JumpOffset)>>,
               count)
    <3> HIDE DEF count
    <3> QED BY <2>6, TwoFit
  <2>8. StackOK'
    BY <1>1, <2>1, <2>7, GeneratorCalls
  <2> QED BY <2>1, <2>4, <2>8, GeneratorKeeps DEF GoesOn
<1>4. CASE outJump
  <2> DEFINE jump == <<Opcode.JUMP, Unpatched, Unpatched>>
             rest == ForEach("genExpression", FalseBranch(n), s)
             last == TaskAt("patchOut", n, 0, JumpOffset)
  <2>1. /\ code' = patchJump(code \o jump, at, Len(code) + 3)
        /\ log' = Append(log, Logged(Len(code), "JUMP", n))
        /\ Call(rest \o <<last>>)
        /\ UNCHANGED <<phase, consts, mainLocation, letAt>>
    BY <1>4 DEF outJump
  <2>2. jump \in Seq(Byte)
    <3>1. Opcode.JUMP \in Byte
      BY ByteSizeAssumption DEF Opcode, Byte
    <3> QED BY <3>1, OpenBytes
  <2> HIDE DEF n, s, at, jump
  <2>3. Code(code')
    <3>1. Code(code \o jump)
      BY <1>2, <2>2 DEF Code
    <3>2. at \in Int /\ Len(code) + 3 \in Int
      BY <1>1, <1>2
    <3> QED BY <2>1, <3>1, <3>2, PatchKeeps
  <2>4. log' \in Seq(Instruction)
    <3>1. Logged(Len(code), "JUMP", n) \in Instruction
      BY <1>1, <1>2 DEF Logged, Instruction, Opcode
    <3> QED BY <1>2, <2>1, <3>1
  <2>5. CodeOK'
    BY <1>1, <2>1, <2>3, <2>4, CodeChanges
  <2>6. FalseBranch(n) \in Seq(DOMAIN ast)
    <3> DEFINE kids == ast[n].kids
    <3>1. kids \in Seq(DOMAIN ast)
      BY <1>1, TreeNodes
    <3> HIDE DEF kids
    <3>2. SubSeq(kids, 3, Len(kids)) \in Seq(DOMAIN ast)
      BY <3>1
    <3> QED BY <3>2 DEF kids, FalseBranch
  <2>7. AllFit(rest, count)
    <3> HIDE DEF count
    <3> QED BY <1>1, <2>6, ForEachFits DEF PlainTasks, SemanticTasks
  <2>8. Fits(last, count)
    <3> HIDE DEF count
    <3> QED BY <1>1, <1>2, PlainFits DEF PlainTasks, SemanticTasks
  <2>9. AllFit(rest \o <<last>>, count)
    <3> HIDE DEF count, rest, last
    <3> QED BY <2>7, <2>8, OneFits, AllFitTogether
  <2>10. StackOK'
    <3> HIDE DEF rest, last
    <3> QED BY <1>1, <2>1, <2>9, GeneratorCalls
  <2> QED BY <2>1, <2>5, <2>10, GeneratorKeeps DEF GoesOn
<1> QED BY <1>3, <1>4

LEMMA CodegenStepKeeps ==
  ASSUME WellFormed(ast), PassOK, CodeOK, CodegenStep
  PROVE  PassOK' /\ Grown /\ CodeOK' /\ GoesOn
<1>1. UNCHANGED <<ast, scopes, annotations>>
  BY DEF CodegenStep
<1>2. CASE genStmt
  BY <1>1, <1>2, GenStmtKeeps
<1>3. CASE genExpression \/ patchEntry
  BY <1>1, <1>3, WriteExprKeeps, ExpandExprKeeps, JumpKeeps DEF genExpression
<1> QED BY <1>2, <1>3 DEF CodegenStep

-----------------------------------------------------------------------------
(* The whole program.                                                      *)

LEMMA StateInit == Init => StateInv
<1> SUFFICES ASSUME Init PROVE StateInv
  OBVIOUS
<1>1. TreeOK /\ WellFormed(ast)
  BY TreeWellFormed DEF Init, TreeOK
<1>2. StackOK
  BY DEF Init, StackOK
<1>3. ScopesOK
  BY DEF Init, ScopesOK, FineScopes
<1>4. NotesOK
  <2>1. NullSymbol \in [scope : Nat, index : Nat] /\ Fine(NoType) /\ NoType \in Type
    BY NoTypeFine DEF NullSymbol, Fine
  <2>2. scopeOf \in [DOMAIN ast -> 0..Len(scopes)]
    BY DEF Init
  <2>3. unused \in [DOMAIN ast -> BOOLEAN]
    BY DEF Init
  <2>4. typeOf \in [DOMAIN ast -> Type] /\ \A n \in DOMAIN ast : Fine(typeOf[n])
    BY <2>1 DEF Init
  <2>5. bound \in [DOMAIN ast -> [scope : Nat, index : Nat]]
    BY <2>1 DEF Init
  <2> QED BY <2>2, <2>3, <2>4, <2>5 DEF NotesOK
<1>5. CodeOK
  BY DEF Init, CodeOK, Code
<1>6. DriverOK /\ PhaseOK
  BY DEF Init, DriverOK, PhaseOK, Phases
<1> QED BY <1>1, <1>2, <1>3, <1>4, <1>5, <1>6 DEF StateInv

(* A step of the driver that leaves the passes' state alone.               *)
LEMMA QuietKeeps ==
  ASSUME StateInv, UNCHANGED <<ast, stack, scopes, annotations, codegenVars>>
  PROVE  TreeOK' /\ StackOK' /\ ScopesOK' /\ NotesOK' /\ CodeOK'
<1>1. TreeOK' /\ ast' = ast /\ stack' = stack /\ scopes' = scopes
  BY DEF StateInv, TreeOK
<1>2. ScopesOK' /\ Grown
  BY <1>1, ScopesStay DEF StateInv
<1>3. StackOK'
  BY <1>1 DEF StateInv, StackOK, Fits
<1>4. NotesOK' /\ CodeOK'
  BY <1>1, <1>2, NotesStay, CodeStays DEF StateInv
<1> QED BY <1>1, <1>2, <1>3, <1>4

LEMMA BeginAnalysisKeeps == StateInv /\ BeginAnalysis => StateInv'
<1> SUFFICES ASSUME StateInv, BeginAnalysis PROVE StateInv'
  OBVIOUS
<1>1. WellFormed(ast) /\ TreeOK' /\ ast' = ast
  BY TreeWellFormed DEF StateInv, TreeOK, BeginAnalysis
<1>2. scopes = <<>> /\ scopes' = <<initScope(<<>>, 0)>>
  BY DEF StateInv, PhaseOK, BeginAnalysis
<1>3. FineScopes(scopes') /\ Len(scopes') = 1 /\ Len(scopes) = 0
  <2> DEFINE ss == <<>>
             scope == initScope(ss, 0)
  <2>1. FineScopes(ss) /\ Len(ss) = 0
    BY DEF FineScopes
  <2>2. FineScope(scope) /\ scope.chain \subseteq 1..(Len(ss) + 1)
    <3> HIDE DEF ss
    <3>1. 0 \in 0..Len(ss)
      BY <2>1
    <3> QED BY <2>1, <3>1, InitScopeFine
  <2>3. scopes' = Append(ss, scope)
    BY <1>2
  <2> HIDE DEF ss, scope
  <2>4. FineScopes(scopes') /\ Len(scopes') = Len(ss) + 1
    BY <2>1, <2>2, <2>3, AppendScopeFine
  <2> QED BY <1>2, <2>1, <2>4
<1>4. ScopesOK' /\ Grown
  BY <1>1, <1>3, ScopesReplaced DEF StateInv
<1>5. StackOK'
  <2> DEFINE kids == ast[1].kids
             first == ForEach("resolveNode", kids, 1)
             second == ForEach("typecheckStmt", kids, 1)
  <2>1. stack' = first \o second
    BY DEF BeginAnalysis
  <2>2. kids \in Seq(DOMAIN ast)
    BY <1>1, TreeNodes
  <2> HIDE DEF kids
  <2>3. 1 \in 0..1 /\ 1 # 0 /\ 1 \in Nat
    OBVIOUS
  <2>4. AllFit(first, 1) /\ AllFit(second, 1)
    BY <1>1, <2>2, <2>3, ForEachFits DEF PlainTasks
  <2> HIDE DEF first, second
  <2>5. AllFit(stack', 1)
    BY <2>1, <2>4, AllFitTogether
  <2> QED BY <1>1, <1>3, <2>5 DEF StackOK, AllFit, Fits
<1>6. NotesOK' /\ CodeOK'
  BY <1>1, <1>4, NotesStay, CodeStays DEF StateInv, BeginAnalysis
<1>7. DriverOK'
  BY DEF StateInv, BeginAnalysis, DriverOK, driverVars
<1>8. PhaseOK'
  BY <1>2 DEF BeginAnalysis, PhaseOK, Phases
<1> QED BY <1>1, <1>4, <1>5, <1>6, <1>7, <1>8 DEF StateInv

LEMMA BeginCodegenKeeps == StateInv /\ BeginCodegen => StateInv'
<1> SUFFICES ASSUME StateInv, BeginCodegen PROVE StateInv'
  OBVIOUS
<1>1. WellFormed(ast) /\ TreeOK' /\ ast' = ast /\ scopes' = scopes
  BY TreeWellFormed DEF StateInv, TreeOK, BeginCodegen
<1>2. ScopesOK' /\ Grown
  BY <1>1, ScopesStay DEF StateInv
<1>3. StackOK'
  <2> DEFINE kids == ast[1].kids
             first == ForEach("genStmt", kids, 1)
             last == TaskAt("patchEntry", 1, 0, 1)
             count == Len(scopes)
  <2>1. stack' = first \o <<last>>
    BY DEF BeginCodegen, beginCode
  <2>2. kids \in Seq(DOMAIN ast) /\ 1 \in DOMAIN ast
    BY <1>1, TreeNodes
  <2>3. count \in Nat /\ 1 \in 0..count /\ 0 \in 0..count /\ 1 \in Nat
    <3>1. scopes # <<>> /\ scopes \in Seq(Scope)
      BY DEF StateInv, PhaseOK, BeginCodegen, ScopesOK, FineScopes
    <3> QED BY <3>1
  <2> HIDE DEF kids, count
  <2>4. AllFit(first, count)
    BY <1>1, <2>2, <2>3, ForEachFits DEF PlainTasks, SemanticTasks
  <2>5. Fits(last, count)
    BY <1>1, <2>2, <2>3, PlainFits DEF PlainTasks, SemanticTasks
  <2> HIDE DEF first, last
  <2>6. AllFit(stack', count)
    BY <2>1, <2>4, <2>5, OneFits, AllFitTogether
  <2> QED BY <1>1, <2>6 DEF StackOK, AllFit, Fits, count
<1>4. NotesOK'
  BY <1>1, <1>2, NotesStay DEF StateInv, BeginCodegen
<1>5. CodeOK'
  <2>1. code' = <<Opcode.CALL, Unpatched, Unpatched>> /\ consts' = <<>>
        /\ mainLocation' = 0 /\ log' = <<Logged(0, "CALL", 1)>> /\ letAt' = letAt
    BY DEF BeginCodegen, beginCode
  <2>2. code' \in Seq(Byte)
    <3>1. Opcode.CALL \in Byte
      BY ByteSizeAssumption DEF Opcode, Byte
    <3> QED BY <2>1, <3>1, OpenBytes
  <2>3. log' \in Seq(Instruction)
    <3>1. Logged(0, "CALL", 1) \in Instruction
      BY DEF Logged, Instruction, Opcode
    <3> QED BY <2>1, <3>1
  <2> QED BY <1>1, <2>1, <2>2, <2>3 DEF StateInv, CodeOK, Code
<1>6. DriverOK'
  BY DEF StateInv, BeginCodegen, DriverOK, driverVars
<1>7. PhaseOK'
  BY <1>1 DEF StateInv, BeginCodegen, PhaseOK, Phases
<1> QED BY <1>1, <1>2, <1>3, <1>4, <1>5, <1>6, <1>7 DEF StateInv

LEMMA AnalyseKeeps == StateInv /\ Analyse => StateInv'
<1> SUFFICES ASSUME StateInv, Analyse PROVE StateInv'
  OBVIOUS
<1>1. WellFormed(ast) /\ PassOK /\ AnalysisStep /\ phase = "analyse"
  BY TreeWellFormed DEF StateInv, PassOK, Analyse
<1>2. PassOK' /\ Grown /\ GoesOn
  BY <1>1, AnalysisStepKeeps
<1>3. ast' = ast /\ UNCHANGED codegenVars /\ UNCHANGED driverVars
  BY <1>1 DEF AnalysisStep, Analyse
<1>4. TreeOK' /\ CodeOK' /\ DriverOK'
  BY <1>3, CodeStays DEF StateInv, TreeOK, DriverOK, driverVars
<1>5. PhaseOK'
  <2>1. scopes' # <<>>
    BY <1>1, <1>2 DEF StateInv, PhaseOK, Grown, ScopesOK, PassOK, FineScopes
  <2> QED BY <1>1, <1>2, <2>1 DEF StateInv, PhaseOK, GoesOn, Phases
<1> QED BY <1>2, <1>4, <1>5 DEF StateInv, PassOK

LEMMA GenerateKeeps == StateInv /\ Generate => StateInv'
<1> SUFFICES ASSUME StateInv, Generate PROVE StateInv'
  OBVIOUS
<1>1. WellFormed(ast) /\ PassOK /\ CodeOK /\ CodegenStep /\ phase = "generate"
  BY TreeWellFormed DEF StateInv, PassOK, Generate
<1>2. PassOK' /\ Grown /\ CodeOK' /\ GoesOn
  BY <1>1, CodegenStepKeeps
<1>3. ast' = ast /\ scopes' = scopes /\ UNCHANGED driverVars
  BY <1>1 DEF CodegenStep, Generate
<1>4. TreeOK' /\ DriverOK'
  BY <1>3 DEF StateInv, TreeOK, DriverOK, driverVars
<1>5. PhaseOK'
  BY <1>1, <1>2, <1>3 DEF StateInv, PhaseOK, GoesOn, Phases
<1> QED BY <1>2, <1>4, <1>5 DEF StateInv, PassOK

LEMMA DriverKeeps ==
  ASSUME StateInv,
         \/ Parse \/ RejectSyntax \/ RejectSemantics \/ DestroyArena \/ PrintAndReturn
         \/ buildMain \/ Finished
  PROVE  StateInv'
<1> USE DEF Reject, printErrors, buildMain, codegenVars, chunk, annotations, diagnostics,
            driverVars
<1>1. UNCHANGED <<ast, stack, scopes, annotations, codegenVars>>
  BY DEF Parse, RejectSyntax, RejectSemantics, DestroyArena, PrintAndReturn, ExitWithError,
         BeginDisassembly, disassembleInstruction, EndDisassembly, Finished, vars
<1>2. TreeOK' /\ StackOK' /\ ScopesOK' /\ NotesOK' /\ CodeOK'
  BY <1>1, QuietKeeps
<1>3. /\ arena' \in {arena, "destroyed"}
      /\ status' \in {status, "failed", "ok"}
  BY DEF Parse, RejectSyntax, RejectSemantics, DestroyArena, PrintAndReturn, ExitWithError,
         BeginDisassembly, disassembleInstruction, EndDisassembly, Finished, vars
<1>4. dangling' \in BOOLEAN
  BY Zenon
     DEF StateInv, DriverOK,
         Parse, RejectSyntax, RejectSemantics, DestroyArena, PrintAndReturn, ExitWithError,
         BeginDisassembly, disassembleInstruction, EndDisassembly, Finished, vars
<1>5. cursor' \in Nat
  <2>1. CASE disassembleInstruction
    <3>1. InstructionWidth(code[cursor + 1]) \in {1, 2, 3}
      BY DEF InstructionWidth
    <3> QED BY <2>1, <3>1 DEF disassembleInstruction, StateInv, DriverOK
  <2>2. CASE ~ disassembleInstruction
    <3>1. cursor' \in {cursor, 0}
      BY <2>2 DEF Parse, RejectSyntax, RejectSemantics, DestroyArena, PrintAndReturn,
                  ExitWithError, BeginDisassembly, EndDisassembly, Finished, vars
    <3> QED BY <3>1 DEF StateInv, DriverOK
  <2> QED BY <2>1, <2>2
<1>6. DriverOK'
  BY <1>3, <1>4, <1>5 DEF StateInv, DriverOK
<1>7. PhaseOK'
  <2>1. CASE Parse
    BY <1>1, <2>1 DEF Parse, StateInv, PhaseOK, Phases
  <2>2. CASE RejectSyntax \/ RejectSemantics
    BY <1>1, <2>2 DEF RejectSyntax, RejectSemantics, StateInv, PhaseOK, Phases
  <2>3. CASE DestroyArena \/ PrintAndReturn
    BY <1>1, <2>3 DEF DestroyArena, PrintAndReturn, StateInv, PhaseOK, Phases
  <2>4. CASE buildMain
    BY <1>1, <2>4 DEF ExitWithError, BeginDisassembly, disassembleInstruction, EndDisassembly,
                      StateInv, PhaseOK, Phases
  <2>5. CASE Finished
    BY <1>1, <2>5 DEF Finished, vars, StateInv, PhaseOK, Phases
  <2> QED BY <2>1, <2>2, <2>3, <2>4, <2>5
<1> QED BY <1>2, <1>6, <1>7 DEF StateInv

LEMMA StateStep == StateInv /\ [Next]_vars => StateInv'
<1> SUFFICES ASSUME StateInv, [Next]_vars PROVE StateInv'
  OBVIOUS
<1>1. CASE BeginAnalysis \/ Analyse \/ BeginCodegen \/ Generate
  BY <1>1, BeginAnalysisKeeps, AnalyseKeeps, BeginCodegenKeeps, GenerateKeeps
<1>2. CASE \/ Parse \/ RejectSyntax \/ RejectSemantics \/ DestroyArena \/ PrintAndReturn
           \/ buildMain \/ Finished
  BY <1>2, DriverKeeps
<1>3. CASE UNCHANGED vars
  <2>1. UNCHANGED <<ast, stack, scopes, annotations, codegenVars>>
    BY <1>3 DEF vars
  <2>2. TreeOK' /\ StackOK' /\ ScopesOK' /\ NotesOK' /\ CodeOK'
    BY <2>1, QuietKeeps
  <2>3. DriverOK' /\ PhaseOK'
    BY <1>3 DEF vars, driverVars, StateInv, DriverOK, PhaseOK
  <2> QED BY <2>2, <2>3 DEF StateInv
<1> QED BY <1>1, <1>2, <1>3 DEF Next, compile

(* The passes rely on what the ones before them left: a call is for a node *)
(* of the tree and, in the checker, for a scope that exists, a chain of    *)
(* scopes leads outwards, a function type belongs to a function.           *)
THEOREM PassesFitTogether == Spec => []StateInv
BY StateInit, StateStep, PTL DEF Spec

(* Every variable of the compiler keeps its type.                          *)
THEOREM CompilerTyped == Spec => []TypeOK
<1>1. StateInv /\ MessageInv => TypeOK
  <2> SUFFICES ASSUME StateInv, MessageInv PROVE TypeOK
    OBVIOUS
  <2>1. WellFormed(ast)
    BY TreeWellFormed DEF StateInv
  <2> QED BY <2>1
          DEF StateInv, MessageInv, BuffersBounded, Bounded, TypeOK, PhaseOK, StackOK,
              ScopesOK, FineScopes, NotesOK, CodeOK, Code, Instruction, DriverOK
<1> QED BY StateInit, StateStep, MessageInit, MessageStep, <1>1, PTL DEF Spec
===============================================================================
