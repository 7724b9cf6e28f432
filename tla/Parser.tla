------------------------------- MODULE Parser -------------------------------
(***************************************************************************)
(* The parser (compiler/parser): recursive descent over declarations and   *)
(* statements, precedence climbing over expressions, one token of          *)
(* lookahead, no recovery.                                                 *)
(*                                                                         *)
(* "calls" is the C call stack as data, the running call first.  A frame   *)
(* has the place in the code where the call goes on ("do"), the node it is *)
(* building without its children ("head"), the children it has so far and  *)
(* the minimal binding power of parseExprBP.  A call that returns appends  *)
(* its node to the children of its caller.  Calls that return at once are  *)
(* functions from parser to parser: p_next, p_consume, parseType.          *)
(*                                                                         *)
(* A token is its lexeme.  Only tokens that lx_nextTok delivers occur, so  *)
(* lambdas, builtins, strings, tuples and a comma do not.                  *)
(***************************************************************************)
EXTENDS Diagnostics, Trees

CONSTANTS
  Sources,    \* the token sequences to be parsed, without TOK_EOF
  Idents,     \* the lexemes of TOK_IDENT
  Value,      \* the lexemes of TOK_INT, with their values
  MaxItems    \* bound: the items growable arrays hold before malloc fails

(* What the parser tells apart; of tokens it has no use for, three.        *)
Prefix == {"!", "-", "+"}
Infix == {"=", "<", "<=", ">", ">=", "==", "+", "-", "*", "/"}
Words == {"let", "mut", "const", "func", "pub", "if", "then", "else", "true",
          "false", "return", "break"}
Marks == {"(", ")", "{", "}", "[", ":", ";"}
Inert == {"]", "+=", "struct"}
Reserved == Prefix \cup Infix \cup Words \cup Marks \cup Inert \cup {"UNKNOWN"}
Delivered == Idents \cup DOMAIN Value \cup Reserved

ASSUME SourcesAssumption ==
  /\ Sources \subseteq Seq(Delivered)
  /\ Idents \subseteq STRING
  /\ DOMAIN Value \subseteq STRING /\ \A i \in DOMAIN Value : Value[i] \in Nat
  /\ MaxItems \in Nat
  /\ Idents \cap DOMAIN Value = {}
  /\ (Idents \cup DOMAIN Value) \cap (Reserved \cup {"", "EOF"}) = {}

VARIABLES
  source,   \* the tokens of the file
  p,        \* the lookahead's position, both message buffers, items allocated
  calls,    \* the pending calls
  outcome,  \* of p_parse
  tree      \* what p_parse returned

vars == <<source, p, calls, outcome, tree>>

Outcomes == {"parsing", "done", "exhausted", "crashed"}

Lexeme(q) == IF q.pos <= Len(source) THEN source[q.pos] ELSE "EOF"
Kind(q) ==
  CASE Lexeme(q) \in Idents -> "IDENT"
    [] Lexeme(q) \in DOMAIN Value -> "INT"
    [] OTHER -> Lexeme(q)

(* lx_nextTok returns TOK_EOF again and again.                             *)
p_next(q) == [q EXCEPT !.pos = IF @ > Len(source) THEN @ ELSE @ + 1]

Refuse(q, message) == [q EXCEPT !.errors = Report(@, message)]

(* A token the lexer could not make sense of is passed over in silence.    *)
p_consumeLeniently(q, type) == IF Kind(q) = type THEN p_next(q) ELSE q
p_consume(q, type) ==
  CASE Kind(q) = type -> p_next(q)
    [] Kind(q) = "UNKNOWN" -> q
    [] OTHER -> Refuse(q, Static("Expected ..."))

growableArrayPush(q) == [q EXCEPT !.items = @ + 1]

-----------------------------------------------------------------------------
(* Binding powers, left and right.                                         *)

LeftAssignment(op) ==
  CASE op = "=" -> <<1, 2>>
    [] op \in {"<", "<=", ">", ">=", "=="} -> <<5, 6>>
    [] op \in {"+", "-"} -> <<7, 8>>
    [] op \in {"*", "/"} -> <<9, 10>>
    [] OTHER -> <<0, 0>>

infixBp(op) ==
  CASE op = "=" -> <<2, 1>>
    [] op \in {"<", "<=", ">", ">=", "=="} -> <<5, 6>>
    [] op \in {"+", "-"} -> <<7, 8>>
    [] op \in {"*", "/"} -> <<9, 10>>
    [] OTHER -> <<0, 0>>

isInfixOp(op) == infixBp(op) # <<0, 0>>
prefixBp == 15
postfixBp == 17

-----------------------------------------------------------------------------
(* Frames.                                                                 *)

Head0(kind, name, op, type) ==
  [kind |-> kind, name |-> name, op |-> op, type |-> type, params |-> <<>>]
Node(kind, op) == Head0(kind, "", op, none)
NoNode == Node("", "")

Places == {"p_parse", "params", "stmts", "semicolon", "build", "parseExprBP", "infix",
           "paren", "args", "comma", "ifCond", "ifTrue"}

Frame(do, bp, head, kids) == [do |-> do, bp |-> bp, head |-> head, kids |-> kids]
At(do, head, kids) == Frame(do, 0, head, kids)

parseExprBP(bp) == Frame("parseExprBP", bp, NoNode, <<>>)
parseExpression == parseExprBP(0)
Build(head, kids) == At("build", head, kids)
Semicolon == At("semicolon", NoNode, <<>>)

Built(f) ==
  Term(f.head.kind, f.head.name, f.head.op, 0, f.head.type, f.head.params, f.kids)

(* The garbage a non-void function without a return leaves the caller, and *)
(* the NULL of p_parseDecl.                                                *)
Garbage == Leaf("GARBAGE", "", "", 0)
NullDecl == Leaf("NULL", "", "", 0)

Top == Head(calls)
On(do) == outcome = "parsing" /\ p.items <= MaxItems /\ Top.do = do

Continue(q, frames) ==
  /\ p' = q
  /\ calls' = frames \o Tail(calls)
  /\ UNCHANGED <<source, outcome, tree>>

Return(q, term) ==
  /\ p' = q
  /\ calls' = <<[calls[2] EXCEPT !.kids = Append(@, term)]>> \o Tail(Tail(calls))
  /\ UNCHANGED <<source, outcome, tree>>

Stop(result) == outcome' = result /\ calls' = <<>> /\ UNCHANGED <<source, p>>
Crash == Stop("crashed") /\ UNCHANGED tree

-----------------------------------------------------------------------------
(* Types, by the number of asterisks instead of the recursion.             *)

PointerTo(base, asterisks) ==
  IF asterisks = 0 THEN base ELSE A!PointerThrough(asterisks - 1, base.of)

parseType(q) ==
  LET last == CHOOSE i \in q.pos..(Len(source) + 1) :
                /\ Kind([q EXCEPT !.pos = i]) # "*"
                /\ \A j \in q.pos..(i - 1) : source[j] = "*"
      named == [q EXCEPT !.pos = last]
      base == IF Kind(named) = "IDENT" THEN A!Named(Lexeme(named)) ELSE A!WildType
  IN  [p |-> p_next(IF Kind(named) = "IDENT" THEN named
                    ELSE Refuse(named, Static("Unexpected ..."))),
       type |-> PointerTo(base, last - q.pos)]

NoTypeGiven(q) == [p |-> q, type |-> none]

-----------------------------------------------------------------------------
(* Declarations.                                                           *)

(* "name" of parseVarDecl is whatever token stands there.                  *)
Binder(q) ==
  CASE Kind(q) = "const" -> "const"
    [] Kind(p_next(q)) = "mut" -> "mut"
    [] OTHER -> "let"

parseVarDecl(q, rest) ==
  \E name \in {IF Binder(q) = "mut" THEN p_next(p_next(q)) ELSE p_next(q)} :
    \E colon \in {p_consume(name, "IDENT")} :
      \E typed \in {IF Kind(colon) = ":" THEN parseType(p_next(colon)) ELSE NoTypeGiven(colon)} :
        Continue(p_consume(typed.p, "="),
                 <<parseExpression,
                   Build(Head0("DECL_VAR", Lexeme(name), Binder(q), typed.type), <<>>)>> \o rest)

parseFuncDecl(q) ==
  LET name == p_next(q)
  IN  Continue(p_consume(p_consume(name, "IDENT"), "("),
               <<At("params", Head0("DECL_FUNC", Lexeme(name), "", none), <<>>), Top>>)

(* One round of the loop of parseParamList.                                *)
parseParam ==
  /\ On("params")
  /\ Kind(p) # ")"
  /\ \E colon \in {p_consume(growableArrayPush(growableArrayPush(p)), "IDENT")} :
     \E typed \in {parseType(p_consume(colon, ":"))} :
       Continue(IF Kind(typed.p) = ")" THEN typed.p ELSE p_consume(typed.p, ","),
                <<[Top EXCEPT !.head.params = Append(@, param(Lexeme(p), typed.type))]>>)

paramsEnd ==
  /\ On("params")
  /\ Kind(p) = ")"
  /\ LET behind == p_next(p) IN
     \E typed \in {IF Kind(behind) = "{" THEN NoTypeGiven(behind) ELSE parseType(behind)} :
       Continue(p_consume(typed.p, "{"),
                <<[Top EXCEPT !.do = "stmts", !.head.type = typed.type]>>)

(* p_parseDecl as p_parse calls it.  What starts no declaration is left    *)
(* where it is, and NULL is pushed.                                        *)
p_parseDecl ==
  /\ On("p_parse")
  /\ LET q == growableArrayPush(p)
         public == p_next(q)
         null == <<[Top EXCEPT !.kids = Append(@, NullDecl)]>>
     IN  \/ Kind(p) \in {"let", "const"} /\ parseVarDecl(q, <<Semicolon, Top>>)
         \/ Kind(p) = "func" /\ parseFuncDecl(q)
         \/ /\ Kind(p) = "pub"
            /\ \/ Kind(public) = "func" /\ parseFuncDecl(public)
               \/ Kind(public) = "const" /\ parseVarDecl(public, <<Top>>)
               \/ /\ Kind(public) \notin {"func", "const"}
                  /\ Continue(p_next(Refuse(public, Static("Expected ..."))), null)
         \/ /\ Kind(p) \notin {"let", "const", "func", "pub", "EOF"}
            /\ Continue(q, null)

p_parse ==
  /\ On("p_parse")
  /\ Kind(p) = "EOF"
  /\ tree' = Built(Top)
  /\ Stop("done")

-----------------------------------------------------------------------------
(* Statements: one round of the loops of parseFuncDecl and parseBlock.     *)

parseStatement ==
  /\ On("stmts")
  /\ Kind(p) # "}"
  /\ LET q == growableArrayPush(p)
     IN  IF Kind(p) \in {"let", "const"}
         THEN parseVarDecl(q, <<Semicolon, Top>>)
         ELSE Continue(q, <<parseExpression, Semicolon, Top>>)

stmtsEnd == On("stmts") /\ Kind(p) = "}" /\ Return(p_next(p), Built(Top))

semicolon == On("semicolon") /\ Return(p_consume(p, ";"), Top.kids[1])

parseBlock(q, rest) ==
  Continue(p_consume(q, "{"), <<At("stmts", Node("BLOCK", ""), <<>>)>> \o rest)

build == On("build") /\ Return(p, Built(Top))

-----------------------------------------------------------------------------
(* Expressions.  parseExprBP starts with an operand and goes on as a loop. *)

Loop == [Top EXCEPT !.do = "infix"]
LoopWith(term) == <<[Loop EXCEPT !.kids = <<term>>]>>

prefix ==
  /\ On("parseExprBP")
  /\ Kind(p) \in Prefix
  /\ Continue(p_next(p),
              <<parseExprBP(prefixBp), Build(Node("UNOP", Kind(p)), <<>>), Loop>>)

LeafOf(q) ==
  CASE Kind(q) = "IDENT" -> id(Lexeme(q))
    [] Kind(q) = "INT" -> int(Value[Lexeme(q)])
    [] Kind(q) = "true" -> true
    [] Kind(q) = "false" -> false

primaryLeaf ==
  /\ On("parseExprBP")
  /\ Kind(p) \in {"IDENT", "INT", "true", "false"}
  /\ Continue(p_next(p), LoopWith(LeafOf(p)))

(* The unit value leaves its ')' to whoever reads on.                      *)
primaryParen ==
  /\ On("parseExprBP")
  /\ Kind(p) = "("
  /\ LET q == p_next(p)
     IN  \/ Kind(q) = ")" /\ Continue(q, LoopWith(unit))
         \/ Kind(q) # ")" /\ Continue(q, <<parseExpression, At("paren", NoNode, <<>>), Loop>>)

paren == On("paren") /\ Return(p_consume(p, ")"), Top.kids[1])

primaryBlock == On("parseExprBP") /\ Kind(p) = "{" /\ parseBlock(p, <<Loop>>)

primaryIf ==
  /\ On("parseExprBP")
  /\ Kind(p) = "if"
  /\ Continue(p_next(p), <<parseExpression, At("ifCond", Node("IF", ""), <<>>), Loop>>)

ifCond ==
  /\ On("ifCond")
  /\ LET q == p_next(p)
         true_ == [Top EXCEPT !.do = "ifTrue"]
         warned == [q EXCEPT !.warnings =
                      ReportIf(Kind(q) = "{", @, "Remove the 'then'")]
     IN  \/ Kind(p) = "then" /\ Continue(warned, <<parseExpression, true_>>)
         \/ Kind(p) # "then" /\ parseBlock(p, <<true_>>)

ifTrueOnly == On("ifTrue") /\ Return(p, Built(Top))

ifTrue ==
  /\ On("ifTrue")
  /\ \/ Kind(p) # "else" /\ Return(p, Built(Top))
     \/ Kind(p) = "else" /\ Continue(p_next(p), <<parseExpression, [Top EXCEPT !.do = "build"]>>)

primaryExit ==
  /\ On("parseExprBP")
  /\ Kind(p) \in {"return", "break"}
  /\ Continue(p_next(p), <<parseExpression, Build(Node("EXIT", Kind(p)), <<>>), Loop>>)

Starts == Prefix \cup {"IDENT", "INT", "true", "false", "(", "{", "if", "return", "break"}

primaryUnreported ==
  /\ On("parseExprBP")
  /\ Kind(p) \notin Starts
  /\ Continue(p_next(p), LoopWith(Garbage))

primaryUnread ==
  /\ On("parseExprBP")
  /\ Kind(p) \notin Starts
  /\ Continue(Refuse(p, Formatted("Unexpected ...")), LoopWith(Garbage))

(* The message is put together in fresh memory, by strcat onto text that   *)
(* has no terminating NUL yet: where that memory is not zero, it is        *)
(* written behind its end.                                                 *)
primaryUnexpected ==
  /\ On("parseExprBP")
  /\ Kind(p) \notin Starts
  /\ LET q == p_next(Refuse(p, Formatted("Unexpected ...")))
     IN  \/ Continue(q, LoopWith(Garbage))
         \/ outcome' = "crashed" /\ calls' = <<>> /\ p' = q /\ UNCHANGED <<source, tree>>

-----------------------------------------------------------------------------
(* The loop of parseExprBP: postfix and infix operators that bind at least *)
(* as strongly as asked for.                                               *)

lhs == Top.kids[1]
Postfixed(op) == op \in {"(", "["} /\ postfixBp >= Top.bp
Infixed(op) == isInfixOp(op) /\ infixBp(op)[1] >= Top.bp

exprEnd ==
  /\ On("infix")
  /\ ~ Postfixed(Kind(p)) /\ ~ Infixed(Kind(p))
  /\ Return(p, lhs)

callExpr ==
  /\ On("infix")
  /\ Kind(p) = "(" /\ Postfixed("(")
  /\ Continue(p_next(p),
              <<At("args", Node("CALL", ""), <<lhs>>), [Top EXCEPT !.kids = <<>>]>>)

(* The operator goes into the operand's node, over whatever it keeps in    *)
(* the same bytes, and the new node has none.  The operand may be garbage. *)
Overwritten(term) == [term EXCEPT ![1].op = "["]

indexExpr ==
  /\ On("infix")
  /\ Kind(p) = "[" /\ Postfixed("[")
  /\ \/ Continue(p_next(p), <<[Top EXCEPT !.kids = <<un("", Overwritten(lhs))>>]>>)
     \/ lhs[1].kind = "GARBAGE" /\ Crash

binop ==
  /\ On("infix")
  /\ Infixed(Kind(p))
  /\ Continue(p_next(p),
              <<parseExprBP(infixBp(Kind(p))[2]), Build(Node("BINOP", Kind(p)), <<lhs>>),
                [Top EXCEPT !.kids = <<>>]>>)

(* parseExpressionList.  There is no token for a comma, so a second        *)
(* argument is read behind an error.                                       *)
args ==
  /\ On("args")
  /\ \/ Kind(p) = ")" /\ Return(p_next(p), Built(Top))
     \/ Kind(p) # ")" /\ Continue(growableArrayPush(p),
                                  <<parseExpression, [Top EXCEPT !.do = "comma"]>>)

commaUntilParen ==
  /\ On("comma")
  /\ Continue(IF Kind(p) = ")" THEN p ELSE p_consume(p, ","),
              <<[Top EXCEPT !.do = IF Kind(p) = ")" THEN "args" ELSE "comma"]>>)

comma ==
  /\ On("comma")
  /\ Continue(IF Kind(p) = ")" THEN p ELSE p_consume(p, ","), <<[Top EXCEPT !.do = "args"]>>)

-----------------------------------------------------------------------------
(* The arena cannot get another buffer.                                    *)
exhaust ==
  /\ outcome = "parsing" /\ p.items > MaxItems
  /\ outcome' = "exhausted"
  /\ UNCHANGED <<source, p, calls, tree>>

Init ==
  /\ source \in Sources
  /\ p = [pos |-> 1, errors |-> <<>>, warnings |-> <<>>, items |-> 0]
  /\ calls = <<At("p_parse", Node("PROGRAM", ""), <<>>)>>
  /\ outcome = "parsing"
  /\ tree = <<>>

parseExpr ==
  \/ prefix \/ primaryLeaf \/ primaryParen \/ paren \/ primaryBlock \/ primaryExit
  \/ primaryIf \/ ifCond \/ ifTrue \/ primaryUnexpected
  \/ exprEnd \/ callExpr \/ indexExpr \/ binop \/ args \/ comma

step ==
  \/ p_parse \/ p_parseDecl \/ parseParam \/ paramsEnd
  \/ parseStatement \/ stmtsEnd \/ semicolon \/ build
  \/ parseExpr
  \/ exhaust

Finished == outcome # "parsing" /\ UNCHANGED vars

Next == step \/ Finished

(* A single thread that never waits.                                       *)
Fairness == WF_vars(step)

Spec == Init /\ [][Next]_vars /\ Fairness
==============================================================================
