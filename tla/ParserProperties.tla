-------------------------- MODULE ParserProperties --------------------------
(***************************************************************************)
(* What the parser of module Parser is expected to guarantee.              *)
(***************************************************************************)
EXTENDS Parser, FiniteSets, FiniteSetsExt

Accepted == outcome = "done" /\ p.errors = <<>>

(* The trees with the names this parser can give them.                     *)
Lexemes == Delivered \cup {"", "EOF"}
T == INSTANCE Ast WITH Names <- Lexemes, Programs <- {}

(* The kinds of a frame's node and of what a call may leave instead of one. *)
Kinds == T!NodeKinds \cup {"", "GARBAGE", "NULL"}
Params == Seq([name : Lexemes, type : T!Type])
Cell == [kind : Kinds, name : Lexemes, op : T!NodeOps, val : Nat, type : T!Type,
         params : Params, kids : Seq(Nat)]

Frames ==
  [do : Places, bp : 0..17,
   head : [kind : Kinds, name : Lexemes, op : T!NodeOps, type : T!Type, params : Params],
   kids : Seq(Seq(Cell))]

TypeOK ==
  /\ source \in Seq(Delivered)
  /\ p \in [pos : 1..(Len(source) + 1), items : 0..(MaxItems + 2),
            errors : Seq(Message), warnings : Seq(Message)]
  /\ Len(p.errors) <= MaxErrors /\ Len(p.warnings) <= MaxErrors
  /\ calls \in Seq(Frames)
  /\ outcome \in Outcomes
  /\ outcome # "done" => tree = <<>>

-----------------------------------------------------------------------------
(* As long as nothing was reported the parser has done nothing undefined,  *)
(* and what it returns then is a tree the later passes can work on: every  *)
(* child is there and none of the wrong kind (garbage, NULL, a function in *)
(* a block), and no node was overwritten, except by the operator '['.      *)
(* This is what Compiler assumes of Programs and ParserWarnings.           *)
ReportedOrWellFormed ==
  p.errors = <<>> =>
    /\ outcome # "crashed"
    /\ \A i \in DOMAIN p.warnings : p.warnings[i].owner = "static"
    /\ outcome = "done" =>
         /\ T!WellFormed(Table(tree))
         /\ (\E n \in DOMAIN tree : tree[n].op = "[") <=> (\E i \in DOMAIN source : source[i] = "[")

-----------------------------------------------------------------------------
(* The text of a tree, without parentheses.                                *)

Literals(node) ==
  IF node.op = "BOOL" THEN IF node.val = 1 THEN "true" ELSE "false"
  ELSE CHOOSE l \in DOMAIN Value : Value[l] = node.val

TypeText(mark, t) ==
  CASE t.kind = "NULL" -> <<>>
    [] t.kind = "TYPE_NAMED" -> mark \o <<t.of>>
    [] t.kind = "TYPE_PTR" -> mark \o [i \in 1..(t.decl + 1) |-> "*"] \o <<t.of>>

ParamsText(params) ==
  FlattenSeq([i \in DOMAIN params |-> <<params[i].name>> \o TypeText(<<":">>, params[i].type)])

Text ==
  LET a == Table(tree)
      text[n \in DOMAIN a] ==
        LET node == a[n]
            kid(i) == text[node.kids[i]]
            each(mark) == FlattenSeq([i \in DOMAIN node.kids |-> kid(i) \o mark])
        IN  CASE node.kind = "PROGRAM" ->
                   FlattenSeq([i \in DOMAIN node.kids |->
                     kid(i) \o (IF a[node.kids[i]].kind = "DECL_VAR" THEN <<";">> ELSE <<>>)])
              [] node.kind = "DECL_FUNC" ->
                   <<"func", node.name>> \o ParamsText(node.params)
                     \o TypeText(<<>>, node.type) \o <<"{">> \o each(<<";">>) \o <<"}">>
              [] node.kind = "DECL_VAR" ->
                   (IF node.op = "mut" THEN <<"let", "mut">> ELSE <<node.op>>)
                     \o <<node.name>> \o TypeText(<<":">>, node.type) \o <<"=">> \o kid(1)
              [] node.kind = "BLOCK" -> <<"{">> \o each(<<";">>) \o <<"}">>
              [] node.kind = "IF" ->
                   <<"if">> \o kid(1) \o kid(2)
                     \o (IF Len(node.kids) = 3 THEN <<"else">> \o kid(3) ELSE <<>>)
              [] node.kind = "BINOP" -> kid(1) \o <<node.op>> \o kid(2)
              [] node.kind \in {"UNOP", "EXIT"} -> <<node.op>> \o kid(1)
              [] node.kind = "CALL" -> each(<<>>)
              [] node.kind = "TUPLE" -> <<>>
              [] node.kind = "IDENT" -> <<node.name>>
              [] node.kind = "LITERAL" -> <<Literals(node)>>
  IN  text[1]

Unspelled == {"(", ")", "pub", "then"}
Spelled == SelectSeq(source, LAMBDA t : t \notin Unspelled)

Count(t) == Cardinality({i \in DOMAIN source : source[i] = t})
Units == Cardinality({n \in DOMAIN tree : tree[n].kind = "TUPLE"})

Adjacent(s, t) == \E i \in 1..(Len(source) - 1) : source[i] = s /\ source[i + 1] = t

(* What is accepted is the text of its tree, token for token: nothing was  *)
(* passed over, although p_consume is silent about tokens the lexer did    *)
(* not know, and the parentheses are balanced but for the ')' that each    *)
(* unit value leaves behind.  Left out are the operator '[' and the        *)
(* constants whose semicolon a "pub" takes away.                           *)
NothingDropped ==
  Accepted /\ Count("[") = 0 /\ ~ Adjacent("pub", "const") =>
    /\ Text = Spelled
    /\ Count("(") = Count(")") + Units

-----------------------------------------------------------------------------
(* Expressions of operators, names and parentheses: the operator that      *)
(* binds least, outside parentheses, is the root; of several the last,     *)
(* and of assignments the first.                                           *)

Depth(e, i) ==
  LET count(t) == Cardinality({j \in 1..(i - 1) : e[j] = t})
  IN  count("(") - count(")")

Ends(t) == t \in Idents \cup DOMAIN Value \cup {")"}
Binaries(e) == {i \in 2..Len(e) : e[i] \in Infix /\ Ends(e[i - 1]) /\ Depth(e, i) = 0}

Level(op) ==
  CASE op = "=" -> 1
    [] op \in {"+", "-"} -> 3
    [] op \in {"*", "/"} -> 4
    [] OTHER -> 2

Root(e) ==
  LET level == Min({Level(e[i]) : i \in Binaries(e)})
      least == {i \in Binaries(e) : Level(e[i]) = level}
  IN  IF level = 1 THEN Min(least) ELSE Max(least)

(* Over the parts of an expression, from one of its tokens to another.     *)
Reference(whole) ==
  LET ref[i, j \in DOMAIN whole] ==
        LET e == SubSeq(whole, i, j)
            k == Root(e)
        IN  CASE Binaries(e) # {} -> bin(ref[i, i + k - 2], e[k], ref[i + k, j])
              [] Binaries(e) = {} /\ Head(e) \in Prefix -> un(Head(e), ref[i + 1, j])
              [] Binaries(e) = {} /\ Head(e) = "(" -> ref[i + 1, j - 1]
              [] OTHER -> IF Head(e) \in Idents THEN id(Head(e)) ELSE int(Value[Head(e)])
  IN  ref[1, Len(whole)]

Opening == <<"func", "main", "(", ")", "{">>
Closing == <<";", "}">>
Body == SubSeq(source, Len(Opening) + 1, Len(source) - Len(Closing))

OperatorExpression(e) ==
  /\ \A i \in DOMAIN e : e[i] \in Idents \cup DOMAIN Value \cup Prefix \cup Infix \cup {"(", ")"}
  /\ \A i \in 2..Len(e) : e[i] = "(" => ~ Ends(e[i - 1])
  /\ \A i \in 2..Len(e) : e[i] = ")" => e[i - 1] # "("

(* An accepted expression of operators has the tree that their precedence  *)
(* and associativity say, whatever prefix operators and parentheses are in *)
(* between: the table of binding powers and the two comparisons with it.   *)
PrecedenceRight ==
  Accepted /\ IsPrefix(Opening, source) /\ IsSuffix(Closing, source) /\ OperatorExpression(Body) =>
    tree = program(<<proc("main", <<>>, <<Reference(Body)>>)>>)

-----------------------------------------------------------------------------
(* The parser allocates without end only where it cannot move: behind the  *)
(* last token, with a list still open, and at the top level before a token *)
(* that starts no declaration.                                             *)
SpinsOnlyWhenStuck ==
  outcome = "exhausted" =>
    \/ Kind(p) = "EOF" /\ \E i \in DOMAIN calls : calls[i].do \in {"params", "stmts", "args", "comma"}
    \/ Len(calls) = 1 /\ Kind(p) \notin {"let", "const", "func", "pub", "EOF"}

(* p_parse comes to an end, if only because there is no more memory: every *)
(* loop that does not read on allocates.                                   *)
Terminates == <>(outcome # "parsing")
==============================================================================
