-------------------------------- MODULE Trees --------------------------------
(***************************************************************************)
(* Notation for the programs of the model-checking runs: one constructor   *)
(* per Wyrm construct, its arguments in source order.  A term is already a *)
(* node table in preorder, with its root first; its "kids" count from the  *)
(* node they belong to, so that a term can be put anywhere in another one. *)
(* Table turns those distances into the node numbers of module Ast.        *)
(***************************************************************************)
EXTENDS Integers, Sequences, SequencesExt

AnyName == STRING

(* Only to reach the types of Ast; the trees are this module's business.   *)
A == INSTANCE Ast WITH Names <- AnyName, Programs <- {}

i32 == A!Named("i32")
bool == A!Named("bool")
ptr == A!Pointer("i32")
none == A!NoType

Term(kind, name, op, val, type, params, kids) ==
  LET distance(i) == 1 + Len(FlattenSeq(SubSeq(kids, 1, i - 1)))
      root == [kind |-> kind, name |-> name, op |-> op, val |-> val, type |-> type,
               params |-> params, kids |-> [i \in DOMAIN kids |-> distance(i)]]
  IN  <<root>> \o FlattenSeq(kids)

Leaf(kind, name, op, val) == Term(kind, name, op, val, none, <<>>, <<>>)
Inner(kind, op, kids) == Term(kind, "", op, 0, none, <<>>, kids)

int(v) == Leaf("LITERAL", "", "INT", v)
true == Leaf("LITERAL", "", "BOOL", 1)
false == Leaf("LITERAL", "", "BOOL", 0)
id(name) == Leaf("IDENT", name, "", 0)
unit == Leaf("TUPLE", "", "", 0)
bin(l, op, r) == Inner("BINOP", op, <<l, r>>)
un(op, e) == Inner("UNOP", op, <<e>>)
block(stmts) == Inner("BLOCK", "", stmts)
if(c, t) == Inner("IF", "", <<c, t>>)
ifelse(c, t, f) == Inner("IF", "", <<c, t, f>>)
return(e) == Inner("EXIT", "return", <<e>>)
break(e) == Inner("EXIT", "break", <<e>>)
call(f, args) == Inner("CALL", "", <<f>> \o args)
letT(name, type, e) == Term("DECL_VAR", name, "let", 0, type, <<>>, <<e>>)
let(name, e) == letT(name, none, e)
constT(name, type, e) == Term("DECL_VAR", name, "const", 0, type, <<>>, <<e>>)
const(name, e) == constT(name, none, e)
param(name, type) == [name |-> name, type |-> type]
func(name, params, type, stmts) ==
  Term("DECL_FUNC", name, "", 0, type, params, stmts)
proc(name, params, stmts) == func(name, params, none, stmts)
program(decls) == Inner("PROGRAM", "", decls)

Table(term) ==
  [n \in DOMAIN term |->
     [term[n] EXCEPT !.kids = [i \in DOMAIN @ |-> n + @[i]]]]
==============================================================================
