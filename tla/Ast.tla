-------------------------------- MODULE Ast --------------------------------
(***************************************************************************)
(* The syntax tree the parser hands to the later passes (compiler/ast.h).  *)
(*                                                                         *)
(* A tree is a table of nodes: node 1 is the NODE_PROGRAM, and a pointer   *)
(* to a node is its index, so two passes that annotate the same pointer    *)
(* annotate the same index.  Children have larger indices than their       *)
(* parent, as in a preorder numbering.                                     *)
(*                                                                         *)
(* Every node has the same fields; the unions of the C structure become    *)
(* fields that the kind leaves empty:                                      *)
(*   name    the lvalue of a declaration, the name of an identifier        *)
(*   op      VarDeclType of a DECL_VAR, LiteralType of a LITERAL, operator *)
(*           of a BINOP or UNOP, "return" or "break" of an EXIT            *)
(*   val     the value of a literal token (0 and 1 for false and true)     *)
(*   type    the declared type of a DECL_VAR, returnType of a DECL_FUNC;   *)
(*           MAKE_NODE clears a node, so one that is not given is NULL     *)
(*   params  paramNames and paramTypes of a DECL_FUNC                      *)
(*   kids    the child nodes: declarations, statements, initial, operands, *)
(*           <<condition, trueBranch, falseBranch>>, <<func, arg, ...>>    *)
(***************************************************************************)
EXTENDS Integers, Sequences

CONSTANTS
  Names,     \* the names in a program, "" where there is none
  Programs   \* the syntax trees the parser may deliver

ASSUME NamesAssumption == {"", "i32", "bool"} \subseteq Names

(* Types are syntax nodes too; typeEquals compares the first two kinds     *)
(* structurally and function types by address, so a function type is       *)
(* identified by the declaration it belongs to.  A pointer to pointers is  *)
(* identified by the name at their end and, in decl, how many those are.   *)
(* NULL is a type, and so is a wild pointer, read from memory that nobody  *)
(* wrote.                                                                  *)
Type == [kind : {"NULL", "WILD", "TYPE_NAMED", "TYPE_PTR", "TYPE_FUNC"},
         of : Names, decl : Nat]

NoType == [kind |-> "NULL", of |-> "", decl |-> 0]
WildType == [kind |-> "WILD", of |-> "", decl |-> 0]
Named(name) == [kind |-> "TYPE_NAMED", of |-> name, decl |-> 0]
PointerThrough(pointers, name) == [kind |-> "TYPE_PTR", of |-> name, decl |-> pointers]
Pointer(name) == PointerThrough(0, name)
FuncType(n) == [kind |-> "TYPE_FUNC", of |-> "", decl |-> n]

ExprKinds == {"LITERAL", "IDENT", "BLOCK", "TUPLE", "CALL", "BINOP", "UNOP",
              "IF", "EXIT"}
NodeKinds == {"PROGRAM", "DECL_VAR", "DECL_FUNC"} \cup ExprKinds

(* The types a program can spell; parseType builds no other.               *)
WrittenType == {t \in Type : t.kind \in {"NULL", "TYPE_NAMED", "TYPE_PTR"}}

Param == [name : Names, type : WrittenType]

(* VarDeclType, LiteralType, the operators the parser makes nodes of, and  *)
(* the keywords of an EXIT.                                                *)
NodeOps ==
  {"", "let", "mut", "const", "INT", "BOOL", "return", "break", "!", "[",
   "=", "<", "<=", ">", ">=", "==", "+", "-", "*", "/"}

Node == [kind : NodeKinds, name : Names, op : NodeOps, val : Int,
         type : WrittenType, params : Seq(Param), kids : Seq(Nat)]

(* What the parser guarantees of a tree it reported no error for: the      *)
(* number of children each kind has, and where declarations may occur      *)
(* (p_parseDecl at the top, parseStatement in bodies and blocks).          *)
Shape(a, n) ==
  LET node == a[n]
      KidKinds(K) == \A i \in DOMAIN node.kids : a[node.kids[i]].kind \in K
  IN  /\ node.kind = "PROGRAM" => KidKinds({"DECL_VAR", "DECL_FUNC"})
      /\ node.kind \in {"DECL_FUNC", "BLOCK"} => KidKinds(ExprKinds \cup {"DECL_VAR"})
      /\ node.kind \in {"LITERAL", "IDENT", "TUPLE"} => node.kids = <<>>
      /\ node.kind \in {"DECL_VAR", "UNOP", "EXIT"} => Len(node.kids) = 1
      /\ node.kind = "BINOP" => Len(node.kids) = 2
      /\ node.kind = "IF" => Len(node.kids) \in 2..3
      /\ node.kind = "CALL" => node.kids # <<>>
      /\ node.kind \in {"DECL_VAR", "UNOP", "EXIT", "BINOP", "IF", "CALL"} =>
           KidKinds(ExprKinds)

(* It builds every node but the first once, for one place in its parent.   *)
SingleParents(a) ==
  \A m \in 2..Len(a) :
    \E n \in DOMAIN a : \E i \in DOMAIN a[n].kids :
      /\ a[n].kids[i] = m
      /\ \A p \in DOMAIN a : \A j \in DOMAIN a[p].kids :
           a[p].kids[j] = m => p = n /\ j = i

WellFormed(a) ==
  /\ a \in Seq(Node)
  /\ a # <<>>
  /\ a[1].kind = "PROGRAM"
  /\ \A n \in DOMAIN a : a[n].kids \in Seq((n + 1)..Len(a))
  /\ \A n \in DOMAIN a : Shape(a, n)
  /\ SingleParents(a)

ASSUME ProgramsAssumption == \A a \in Programs : WellFormed(a)

=============================================================================
