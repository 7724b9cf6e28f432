----------------------------- MODULE SymbolTable -----------------------------
(***************************************************************************)
(* Lexical scopes (compiler/semantic_analysis/symtable.c and symtable.h).  *)
(*                                                                         *)
(* All scopes of a compilation live in one sequence, in the order they     *)
(* were created; a Scope* is an index, 0 is NULL.  The parent pointers     *)
(* that scopeLookup follows are kept as the set "chain" of a scope and its *)
(* ancestors: parents are created before their children, so walking up is  *)
(* taking ever smaller members of the chain.  Scope.children and           *)
(* Scope.depth are written and never read, and are left out.               *)
(***************************************************************************)
EXTENDS Ast

(* "origin" is not in the C structure: it remembers which caller added the *)
(* symbol, "let", "param" or "global", for the properties.  "decl" is the  *)
(* declaring node, for the same reason.                                    *)
Symbol == [name : Names, type : Type, funcIndex : Int,
           origin : {"let", "param", "global"}, decl : Nat]

Scope == [chain : SUBSET Nat, isFuncScope : BOOLEAN, funcIndex : Nat,
          symbols : Seq(Symbol)]

(* initScope: a scope below "parent" goes on counting slots where its      *)
(* parent stands.                                                          *)
RestartedScope(ss, parent) ==
  [chain |-> {Len(ss) + 1} \cup (IF parent = 0 THEN {} ELSE ss[parent].chain),
   isFuncScope |-> FALSE, funcIndex |-> 0, symbols |-> <<>>]

initScope(ss, parent) ==
  [chain |-> {Len(ss) + 1} \cup (IF parent = 0 THEN {} ELSE ss[parent].chain),
   isFuncScope |-> FALSE,
   funcIndex |-> IF parent = 0 THEN 0 ELSE ss[parent].funcIndex,
   symbols |-> <<>>]

(* The indices at which one scope holds a name: scopeLookupCurrent.        *)
scopeLookupCurrent(ss, s, name) ==
  {i \in DOMAIN ss[s].symbols : ss[s].symbols[i].name = name}

(* A Symbol* is the scope that holds the symbol and its index there.       *)
NullSymbol == [scope |-> 0, index |-> 0]

(* scopeLookup: the innermost enclosing scope that holds the name wins.    *)
scopeLookup(ss, s, name) ==
  LET owners == IF s = 0 THEN {}
                ELSE {c \in ss[s].chain : scopeLookupCurrent(ss, c, name) # {}}
  IN  IF owners = {} THEN NullSymbol
      ELSE LET c == CHOOSE c \in owners : \A d \in owners : d <= c
           IN  [scope |-> c,
                index |-> CHOOSE i \in scopeLookupCurrent(ss, c, name) :
                            \A j \in scopeLookupCurrent(ss, c, name) : i <= j]

SymbolAt(ss, ref) == ss[ref.scope].symbols[ref.index]

(* scopeAddSymbol: a name already in this very scope is not added again.   *)
scopeAddSymbol(ss, s, symbol) ==
  IF scopeLookupCurrent(ss, s, symbol.name) # {} THEN ss
  ELSE [ss EXCEPT ![s].symbols = Append(@, symbol)]
=============================================================================
