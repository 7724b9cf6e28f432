-------------------------------- MODULE Lists --------------------------------
(***************************************************************************)
(* What the passes expect of the growable arrays they keep statements,     *)
(* parameters, declarations, symbols and scopes in: lists that grow at the *)
(* end and otherwise stay as they are, whatever happens to the others.     *)
(***************************************************************************)
EXTENDS Sequences

CONSTANTS Arrays, Items

VARIABLE lists

Init == lists = [a \in Arrays |-> <<>>]

Push(a, item) == lists' = [lists EXCEPT ![a] = Append(@, item)]

Next == \E a \in Arrays, item \in Items : Push(a, item)

Spec == Init /\ [][Next]_lists
==============================================================================
