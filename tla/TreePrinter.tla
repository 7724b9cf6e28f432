----------------------------- MODULE TreePrinter -----------------------------
(***************************************************************************)
(* printAST (compiler/ast.c): the tree of an accepted parse, one line for  *)
(* each node, with bars in front that connect siblings across the lines    *)
(* between them.  Which columns have a bar is handed down in the bits of   *)
(* has_lines, one more for each level.                                     *)
(***************************************************************************)
EXTENDS Trees

CONSTANTS
  Programs,    \* the trees to be printed
  IntBits,     \* 1 << k is defined for an int up to here
  MaskBits     \* the bits of has_lines

ASSUME PrinterAssumption ==
  /\ \A tree \in Programs : A!WellFormed(tree)
  /\ IntBits \in Nat /\ MaskBits \in Nat /\ IntBits <= MaskBits

VARIABLES
  ast,
  calls,     \* the pending calls of printAST, the next one first
  lines,     \* what was printed
  outcome

vars == <<ast, calls, lines, outcome>>

(* A call prints a node or the declared type of one.                       *)
Call(n, part, indent, indent_type, has_lines) ==
  [node |-> n, part |-> part, indent |-> indent, type |-> indent_type, lines |-> has_lines]

Init ==
  /\ ast \in Programs
  /\ calls = <<Call(1, "node", 0, 0, 0)>>
  /\ lines = <<>>
  /\ outcome = "printing"

Bit(mask, k) == (mask \div 2^k) % 2 = 1
Shifted(mask, bit) == (2 * mask + bit) % 2^MaskBits

printIndent(c) == [i \in 1..c.indent |-> Bit(c.lines, c.indent - i + 1)]

BarsForAll(c) ==
  LET kids == ast[c.node].kids
      type(i) == IF i = Len(kids) THEN 2 ELSE 1
  IN  [i \in DOMAIN kids |-> Call(kids[i], "node", c.indent + 1, type(i), Shifted(c.lines, 1))]

Children(c) ==
  LET kids == ast[c.node].kids
      child(i) == IF i = Len(kids)
                  THEN Call(kids[i], "node", c.indent + 1, 2, Shifted(c.lines, 0))
                  ELSE Call(kids[i], "node", c.indent + 1, 1, Shifted(c.lines, 1))
  IN  [i \in DOMAIN kids |-> child(i)]

DeclaredType(c) ==
  IF ast[c.node].kind = "DECL_VAR" /\ ast[c.node].type # none
  THEN <<Call(c.node, "type", c.indent + 1, 1, Shifted(c.lines, 0))>>
  ELSE <<>>

(* The first bit that printIndent asks for is the one it shifts farthest.  *)
Shiftable(c) == c.indent = 0 \/ c.indent < IntBits

printAST ==
  /\ outcome = "printing" /\ calls # <<>>
  /\ LET c == Head(calls)
     IN  /\ Shiftable(c)
         /\ lines' = Append(lines, [node |-> c.node, part |-> c.part,
                                    bars |-> printIndent(c), type |-> c.type])
         /\ calls' = (IF c.part = "node" THEN DeclaredType(c) \o Children(c) ELSE <<>>)
                       \o Tail(calls)
  /\ UNCHANGED <<ast, outcome>>

shiftTooFar ==
  /\ outcome = "printing" /\ calls # <<>> /\ ~ Shiftable(Head(calls))
  /\ outcome' = "undefined"
  /\ UNCHANGED <<ast, calls, lines>>

finish ==
  /\ outcome = "printing" /\ calls = <<>>
  /\ outcome' = "printed"
  /\ UNCHANGED <<ast, calls, lines>>

Finished == outcome # "printing" /\ UNCHANGED vars

Next == printAST \/ shiftTooFar \/ finish \/ Finished

Spec == Init /\ [][Next]_vars

-----------------------------------------------------------------------------
Parent(n) == CHOOSE p \in DOMAIN ast : \E i \in DOMAIN ast[p].kids : ast[p].kids[i] = n

(* From the root down to a node.                                           *)
Path ==
  LET path[n \in DOMAIN ast] == IF n = 1 THEN <<1>> ELSE Append(path[Parent(n)], n)
  IN  path

HasLaterSibling(n) == n # 1 /\ Last(ast[Parent(n)].kids) # n

(* Every node is printed once and in source order, and the picture is      *)
(* right: the bars in front of a line stand below those of its ancestors   *)
(* that have another sibling to come, and the corner marks a last child.   *)
(* It stays right as long as the tree is less deep than an int has bits.   *)
TreeDrawnRight ==
  LET nodes == SelectSeq(lines, LAMBDA line : line.part = "node")
      path == Path
  IN  /\ \A k \in DOMAIN nodes : nodes[k].node = k
      /\ outcome = "printed" => Len(nodes) = Len(ast)
      /\ outcome = "undefined" => \E n \in DOMAIN ast : Len(path[n]) > IntBits
      /\ \A k \in DOMAIN lines :
           LET n == lines[k].node
               above == IF lines[k].part = "node" THEN Front(path[n]) ELSE path[n]
           IN  /\ lines[k].bars = [i \in DOMAIN above |-> HasLaterSibling(above[i])]
               /\ lines[k].type =
                    CASE n = 1 -> 0
                      [] lines[k].part = "type" \/ HasLaterSibling(n) -> 1
                      [] OTHER -> 2
==============================================================================
