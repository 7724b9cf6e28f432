----------------------------- MODULE MCExecution -----------------------------
(***************************************************************************)
(* Model checking of generated code on the virtual machine.                *)
(***************************************************************************)
EXTENDS Execution, Trees

a == id("a")
b == id("b")
Operators == {"+", "-", "==", "<", "<=", ">", ">="}

Simple == {let("b", bin(a, "-", int(9))), let("b", a), a, bin(a, "<=", int(1)),
           block(<<let("a", int(3)), a>>), block(<<let("c", int(5)), let("d", id("c"))>>),
           block(<<let("b", int(1)), block(<<let("c", b), return(bin(id("c"), "-", b))>>)>>),
           return(bin(a, "-", bin(int(2), "-", a)))}

Branching == {if(bin(a, "<", int(8)), block(<<let("d", int(4))>>)),
              if(bin(a, ">", int(8)), block(<<return(a)>>)),
              ifelse(true, block(<<a>>), block(<<>>)), false, return(true), break(a)}

(* Branches whose length is the number of an opcode, and of none.          *)
Above(v, stmts) == if(bin(v, ">", int(30)), block(stmts))
Lengths ==
  {<<let("b", int(n)), Above(b, <<b, b, b>>), return(b)>> : n \in {2, 25}}
    \cup {<<Above(a, <<if(true, block(<<a>>))>>)>>, <<Above(a, <<a, a>>)>>}

(* Each operand of a left-associative chain takes one more slot.           *)
Chain[k \in 0..16] == IF k = 0 THEN int(3) ELSE bin(Chain[k - 1], IF k % 2 = 0 THEN "-" ELSE "+", a)

main(body) == proc("main", <<>>, body)
From7(body) == <<main(<<let("a", int(7))>> \o body)>>

Declarations ==
  {From7(<<s, t, return(bin(a, o, bin(int(5), "-", a)))>>) :
     s \in Simple, t \in Simple, o \in Operators}
    \cup {From7(<<s, t>>) : s \in Simple, t \in Simple}
    \cup {From7(<<s, t>>) : s \in Simple \cup Branching, t \in Branching}
    \cup {From7(body) : body \in Lengths}
    \cup {From7(<<let("b", bin(a, "+", int(n))), return(bin(b, "-", a))>>) : n \in {3, 40}}
    \cup {From7(<<return(Chain[k])>>) : k \in {3, 5, 16}}
    \cup {<<main(<<>>)>>,
          <<proc("f", <<>>, <<return(int(1))>>), main(<<return(int(2))>>)>>,
          <<main(<<>>), proc("f", <<>>, <<return(int(1))>>)>>}

MCPrograms == {Table(program(decls)) : decls \in Declarations}

NoMessages == {<<>>}
=============================================================================
