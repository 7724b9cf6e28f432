---------------------------- MODULE MCTreePrinter ----------------------------
(***************************************************************************)
(* Model checking of printAST: every tree of blocks with up to two         *)
(* children on three levels, in front of and behind other constructs.      *)
(***************************************************************************)
EXTENDS TreePrinter

a == id("a")
Upto2(s) == {<<>>} \cup {<<x>> : x \in s} \cup {<<x, y>> : x, y \in s}

Low == {a} \cup {block(s) : s \in Upto2({a})}
Middle ==
  Low \cup {block(s) : s \in Upto2(Low)}
    \cup {letT("b", i32, bin(a, "+", a)), ifelse(a, un("-", a), return(a)), if(a, unit),
          call(a, <<>>), call(a, <<a, un("!", a)>>)}

MCPrograms ==
  {Table(program(<<const("k", int(1)), proc("main", <<>>, body)>>)) : body \in Upto2(Middle)}
    \cup {Table(program(<<proc("main", <<>>, <<>>), letT("k", ptr, block(<<block(<<block(<<a>>), a>>)>>))>>))}
==============================================================================
