------------------------------ MODULE MCLimits ------------------------------
(***************************************************************************)
(* Model checking of the generator at the width of its operands.  With a   *)
(* byte of 16 values instead of 256 the pool of constants and the low byte *)
(* of a jump overflow on short programs.                                   *)
(***************************************************************************)
EXTENDS CompilerProperties, Trees

Name(i) == <<"v1", "v2", "v3", "v4", "v5", "v6", "v7", "v8", "v9", "v10", "v11", "v12",
             "v13", "v14", "v15", "v16", "v17">>[i]

Lets(n) == [i \in 1..n |-> let(Name(i), int(100 + i))]
Ints(n) == [i \in 1..n |-> int(100 + i)]

LongBodies ==
  {Ints(n) : n \in 1..18}
    \cup {Lets(n) : n \in 15..17}
    \cup {<<if(true, block(Ints(n))), int(1)>> : n \in 0..12}
    \cup {<<ifelse(true, block(<<>>), block(Ints(n))), int(1)>> : n \in 0..12}

(* Enough to fill the buffers of errors and of warnings, and more.         *)
Faulty == {[i \in 1..n |-> id("v1")] : n \in 1..5}

MCPrograms ==
  {Table(program(<<proc("main", <<>>, body)>>)) : body \in LongBodies \cup Faulty}
    \cup {Table(program(<<proc("f", <<>>, Ints(n)), proc("main", <<>>, <<>>)>>)) :
            n \in 0..12}

NoMessages == {<<>>}
=============================================================================
