----------------------------- MODULE MCCompiler -----------------------------
(***************************************************************************)
(* Model checking of the compiler on small programs: every body of main of *)
(* up to two statements drawn from Statements, every longer body that      *)
(* Bodies lists, and programs with globals and several functions.          *)
(***************************************************************************)
EXTENDS CompilerProperties, Trees

a == id("a")
b == id("b")
less(l, r) == bin(l, "<", r)
plus(l, r) == bin(l, "+", r)

(* Statements that leave the stack as the checker believes, ...            *)
Plain ==
  { let("a", int(7)),
    let("a", true),
    let("b", plus(a, int(2))),
    a,
    less(int(1), a),
    block(<<let("a", int(3)), a>>),
    block(<<let("b", int(1)), block(<<let("c", b), plus(id("c"), b)>>), b>>),
    block(<<a, let("a", int(9))>>),
    if(less(a, int(2)), block(<<let("d", int(4)), id("d")>>)),
    ifelse(true, int(1), int(2)),
    ifelse(less(a, int(8)), block(<<let("b", a), return(b)>>), block(<<b>>)),
    let("b", ifelse(false, a, plus(int(1), int(2)))),
    return(bin(int(9), "-", a)),
    break(a) }

(* ... and statements that are refused somewhere, or that are accepted     *)
(* although they should not be.                                            *)
Odd ==
  { letT("c", bool, int(1)),
    letT("c", ptr, int(1)),
    bin(a, "=", int(2)),
    bin(int(5), "*", int(2)),
    plus(a, true),
    un("-", a), un("!", a),
    block(<<const("k", int(1)), id("k")>>),
    block(<<const("k", block(<<a>>))>>),
    block(<<const("k", int(1))>>),
    const("k", int(1)),
    if(int(1), block(<<>>)),
    if(true, int(1)),
    ifelse(true, int(1), true),
    ifelse(true, block(<<>>), int(1)),
    let("b", block(<<let("a", int(5))>>)),
    call(a, <<>>), call(id("main"), <<>>), call(id("main"), <<a>>),
    unit,
    id("z") }

Statements == Plain \cup Odd

main(body) == proc("main", <<>>, body)

Bodies ==
  {<<>>} \cup {<<s>> : s \in Statements}
    \cup {<<s, t>> : s \in Statements, t \in Statements}
    \cup {<<let("a", int(7)), s, t>> : s \in Plain, t \in Plain}

(* Programs with globals, parameters and calls.                            *)
f == func("f", <<param("a", i32)>>, i32, <<return(plus(a, int(1)))>>)
g == func("g", <<param("a", bool)>>, i32, <<let("b", int(1)), return(b)>>)
h == proc("h", <<>>, <<>>)

Programs1 ==
  { <<>>,
    <<h>>,
    <<f, main(<<call(id("f"), <<int(1)>>)>>)>>,
    <<f, main(<<call(id("f"), <<true>>)>>)>>,
    <<f, main(<<call(id("f"), <<>>)>>)>>,
    <<g, main(<<call(id("g"), <<true>>)>>)>>,
    <<h, main(<<call(id("h"), <<>>)>>)>>,
    <<f, main(<<return(id("f"))>>)>>,
    <<g, main(<<return(int(2))>>), h>>,
    <<main(<<return(id("k"))>>), const("k", int(3))>>,
    <<const("k", int(3)), main(<<return(id("k"))>>)>>,
    <<constT("k", i32, int(3)), f, main(<<let("b", id("k")), b>>)>>,
    <<constT("k", bool, int(3)), main(<<>>)>>,
    <<constT("k", bool, int(3)), const("k", int(3))>>,
    <<const("k", block(<<let("a", int(1)), let("b", a), b>>)), main(<<let("a", id("k")), a>>)>>,
    <<const("k", id("main")), main(<<>>)>>,
    <<let("k", int(3)), main(<<>>)>>,
    <<main(<<>>), main(<<>>)>> }

MCPrograms ==
  {Table(program(<<main(body)>>)) : body \in Bodies}
    \cup {Table(program(decls)) : decls \in Programs1}

MCParserErrors == {<<>>, <<Static("Expected ..."), Formatted("Unexpected ...")>>}
MCParserWarnings == {<<>>, <<Static("Remove the 'then'")>>}
=============================================================================
