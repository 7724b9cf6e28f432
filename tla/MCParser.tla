------------------------------ MODULE MCParser ------------------------------
(***************************************************************************)
(* Model checking of the parser: on every short sequence of tokens as a    *)
(* file, as the parameters and as the body of a function, on longer bodies *)
(* of fewer tokens, and on the test programs of the repository.            *)
(***************************************************************************)
EXTENDS ParserProperties, RepositoryPrograms

CONSTANTS MaxFile, MaxHeader, MaxBody, MaxStatements, MaxExpression  \* bounds: lengths

MCIdents == {"a", "main", "i32", "bool", "x", "y", "fib", "depth"}
MCValue == [i \in {"0", "1", "2", "4", "5", "6", "7", "8", "9", "10", "20"} |->
             CASE i = "0" -> 0 [] i = "1" -> 1 [] i = "2" -> 2 [] i = "4" -> 4
               [] i = "5" -> 5 [] i = "6" -> 6 [] i = "7" -> 7 [] i = "8" -> 8
               [] i = "9" -> 9 [] i = "10" -> 10 [] i = "20" -> 20]

Upto(n, tokens) == UNION {[1..k -> tokens] : k \in 0..n}

Main(body) == Opening \o body \o Closing

Files == Upto(MaxFile, {"pub", "func", "const", "let", "a", "=", "1", ";", "(", "}", "UNKNOWN"})

(* Sequences of whole phrases rather than of tokens.                       *)
Globals ==
  {FlattenSeq(s) : s \in
    Upto(3, {<<"const", "a", "=", "1", ";">>, <<"pub", "const", "a", ":", "i32", "=", "1">>,
             <<"func", "a", "(", ")", "{", "}">>, <<"pub", "func", "a", "(", ")", "i32", "{", "}">>,
             <<"let", "mut", "a", "=", "1">>, <<";">>, <<"UNKNOWN">>})}

Headers ==
  {<<"func", "a", "(">> \o h \o <<"{", "1", ";", "}">> :
     h \in Upto(MaxHeader, {"a", ":", "*", ")", "1", "UNKNOWN"})
             \cup {<<"a", ":", "*", "*", "i32", ")", "*", "*", "*", "a">>}}

Bodies ==
  Upto(MaxBody, {"a", "1", "true", "(", ")", "-", "!", "=", "[", "]", "{", "}", "if", "then", "else",
                 "return", "break", "let", "mut", "const", ":", ";", "func", "UNKNOWN"})
    \cup Upto(MaxStatements, {"a", "=", "{", "}", ";", "if", "else", "let"})
    \cup {<<"a", "(">> \o list : list \in Upto(MaxStatements, {"a", "(", ")", "UNKNOWN"})}

Expressions == Upto(MaxExpression, {"a", "-", "*", "==", "=", "(", ")"})

(* Three operators between four operands, the second and the third with a  *)
(* prefix, or the two middle ones in parentheses.                          *)
Chains ==
  LET ops == {"=", "<", "-", "+", "*", "/"}
      signs == {<<>>, <<"-">>}
  IN  {<<"a", o, "1", q, "a", r, "1">> : o, q, r \in ops}
        \cup {<<"a", o>> \o s \o <<"1", q>> \o t \o <<"a">> : o, q \in ops, s, t \in signs}
        \cup {<<"a", o, "(", "1", q, "a", ")", r, "1">> : o, q, r \in ops}

MCSources ==
  Files \cup Globals \cup Headers
    \cup {Main(body) : body \in Bodies \cup Expressions \cup Chains}
    \cup {test.tokens : test \in RepositoryTests}

(* The test programs are parsed into the trees that the run                *)
(* repository_tests compiles, without an error or a warning.               *)
RepositoryProgramsParsed ==
  \A test \in RepositoryTests :
    source = test.tokens /\ outcome # "parsing" =>
      /\ Accepted /\ p.warnings = <<>>
      /\ tree = program(test.decls)
==============================================================================
