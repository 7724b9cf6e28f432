------------------------- MODULE RepositoryPrograms -------------------------
(***************************************************************************)
(* The programs under tests/ of the repository: their tokens, as lx_nextTok*)
(* delivers them, and the trees they stand for.                            *)
(***************************************************************************)
EXTENDS Trees

LOCAL x == id("x")
LOCAL above8 == bin(x, ">", int(8))
LOCAL neg(e) == un("-", e)

basic_if ==
  [tokens |-> <<"pub", "func", "main", "(", ")", "{",
                  "let", "x", "=", "10", ";",
                  "if", "x", ">", "8", "{", "let", "y", "=", "0", ";", "}", ";",
                  "return", "0", ";", "}">>,
   decls |->
     <<proc("main", <<>>,
        <<let("x", int(10)), if(above8, block(<<let("y", int(0))>>)), return(int(0))>>)>>]

basic_if_else ==
  [tokens |-> <<"pub", "func", "main", "(", ")", "{",
                  "let", "x", "=", "10", ";",
                  "if", "x", ">", "8", "{", "let", "y", "=", "0", ";", "return", "y", ";", "}",
                  "else", "{", "return", "x", ";", "}", ";", "}">>,
   decls |->
     <<proc("main", <<>>,
        <<let("x", int(10)),
          ifelse(above8, block(<<let("y", int(0)), return(id("y"))>>),
                 block(<<return(x)>>))>>)>>]

binary ==
  LET product == bin(int(9), "*", bin(int(4), "+", int(7)))
      quotient == bin(int(6), "/", int(8))
  IN  [tokens |-> <<"pub", "func", "main", "(", ")", "i32", "{",
                      "return", "0", "+", "1", "*", "2", "-", "6", "/", "8",
                      "+", "9", "*", "(", "4", "+", "7", ")", ";", "}">>,
       decls |->
         <<func("main", <<>>, i32,
            <<return(bin(bin(bin(int(0), "+", bin(int(1), "*", int(2))), "-", quotient),
                         "+", product))>>)>>]

mixed ==
  LET left == bin(bin(int(6), "+", int(7)), "-", bin(neg(int(5)), "*", un("+", int(7))))
      right == bin(int(7), "+", bin(int(6), "*", neg(int(2))))
  IN  [tokens |-> <<"pub", "func", "main", "(", ")", "bool", "{",
                      "return", "!", "(", "6", "+", "7", "-", "-", "5", "*", "+", "7",
                      "==", "7", "+", "6", "*", "-", "2", ")", ";", "}">>,
       decls |-> <<func("main", <<>>, bool, <<return(un("!", bin(left, "==", right)))>>)>>]

fibonacci ==
  LET depth == id("depth")
      step(n) == call(id("fib"), <<bin(depth, "-", int(n))>>)
      stop(n) == if(bin(depth, "==", int(n)), block(<<return(int(n))>>))
      stopTokens(n) == <<"if", "depth", "==", n, "{", "return", n, ";", "}", ";">>
      stepTokens(n) == <<"fib", "(", "depth", "-", n, ")">>
  IN  [tokens |-> <<"func", "fib", "(", "depth", ":", "i32", ")", "i32", "{">>
                    \o stopTokens("0") \o stopTokens("1")
                    \o <<"return">> \o stepTokens("1") \o <<"+">> \o stepTokens("2")
                    \o <<";", "}", "pub", "func", "main", "(", ")", "{",
                         "fib", "(", "20", ")", ";", "}">>,
       decls |->
         <<func("fib", <<param("depth", i32)>>, i32,
            <<stop(0), stop(1), return(bin(step(1), "+", step(2)))>>),
           proc("main", <<>>, <<call(id("fib"), <<int(20)>>)>>)>>]

RepositoryTests == {basic_if, basic_if_else, binary, mixed, fibonacci}
==============================================================================
