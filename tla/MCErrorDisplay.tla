--------------------------- MODULE MCErrorDisplay ---------------------------
(***************************************************************************)
(* Model checking of the display of an error: the keyword (the word "if"   *)
(* of the lexer's alphabet stands for "pub") with every text of up to      *)
(* MaxAround characters before and behind it.                              *)
(***************************************************************************)
EXTENDS ErrorDisplay

CONSTANT MaxAround

Around == {"f", "0", "@", "=", "/", "newline", "space"}
Upto(n) == UNION {[1..k -> Around] : k \in 0..n}

MCKeywords == {<<"i", "f">>}
MCSources == {s \o <<"i", "f">> \o t : s \in Upto(MaxAround - 1), t \in Upto(MaxAround)}
==============================================================================
