------------------------------- MODULE MCLexer -------------------------------
(***************************************************************************)
(* Model checking of the lexer on every source of up to MaxLength          *)
(* characters of an alphabet with one character of each class, two letters *)
(* for the keyword "if", and the characters that combine; and on longer    *)
(* sources of comments and lines.                                          *)
(***************************************************************************)
EXTENDS Lexer

CONSTANT MaxLength

Alphabet == {"i", "f", "0", ".", "'", "=", "<", "/", "paren", "@", "newline", "space"}

Upto(n, characters) == UNION {[1..k -> characters] : k \in 0..n}

MCSources ==
  Upto(MaxLength, Alphabet) \cup Upto(MaxLength + 2, {"i", "/", "newline"})
MCKeywords == {<<"i", "f">>}
==============================================================================
