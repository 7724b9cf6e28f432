---------------------------- MODULE ErrorDisplay ----------------------------
(***************************************************************************)
(* How an error is shown (printError in compiler/error/error.c): the line  *)
(* of the source it is about, found again from the offset of the token it  *)
(* cites, with a row of carets below the token.                            *)
(*                                                                         *)
(* The error is the one p_parseDecl reports for a file of the keyword pub  *)
(* and at most one token more that starts no declaration: it cites that    *)
(* token, or TOK_EOF, and ends the file.                                   *)
(***************************************************************************)
EXTENDS Lexer

VARIABLES
  display,   \* where printError stands
  index,     \* its index into the source
  shown      \* the characters of the source it printed

displayVars == <<display, index, shown>>

Displays == {"none", "line", "shown", "overrun"}

DisplayInit == Init /\ display = "none" /\ index = 0 /\ shown = <<>>

Lex == step /\ UNCHANGED displayVars

LineStartAtNewline(target) ==
  LET before == {i \in 0..(target - 1) : CharAt(i) = "newline"}
  IN  IF before = {} THEN 0 ELSE Max(before)

getLineStart(target) ==
  LET before == {i \in 0..(target - 1) : CharAt(i) = "newline"}
  IN  IF before = {} THEN 0 ELSE Max(before) + 1

info == tokens[2]

Reported ==
  Ended /\ Len(tokens) \in 2..3 /\ tokens[1].type = "TOK_KEYWORD"

printError ==
  /\ Reported /\ display = "none"
  /\ display' = "line"
  /\ index' = getLineStart(info.start)
  /\ UNCHANGED <<vars, shown>>

(* Three loops: up to the token, the token, and from there to a newline,   *)
(* which alone ends the line.                                              *)
AtEndOfLine == index >= TokenEnd(info) /\ CharAt(index) = "newline"

putSource ==
  /\ display = "line"
  /\ ~ AtEndOfLine
  /\ IF index > Len(source)
     THEN display' = "overrun" /\ UNCHANGED <<index, shown>>
     ELSE /\ shown' = Append(shown, CharAt(index))
          /\ index' = index + 1
          /\ UNCHANGED display
  /\ UNCHANGED vars

putCarets ==
  /\ display = "line"
  /\ AtEndOfLine
  /\ display' = "shown"
  /\ UNCHANGED <<vars, index, shown>>

DisplayEnded ==
  /\ state = "overrun" \/ (Ended /\ (~ Reported \/ display \in {"shown", "overrun"}))
  /\ UNCHANGED <<vars, displayVars>>

DisplayNext == Lex \/ printError \/ putSource \/ putCarets \/ DisplayEnded

DisplaySpec == DisplayInit /\ [][DisplayNext]_<<vars, displayVars>>

-----------------------------------------------------------------------------
Line(k) ==
  LET of == {i \in DOMAIN source : source[i] # "newline" /\ Cardinality(Newlines(i - 1)) = k}
  IN  IF of = {} THEN <<>> ELSE SubSeq(source, Min(of), Max(of))

(* What is shown is the line whose number the error carries, all of it and *)
(* nothing else, and the carets, "length" of them from column "col" on,    *)
(* stand under the token: the lexer's count of lines and columns and       *)
(* getLineStart, which counts again from the offset, agree.                *)
ShowsTheCitedLine ==
  display = "shown" =>
    /\ shown = Line(info.line)
    /\ SubSeq(shown, info.col + 1, info.col + info.length) = Text(info)

(* Showing an error ends at the NUL that main.zig puts behind the source   *)
(* "for C interoperation", if not at a newline before it.                  *)
ShownLineEndsInSource == display # "overrun"
==============================================================================
