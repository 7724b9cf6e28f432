-------------------------------- MODULE Lexer --------------------------------
(***************************************************************************)
(* The lexer (compiler/lexer/lexer.zig): a position in the source that     *)
(* only moves forward, and a state machine that lx_nextTok runs from       *)
(* .start until a token is complete.                                       *)
(*                                                                         *)
(* The source is a sequence of characters followed by a NUL, the sentinel; *)
(* character i (from 0) is CharAt(i).  The parser calls lx_nextTok until   *)
(* it is given TOK_EOF.                                                    *)
(***************************************************************************)
EXTENDS Integers, Sequences, SequencesExt

CONSTANTS
  Sources,     \* the sources to be lexed
  Keywords     \* the words of the keywords table, as character sequences

Letters == {"i", "f", "_"}
Digits == {"0", "1"}
Blanks == {"space", "newline"}
Single == [paren |-> "TOK_LPAREN", semicolon |-> "TOK_SEMICOLON", bang |-> "TOK_BANG"]
Operators == {"=", "+", "-", "*", "/", "<", ">"}
Others == {".", "'", "@"}
Characters ==
  Letters \cup Digits \cup Blanks \cup DOMAIN Single \cup Operators \cup Others

ASSUME SourcesAssumption ==
  Sources \subseteq Seq(Characters) /\ Keywords \subseteq Seq(Letters)

VARIABLES
  source,   \* lx.source
  lx,       \* lx.index, lx.line, lx.col
  state,    \* the state of lx_nextTok; "idle" between calls of it
  result,   \* the token being built
  tokens    \* history: what lx_nextTok returned

vars == <<source, lx, state, result, tokens>>

States == {"idle", "start", "invalid", "comment", "identifier", "integer", "operator",
           "overrun"}
TokenTypes ==
  {"TOK_EOF", "TOK_UNKNOWN", "TOK_INT", "TOK_FLOAT", "TOK_IDENT", "TOK_KEYWORD",
   "TOK_OPERATOR", "TOK_OPERATOR_EQ"} \cup {Single[c] : c \in DOMAIN Single}

Position == [index : Nat, line : Nat, col : Nat]
Token == [type : TokenTypes, start : Nat, length : Nat, line : Nat, col : Nat]

TypeOK ==
  /\ source \in Seq(Characters)
  /\ lx \in Position /\ lx.index <= Len(source) + 1
  /\ state \in States
  /\ result \in Token /\ result.start <= lx.index
  /\ tokens \in Seq(Token)

CharAt(i) == IF i < Len(source) THEN source[i + 1] ELSE "NUL"
Char == CharAt(lx.index)

ColumnKept(p) ==
  [index |-> p.index + 1, line |-> IF CharAt(p.index) = "newline" THEN p.line + 1 ELSE p.line,
   col |-> p.col + 1]

advance(p) ==
  IF CharAt(p.index) = "newline"
  THEN [index |-> p.index + 1, line |-> p.line + 1, col |-> 0]
  ELSE [index |-> p.index + 1, line |-> p.line, col |-> p.col + 1]

(* lx_init.                                                                *)
Init ==
  /\ source \in Sources
  /\ lx = [index |-> 0, line |-> 0, col |-> 0]
  /\ state = "idle"
  /\ result = [type |-> "TOK_UNKNOWN", start |-> 0, length |-> 0, line |-> 0, col |-> 0]
  /\ tokens = <<>>

At(p, type) ==
  [type |-> type, start |-> p.index, length |-> 0, line |-> p.line, col |-> p.col]

GoTo(s) == state' = s /\ UNCHANGED <<source, tokens>>

(* The code behind the switch, with the lexer at position p.               *)
Finish(p, type) ==
  LET token == [result EXCEPT !.type = type, !.length = p.index - result.start]
  IN  /\ lx' = p
      /\ result' = token
      /\ tokens' = Append(tokens, token)
      /\ state' = "idle"
      /\ UNCHANGED source

Ended == tokens # <<>> /\ tokens[Len(tokens)].type = "TOK_EOF"

lx_nextTok ==
  /\ state = "idle" /\ ~ Ended
  /\ GoTo("start")
  /\ result' = At(lx, "TOK_UNKNOWN")
  /\ UNCHANGED lx

-----------------------------------------------------------------------------
(* The states of the machine.                                              *)

endOfFile ==
  /\ state = "start" /\ Char = "NUL"
  /\ result' = At(lx, "TOK_EOF")
  /\ tokens' = Append(tokens, result')
  /\ state' = "idle"
  /\ UNCHANGED <<source, lx>>

BlankNotPassed ==
  /\ state = "start" /\ Char \in Blanks
  /\ result' = At(lx, result.type)
  /\ GoTo("start")
  /\ UNCHANGED lx

skipBlank ==
  /\ state = "start" /\ Char \in Blanks
  /\ lx' = advance(lx)
  /\ result' = At(lx', result.type)
  /\ GoTo("start")

singleCharacter ==
  /\ state = "start" /\ Char \in DOMAIN Single
  /\ Finish(advance(lx), Single[Char])

(* To the state that reads the rest of a token; nothing is consumed yet.   *)
begin ==
  /\ state = "start"
  /\ \/ Char \in Letters /\ GoTo("identifier")
     \/ Char \in Digits /\ GoTo("integer")
     \/ Char \in Operators /\ GoTo("operator")
     \/ Char \in Others /\ GoTo("invalid")
  /\ UNCHANGED <<lx, result>>

(* What cannot start a token is taken to the end of the line.              *)
invalid ==
  /\ state = "invalid"
  /\ LET p == advance(lx)
     IN  \/ /\ CharAt(p.index) \in {"NUL", "newline"}
            /\ Finish(p, "TOK_UNKNOWN")
         \/ /\ CharAt(p.index) \notin {"NUL", "newline"}
            /\ lx' = p
            /\ GoTo("invalid")
            /\ UNCHANGED result

(* A comment ends where a line does, looked at only after an advance: a    *)
(* NUL right behind the slashes is passed by, and the byte behind it read. *)
CommentTo(ends) ==
  /\ state = "comment"
  /\ lx' = advance(lx)
  /\ \/ lx'.index > Len(source) /\ GoTo("overrun")
     \/ /\ lx'.index <= Len(source)
        /\ CharAt(lx'.index) \in ends
        /\ GoTo("start")
     \/ /\ lx'.index <= Len(source)
        /\ CharAt(lx'.index) \notin ends
        /\ GoTo("comment")
  /\ UNCHANGED result

CommentAcrossLines == CommentTo({"NUL"})
CommentPastTheEnd == CommentTo({"newline"})
CommentForEver ==
  state = "comment" /\ lx' = advance(lx) /\ GoTo("comment") /\ UNCHANGED result

comment == CommentTo({"NUL", "newline"})

InIdentifier == Letters \cup Digits \cup {"'"}

Lexeme(p) == SubSeq(source, result.start + 1, p.index)

UncheckedKeyword ==
  /\ state = "identifier"
  /\ LET p == advance(lx)
         word == Lexeme(p)
     IN  IF CharAt(p.index) \in InIdentifier /\ word \notin Keywords
         THEN lx' = p /\ GoTo("identifier") /\ UNCHANGED result
         ELSE Finish(p, IF word \in Keywords THEN "TOK_KEYWORD" ELSE "TOK_IDENT")

identifier ==
  /\ state = "identifier"
  /\ LET p == advance(lx)
     IN  \/ /\ CharAt(p.index) \in InIdentifier
            /\ lx' = p
            /\ GoTo("identifier")
            /\ UNCHANGED result
         \/ /\ CharAt(p.index) \notin InIdentifier
            /\ Finish(p, IF Lexeme(p) \in Keywords THEN "TOK_KEYWORD" ELSE "TOK_IDENT")

(* A '.' ends the number, as TOK_FLOAT: state .float is never entered.     *)
integer ==
  /\ state = "integer"
  /\ LET p == advance(lx)
     IN  \/ /\ CharAt(p.index) \in Digits \cup {"_"}
            /\ lx' = p
            /\ GoTo("integer")
            /\ UNCHANGED result
         \/ /\ CharAt(p.index) = "."
            /\ Finish(advance(p), "TOK_FLOAT")
         \/ /\ CharAt(p.index) \notin Digits \cup {"_", "."}
            /\ Finish(p, "TOK_INT")

(* The states .equal to .r_angle: an operator, with a '=' behind it the    *)
(* longer one, and two slashes a comment.                                  *)
operator ==
  /\ state = "operator"
  /\ LET p == advance(lx)
     IN  \/ /\ CharAt(p.index) = "="
            /\ Finish(advance(p), "TOK_OPERATOR_EQ")
         \/ /\ Char = "/" /\ CharAt(p.index) = "/"
            /\ lx' = advance(p)
            /\ GoTo("comment")
            /\ UNCHANGED result
         \/ /\ CharAt(p.index) # "="
            /\ Char = "/" => CharAt(p.index) # "/"
            /\ Finish(p, "TOK_OPERATOR")

Finished == (Ended \/ state = "overrun") /\ UNCHANGED vars

step ==
  \/ lx_nextTok
  \/ endOfFile \/ skipBlank \/ singleCharacter \/ begin
  \/ invalid \/ comment \/ identifier \/ integer \/ operator

Next == step \/ Finished

Fairness == WF_vars(step)

Spec == Init /\ [][Next]_vars /\ Fairness

-----------------------------------------------------------------------------
TokenEnd(token) == token.start + token.length
Covered(i) == \E k \in DOMAIN tokens : tokens[k].start <= i /\ i < TokenEnd(tokens[k])

(* Two slashes that no token covers open a comment; it hides what follows  *)
(* up to a newline, not counting one right behind the slashes.             *)
InComment(i) ==
  \E q \in 0..i :
    /\ CharAt(q) = "/" /\ CharAt(q + 1) = "/"
    /\ ~ Covered(q)
    /\ \A k \in (q + 3)..i : CharAt(k) # "newline"

(* Tokens come in source order without overlap, and nothing of the source  *)
(* is lost: what no token covers is blank or part of a comment.            *)
NothingLost ==
  /\ \A k \in 1..(Len(tokens) - 1) : TokenEnd(tokens[k]) <= tokens[k + 1].start
  /\ state = "idle" =>
       \A i \in 0..(lx.index - 1) :
         Covered(i) \/ CharAt(i) \in Blanks \/ InComment(i)

(* Line and column of a token are those of its first character.            *)
Newlines(i) == {k \in 0..(i - 1) : CharAt(k) = "newline"}
PositionsRight ==
  \A k \in DOMAIN tokens :
    LET token == tokens[k]
        before == Newlines(token.start)
    IN  /\ token.line = Cardinality(before)
        /\ token.col = IF before = {} THEN token.start ELSE token.start - Max(before) - 1

Text(token) == SubSeq(source, token.start + 1, TokenEnd(token))

(* The text of a token is one of its kind.                                 *)
OfItsKind(token) ==
  LET first == CharAt(token.start)
      text == Text(token)
      rest == ToSet(Tail(text))
      singles == {Single[c] : c \in DOMAIN Single}
  IN  /\ token.type \in {"TOK_IDENT", "TOK_KEYWORD"} =>
           /\ first \in Letters /\ rest \subseteq InIdentifier
           /\ token.type = "TOK_KEYWORD" <=> text \in Keywords
      /\ token.type = "TOK_INT" => first \in Digits /\ rest \subseteq Digits \cup {"_"}
      /\ token.type = "TOK_FLOAT" =>
           /\ first \in Digits /\ Last(text) = "."
           /\ \A i \in 1..(Len(text) - 1) : text[i] \in Digits \cup {"_"}
      /\ token.type = "TOK_OPERATOR" => text \in {<<c>> : c \in Operators}
      /\ token.type = "TOK_OPERATOR_EQ" => text \in {<<c, "=">> : c \in Operators}
      /\ token.type = "TOK_UNKNOWN" => first \in Others /\ "newline" \notin rest
      /\ token.type = "TOK_EOF" => token.start = Len(source) /\ token.length = 0
      /\ token.type \in singles => Len(text) = 1 /\ Single[first] = token.type

(* The character behind a token could not have continued it.               *)
Longest(token) ==
  LET first == CharAt(token.start)
      behind == CharAt(TokenEnd(token))
  IN  /\ token.type \in {"TOK_IDENT", "TOK_KEYWORD"} => behind \notin InIdentifier
      /\ token.type = "TOK_INT" => behind \notin Digits \cup {"_", "."}
      /\ token.type = "TOK_FLOAT" => behind \notin Digits \cup {"_"}
      /\ token.type = "TOK_OPERATOR" => behind # "=" /\ ~ (first = "/" /\ behind = "/")
      /\ token.type = "TOK_UNKNOWN" => behind \in {"NUL", "newline"}

(* A token is of the kind its text is, and as long as a token of that kind *)
(* can be, with one exception: a float ends right behind its '.', whatever *)
(* follows.  State .integer returns it there and nothing enters .float, so *)
(* a number with a fraction is two tokens: 1.5 is the float 1. and then    *)
(* the int 5.                                                              *)
LexemesRight ==
  \A k \in DOMAIN tokens :
    /\ tokens[k].length = 0 <=> tokens[k].type = "TOK_EOF"
    /\ OfItsKind(tokens[k])
    /\ tokens[k].type # "TOK_FLOAT" => Longest(tokens[k])

(* The lexer never reads behind the NUL that main.zig puts at the end of   *)
(* the source "for C interoperation", ...                                  *)
StopsAtSentinel == state # "overrun"

(* ... except when the source ends in the two slashes of a comment.        *)
OverrunOnlyAfterSlashes ==
  state = "overrun" => /\ Len(source) >= 2
                       /\ CharAt(Len(source) - 1) = "/" /\ CharAt(Len(source) - 2) = "/"

(* Calling lx_nextTok again and again reaches the end of the source.       *)
Terminates == <>(Ended \/ state = "overrun")
==============================================================================
