----------------------------- MODULE LexerProofs -----------------------------
(***************************************************************************)
(* Proofs about the lexer, for every source and every set of keywords: its *)
(* type invariant, that tokens are what their text says, that lines and    *)
(* columns are right, that nothing of the source is lost, that only a      *)
(* source ending in two slashes is read beyond its NUL, and that an error  *)
(* is shown with the line it is in.                                        *)
(***************************************************************************)
EXTENDS ErrorDisplay, FiniteSets, FiniteSetTheorems, SequenceTheorems, TLAPS

-----------------------------------------------------------------------------
(* The inductive invariant.                                                *)

(* Every character behind the first of the token being read is of a class. *)
GoesOn(class) ==
  \A i \in (result.start + 1)..lx.index : CharAt(i) \in class

(* What each state knows of the text between result.start and lx.index.    *)
(* In .start the two are the same, except right behind a comment: there a  *)
(* newline or the NUL is next, and both set result.start again.            *)
Scanning ==
  /\ state \in {"idle", "start"} => lx.index <= Len(source)
  /\ state = "start" =>
       result.start = lx.index \/ Char \in {"NUL", "newline"}
  /\ state = "identifier" =>
       CharAt(result.start) \in Letters /\ GoesOn(InIdentifier)
  /\ state = "integer" =>
       CharAt(result.start) \in Digits /\ GoesOn(Digits \cup {"_"})
  /\ state = "operator" => result.start = lx.index /\ Char \in Operators
  /\ state = "invalid" =>
       CharAt(result.start) \in Others /\ GoesOn(Characters \ {"newline"})
  /\ state = "comment" =>
       /\ CharAt(result.start) = "/" /\ CharAt(result.start + 1) = "/"
       /\ result.start + 2 <= lx.index
       /\ \A k \in (result.start + 3)..lx.index : CharAt(k) \notin {"NUL", "newline"}
  /\ OverrunOnlyAfterSlashes

ScanInv == TypeOK /\ Scanning

(* Everything before the frontier is a token's, blank or comment; no token *)
(* reaches beyond it.                                                      *)
Frontier == IF state \in {"idle", "start"} THEN lx.index ELSE result.start
Accounted(i) == Covered(i) \/ CharAt(i) \in Blanks \/ InComment(i)
FrontierInv ==
  /\ \A k \in DOMAIN tokens : TokenEnd(tokens[k]) <= Frontier
  /\ \A k \in 1..(Len(tokens) - 1) : TokenEnd(tokens[k]) <= tokens[k + 1].start
  /\ \A i \in 0..(Frontier - 1) : Accounted(i)

(* A line and a column are those of an index of the source, and there is a *)
(* last newline before the index if there is any.                          *)
PositionOf(i, line, col) ==
  LET before == Newlines(i)
  IN  /\ line = Cardinality(before)
      /\ col = IF before = {} THEN i ELSE i - Max(before) - 1
      /\ before # {} => Max(before) \in before /\ \A k \in before : k <= Max(before)

PositionInv ==
  /\ PositionOf(lx.index, lx.line, lx.col)
  /\ PositionOf(result.start, result.line, result.col)
  /\ \A k \in DOMAIN tokens : PositionOf(tokens[k].start, tokens[k].line, tokens[k].col)

-----------------------------------------------------------------------------
(* Characters and positions.                                               *)

(* A character is of the alphabet inside the source, and the NUL behind it.*)
LEMMA Character ==
  ASSUME source \in Seq(Characters), NEW i \in Nat
  PROVE  /\ i < Len(source) => CharAt(i) = source[i + 1] /\ CharAt(i) \in Characters
         /\ ~ (i < Len(source)) => CharAt(i) = "NUL"
BY DEF CharAt

LEMMA Alphabet ==
  /\ Letters \subseteq Characters /\ Digits \subseteq Characters
  /\ Blanks \subseteq Characters /\ DOMAIN Single \subseteq Characters
  /\ Operators \subseteq Characters /\ Others \subseteq Characters
  /\ "NUL" \notin Characters /\ "newline" \in Blanks /\ "." \in Others
  /\ "=" \in Operators /\ "/" \in Operators
BY DEF Characters, Letters, Digits, Blanks, Single, Operators, Others

LEMMA SingleToken ==
  /\ DOMAIN Single = {"paren", "semicolon", "bang"}
  /\ \A c \in DOMAIN Single : Single[c] \in TokenTypes
BY DEF Single, TokenTypes

(* Reading on from a character that is there stays inside the source, or   *)
(* reaches its NUL.                                                        *)
LEMMA AdvanceOne ==
  ASSUME NEW p \in Position
  PROVE  advance(p) \in Position /\ advance(p).index = p.index + 1
BY DEF advance, Position

(* A finished token is the one begun, with its type and length.            *)
LEMMA FinishToken ==
  ASSUME TypeOK, NEW p \in Position, NEW type \in TokenTypes,
         p.index >= lx.index, p.index <= Len(source) + 1, Finish(p, type)
  PROVE  /\ result' \in Token
         /\ result'.type = type /\ result'.start = result.start
         /\ result'.length = p.index - result.start
         /\ result'.line = result.line /\ result'.col = result.col
         /\ tokens' = Append(tokens, result') /\ tokens' \in Seq(Token)
         /\ lx' = p /\ state' = "idle" /\ source' = source
         /\ TypeOK'
<1>1. result' = [result EXCEPT !.type = type, !.length = p.index - result.start]
  BY DEF Finish
<1>2. p.index - result.start \in Nat
  BY DEF TypeOK, Position, Token
<1>3. /\ result' \in Token
      /\ result'.type = type /\ result'.start = result.start
      /\ result'.length = p.index - result.start
      /\ result'.line = result.line /\ result'.col = result.col
  BY <1>1, <1>2 DEF TypeOK, Token
<1>4. /\ tokens' = Append(tokens, result')
      /\ lx' = p /\ state' = "idle" /\ source' = source
  BY DEF Finish
<1>5. tokens' \in Seq(Token)
  BY <1>3, <1>4 DEF TypeOK
<1>6. result'.start <= p.index
  BY <1>3 DEF TypeOK, Position, Token
<1>7. TypeOK'
  BY <1>3, <1>4, <1>5, <1>6 DEF TypeOK, States
<1> QED BY <1>3, <1>4, <1>5, <1>7

-----------------------------------------------------------------------------
(* Type correctness, and what the states know of the text they read.       *)

LEMMA ScanInit == Init => ScanInv
<1> SUFFICES ASSUME Init PROVE ScanInv
  OBVIOUS
<1>1. source \in Seq(Characters)
  BY SourcesAssumption DEF Init
<1>2. TypeOK
  BY <1>1 DEF Init, TypeOK, Position, Token, States, TokenTypes
<1>3. Scanning
  BY <1>1 DEF Init, Scanning, OverrunOnlyAfterSlashes
<1> QED BY <1>2, <1>3 DEF ScanInv

(* A step that returns a token leaves the lexer idle, inside the source.   *)
LEMMA ScanFinish ==
  ASSUME TypeOK, NEW p \in Position, NEW type \in TokenTypes,
         p.index >= lx.index, p.index <= Len(source), Finish(p, type)
  PROVE  ScanInv'
<1>1. /\ TypeOK' /\ lx' = p /\ state' = "idle" /\ source' = source
  BY FinishToken, p.index <= Len(source) + 1 DEF TypeOK, Position
<1>2. Scanning'
  BY <1>1 DEF Scanning, OverrunOnlyAfterSlashes
<1> QED BY <1>1, <1>2 DEF ScanInv

(* A step inside a token that consumes one character, which is there.      *)
LEMMA ScanOn ==
  ASSUME TypeOK, lx.index < Len(source), lx' = advance(lx),
         NEW s \in States, GoTo(s), UNCHANGED result
  PROVE  /\ TypeOK' /\ lx'.index = lx.index + 1
         /\ \A i : CharAt(i)' = CharAt(i)
<1>1. lx' \in Position /\ lx'.index = lx.index + 1
  BY AdvanceOne DEF TypeOK
<1>2. source' = source /\ tokens' = tokens /\ state' = s
  BY DEF GoTo
<1>3. TypeOK'
  BY <1>1, <1>2 DEF TypeOK, Position, Token
<1>4. \A i : CharAt(i)' = CharAt(i)
  BY <1>2 DEF CharAt
<1> QED BY <1>1, <1>3, <1>4

(* A class that goes on with the character behind lx goes on to it.        *)
LEMMA GoesOnNext ==
  ASSUME TypeOK, NEW class, GoesOn(class), lx' \in Position, lx'.index = lx.index + 1,
         UNCHANGED result, \A i : CharAt(i)' = CharAt(i), CharAt(lx.index + 1) \in class
  PROVE  GoesOn(class)'
<1> SUFFICES ASSUME NEW i \in (result.start + 1)..lx'.index PROVE CharAt(i) \in class
  BY DEF GoesOn
<1>1. i = lx.index + 1 \/ i \in (result.start + 1)..lx.index
  BY DEF TypeOK, Position, Token
<1> QED BY <1>1 DEF GoesOn

(* Where a token is being read, its first character is there, and so is    *)
(* the one at lx.index.                                                    *)
LEMMA InsideSource ==
  ASSUME ScanInv, state \in {"identifier", "integer", "operator", "invalid"}
  PROVE  lx.index < Len(source) /\ result.start < Len(source)
<1> USE Character, Alphabet DEF ScanInv, TypeOK, Position, Token
<1>1. CharAt(result.start) \in Characters
  BY DEF Scanning, Char
<1>2. result.start < Len(source)
  BY <1>1
<1>3. lx.index = result.start \/ lx.index \in (result.start + 1)..lx.index
  OBVIOUS
<1>4. Char \in Characters
  <2>1. CASE lx.index = result.start
    BY <1>1, <2>1 DEF Char
  <2>2. CASE lx.index \in (result.start + 1)..lx.index
    BY <2>2 DEF Scanning, GoesOn, Char, InIdentifier
  <2> QED BY <1>3, <2>1, <2>2
<1> QED BY <1>2, <1>4 DEF Char

LEMMA ScanStep == ScanInv /\ [Next]_vars => ScanInv'
<1> SUFFICES ASSUME ScanInv, [Next]_vars PROVE ScanInv'
  OBVIOUS
<1> DEFINE p == advance(lx)
<1>p. p \in Position /\ p.index = lx.index + 1 /\ p.index \in Nat
  BY AdvanceOne DEF ScanInv, TypeOK, Position
<1>t. TypeOK /\ lx.index \in Nat /\ result.start \in Nat /\ source \in Seq(Characters)
      /\ result.start <= lx.index /\ Len(source) \in Nat
  BY DEF ScanInv, TypeOK, Position, Token
<1>1. CASE lx_nextTok
  <2>1. TypeOK'
    BY <1>1, <1>t DEF lx_nextTok, GoTo, TypeOK, At, Token, Position, States, TokenTypes
  <2>2. Scanning'
    BY <1>1, <1>t DEF lx_nextTok, GoTo, ScanInv, Scanning, At, OverrunOnlyAfterSlashes
  <2> QED BY <2>1, <2>2 DEF ScanInv
<1>2. CASE endOfFile
  <2>1. result' \in Token /\ result'.start = lx.index
    BY <1>2, <1>t DEF endOfFile, At, TypeOK, Token, Position, TokenTypes
  <2>2. TypeOK'
    BY <1>2, <1>t, <2>1 DEF endOfFile, TypeOK, States
  <2>3. Scanning'
    BY <1>2, <1>t DEF endOfFile, ScanInv, Scanning, OverrunOnlyAfterSlashes
  <2> QED BY <2>2, <2>3 DEF ScanInv
<1>3. CASE skipBlank
  <2>1. lx.index < Len(source)
    BY <1>3, <1>t, Character, Alphabet DEF skipBlank, Char
  <2>2. result' = At(p, result.type) /\ lx' = p
    BY <1>3 DEF skipBlank
  <2>3. result' \in Token /\ result'.start = p.index
    BY <1>t, <1>p, <2>2 DEF At, TypeOK, Token, Position
  <2> HIDE DEF p
  <2>4. TypeOK'
    BY <1>3, <1>t, <1>p, <2>1, <2>2, <2>3 DEF skipBlank, GoTo, TypeOK, States
  <2>5. Scanning'
    BY <1>3, <1>t, <1>p, <2>1, <2>2, <2>3 DEF skipBlank, GoTo, Scanning, OverrunOnlyAfterSlashes
  <2> QED BY <2>4, <2>5 DEF ScanInv
<1>4. CASE singleCharacter
  <2>1. lx.index < Len(source)
    BY <1>4, <1>t, Character, Alphabet DEF singleCharacter, Char
  <2>2. Single[Char] \in TokenTypes /\ Finish(p, Single[Char])
    BY <1>4, SingleToken DEF singleCharacter
  <2> QED
    <3> HIDE DEF p
    <3> QED BY <1>t, <1>p, <2>1, <2>2, ScanFinish
<1>5. CASE begin
  <2>1. /\ UNCHANGED <<source, lx, result, tokens>>
        /\ state' \in {"identifier", "integer", "operator", "invalid"}
    BY <1>5 DEF begin, GoTo
  <2>2. TypeOK'
    BY <1>t, <2>1 DEF TypeOK, States
  <2>3. result.start = lx.index
    BY <1>5, Alphabet DEF begin, ScanInv, Scanning, Letters, Digits, Operators, Others
  <2>4. /\ \/ Char \in Letters /\ state' = "identifier"
           \/ Char \in Digits /\ state' = "integer"
           \/ Char \in Operators /\ state' = "operator"
           \/ Char \in Others /\ state' = "invalid"
        /\ \A i : CharAt(i)' = CharAt(i)
        /\ Char' = Char
    BY <1>5, <2>1 DEF begin, GoTo, CharAt, Char
  <2>5. CharAt(result.start)' = Char
    BY <2>1, <2>3, <2>4 DEF Char
  <2>6. \A class : GoesOn(class)'
    BY <1>t, <2>1, <2>3 DEF GoesOn
  <2>7. Scanning'
    BY <2>1, <2>3, <2>4, <2>5, <2>6 DEF Scanning, OverrunOnlyAfterSlashes
  <2> QED BY <2>2, <2>7 DEF ScanInv
<1>6. CASE invalid
  <2>1. lx.index < Len(source)
    BY <1>6, InsideSource DEF invalid
  <2>2. CASE Finish(p, "TOK_UNKNOWN")
    <3> HIDE DEF p
    <3> QED BY <1>t, <1>p, <2>1, <2>2, ScanFinish DEF TokenTypes
  <2>3. CASE /\ CharAt(p.index) \notin {"NUL", "newline"}
             /\ lx' = p /\ GoTo("invalid") /\ UNCHANGED result
    <3>1. TypeOK' /\ lx'.index = lx.index + 1 /\ \A i : CharAt(i)' = CharAt(i)
      BY <1>t, <2>1, <2>3, ScanOn DEF States
    <3>2. CharAt(lx.index + 1) \in Characters \ {"newline"}
      BY <1>t, <1>p, <2>3, Character
    <3>3. GoesOn(Characters \ {"newline"})'
      BY <1>6, <1>t, <1>p, <2>3, <3>1, <3>2, GoesOnNext DEF invalid, ScanInv, Scanning
    <3>4. Scanning'
      BY <1>6, <2>3, <3>1, <3>3
      DEF invalid, ScanInv, Scanning, GoTo, OverrunOnlyAfterSlashes
    <3> QED BY <3>1, <3>4 DEF ScanInv
  <2> QED BY <1>6, <2>2, <2>3 DEF invalid
<1>7. CASE comment
  <2>1. lx' = p /\ UNCHANGED <<source, result, tokens>> /\ \A i : CharAt(i)' = CharAt(i)
    BY <1>7 DEF comment, CommentTo, GoTo, CharAt
  <2>2. /\ CharAt(result.start) = "/" /\ CharAt(result.start + 1) = "/"
        /\ result.start + 2 <= lx.index
        /\ \A k \in (result.start + 3)..lx.index : CharAt(k) \notin {"NUL", "newline"}
    BY <1>7 DEF comment, CommentTo, ScanInv, Scanning
  <2>3. result.start + 1 < Len(source)
    BY <1>t, <2>2, Character
  <2>4. lx.index <= Len(source) /\ (lx.index = Len(source) => result.start + 2 = lx.index)
    <3>1. CASE lx.index = result.start + 2
      BY <1>t, <2>3, <3>1
    <3>2. CASE lx.index # result.start + 2
      <4>1. lx.index \in (result.start + 3)..lx.index
        BY <1>t, <2>2, <3>2
      <4> QED BY <1>t, <2>2, <4>1, Character
    <3> QED BY <3>1, <3>2
  <2>5. TypeOK'
    <3> HIDE DEF p
    <3>1. state' \in States
      BY <1>7 DEF comment, CommentTo, GoTo, States
    <3> QED BY <1>t, <1>p, <2>1, <2>4, <3>1 DEF TypeOK
  <2>6. CASE p.index > Len(source) /\ state' = "overrun"
    <3>1. CharAt(Len(source) - 1) = "/" /\ CharAt(Len(source) - 2) = "/" /\ Len(source) >= 2
      <4>1. Len(source) - 1 = result.start + 1 /\ Len(source) - 2 = result.start
        BY <1>t, <1>p, <2>4, <2>6
      <4> QED BY <1>t, <2>2, <4>1
    <3>2. Scanning'
      BY <2>1, <2>6, <3>1 DEF Scanning, OverrunOnlyAfterSlashes
    <3> QED BY <2>5, <3>2 DEF ScanInv
  <2>7. CASE /\ p.index <= Len(source) /\ CharAt(p.index) \in {"NUL", "newline"}
             /\ state' = "start"
    <3>1. Scanning'
      BY <2>1, <2>7 DEF Scanning, OverrunOnlyAfterSlashes, Char
    <3> QED BY <2>5, <3>1 DEF ScanInv
  <2>8. CASE /\ p.index <= Len(source) /\ CharAt(p.index) \notin {"NUL", "newline"}
             /\ state' = "comment"
    <3>1. \A k \in (result.start + 3)..p.index : CharAt(k) \notin {"NUL", "newline"}
      <4> TAKE k \in (result.start + 3)..p.index
      <4>1. k = p.index \/ k \in (result.start + 3)..lx.index
        BY <1>t, <1>p
      <4> QED BY <2>2, <2>8, <4>1
    <3>2. Scanning'
      BY <1>t, <1>p, <2>1, <2>2, <2>8, <3>1 DEF Scanning, OverrunOnlyAfterSlashes
    <3> QED BY <2>5, <3>2 DEF ScanInv
  <2> QED BY <1>7, <2>1, <2>6, <2>7, <2>8 DEF comment, CommentTo, GoTo
<1>8. CASE identifier
  <2>1. lx.index < Len(source)
    BY <1>8, InsideSource DEF identifier
  <2>2. CASE \E type \in TokenTypes : Finish(p, type)
    <3> HIDE DEF p
    <3> QED BY <1>t, <1>p, <2>1, <2>2, ScanFinish
  <2>3. CASE /\ CharAt(p.index) \in InIdentifier
             /\ lx' = p /\ GoTo("identifier") /\ UNCHANGED result
    <3>1. TypeOK' /\ lx'.index = lx.index + 1 /\ \A i : CharAt(i)' = CharAt(i)
      BY <1>t, <2>1, <2>3, ScanOn DEF States
    <3>2. GoesOn(InIdentifier)'
      BY <1>8, <1>t, <1>p, <2>3, <3>1, GoesOnNext DEF identifier, ScanInv, Scanning
    <3>3. Scanning'
      BY <1>8, <2>3, <3>1, <3>2
      DEF identifier, ScanInv, Scanning, GoTo, OverrunOnlyAfterSlashes
    <3> QED BY <3>1, <3>3 DEF ScanInv
  <2> QED BY <1>8, <2>2, <2>3 DEF identifier, TokenTypes
<1>9. CASE integer
  <2>1. lx.index < Len(source)
    BY <1>9, InsideSource DEF integer
  <2>2. CASE Finish(p, "TOK_INT")
    <3> HIDE DEF p
    <3> QED BY <1>t, <1>p, <2>1, <2>2, ScanFinish DEF TokenTypes
  <2>3. CASE CharAt(p.index) = "." /\ Finish(advance(p), "TOK_FLOAT")
    <3> HIDE DEF p
    <3>1. p.index < Len(source)
      BY <1>t, <1>p, <2>3, Character
    <3>2. advance(p) \in Position /\ advance(p).index = lx.index + 2
      BY <1>t, <1>p, AdvanceOne
    <3>3. "TOK_FLOAT" \in TokenTypes /\ advance(p).index <= Len(source)
          /\ advance(p).index >= lx.index
      BY <1>t, <1>p, <3>1, <3>2 DEF TokenTypes
    <3> QED BY <1>t, <2>3, <3>2, <3>3, ScanFinish
  <2>4. CASE /\ CharAt(p.index) \in Digits \cup {"_"}
             /\ lx' = p /\ GoTo("integer") /\ UNCHANGED result
    <3>1. TypeOK' /\ lx'.index = lx.index + 1 /\ \A i : CharAt(i)' = CharAt(i)
      BY <1>t, <2>1, <2>4, ScanOn DEF States
    <3>2. GoesOn(Digits \cup {"_"})'
      BY <1>9, <1>t, <1>p, <2>4, <3>1, GoesOnNext DEF integer, ScanInv, Scanning
    <3>3. Scanning'
      BY <1>9, <2>4, <3>1, <3>2
      DEF integer, ScanInv, Scanning, GoTo, OverrunOnlyAfterSlashes
    <3> QED BY <3>1, <3>3 DEF ScanInv
  <2> QED BY <1>9, <2>2, <2>3, <2>4 DEF integer
<1>10. CASE operator
  <2>1. lx.index < Len(source)
    BY <1>10, InsideSource DEF operator
  <2>2. CASE Finish(p, "TOK_OPERATOR")
    <3> HIDE DEF p
    <3> QED BY <1>t, <1>p, <2>1, <2>2, ScanFinish DEF TokenTypes
  <2>3. CASE CharAt(p.index) = "=" /\ Finish(advance(p), "TOK_OPERATOR_EQ")
    <3> HIDE DEF p
    <3>1. p.index < Len(source)
      BY <1>t, <1>p, <2>3, Character
    <3>2. advance(p) \in Position /\ advance(p).index = lx.index + 2
      BY <1>t, <1>p, AdvanceOne
    <3>3. "TOK_OPERATOR_EQ" \in TokenTypes /\ advance(p).index <= Len(source)
          /\ advance(p).index >= lx.index
      BY <1>t, <1>p, <3>1, <3>2 DEF TokenTypes
    <3> QED BY <1>t, <2>3, <3>2, <3>3, ScanFinish
  <2>4. CASE /\ Char = "/" /\ CharAt(p.index) = "/"
             /\ lx' = advance(p) /\ GoTo("comment") /\ UNCHANGED result
    <3> HIDE DEF p
    <3>1. p.index < Len(source)
      BY <1>t, <1>p, <2>4, Character
    <3>2. lx' \in Position /\ lx'.index = lx.index + 2
      BY <1>t, <1>p, <2>4, AdvanceOne
    <3>3. source' = source /\ tokens' = tokens /\ state' = "comment" /\ result' = result
          /\ \A i : CharAt(i)' = CharAt(i)
      BY <2>4 DEF GoTo, CharAt
    <3>4. TypeOK'
      BY <1>t, <1>p, <3>1, <3>2, <3>3 DEF TypeOK, States
    <3>5. result.start = lx.index
      BY <1>10 DEF operator, ScanInv, Scanning
    <3>6. CharAt(lx.index) = "/" /\ CharAt(lx.index + 1) = "/"
      BY <1>p, <2>4 DEF Char
    <3>7. Scanning'
      BY <1>t, <3>2, <3>3, <3>5, <3>6 DEF Scanning, OverrunOnlyAfterSlashes
    <3> QED BY <3>4, <3>7 DEF ScanInv
  <2> QED BY <1>10, <2>2, <2>3, <2>4 DEF operator
<1>11. CASE UNCHANGED vars
  <2>1. TypeOK'
    BY <1>11, <1>t DEF vars, TypeOK
  <2>2. Scanning'
    BY <1>11 DEF vars, ScanInv, Scanning, GoesOn, CharAt, Char, OverrunOnlyAfterSlashes
  <2> QED BY <2>1, <2>2 DEF ScanInv
<1> QED
  BY <1>1, <1>2, <1>3, <1>4, <1>5, <1>6, <1>7, <1>8, <1>9, <1>10, <1>11
  DEF Next, step, Finished

THEOREM ScanCorrect == Spec => []ScanInv
<1> QED BY ScanInit, ScanStep, PTL DEF Spec

(* The type invariant of the lexer.                                        *)
THEOREM LexerTyped == Spec => []TypeOK
<1>1. ScanInv => TypeOK
  BY DEF ScanInv
<1> QED BY ScanCorrect, <1>1, PTL

(* The only source read behind its NUL is one that ends in two slashes:    *)
(* the comment state looks at a character only after it advanced.          *)
THEOREM OverrunNeedsSlashes == Spec => []OverrunOnlyAfterSlashes
<1>1. ScanInv => OverrunOnlyAfterSlashes
  BY DEF ScanInv, Scanning
<1> QED BY ScanCorrect, <1>1, PTL

-----------------------------------------------------------------------------
(* Tokens are what their text says.                                        *)

RightToken(token) ==
  /\ token.length = 0 <=> token.type = "TOK_EOF"
  /\ OfItsKind(token)
  /\ token.type # "TOK_FLOAT" => Longest(token)

(* What makes a token right does not change while the source does not.     *)
LEMMA LexemesKept ==
  ASSUME LexemesRight, UNCHANGED <<source, tokens>>
  PROVE  LexemesRight'
<1> SUFFICES ASSUME NEW k \in DOMAIN tokens'
             PROVE  /\ tokens'[k].length = 0 <=> tokens'[k].type = "TOK_EOF"
                    /\ OfItsKind(tokens[k])'
                    /\ (tokens[k].type # "TOK_FLOAT" => Longest(tokens[k]))'
  BY DEF LexemesRight
<1>1. RightToken(tokens'[k])
  BY DEF LexemesRight, RightToken
<1>2. /\ OfItsKind(tokens[k])' <=> OfItsKind(tokens'[k])
      /\ Longest(tokens[k])' <=> Longest(tokens'[k])
  BY DEF OfItsKind, Longest, Text, TokenEnd, CharAt
<1> QED BY <1>1, <1>2 DEF RightToken

LEMMA LexemeAdded ==
  ASSUME LexemesRight, tokens \in Seq(Token), source' = source,
         NEW token \in Token, tokens' = Append(tokens, token), RightToken(token)
  PROVE  LexemesRight'
<1> SUFFICES ASSUME NEW k \in DOMAIN tokens'
             PROVE  /\ tokens'[k].length = 0 <=> tokens'[k].type = "TOK_EOF"
                    /\ OfItsKind(tokens[k])'
                    /\ (tokens[k].type # "TOK_FLOAT" => Longest(tokens[k]))'
  BY DEF LexemesRight
<1>1. tokens'[k] = token \/ (k \in DOMAIN tokens /\ tokens'[k] = tokens[k])
  OBVIOUS
<1>2. RightToken(tokens'[k])
  BY <1>1 DEF LexemesRight, RightToken
<1>3. /\ OfItsKind(tokens[k])' <=> OfItsKind(tokens'[k])
      /\ Longest(tokens[k])' <=> Longest(tokens'[k])
  BY DEF OfItsKind, Longest, Text, TokenEnd, CharAt
<1> QED BY <1>2, <1>3 DEF RightToken

(* A token of the source that is not empty, and the text it has.           *)
InSource(token) ==
  token \in Token /\ token.length > 0 /\ TokenEnd(token) <= Len(source)

(* The characters of a token behind its first are all of a class.          *)
RestIn(token, class) ==
  \A i \in (token.start + 1)..(TokenEnd(token) - 1) : CharAt(i) \in class

(* The characters of a token before its last are all of a class.           *)
FrontIn(token, class) ==
  \A i \in token.start..(TokenEnd(token) - 2) : CharAt(i) \in class

LEMMA TextOf ==
  ASSUME source \in Seq(Characters), NEW token, InSource(token)
  PROVE  /\ Text(token) \in Seq(Characters) /\ Len(Text(token)) = token.length
         /\ Text(token)[1] = CharAt(token.start)
         /\ Last(Text(token)) = CharAt(TokenEnd(token) - 1)
         /\ token.length >= 2 => Text(token)[2] = CharAt(token.start + 1)
         /\ \A class : RestIn(token, class) => ToSet(Tail(Text(token))) \subseteq class
         /\ \A class : FrontIn(token, class) =>
              \A i \in 1..(Len(Text(token)) - 1) : Text(token)[i] \in class
<1> DEFINE s == token.start
           e == TokenEnd(token)
           text == Text(token)
<1>1. s \in Nat /\ e \in Nat /\ s < e /\ e <= Len(source) /\ token.length = e - s
  BY DEF InSource, Token, TokenEnd
<1>2. text = SubSeq(source, s + 1, e)
  BY DEF Text
<1> HIDE DEF s, e, text
<1>3. /\ text \in Seq(Characters) /\ Len(text) = e - s
      /\ \A i \in 1..(e - s) : text[i] = source[s + i]
  <2>1. \A i \in (s + 1)..e : source[i] \in Characters
    BY <1>1
  <2> QED BY <1>1, <1>2, <2>1, SubSeqProperties
<1>4. /\ text[1] = CharAt(s) /\ Last(text) = CharAt(e - 1)
      /\ e - s >= 2 => text[2] = CharAt(s + 1)
  BY <1>1, <1>3 DEF CharAt, Last
<1>5. /\ Len(Tail(text)) = e - s - 1
      /\ \A i \in 1..Len(Tail(text)) : Tail(text)[i] = text[i + 1]
      /\ DOMAIN Tail(text) = 1..Len(Tail(text))
  <2>1. text # <<>>
    BY <1>1, <1>3
  <2>2. /\ Tail(text) \in Seq(Characters) /\ Len(Tail(text)) = Len(text) - 1
        /\ \A i \in 1..Len(Tail(text)) : Tail(text)[i] = text[i + 1]
    BY ONLY <1>3, <2>1, HeadTailProperties
  <2> QED BY <1>3, <2>2
<1>6. ASSUME NEW class, RestIn(token, class), NEW c \in ToSet(Tail(text))
      PROVE  c \in class
  <2>1. PICK j \in 1..(e - s - 1) : c = text[j + 1]
    BY <1>1, <1>5, <1>6 DEF ToSet
  <2>2. c = CharAt(s + j)
    BY <1>1, <1>3, <2>1 DEF CharAt
  <2>3. \A i \in (s + 1)..(e - 1) : CharAt(i) \in class
    BY <1>6 DEF RestIn, s, e
  <2>4. s + j \in (s + 1)..(e - 1)
    BY <1>1, <2>1
  <2> QED BY <2>2, <2>3, <2>4
<1>7. token.length >= 2 => text[2] = CharAt(s + 1)
  BY <1>1, <1>4
<1>8. ASSUME NEW class, FrontIn(token, class), NEW i \in 1..(Len(text) - 1)
      PROVE  text[i] \in class
  <2>1. text[i] = CharAt(s + i - 1)
    BY <1>1, <1>3 DEF CharAt
  <2>2. \A j \in s..(e - 2) : CharAt(j) \in class
    BY <1>8 DEF FrontIn, s, e
  <2>3. s + i - 1 \in s..(e - 2)
    BY <1>1, <1>3
  <2> QED BY <2>1, <2>2, <2>3
<1> QED BY <1>1, <1>3, <1>4, <1>6, <1>7, <1>8 DEF s, e, text

LEMMA SingleTypes ==
  {Single[c] : c \in DOMAIN Single} = {"TOK_LPAREN", "TOK_SEMICOLON", "TOK_BANG"}
<1>1. /\ DOMAIN Single = {"paren", "semicolon", "bang"}
      /\ Single["paren"] = "TOK_LPAREN" /\ Single["semicolon"] = "TOK_SEMICOLON"
      /\ Single["bang"] = "TOK_BANG"
  BY DEF Single
<1> QED BY ONLY <1>1

LEMMA NotEmpty ==
  ASSUME NEW token, InSource(token)
  PROVE  token.length # 0
BY DEF InSource, Token

(* One lemma for each kind of token: what the state that returns it knows  *)
(* makes it right.                                                         *)
LEMMA WordRight ==
  ASSUME source \in Seq(Characters), NEW token, InSource(token),
         token.type = IF Text(token) \in Keywords THEN "TOK_KEYWORD" ELSE "TOK_IDENT",
         CharAt(token.start) \in Letters, RestIn(token, InIdentifier),
         CharAt(TokenEnd(token)) \notin InIdentifier
  PROVE  RightToken(token)
<1>1. ToSet(Tail(Text(token))) \subseteq InIdentifier
  BY TextOf
<1> QED BY <1>1, SingleTypes, NotEmpty, Zenon DEF RightToken, OfItsKind, Longest

LEMMA IntRight ==
  ASSUME source \in Seq(Characters), NEW token, InSource(token), token.type = "TOK_INT",
         CharAt(token.start) \in Digits, RestIn(token, Digits \cup {"_"}),
         CharAt(TokenEnd(token)) \notin Digits \cup {"_", "."}
  PROVE  RightToken(token)
<1>1. ToSet(Tail(Text(token))) \subseteq Digits \cup {"_"}
  BY TextOf
<1> QED BY <1>1, SingleTypes, NotEmpty, Zenon DEF RightToken, OfItsKind, Longest

LEMMA FloatRight ==
  ASSUME source \in Seq(Characters), NEW token, InSource(token), token.type = "TOK_FLOAT",
         CharAt(token.start) \in Digits, FrontIn(token, Digits \cup {"_"}),
         CharAt(TokenEnd(token) - 1) = "."
  PROVE  RightToken(token)
<1>1. /\ Last(Text(token)) = "."
      /\ \A i \in 1..(Len(Text(token)) - 1) : Text(token)[i] \in Digits \cup {"_"}
  BY TextOf
<1> QED BY <1>1, SingleTypes, NotEmpty, Zenon DEF RightToken, OfItsKind, Longest

LEMMA OperatorRight ==
  ASSUME source \in Seq(Characters), NEW token, InSource(token),
         token.type = "TOK_OPERATOR", token.length = 1,
         CharAt(token.start) \in Operators, CharAt(TokenEnd(token)) # "=",
         ~ (CharAt(token.start) = "/" /\ CharAt(TokenEnd(token)) = "/")
  PROVE  RightToken(token)
<1>1. /\ Text(token) \in Seq(Characters) /\ Len(Text(token)) = 1
      /\ Text(token)[1] = CharAt(token.start)
  BY TextOf DEF InSource
<1>2. Text(token) = <<CharAt(token.start)>>
  BY <1>1
<1> QED BY <1>2, SingleTypes, NotEmpty, Zenon DEF RightToken, OfItsKind, Longest

LEMMA OperatorEqRight ==
  ASSUME source \in Seq(Characters), NEW token, InSource(token),
         token.type = "TOK_OPERATOR_EQ", token.length = 2,
         CharAt(token.start) \in Operators, CharAt(token.start + 1) = "="
  PROVE  RightToken(token)
<1>1. /\ Text(token) \in Seq(Characters) /\ Len(Text(token)) = 2
      /\ Text(token)[1] = CharAt(token.start) /\ Text(token)[2] = "="
  <2>1. token.length >= 2
    OBVIOUS
  <2> QED BY <2>1, TextOf, Zenon
<1>2. Text(token) = <<CharAt(token.start), "=">>
  BY <1>1
<1> QED BY <1>2, SingleTypes, NotEmpty, Zenon DEF RightToken, OfItsKind, Longest

LEMMA UnknownRight ==
  ASSUME source \in Seq(Characters), NEW token, InSource(token),
         token.type = "TOK_UNKNOWN",
         CharAt(token.start) \in Others, RestIn(token, Characters \ {"newline"}),
         CharAt(TokenEnd(token)) \in {"NUL", "newline"}
  PROVE  RightToken(token)
<1>1. ToSet(Tail(Text(token))) \subseteq Characters \ {"newline"}
  BY TextOf
<1> QED BY <1>1, SingleTypes, NotEmpty, Zenon DEF RightToken, OfItsKind, Longest

LEMMA SingleRight ==
  ASSUME source \in Seq(Characters), NEW token, InSource(token),
         CharAt(token.start) \in DOMAIN Single,
         token.type = Single[CharAt(token.start)], token.length = 1
  PROVE  RightToken(token)
<1>1. Len(Text(token)) = 1
  BY TextOf
<1>2. Len(Text(token)) = 1 /\ token.type \in {"TOK_LPAREN", "TOK_SEMICOLON", "TOK_BANG"}
  BY ONLY <1>1, SingleTypes, CharAt(token.start) \in DOMAIN Single,
     token.type = Single[CharAt(token.start)], Zenon
<1> QED BY <1>2, SingleTypes, NotEmpty, Zenon DEF RightToken, OfItsKind, Longest

(* The token a step returns, as the lemmas above speak of it.              *)
LEMMA FinishLexeme ==
  ASSUME ScanInv, LexemesRight, NEW p \in Position, NEW type \in TokenTypes,
         Finish(p, type), lx.index < p.index, p.index <= Len(source)
  PROVE  /\ InSource(result') /\ TokenEnd(result') = p.index
         /\ result'.type = type /\ result'.start = result.start
         /\ result'.length = p.index - result.start
         /\ lx' = advance(lx) => \A class : GoesOn(class) => RestIn(result', class)
         /\ RightToken(result') => LexemesRight'
<1>1. TypeOK /\ lx.index \in Nat /\ result.start \in Nat /\ result.start <= lx.index
      /\ p.index \in Nat /\ Len(source) \in Nat
  BY DEF ScanInv, TypeOK, Position, Token
<1>2. /\ result' \in Token
      /\ result'.type = type /\ result'.start = result.start
      /\ result'.length = p.index - result.start
      /\ tokens' = Append(tokens, result') /\ source' = source
  <2>1. p.index >= lx.index /\ p.index <= Len(source) + 1
    BY <1>1
  <2> QED BY <1>1, <2>1, FinishToken
<1>3. TokenEnd(result') = p.index /\ result'.length > 0
  BY <1>1, <1>2 DEF TokenEnd
<1>4. RightToken(result') => LexemesRight'
  BY <1>1, <1>2, LexemeAdded DEF TypeOK
<1>5. ASSUME lx' = advance(lx), NEW class, GoesOn(class)
      PROVE  RestIn(result', class)
  <2>1. p.index = lx.index + 1
    BY <1>1, <1>5, AdvanceOne DEF Finish, TypeOK
  <2>2. \A i \in (result.start + 1)..(p.index - 1) : CharAt(i) \in class
    BY <1>1, <1>5, <2>1 DEF GoesOn
  <2> QED BY <1>2, <1>3, <2>2 DEF RestIn
<1> QED BY <1>2, <1>3, <1>4, <1>5 DEF InSource

LEMMA LexemesStep == ScanInv /\ LexemesRight /\ [Next]_vars => LexemesRight'
<1> SUFFICES ASSUME ScanInv, LexemesRight, [Next]_vars PROVE LexemesRight'
  OBVIOUS
<1> DEFINE p == advance(lx)
<1>p. p \in Position /\ p.index = lx.index + 1 /\ p.index \in Nat
  BY AdvanceOne DEF ScanInv, TypeOK, Position
<1>t. TypeOK /\ lx.index \in Nat /\ result.start \in Nat /\ source \in Seq(Characters)
      /\ result.start <= lx.index /\ Len(source) \in Nat
  BY DEF ScanInv, TypeOK, Position, Token
<1>0. CASE UNCHANGED <<source, tokens>>
  BY <1>0, LexemesKept
<1>1. CASE lx_nextTok \/ skipBlank \/ begin \/ comment \/ UNCHANGED vars
  BY <1>0, <1>1 DEF lx_nextTok, skipBlank, begin, comment, CommentTo, GoTo, vars
<1>2. CASE endOfFile
  <2>1. result' \in Token /\ result'.start = lx.index /\ result'.length = 0
        /\ result'.type = "TOK_EOF"
    BY <1>2, <1>t DEF endOfFile, At, TypeOK, Token, Position, TokenTypes
  <2>2. lx.index = Len(source)
    BY <1>2, <1>t, Character, Alphabet DEF endOfFile, Char, ScanInv, Scanning
  <2>3. RightToken(result')
    BY <2>1, <2>2, SingleTypes, Zenon DEF RightToken, OfItsKind, Longest
  <2>4. source' = source /\ tokens \in Seq(Token) /\ tokens' = Append(tokens, result')
    BY <1>2, <1>t DEF endOfFile, TypeOK
  <2> QED BY <2>1, <2>3, <2>4, LexemeAdded
<1>3. CASE singleCharacter
  <2>1. /\ lx.index < Len(source) /\ Char \in DOMAIN Single
        /\ Single[Char] \in TokenTypes /\ Finish(p, Single[Char])
    BY <1>3, <1>t, Character, Alphabet, SingleToken DEF singleCharacter, Char
  <2>2. result.start = lx.index
    BY <1>3, Alphabet DEF singleCharacter, ScanInv, Scanning, Single
  <2> HIDE DEF p
  <2>3. /\ InSource(result') /\ result'.type = Single[Char] /\ result'.start = result.start
        /\ result'.length = p.index - result.start
        /\ RightToken(result') => LexemesRight'
    BY <1>p, <1>t, <2>1, FinishLexeme
  <2>4. CharAt(result'.start) = Char /\ result'.length = 1
    BY <1>p, <1>t, <2>2, <2>3 DEF Char
  <2> QED BY <1>t, <2>1, <2>3, <2>4, SingleRight
<1>4. CASE invalid
  <2>1. lx.index < Len(source)
    BY <1>4, InsideSource DEF invalid
  <2>2. CASE CharAt(p.index) \in {"NUL", "newline"} /\ Finish(p, "TOK_UNKNOWN")
    <3> HIDE DEF p
    <3>1. /\ InSource(result') /\ TokenEnd(result') = p.index
          /\ result'.type = "TOK_UNKNOWN" /\ result'.start = result.start
          /\ RightToken(result') => LexemesRight'
      BY <1>p, <1>t, <2>1, <2>2, FinishLexeme DEF TokenTypes
    <3>2. CharAt(result.start) \in Others /\ GoesOn(Characters \ {"newline"})
      BY <1>4 DEF invalid, ScanInv, Scanning
    <3>3. RestIn(result', Characters \ {"newline"})
      BY <1>p, <1>t, <3>1, <3>2 DEF RestIn, GoesOn
    <3> QED BY <1>t, <2>2, <3>1, <3>2, <3>3, UnknownRight
  <2> QED BY <1>0, <1>4, <2>2 DEF invalid, GoTo
<1>5. CASE identifier
  <2> DEFINE type == IF Lexeme(p) \in Keywords THEN "TOK_KEYWORD" ELSE "TOK_IDENT"
  <2>1. lx.index < Len(source)
    BY <1>5, InsideSource DEF identifier
  <2>2. CASE CharAt(p.index) \notin InIdentifier /\ Finish(p, type)
    <3>1. type \in TokenTypes
      BY DEF TokenTypes
    <3>2. Lexeme(p) = SubSeq(source, result.start + 1, p.index)
      BY DEF Lexeme
    <3>3. type = IF Lexeme(p) \in Keywords THEN "TOK_KEYWORD" ELSE "TOK_IDENT"
      OBVIOUS
    <3> HIDE DEF p, type
    <3>4. /\ InSource(result') /\ TokenEnd(result') = p.index
          /\ result'.type = type /\ result'.start = result.start
          /\ RightToken(result') => LexemesRight'
      BY <1>p, <1>t, <2>1, <2>2, <3>1, FinishLexeme
    <3>5. CharAt(result.start) \in Letters /\ GoesOn(InIdentifier)
      BY <1>5 DEF identifier, ScanInv, Scanning
    <3>6. RestIn(result', InIdentifier)
      BY <1>p, <1>t, <3>4, <3>5 DEF RestIn, GoesOn
    <3>7. Text(result') = Lexeme(p)
      BY <3>2, <3>4 DEF Text
    <3> QED BY <1>t, <2>2, <3>3, <3>4, <3>5, <3>6, <3>7, WordRight
  <2> QED BY <1>0, <1>5, <2>2 DEF identifier, GoTo
<1>6. CASE integer
  <2>1. lx.index < Len(source)
    BY <1>6, InsideSource DEF integer
  <2>2. CharAt(result.start) \in Digits /\ GoesOn(Digits \cup {"_"})
    BY <1>6 DEF integer, ScanInv, Scanning
  <2>3. CASE CharAt(p.index) \notin Digits \cup {"_", "."} /\ Finish(p, "TOK_INT")
    <3>0. Finish(p, "TOK_INT") /\ "TOK_INT" \in TokenTypes /\ lx' = advance(lx)
      BY <2>3 DEF Finish, TokenTypes
    <3> HIDE DEF p
    <3>1. /\ InSource(result') /\ TokenEnd(result') = p.index
          /\ result'.type = "TOK_INT" /\ result'.start = result.start
          /\ \A class : GoesOn(class) => RestIn(result', class)
          /\ RightToken(result') => LexemesRight'
      BY <1>p, <1>t, <2>1, <3>0, FinishLexeme
    <3>2. RestIn(result', Digits \cup {"_"})
      BY <2>2, <3>1, Zenon
    <3> QED BY <1>t, <2>2, <2>3, <3>1, <3>2, IntRight
  <2>4. CASE CharAt(p.index) = "." /\ Finish(advance(p), "TOK_FLOAT")
    <3> HIDE DEF p
    <3>1. advance(p) \in Position /\ advance(p).index = p.index + 1
          /\ advance(p).index \in Nat /\ p.index < Len(source)
      BY <1>t, <1>p, <2>4, AdvanceOne, Character DEF Position
    <3>2. lx.index < advance(p).index /\ advance(p).index <= Len(source)
          /\ "TOK_FLOAT" \in TokenTypes
      BY <1>t, <1>p, <3>1 DEF TokenTypes
    <3>3. /\ InSource(result') /\ TokenEnd(result') = advance(p).index
          /\ result'.type = "TOK_FLOAT" /\ result'.start = result.start
          /\ RightToken(result') => LexemesRight'
      BY <2>4, <3>1, <3>2, FinishLexeme
    <3>4. TokenEnd(result') - 1 = p.index
      BY <1>p, <3>1, <3>3
    <3>5. CharAt(TokenEnd(result') - 1) = "."
      BY <2>4, <3>4
    <3>6. ASSUME NEW class, GoesOn(class), CharAt(result.start) \in class
          PROVE  FrontIn(result', class)
      <4>1. result'.start = result.start /\ TokenEnd(result') - 2 = lx.index
        BY <1>p, <1>t, <3>1, <3>3
      <4> SUFFICES ASSUME NEW i \in result.start..lx.index PROVE CharAt(i) \in class
        BY <4>1 DEF FrontIn
      <4>2. i = result.start \/ i \in (result.start + 1)..lx.index
        BY <1>t
      <4> QED BY <3>6, <4>2 DEF GoesOn
    <3>7. FrontIn(result', Digits \cup {"_"})
      BY <2>2, <3>6, Zenon
    <3> QED BY <1>t, <2>2, <3>3, <3>5, <3>7, FloatRight
  <2> QED BY <1>0, <1>6, <2>3, <2>4 DEF integer, GoTo
<1>7. CASE operator
  <2>1. lx.index < Len(source)
    BY <1>7, InsideSource DEF operator
  <2>2. result.start = lx.index /\ Char \in Operators /\ CharAt(result.start) = Char
    BY <1>7 DEF operator, ScanInv, Scanning, Char
  <2>3. CASE /\ CharAt(p.index) # "=" /\ (Char = "/" => CharAt(p.index) # "/")
             /\ Finish(p, "TOK_OPERATOR")
    <3> HIDE DEF p
    <3>1. /\ InSource(result') /\ TokenEnd(result') = p.index
          /\ result'.type = "TOK_OPERATOR" /\ result'.start = result.start
          /\ result'.length = p.index - result.start
          /\ RightToken(result') => LexemesRight'
      BY <1>p, <1>t, <2>1, <2>3, FinishLexeme DEF TokenTypes
    <3>2. result'.length = 1
      BY <1>p, <1>t, <2>2, <3>1
    <3> QED BY <1>t, <2>2, <2>3, <3>1, <3>2, OperatorRight
  <2>4. CASE CharAt(p.index) = "=" /\ Finish(advance(p), "TOK_OPERATOR_EQ")
    <3> HIDE DEF p
    <3>1. advance(p) \in Position /\ advance(p).index = p.index + 1
          /\ advance(p).index \in Nat /\ p.index < Len(source)
      BY <1>t, <1>p, <2>4, AdvanceOne, Character DEF Position
    <3>2. lx.index < advance(p).index /\ advance(p).index <= Len(source)
          /\ "TOK_OPERATOR_EQ" \in TokenTypes
      BY <1>t, <1>p, <3>1 DEF TokenTypes
    <3>3. /\ InSource(result')
          /\ result'.type = "TOK_OPERATOR_EQ" /\ result'.start = result.start
          /\ result'.length = advance(p).index - result.start
          /\ RightToken(result') => LexemesRight'
      BY <2>4, <3>1, <3>2, FinishLexeme
    <3>4. result'.length = 2 /\ result'.start + 1 = p.index
      BY <1>p, <1>t, <2>2, <3>1, <3>3
    <3>5. CharAt(result'.start + 1) = "="
      BY <2>4, <3>4
    <3> QED BY <1>t, <2>2, <3>3, <3>4, <3>5, OperatorEqRight
  <2> QED BY <1>0, <1>7, <2>3, <2>4 DEF operator, GoTo
<1> QED
  BY <1>1, <1>2, <1>3, <1>4, <1>5, <1>6, <1>7 DEF Next, step, Finished

(* Every token is of the kind its text is, and as long as it can be except *)
(* for a float, which state .integer ends right behind its '.'.            *)
THEOREM LexemesCorrect == Spec => []LexemesRight
<1>1. Init => LexemesRight
  BY DEF Init, LexemesRight
<1> QED BY ScanCorrect, <1>1, LexemesStep, PTL DEF Spec

-----------------------------------------------------------------------------
(* Lines and columns.                                                      *)

LEMMA NewlinesBefore ==
  ASSUME NEW i \in Nat
  PROVE  /\ IsFiniteSet(Newlines(i)) /\ Cardinality(Newlines(i)) \in Nat
         /\ Newlines(i) \subseteq 0..(i - 1)
         /\ Newlines(i + 1) = IF CharAt(i) = "newline" THEN Newlines(i) \cup {i}
                              ELSE Newlines(i)
<1>1. Newlines(i) \subseteq 0..(i - 1)
  BY DEF Newlines
<1>2. IsFiniteSet(Newlines(i)) /\ Cardinality(Newlines(i)) \in Nat
  <2>1. IsFiniteSet(0..(i - 1))
    BY FS_Interval
  <2>2. IsFiniteSet(Newlines(i))
    BY <1>1, <2>1, FS_Subset, Zenon
  <2> QED BY <2>2, FS_CardinalityType, Zenon
<1>3. 0..((i + 1) - 1) = (0..(i - 1)) \cup {i}
  OBVIOUS
<1>4. Newlines(i + 1) = IF CharAt(i) = "newline" THEN Newlines(i) \cup {i} ELSE Newlines(i)
  BY <1>3 DEF Newlines
<1> QED BY <1>1, <1>2, <1>4

(* The greatest element of a set that is extended by a greater one.        *)
LEMMA MaxAdded ==
  ASSUME NEW i \in Nat, NEW S \in SUBSET (0..(i - 1))
  PROVE  Max(S \cup {i}) = i
<1>1. \A y \in S \cup {i} : i >= y
  OBVIOUS
<1>2. \A x \in S \cup {i} : (\A y \in S \cup {i} : x >= y) => x = i
  OBVIOUS
<1> QED BY <1>1, <1>2 DEF Max

(* advance keeps line and column those of the index.                       *)
LEMMA PositionAdvanced ==
  ASSUME NEW p \in Position, PositionOf(p.index, p.line, p.col),
         NEW q, q = advance(p)
  PROVE  PositionOf(q.index, q.line, q.col)
<1> DEFINE i == p.index
           before == Newlines(i)
<1>1. /\ i \in Nat /\ p.line = Cardinality(before) /\ p.col \in Nat
      /\ p.col = IF before = {} THEN i ELSE i - Max(before) - 1
      /\ before # {} => Max(before) \in before /\ \A k \in before : k <= Max(before)
  BY DEF Position, PositionOf
<1>2. q.index = i + 1 /\ q.index \in Nat
  BY AdvanceOne DEF Position
<1>3. /\ IsFiniteSet(before) /\ before \subseteq 0..(i - 1)
      /\ Newlines(q.index) = IF CharAt(i) = "newline" THEN before \cup {i} ELSE before
  BY <1>1, <1>2, NewlinesBefore
<1>4. CASE CharAt(i) = "newline"
  <2>1. q.line = p.line + 1 /\ q.col = 0
    BY <1>4 DEF advance
  <2> HIDE DEF i, before
  <2>2. Max(before \cup {i}) = i
    BY <1>1, <1>3, MaxAdded
  <2>3. Cardinality(before \cup {i}) = Cardinality(before) + 1
    <3>1. i \notin before
      BY <1>1, <1>3
    <3> QED BY <1>3, <3>1, FS_AddElement, Zenon
  <2>4. Newlines(q.index) = before \cup {i} /\ Newlines(q.index) # {}
    BY <1>3, <1>4
  <2>5. /\ q.line = Cardinality(Newlines(q.index))
        /\ q.col = q.index - Max(Newlines(q.index)) - 1
        /\ Max(Newlines(q.index)) \in Newlines(q.index)
        /\ \A k \in Newlines(q.index) : k <= Max(Newlines(q.index))
    <3>1. Max(Newlines(q.index)) = i
      BY <2>2, <2>4, Zenon
    <3>2. q.line = Cardinality(Newlines(q.index))
      BY <1>1, <2>1, <2>3, <2>4, Zenon
    <3>3. i \in Newlines(q.index)
      BY <2>4, Zenon
    <3>4. \A k \in Newlines(q.index) : k <= i
      <4>1. \A k \in before \cup {i} : k <= i
        BY <1>1, <1>3
      <4> QED BY <2>4, <4>1, Zenon
    <3> QED BY <1>1, <1>2, <2>1, <3>1, <3>2, <3>3, <3>4
  <2> QED BY <2>4, <2>5, Zenon DEF PositionOf
<1>5. CASE CharAt(i) # "newline"
  <2>1. q.line = p.line /\ q.col = p.col + 1
    BY <1>5 DEF advance
  <2>2. Newlines(q.index) = before
    BY <1>3, <1>5
  <2> HIDE DEF i, before
  <2>3. before # {} => Max(before) \in 0..(i - 1)
    BY <1>1, <1>3, Zenon
  <2> QED BY <1>1, <1>2, <2>1, <2>2, <2>3 DEF PositionOf
<1> QED BY <1>4, <1>5

(* What every step does: it moves on by at most two characters, keeps the  *)
(* token's position or sets it to the lexer's, and returns at most that    *)
(* token.                                                                  *)
SameOrigin == /\ result'.start = result.start
              /\ result'.line = result.line /\ result'.col = result.col
NewOrigin == /\ result'.start = lx'.index
             /\ result'.line = lx'.line /\ result'.col = lx'.col
LEMMA StepShape ==
  ASSUME TypeOK, [Next]_vars
  PROVE  /\ source' = source
         /\ \/ lx' = lx \/ lx' = advance(lx)
            \/ \E p \in Position : p = advance(lx) /\ lx' = advance(p)
         /\ SameOrigin \/ NewOrigin
         /\ tokens' = tokens \/ tokens' = Append(tokens, result')
<1> DEFINE p == advance(lx)
<1>p. p \in Position /\ lx \in Position
  BY AdvanceOne DEF TypeOK
<1>f. ASSUME NEW q \in Position, NEW type, Finish(q, type)
      PROVE  /\ source' = source /\ lx' = q /\ SameOrigin
             /\ tokens' = Append(tokens, result')
  <2>1. result' = [result EXCEPT !.type = type, !.length = q.index - result.start]
    BY <1>f DEF Finish
  <2>2. SameOrigin
    BY <2>1, Zenon DEF SameOrigin, TypeOK, Token
  <2> QED BY <1>f, <2>2, Zenon DEF Finish
<1>1. CASE lx_nextTok
  BY <1>1 DEF lx_nextTok, At, GoTo, NewOrigin
<1>2. CASE endOfFile
  BY <1>2 DEF endOfFile, At, NewOrigin
<1>3. CASE skipBlank
  <2>1. lx' = advance(lx) /\ result' = At(lx', result.type)
    BY <1>3 DEF skipBlank
  <2>2. NewOrigin
    BY <2>1 DEF At, NewOrigin
  <2> QED BY <1>3, <2>1, <2>2 DEF skipBlank, GoTo
<1>4. CASE begin \/ comment
  BY <1>4 DEF begin, comment, CommentTo, GoTo, SameOrigin
<1>5. CASE singleCharacter
  <2>1. Finish(p, Single[Char])
    BY <1>5 DEF singleCharacter
  <2> QED BY <1>p, <1>f, <2>1, Zenon
<1>6. CASE invalid \/ identifier
  <2>1. CASE \E type : Finish(p, type)
    BY <1>p, <1>f, <2>1, Zenon
  <2>2. CASE lx' = p /\ UNCHANGED <<source, result, tokens>>
    BY <2>2 DEF SameOrigin
  <2> QED BY <1>6, <2>1, <2>2 DEF invalid, identifier, GoTo
<1>7. CASE integer
  <2>1. CASE \E type : Finish(p, type) \/ Finish(advance(p), type)
    <3>1. advance(p) \in Position
      BY <1>p, AdvanceOne
    <3> QED BY <1>p, <1>f, <2>1, <3>1, Zenon
  <2>2. CASE lx' = p /\ UNCHANGED <<source, result, tokens>>
    BY <2>2 DEF SameOrigin
  <2> QED BY <1>7, <2>1, <2>2 DEF integer, GoTo
<1>8. CASE operator
  <2>1. CASE \E type : Finish(p, type) \/ Finish(advance(p), type)
    <3>1. advance(p) \in Position
      BY <1>p, AdvanceOne
    <3> QED BY <1>p, <1>f, <2>1, <3>1, Zenon
  <2>2. CASE lx' = advance(p) /\ UNCHANGED <<source, result, tokens>>
    BY <1>p, <2>2 DEF SameOrigin
  <2> QED BY <1>8, <2>1, <2>2 DEF operator, GoTo
<1>9. CASE UNCHANGED vars
  BY <1>9 DEF vars, SameOrigin
<1> QED
  BY <1>1, <1>2, <1>3, <1>4, <1>5, <1>6, <1>7, <1>8, <1>9 DEF Next, step, Finished

LEMMA PositionsStep == ScanInv /\ ScanInv' /\ PositionInv /\ [Next]_vars => PositionInv'
<1> SUFFICES ASSUME ScanInv, ScanInv', PositionInv, [Next]_vars PROVE PositionInv'
  OBVIOUS
<1>1. /\ source' = source
      /\ \/ lx' = lx \/ lx' = advance(lx)
         \/ \E p \in Position : p = advance(lx) /\ lx' = advance(p)
      /\ SameOrigin \/ NewOrigin
      /\ tokens' = tokens \/ tokens' = Append(tokens, result')
  BY StepShape DEF ScanInv
<1>2. TypeOK /\ TypeOK' /\ lx \in Position
  BY DEF ScanInv, TypeOK
<1>3. PositionOf(lx'.index, lx'.line, lx'.col)
  <2>1. PositionOf(lx.index, lx.line, lx.col)
    BY DEF PositionInv
  <2>2. ASSUME NEW p \in Position, p = advance(lx)
        PROVE  PositionOf(p.index, p.line, p.col)
    BY <1>2, <2>1, <2>2, PositionAdvanced
  <2>3. CASE lx' = lx
    BY <2>1, <2>3
  <2>4. CASE lx' = advance(lx)
    BY <1>2, <2>2, <2>4, AdvanceOne
  <2>5. CASE \E p \in Position : p = advance(lx) /\ lx' = advance(p)
    <3>1. PICK p \in Position : p = advance(lx) /\ lx' = advance(p)
      BY <2>5
    <3> QED BY <2>2, <3>1, PositionAdvanced
  <2> QED BY <1>1, <2>3, <2>4, <2>5
<1>4. PositionOf(result'.start, result'.line, result'.col)
  BY <1>1, <1>3 DEF PositionInv, SameOrigin, NewOrigin
<1>5. \A i, line, col : PositionOf(i, line, col)' <=> PositionOf(i, line, col)
  BY <1>1 DEF PositionOf, Newlines, CharAt
<1>6. \A k \in DOMAIN tokens' :
        PositionOf(tokens'[k].start, tokens'[k].line, tokens'[k].col)
  <2> DEFINE Placed(token) == PositionOf(token.start, token.line, token.col)
  <2>1. Placed(result')
    BY <1>4
  <2>2. \A k \in DOMAIN tokens : Placed(tokens[k])
    BY DEF PositionInv
  <2>3. ASSUME NEW k \in DOMAIN tokens' PROVE Placed(tokens'[k])
    <3>1. tokens'[k] = result' \/ (k \in DOMAIN tokens /\ tokens'[k] = tokens[k])
      BY <1>1, <1>2 DEF TypeOK
    <3> HIDE DEF Placed
    <3> QED BY <2>1, <2>2, <3>1
  <2> QED BY <2>3
<1> QED BY <1>3, <1>4, <1>5, <1>6 DEF PositionInv

LEMMA PositionsInit == Init => PositionInv
<1> SUFFICES ASSUME Init PROVE PositionInv
  OBVIOUS
<1>1. Newlines(0) = {}
  BY DEF Newlines
<1>2. PositionOf(0, 0, 0)
  BY <1>1, FS_EmptySet DEF PositionOf
<1> QED BY <1>2 DEF Init, PositionInv

(* A token's line and column are those of its first character.             *)
THEOREM PositionsCorrect == Spec => []PositionsRight
<1>1. PositionInv => PositionsRight
  BY Zenon DEF PositionInv, PositionsRight, PositionOf
<1> QED BY ScanCorrect, PositionsInit, PositionsStep, <1>1, PTL DEF Spec

-----------------------------------------------------------------------------
(* Nothing of the source is lost.                                          *)

LEMMA FrontierType == ASSUME TypeOK PROVE Frontier \in Nat /\ Frontier <= lx.index
BY DEF TypeOK, Position, Token, Frontier

LEMMA TokenEndType ==
  /\ \A token \in Token : token.start \in Nat /\ token.length \in Nat
                         /\ TokenEnd(token) \in Nat /\ token.start <= TokenEnd(token)
  /\ TypeOK => \A k \in DOMAIN tokens : tokens[k] \in Token
<1>1. ASSUME NEW token \in Token
      PROVE  /\ token.start \in Nat /\ token.length \in Nat
             /\ TokenEnd(token) \in Nat /\ token.start <= TokenEnd(token)
  BY DEF Token, TokenEnd
<1>2. TypeOK => \A k \in DOMAIN tokens : tokens[k] \in Token
  BY DEF TypeOK
<1> QED BY <1>1, <1>2

(* A step without a token passes only what is blank or comment.            *)
LEMMA FrontierPassed ==
  ASSUME TypeOK, FrontierInv, UNCHANGED <<source, tokens>>,
         Frontier' \in Nat, Frontier <= Frontier',
         \A i \in Frontier..(Frontier' - 1) : Accounted(i)
  PROVE  FrontierInv'
<1>1. Frontier \in Nat
  BY FrontierType
<1>2. \A k \in DOMAIN tokens : TokenEnd(tokens[k]) \in Nat
  BY TokenEndType
<1>3. \A k \in DOMAIN tokens' : TokenEnd(tokens[k])' <= Frontier'
  BY <1>1, <1>2 DEF FrontierInv, TokenEnd
<1>4. \A k \in 1..(Len(tokens') - 1) : TokenEnd(tokens[k])' <= tokens'[k + 1].start
  BY DEF FrontierInv, TokenEnd
<1>5. \A i \in 0..(Frontier' - 1) : Accounted(i)
  BY <1>1 DEF FrontierInv
<1>6. \A i : Accounted(i)' <=> Accounted(i)
  BY DEF Accounted, Covered, InComment, CharAt, TokenEnd
<1> QED BY <1>3, <1>4, <1>5, <1>6 DEF FrontierInv

(* A token begins at the frontier, and the next one at its end.            *)
LEMMA FrontierToken ==
  ASSUME TypeOK, FrontierInv, source' = source,
         NEW token \in Token, tokens' = Append(tokens, token),
         token.start = Frontier, TokenEnd(token) = Frontier'
  PROVE  FrontierInv'
<1>1. /\ Frontier \in Nat /\ tokens \in Seq(Token) /\ source \in Seq(Characters)
      /\ Frontier' \in Nat /\ Frontier <= Frontier'
      /\ \A k \in DOMAIN tokens : TokenEnd(tokens[k]) \in Nat
  <2>1. TokenEnd(token) \in Nat /\ token.start <= TokenEnd(token)
    BY TokenEndType
  <2>2. \A k \in DOMAIN tokens : TokenEnd(tokens[k]) \in Nat
    BY TokenEndType
  <2> QED BY <2>1, <2>2, FrontierType DEF TypeOK
<1>2. /\ Len(tokens') = Len(tokens) + 1 /\ tokens'[Len(tokens) + 1] = token
      /\ DOMAIN tokens' = 1..(Len(tokens) + 1)
      /\ \A k \in DOMAIN tokens : tokens'[k] = tokens[k]
      /\ DOMAIN tokens = 1..Len(tokens) /\ Len(tokens) \in Nat
  BY <1>1
<1>3. \A k \in DOMAIN tokens : TokenEnd(tokens[k]) <= Frontier
  BY DEF FrontierInv
<1>4. ASSUME NEW k \in DOMAIN tokens' PROVE TokenEnd(tokens'[k]) <= Frontier'
  BY <1>1, <1>2, <1>3
<1>5. ASSUME NEW k \in 1..(Len(tokens') - 1)
      PROVE  TokenEnd(tokens'[k]) <= tokens'[k + 1].start
  <2>1. CASE k = Len(tokens)
    BY <1>1, <1>2, <1>3, <2>1
  <2>2. CASE k # Len(tokens)
    <3>1. /\ k \in 1..(Len(tokens) - 1) /\ tokens'[k] = tokens[k]
          /\ tokens'[k + 1] = tokens[k + 1]
      <4>1. k \in 1..(Len(tokens) - 1)
        <5>1. Len(tokens) \in Nat /\ Len(tokens') - 1 = Len(tokens)
          BY <1>2
        <5> QED BY ONLY <2>2, <5>1, k \in 1..(Len(tokens') - 1)
      <4>2. k \in DOMAIN tokens /\ k + 1 \in DOMAIN tokens
        BY <1>2, <4>1
      <4> QED BY <1>2, <4>1, <4>2
    <3> QED BY <3>1 DEF FrontierInv
  <2> QED BY <2>1, <2>2
<1>6. \A i : CharAt(i)' = CharAt(i)
  BY DEF CharAt
<1>7. \A i : Covered(i)' <=> \E k \in DOMAIN tokens' :
                                tokens'[k].start <= i /\ i < TokenEnd(tokens'[k])
  BY DEF Covered, TokenEnd
<1>8. ASSUME NEW i \in 0..(Frontier' - 1) PROVE Accounted(i)'
  <2>1. CASE i < Frontier
    <3>1. Covered(i) \/ CharAt(i) \in Blanks \/ InComment(i)
      BY <1>1, <2>1 DEF FrontierInv, Accounted
    <3>2. ASSUME Covered(i) PROVE Covered(i)'
      BY <1>2, <1>7, <3>2 DEF Covered
    <3>3. ASSUME InComment(i) PROVE InComment(i)'
      <4>1. PICK q \in 0..i : /\ CharAt(q) = "/" /\ CharAt(q + 1) = "/"
                              /\ ~ Covered(q)
                              /\ \A k \in (q + 3)..i : CharAt(k) # "newline"
        BY <3>3 DEF InComment
      <4>2. ~ Covered(q)'
        <5> SUFFICES ASSUME NEW k \in DOMAIN tokens',
                            tokens'[k].start <= q, q < TokenEnd(tokens'[k])
                     PROVE  FALSE
          BY <1>7
        <5>1. CASE k \in DOMAIN tokens
          BY <1>2, <4>1, <5>1 DEF Covered
        <5>2. CASE k = Len(tokens) + 1
          BY <1>1, <1>2, <2>1, <5>2
        <5> QED BY <1>2, <5>1, <5>2
      <4> QED BY <1>6, <4>1, <4>2 DEF InComment
    <3> QED BY <1>6, <3>1, <3>2, <3>3 DEF Accounted
  <2>2. CASE Frontier <= i
    <3>1. Covered(i)'
      <4>1. tokens'[Len(tokens) + 1].start <= i /\ i < TokenEnd(tokens'[Len(tokens) + 1])
        <5>1. token.start <= i
          BY ONLY <2>2, token.start = Frontier
        <5>2. i < TokenEnd(token)
          <6>1. Frontier' \in Nat
            BY <1>1
          <6>2. \A n \in Nat : i \in 0..(n - 1) => i < n
            OBVIOUS
          <6> QED BY ONLY <6>1, <6>2, i \in 0..(Frontier' - 1), TokenEnd(token) = Frontier',
                     Zenon
        <5> QED BY <1>2, <5>1, <5>2, Zenon
      <4> QED BY <1>2, <1>7, <4>1
    <3> QED BY <3>1 DEF Accounted
  <2> QED BY <1>1, <2>1, <2>2
<1> QED BY <1>4, <1>5, <1>8 DEF FrontierInv, TokenEnd

LEMMA FrontierFinish ==
  ASSUME ScanInv, FrontierInv, NEW p \in Position, NEW type \in TokenTypes,
         Finish(p, type), lx.index <= p.index, p.index <= Len(source),
         result.start = Frontier
  PROVE  FrontierInv'
<1>1. TypeOK /\ p.index >= lx.index /\ p.index <= Len(source) + 1
      /\ p.index \in Nat /\ result.start \in Nat
  BY DEF ScanInv, TypeOK, Position, Token
<1>2. /\ result' \in Token /\ result'.start = result.start
      /\ result'.length = p.index - result.start
      /\ tokens' = Append(tokens, result')
      /\ lx' = p /\ state' = "idle" /\ source' = source
  BY <1>1, FinishToken
<1>3. TokenEnd(result') = p.index /\ Frontier' = p.index
  BY <1>1, <1>2 DEF TokenEnd, Frontier
<1> QED BY <1>1, <1>2, <1>3, FrontierToken

(* While the frontier stands still and no token is returned.               *)
LEMMA FrontierKept ==
  ASSUME TypeOK, FrontierInv, UNCHANGED <<source, tokens>>, Frontier' = Frontier
  PROVE  FrontierInv'
<1>1. Frontier \in Nat
  BY FrontierType
<1> QED BY <1>1, FrontierPassed

LEMMA FrontierStep == ScanInv /\ FrontierInv /\ [Next]_vars => FrontierInv'
<1> SUFFICES ASSUME ScanInv, FrontierInv, [Next]_vars PROVE FrontierInv'
  OBVIOUS
<1> DEFINE p == advance(lx)
<1>p. p \in Position /\ p.index = lx.index + 1 /\ p.index \in Nat
  BY AdvanceOne DEF ScanInv, TypeOK, Position
<1>t. TypeOK /\ lx.index \in Nat /\ result.start \in Nat /\ source \in Seq(Characters)
      /\ result.start <= lx.index /\ Len(source) \in Nat
  BY DEF ScanInv, TypeOK, Position, Token
<1>1. CASE lx_nextTok
  <2>1. Frontier' = Frontier /\ UNCHANGED <<source, tokens>>
    BY <1>1 DEF lx_nextTok, GoTo, Frontier
  <2> QED BY <1>t, <2>1, FrontierKept
<1>2. CASE endOfFile
  <2>1. result' \in Token /\ result'.start = lx.index /\ result'.length = 0
    BY <1>2, <1>t DEF endOfFile, At, TypeOK, Token, Position, TokenTypes
  <2>2. Frontier = lx.index /\ Frontier' = lx.index /\ source' = source
        /\ tokens' = Append(tokens, result')
    BY <1>2 DEF endOfFile, Frontier
  <2>3. TokenEnd(result') = lx.index
    BY <1>t, <2>1 DEF TokenEnd
  <2> QED BY <1>t, <2>1, <2>2, <2>3, FrontierToken
<1>3. CASE skipBlank
  <2>1. Frontier = lx.index /\ Frontier' = lx.index + 1 /\ UNCHANGED <<source, tokens>>
    BY <1>3, <1>p DEF skipBlank, GoTo, Frontier
  <2>2. CharAt(lx.index) \in Blanks
    BY <1>3 DEF skipBlank, Char
  <2>3. \A i \in Frontier..(Frontier' - 1) : Accounted(i)
    BY <1>t, <2>1, <2>2 DEF Accounted
  <2> QED BY <1>t, <2>1, <2>3, FrontierPassed
<1>4. CASE singleCharacter
  <2>1. lx.index < Len(source) /\ result.start = Frontier
    BY <1>4, <1>t, Character, Alphabet
    DEF singleCharacter, Char, ScanInv, Scanning, Single, Frontier
  <2>2. Finish(p, Single[Char]) /\ Single[Char] \in TokenTypes
    BY <1>4, SingleToken DEF singleCharacter
  <2> HIDE DEF p
  <2> QED BY <1>p, <1>t, <2>1, <2>2, FrontierFinish
<1>5. CASE begin
  <2>1. result.start = lx.index
    BY <1>5, Alphabet DEF begin, ScanInv, Scanning, Letters, Digits, Operators, Others
  <2>2. Frontier' = Frontier /\ UNCHANGED <<source, tokens>>
    BY <1>5, <2>1 DEF begin, GoTo, Frontier
  <2> QED BY <1>t, <2>2, FrontierKept
<1>6. ASSUME state \in {"invalid", "identifier", "integer", "operator"},
             NEW type \in TokenTypes,
             \/ Finish(p, type)
             \/ CharAt(p.index) \in {".", "="} /\ Finish(advance(p), type)
      PROVE  FrontierInv'
  <2> HIDE DEF p
  <2>1. lx.index < Len(source) /\ result.start = Frontier
    BY <1>6, InsideSource DEF Frontier
  <2>2. CASE Finish(p, type)
    BY <1>p, <1>t, <2>1, <2>2, FrontierFinish
  <2>3. CASE CharAt(p.index) \in {".", "="} /\ Finish(advance(p), type)
    <3>1. p.index < Len(source)
      BY <1>p, <1>t, <2>3, Character
    <3>2. advance(p) \in Position /\ advance(p).index = p.index + 1
      BY <1>p, AdvanceOne
    <3>3. lx.index <= advance(p).index /\ advance(p).index <= Len(source)
      BY <1>p, <1>t, <3>1, <3>2
    <3> QED BY <2>1, <2>3, <3>2, <3>3, FrontierFinish
  <2> QED BY <1>6, <2>2, <2>3
<1>7. ASSUME state # "idle", state # "start", state' \notin {"idle", "start"},
             UNCHANGED <<source, tokens, result>>
      PROVE  FrontierInv'
  <2>1. Frontier' = Frontier
    BY <1>7 DEF Frontier
  <2> QED BY <1>7, <1>t, <2>1, FrontierKept
<1>8. CASE comment
  <2>1. lx' = p /\ UNCHANGED <<source, tokens, result>> /\ state = "comment"
        /\ state' \in {"comment", "overrun", "start"}
    BY <1>8 DEF comment, CommentTo, GoTo
  <2>2. CASE state' = "start"
    <3>1. /\ CharAt(result.start) = "/" /\ CharAt(result.start + 1) = "/"
          /\ result.start + 2 <= lx.index
          /\ \A k \in (result.start + 3)..lx.index : CharAt(k) # "newline"
      BY <2>1 DEF ScanInv, Scanning
    <3>2. Frontier = result.start /\ Frontier' = lx.index + 1
      BY <1>p, <2>1, <2>2 DEF Frontier
    <3>3. ~ Covered(result.start)
      <4>1. \A k \in DOMAIN tokens : TokenEnd(tokens[k]) <= result.start
                                     /\ TokenEnd(tokens[k]) \in Nat
        BY <3>2, <1>t, TokenEndType DEF FrontierInv
      <4> QED BY <1>t, <4>1 DEF Covered
    <3>4. ASSUME NEW i \in result.start..lx.index PROVE Accounted(i)
      <4>1. result.start \in 0..i /\ (result.start + 3)..i \subseteq (result.start + 3)..lx.index
        BY <1>t
      <4>2. InComment(i)
        BY <3>1, <3>3, <4>1 DEF InComment
      <4> QED BY <4>2 DEF Accounted
    <3>5. \A i \in Frontier..(Frontier' - 1) : Accounted(i)
      BY <1>t, <3>2, <3>4
    <3> QED BY <1>t, <2>1, <3>2, <3>5, FrontierPassed
  <2> QED BY <1>7, <2>1, <2>2
<1>9. CASE invalid \/ identifier \/ integer \/ operator
  <2>1. {"TOK_UNKNOWN", "TOK_KEYWORD", "TOK_IDENT", "TOK_FLOAT", "TOK_INT", "TOK_OPERATOR",
         "TOK_OPERATOR_EQ"} \subseteq TokenTypes
    BY DEF TokenTypes
  <2>2. CASE invalid
    BY <1>6, <1>7, <2>1, <2>2 DEF invalid, GoTo
  <2>3. CASE identifier
    BY <1>6, <1>7, <2>1, <2>3 DEF identifier, GoTo
  <2>4. CASE integer
    BY <1>6, <1>7, <2>1, <2>4 DEF integer, GoTo
  <2>5. CASE operator
    BY <1>6, <1>7, <2>1, <2>5 DEF operator, GoTo
  <2> QED BY <1>9, <2>2, <2>3, <2>4, <2>5
<1>10. CASE UNCHANGED vars
  <2>1. Frontier' = Frontier
    BY <1>10 DEF vars, Frontier
  <2> QED BY <1>10, <1>t, <2>1, FrontierKept DEF vars
<1> QED
  BY <1>1, <1>2, <1>3, <1>4, <1>5, <1>8, <1>9, <1>10 DEF Next, step, Finished

LEMMA FrontierInit == Init => FrontierInv
BY DEF Init, FrontierInv, Frontier

(* Tokens come in order, and what no token covers is blank or a comment.   *)
THEOREM NothingIsLost == Spec => []NothingLost
<1>1. Init => FrontierInv
  BY FrontierInit
<1>2. FrontierInv => NothingLost
  BY DEF FrontierInv, NothingLost, Frontier, Accounted
<1> QED BY ScanCorrect, FrontierStep, <1>1, <1>2, PTL DEF Spec

-----------------------------------------------------------------------------
(* The display of an error.  A token is of one line, the lexer does not    *)
(* move once it has returned TOK_EOF, and while the line is printed, it is *)
(* the source from the start of the token's line on.                       *)
Plain(from, to) == \A i \in from..(to - 1) : CharAt(i) # "newline"

DisplayInv ==
  /\ \A k \in DOMAIN tokens : Plain(tokens[k].start, TokenEnd(tokens[k]))
  /\ Ended => state = "idle"
  /\ IF display = "none" THEN shown = <<>> ELSE Reported
  /\ display \in {"line", "shown"} =>
       LET start == getLineStart(info.start)
       IN  /\ index \in start..(Len(source) + 1)
           /\ index <= Len(source) => shown = SubSeq(source, start + 1, index)
           /\ Plain(start, index)
  /\ display = "shown" => AtEndOfLine

(* No newline in a token being read.                                       *)
LEMMA OneLine ==
  ASSUME ScanInv, state \in {"identifier", "integer", "operator", "invalid"}
  PROVE  Plain(result.start, lx.index + 1)
<1>1. /\ lx.index \in Nat /\ result.start \in Nat /\ result.start <= lx.index
  BY DEF ScanInv, TypeOK, Position, Token
<1>2. "newline" \notin Letters \cup Digits \cup {"_"} \cup InIdentifier \cup Operators \cup Others
  BY DEF Letters, Digits, InIdentifier, Operators, Others
<1>3. CharAt(result.start) # "newline"
  BY <1>2 DEF ScanInv, Scanning, Char
<1>4. ASSUME NEW i \in (result.start + 1)..lx.index
      PROVE  CharAt(i) # "newline"
  <2>1. CASE state = "operator"
    BY <1>1, <2>1 DEF ScanInv, Scanning
  <2>2. CASE state = "identifier"
    BY <1>2, <2>2 DEF ScanInv, Scanning, GoesOn
  <2>3. CASE state = "integer"
    BY <1>2, <2>3 DEF ScanInv, Scanning, GoesOn
  <2>4. CASE state = "invalid"
    BY <2>4 DEF ScanInv, Scanning, GoesOn
  <2> QED BY <2>1, <2>2, <2>3, <2>4
<1>5. \A i \in result.start..((lx.index + 1) - 1) : i = result.start \/ i \in (result.start + 1)..lx.index
  BY <1>1
<1> QED BY <1>3, <1>4, <1>5 DEF Plain

(* What a step of the lexer returns.                                       *)
LEMMA StepReturns ==
  ASSUME ScanInv, step
  PROVE  /\ state # "idle" \/ ~ Ended
         /\ source' = source
         /\ \/ tokens' = tokens
            \/ /\ tokens' = Append(tokens, result') /\ result' \in Token
               /\ state' = "idle" /\ Plain(result'.start, TokenEnd(result'))
<1> DEFINE p == advance(lx)
<1>t. TypeOK /\ lx.index \in Nat /\ result.start \in Nat /\ result.start <= lx.index
      /\ Len(source) \in Nat /\ source \in Seq(Characters)
  BY DEF ScanInv, TypeOK, Position, Token
<1>p. p \in Position /\ p.index = lx.index + 1 /\ p.index \in Nat
  BY AdvanceOne DEF ScanInv, TypeOK, Position
<1>f. ASSUME NEW q \in Position, NEW type \in TokenTypes, Finish(q, type),
             q.index >= lx.index, q.index <= Len(source) + 1, Plain(result.start, q.index)
      PROVE  /\ source' = source
             /\ tokens' = Append(tokens, result') /\ result' \in Token
             /\ state' = "idle" /\ Plain(result'.start, TokenEnd(result'))
  <2>1. /\ result' \in Token /\ result'.start = result.start
        /\ result'.length = q.index - result.start
        /\ tokens' = Append(tokens, result') /\ state' = "idle" /\ source' = source
    BY <1>t, <1>f, FinishToken
  <2>2. q.index \in Nat
    BY DEF Position
  <2>3. TokenEnd(result') = q.index
    BY <1>t, <2>1, <2>2 DEF TokenEnd
  <2> QED BY <1>f, <2>1, <2>3
<1> HIDE DEF p
<1>1. CASE lx_nextTok
  BY <1>1 DEF lx_nextTok, GoTo
<1>2. CASE endOfFile
  <2>1. result' \in Token /\ result'.start = lx.index /\ result'.length = 0
    BY <1>2, <1>t DEF endOfFile, At, TypeOK, Token, Position, TokenTypes
  <2>2. Plain(result'.start, TokenEnd(result'))
    BY <1>t, <2>1 DEF Plain, TokenEnd
  <2> QED BY <1>2, <2>1, <2>2 DEF endOfFile
<1>3. CASE skipBlank \/ begin \/ comment
  BY <1>3 DEF skipBlank, begin, comment, CommentTo, GoTo
<1>4. CASE singleCharacter
  <2>1. lx.index < Len(source) /\ Char # "newline"
    <3>1. Char \in {"paren", "semicolon", "bang"} /\ Char \in Characters
      BY <1>4, SingleToken, Alphabet DEF singleCharacter
    <3>2. Char # "NUL"
      BY <3>1, Alphabet
    <3> QED BY <1>t, <3>1, <3>2, Character DEF Char
  <2>2. Finish(p, Single[Char]) /\ Single[Char] \in TokenTypes
    BY <1>4, SingleToken DEF singleCharacter, p
  <2>3. result.start = lx.index
    BY <1>4, Alphabet DEF singleCharacter, ScanInv, Scanning, Single
  <2>4. Plain(result.start, p.index)
    BY <1>p, <1>t, <2>1, <2>3 DEF Plain, Char
  <2>5. p.index >= lx.index /\ p.index <= Len(source) + 1
    BY <1>p, <1>t, <2>1
  <2>6. state # "idle"
    BY <1>4 DEF singleCharacter
  <2> QED BY <1>p, <1>f, <2>2, <2>4, <2>5, <2>6
<1>5. ASSUME state \in {"identifier", "integer", "operator", "invalid"},
             NEW type \in TokenTypes,
             \/ Finish(p, type)
             \/ CharAt(p.index) \in {".", "="} /\ Finish(advance(p), type)
      PROVE  /\ source' = source
             /\ tokens' = Append(tokens, result') /\ result' \in Token
             /\ state' = "idle" /\ Plain(result'.start, TokenEnd(result'))
  <2>1. Plain(result.start, lx.index + 1) /\ lx.index < Len(source)
    BY <1>5, OneLine, InsideSource
  <2>2. CASE Finish(p, type)
    <3>1. p.index >= lx.index /\ p.index <= Len(source) + 1
      BY <1>p, <1>t, <2>1
    <3> QED BY <1>p, <1>f, <2>1, <2>2, <3>1
  <2>3. CASE CharAt(p.index) \in {".", "="} /\ Finish(advance(p), type)
    <3>1. advance(p) \in Position /\ advance(p).index = p.index + 1
      BY <1>p, AdvanceOne
    <3>2. advance(p).index >= lx.index /\ advance(p).index <= Len(source) + 1
      BY <1>p, <1>t, <2>1, <3>1
    <3>3. \A i \in result.start..(advance(p).index - 1) :
            i = p.index \/ i \in result.start..((lx.index + 1) - 1)
      BY <1>p, <1>t, <3>1
    <3>4. Plain(result.start, advance(p).index)
      BY <2>1, <2>3, <3>3 DEF Plain
    <3> QED BY <1>f, <2>3, <3>1, <3>2, <3>4
  <2> QED BY <1>5, <2>2, <2>3
<1>6. {"TOK_UNKNOWN", "TOK_KEYWORD", "TOK_IDENT", "TOK_FLOAT", "TOK_INT", "TOK_OPERATOR",
       "TOK_OPERATOR_EQ"} \subseteq TokenTypes
  BY DEF TokenTypes
<1>7. CASE invalid
  BY <1>5, <1>6, <1>7 DEF invalid, GoTo, p
<1>8. CASE identifier
  BY <1>5, <1>6, <1>8 DEF identifier, GoTo, p
<1>9. CASE integer
  BY <1>5, <1>6, <1>9 DEF integer, GoTo, p
<1>10. CASE operator
  BY <1>5, <1>6, <1>10 DEF operator, GoTo, p
<1> QED BY <1>1, <1>2, <1>3, <1>4, <1>7, <1>8, <1>9, <1>10 DEF step

(* The line of a token begins behind a newline, or with the source, and    *)
(* its column counts from there.                                           *)
LEMMA LineStart ==
  ASSUME NEW t \in Nat, NEW line, NEW col, PositionOf(t, line, col)
  PROVE  /\ getLineStart(t) \in 0..t
         /\ Plain(getLineStart(t), t)
         /\ getLineStart(t) # 0 => CharAt(getLineStart(t) - 1) = "newline"
         /\ col = t - getLineStart(t)
<1> DEFINE before == Newlines(t)
           start == getLineStart(t)
<1>1. start = IF before = {} THEN 0 ELSE Max(before) + 1
  BY DEF getLineStart, Newlines
<1>2. \A i \in 0..(t - 1) : CharAt(i) = "newline" <=> i \in before
  BY DEF Newlines
<1>3. \A i \in before : i \in 0..(t - 1) /\ CharAt(i) = "newline"
  BY DEF Newlines
<1> HIDE DEF before, start
<1>4. CASE before = {}
  BY <1>1, <1>2, <1>4 DEF Plain, PositionOf, before, start
<1>5. CASE before # {}
  <2>1. PICK m : m = Max(before)
    OBVIOUS
  <2>2. m \in before /\ m \in 0..(t - 1) /\ CharAt(m) = "newline" /\ start = m + 1
    <3>1. m \in before
      BY <1>5, <2>1 DEF before, PositionOf
    <3>2. start = m + 1
      BY <1>1, <1>5, <2>1
    <3> QED BY <1>3, <3>1, <3>2
  <2>3. \A i \in before : i <= m
    BY <1>5, <2>1 DEF PositionOf, before
  <2>4. Plain(start, t)
    <3> SUFFICES ASSUME NEW i \in start..(t - 1) PROVE CharAt(i) # "newline"
      BY DEF Plain
    <3>1. i \in 0..(t - 1) /\ ~ (i <= m)
      BY <2>2
    <3> QED BY <1>2, <2>3, <3>1
  <2>5. start \in 0..t /\ start - 1 = m /\ t - start = t - m - 1
    BY <2>2
  <2>6. col = t - m - 1
    BY <1>5, <2>1 DEF PositionOf, before
  <2> QED BY <1>5, <2>1, <2>2, <2>4, <2>5, <2>6 DEF before, start
<1> QED BY <1>4, <1>5


(* A newline more makes a set of them larger.                              *)
LEMMA MoreNewlines ==
  ASSUME NEW S, NEW U, IsFiniteSet(U), S \subseteq U, NEW x \in U, x \notin S
  PROVE  Cardinality(S) # Cardinality(U)
<1>1. IsFiniteSet(S) /\ Cardinality(S) \in Nat
  BY FS_Subset, FS_CardinalityType
<1>2. Cardinality(S \cup {x}) = Cardinality(S) + 1
  BY <1>1, FS_AddElement
<1>3. Cardinality(S \cup {x}) <= Cardinality(U) /\ Cardinality(U) \in Nat
  BY FS_Subset, FS_CardinalityType
<1> QED BY <1>1, <1>2, <1>3

(* The line of a token, as printError finds it and as its number says.     *)
LEMMA LineIs ==
  ASSUME source \in Seq(Characters), NEW t \in Nat, NEW line, NEW col, PositionOf(t, line, col),
         NEW to \in Nat, t <= to, to < Len(source), CharAt(to) = "newline",
         Plain(getLineStart(t), to)
  PROVE  Line(line) = SubSeq(source, getLineStart(t) + 1, to)
<1> DEFINE start == getLineStart(t)
           of == {i \in DOMAIN source : source[i] # "newline" /\ Cardinality(Newlines(i - 1)) = line}
<1>1. /\ start \in 0..t /\ line = Cardinality(Newlines(t))
      /\ start # 0 => CharAt(start - 1) = "newline"
  BY LineStart DEF PositionOf
<1>2. \A i \in start..(to - 1) : CharAt(i) # "newline"
  BY DEF Plain
<1>3. Line(line) = IF of = {} THEN <<>> ELSE SubSeq(source, Min(of), Max(of))
  BY DEF Line
<1> HIDE DEF start
<1>4. DOMAIN source = 1..Len(source) /\ Len(source) \in Nat
      /\ \A i \in DOMAIN source : CharAt(i - 1) = source[i]
  <2>1. DOMAIN source = 1..Len(source) /\ Len(source) \in Nat
    OBVIOUS
  <2>2. ASSUME NEW i \in DOMAIN source
        PROVE  CharAt(i - 1) = source[i]
    <3>1. i - 1 < Len(source) /\ (i - 1) + 1 = i
      BY <2>1
    <3> QED BY <3>1 DEF CharAt
  <2> QED BY <2>1, <2>2
<1>5. \A i \in Nat : IsFiniteSet(Newlines(i)) /\ Cardinality(Newlines(i)) \in Nat
  BY NewlinesBefore
<1>6. ASSUME NEW i \in (start + 1)..to
      PROVE  i \in of
  <2>1. i \in DOMAIN source /\ i - 1 \in start..(to - 1)
    BY <1>1, <1>4
  <2>2. source[i] # "newline"
    BY <1>2, <1>4, <2>1
  <2>3. Newlines(i - 1) = Newlines(t)
    <3>1. \A k \in 0..((i - 1) - 1) : CharAt(k) = "newline" => k \in 0..(t - 1)
      BY <1>1, <1>2
    <3>2. \A k \in 0..(t - 1) : CharAt(k) = "newline" => k \in 0..((i - 1) - 1)
      BY <1>1, <1>2
    <3> QED BY <3>1, <3>2 DEF Newlines
  <2> QED BY <1>1, <2>1, <2>2, <2>3
<1>7. ASSUME NEW i \in of
      PROVE  i \in (start + 1)..to
  <2>1. i \in 1..Len(source) /\ CharAt(i - 1) # "newline" /\ i - 1 \in Nat
        /\ Cardinality(Newlines(i - 1)) = Cardinality(Newlines(t))
    BY <1>1, <1>4
  <2> HIDE DEF of
  <2>2. CASE i <= start
    <3>1. start - 1 \in Newlines(t)
      BY <1>1, <2>1, <2>2 DEF Newlines
    <3>2. start - 1 \notin Newlines(i - 1)
      BY <1>1, <2>1, <2>2 DEF Newlines
    <3>3. Newlines(i - 1) \subseteq Newlines(t)
      BY <1>1, <2>1, <2>2 DEF Newlines
    <3> QED BY <1>5, <2>1, <3>1, <3>2, <3>3, MoreNewlines
  <2>3. CASE i > to
    <3>1. i - 1 # to
      BY <2>1
    <3>2. to \in Newlines(i - 1) /\ to \notin Newlines(t)
      BY <2>1, <2>3, <3>1 DEF Newlines
    <3>3. Newlines(t) \subseteq Newlines(i - 1)
      BY <2>1, <2>3 DEF Newlines
    <3> QED BY <1>5, <2>1, <3>2, <3>3, MoreNewlines
  <2> QED BY <1>1, <2>1, <2>2, <2>3
<1>8. of = (start + 1)..to
  <2> HIDE DEF of
  <2> QED BY <1>6, <1>7
<1> HIDE DEF of
<1>9. CASE start = to
  <2>1. of = {}
    BY <1>1, <1>8, <1>9
  <2>2. SubSeq(source, start + 1, to) = <<>>
    BY <1>1, <1>9
  <2> QED BY <1>3, <2>1, <2>2 DEF start
<1>10. CASE start # to
  <2>1. start + 1 \in of /\ to \in of
    BY <1>1, <1>8, <1>10
  <2>2. \A i \in of : start + 1 <= i /\ i <= to /\ i \in Nat
    BY <1>1, <1>8
  <2>3. start + 1 \in Nat
    BY <1>1
  <2>4. \A x \in of : (\A y \in of : x <= y) => x = start + 1
    BY <2>1, <2>2, <2>3
  <2>5. \A x \in of : (\A y \in of : x >= y) => x = to
    BY <2>1, <2>2
  <2>6. (\A y \in of : start + 1 <= y) /\ (\A y \in of : to >= y)
    BY <2>2
  <2>7. Min(of) = start + 1
    BY <2>1, <2>4, <2>6 DEF Min
  <2>8. Max(of) = to
    BY <2>1, <2>5, <2>6 DEF Max
  <2>9. of # {}
    BY <2>1
  <2> HIDE DEF of
  <2> QED BY <1>3, <2>7, <2>8, <2>9 DEF start
<1> QED BY <1>9, <1>10

(* Carets from the column on are below the token.                          *)
LEMMA BelowToken ==
  ASSUME source \in Seq(Characters), NEW start \in Nat, NEW from \in Nat, NEW length \in Nat,
         NEW to \in Nat, start <= from, from + length <= to, to <= Len(source)
  PROVE  SubSeq(SubSeq(source, start + 1, to), (from - start) + 1, (from - start) + length)
           = SubSeq(source, from + 1, from + length)
<1> DEFINE line == SubSeq(source, start + 1, to)
           left == SubSeq(line, (from - start) + 1, (from - start) + length)
           right == SubSeq(source, from + 1, from + length)
<1>1. line \in Seq(Characters) /\ Len(line) = to - start
      /\ \A i \in 1..(to - start) : line[i] = source[start + i]
  <2>1. \A i \in (start + 1)..to : i \in 1..Len(source)
    OBVIOUS
  <2> QED BY <2>1, SubSeqProperties
<1> HIDE DEF line
<1>2. Len(left) = length /\ \A i \in 1..length : left[i] = line[(from - start) + i]
  BY <1>1
<1>3. Len(right) = length /\ \A i \in 1..length : right[i] = source[from + i]
  OBVIOUS
<1>4. \A i \in 1..length : (from - start) + i \in 1..(to - start)
                           /\ start + ((from - start) + i) = from + i
  OBVIOUS
<1>5. \A i \in 1..length : left[i] = right[i]
  <2> HIDE DEF left, right
  <2> QED BY <1>1, <1>2, <1>3, <1>4
<1>6. left \in Seq(Characters) /\ right \in Seq(Characters)
  BY <1>1
<1> HIDE DEF left, right
<1>7. left = right
  BY <1>2, <1>3, <1>5, <1>6
<1> QED BY <1>7 DEF left, right, line

(* One character more of a line.                                           *)
LEMMA OneMore ==
  ASSUME source \in Seq(Characters), NEW start \in Nat, NEW i \in Nat, start <= i, i < Len(source)
  PROVE  Append(SubSeq(source, start + 1, i), source[i + 1]) = SubSeq(source, start + 1, i + 1)
<1> DEFINE all == SubSeq(source, start + 1, i + 1)
           some == SubSeq(source, start + 1, i)
           longer == Append(some, source[i + 1])
<1>1. all \in Seq(Characters) /\ Len(all) = (i + 1) - start
      /\ \A k \in 1..((i + 1) - start) : all[k] = source[start + k]
  OBVIOUS
<1>2. some \in Seq(Characters) /\ Len(some) = i - start
      /\ \A k \in 1..(i - start) : some[k] = source[start + k]
  OBVIOUS
<1>3. source[i + 1] \in Characters
  OBVIOUS
<1> HIDE DEF all, some
<1>m. PICK m \in Nat : m = (i - start) + 1
  OBVIOUS
<1>4. /\ longer \in Seq(Characters) /\ Len(longer) = m
      /\ \A k \in 1..(i - start) : longer[k] = some[k]
      /\ longer[m] = source[i + 1]
  BY <1>2, <1>3, <1>m
<1> HIDE DEF longer
<1>5. Len(longer) = Len(all)
  BY <1>1, <1>4, <1>m
<1>6. ASSUME NEW k \in 1..Len(all)
      PROVE  longer[k] = all[k]
  <2>1. CASE k = m
    <3>1. start + k = i + 1 /\ k \in 1..((i + 1) - start)
      BY <1>m, <2>1
    <3>2. all[k] = source[i + 1]
      BY <1>1, <3>1
    <3>3. longer[k] = source[i + 1]
      BY <1>4, <2>1
    <3> QED BY <3>2, <3>3
  <2>2. CASE k # m
    <3>1. k \in 1..(i - start) /\ k \in 1..((i + 1) - start)
      BY <1>1, <1>m, <2>2
    <3> QED BY <1>1, <1>2, <1>4, <3>1
  <2> QED BY <2>1, <2>2
<1>7. longer = all
  BY <1>1, <1>4, <1>5, <1>6
<1> QED BY <1>7 DEF longer, all, some

(* A token has its place in the source.                                    *)
LEMMA InfoInSource ==
  ASSUME ScanInv, FrontierInv, Ended => state = "idle", Reported
  PROVE  /\ info \in Token /\ 2 \in DOMAIN tokens
         /\ info.start <= TokenEnd(info) /\ TokenEnd(info) <= Len(source)
<1>1. 2 \in DOMAIN tokens /\ info = tokens[2] /\ info \in Token
  BY DEF Reported, ScanInv, TypeOK, info
<1>2. state = "idle" /\ lx.index <= Len(source) /\ Frontier = lx.index
  BY DEF Reported, Frontier, ScanInv, Scanning
<1>3. TokenEnd(info) <= lx.index /\ lx.index \in Nat /\ Len(source) \in Nat
  BY <1>1, <1>2 DEF FrontierInv, ScanInv, TypeOK, Position
<1> QED BY <1>1, <1>2, <1>3, TokenEndType

LEMMA NothingShown == DisplayInit => DisplayInv
<1> SUFFICES ASSUME DisplayInit PROVE DisplayInv
  OBVIOUS
<1>1. tokens = <<>> /\ DOMAIN tokens = {} /\ display = "none" /\ shown = <<>>
  BY DEF DisplayInit, Init
<1>2. ~ Ended
  BY <1>1 DEF Ended
<1>3. \A k \in DOMAIN tokens : Plain(tokens[k].start, TokenEnd(tokens[k]))
  BY <1>1
<1> QED BY <1>1, <1>2, <1>3, Zenon DEF DisplayInv

LEMMA DisplayStep ==
  ScanInv /\ FrontierInv /\ PositionInv /\ DisplayInv /\ [DisplayNext]_<<vars, displayVars>> => DisplayInv'
<1> SUFFICES ASSUME ScanInv, FrontierInv, PositionInv, DisplayInv, [DisplayNext]_<<vars, displayVars>>
             PROVE  DisplayInv'
  OBVIOUS
<1>t. source \in Seq(Characters) /\ Len(source) \in Nat
  BY DEF ScanInv, TypeOK
<1>1. CASE Lex
  <2>1. /\ state # "idle" \/ ~ Ended
        /\ source' = source
        /\ \/ tokens' = tokens
           \/ /\ tokens' = Append(tokens, result') /\ result' \in Token
              /\ state' = "idle" /\ Plain(result'.start, TokenEnd(result'))
    BY <1>1, StepReturns DEF Lex
  <2>2. ~ Ended /\ display = "none" /\ display' = "none" /\ shown' = <<>>
    BY <1>1, <2>1 DEF Lex, displayVars, DisplayInv, Reported
  <2>3. \A from, to : Plain(from, to)' <=> Plain(from, to)
    BY <2>1 DEF Plain, CharAt
  <2>4. Ended' => state' = "idle"
    BY <2>1, <2>2 DEF Ended
  <2>5. ASSUME NEW k \in DOMAIN tokens'
        PROVE  Plain(tokens'[k].start, TokenEnd(tokens'[k]))
    <3>1. \/ tokens'[k] = result' /\ tokens' = Append(tokens, result')
          \/ k \in DOMAIN tokens /\ tokens'[k] = tokens[k]
      BY <2>1 DEF ScanInv, TypeOK
    <3>2. CASE tokens'[k] = result' /\ tokens' = Append(tokens, result')
      BY <2>1, <3>2 DEF DisplayInv
    <3> QED BY <3>1, <3>2 DEF DisplayInv
  <2> QED BY <2>2, <2>3, <2>4, <2>5 DEF DisplayInv, TokenEnd
<1>2. ASSUME UNCHANGED vars, IF display' = "none" THEN shown' = <<>> ELSE Reported,
             display' \in {"line", "shown"} =>
               LET start == getLineStart(info.start)
               IN  /\ index' \in start..(Len(source) + 1)
                   /\ index' <= Len(source) => shown' = SubSeq(source, start + 1, index')
                   /\ Plain(start, index'),
             display' = "shown" => index' >= TokenEnd(info) /\ CharAt(index') = "newline"
      PROVE  DisplayInv'
  <2>1. source' = source /\ tokens' = tokens /\ state' = state
    BY <1>2 DEF vars
  <2>2. /\ \A from, to : Plain(from, to)' <=> Plain(from, to)
        /\ Ended' <=> Ended
        /\ Reported' <=> Reported
        /\ \A token : TokenEnd(token)' = TokenEnd(token)
        /\ \A at : getLineStart(at)' = getLineStart(at)
        /\ info' = info
    BY <2>1 DEF Plain, CharAt, Ended, Reported, TokenEnd, getLineStart, info
  <2>3. AtEndOfLine' <=> index' >= TokenEnd(info) /\ CharAt(index') = "newline"
    BY <2>1, <2>2 DEF AtEndOfLine, CharAt
  <2> QED BY <1>2, <2>1, <2>2, <2>3 DEF DisplayInv
<1>3. ASSUME Reported
      PROVE  /\ info.start \in Nat /\ getLineStart(info.start) \in 0..info.start
             /\ info.start <= TokenEnd(info) /\ TokenEnd(info) \in Nat
             /\ Plain(getLineStart(info.start), info.start)
             /\ Plain(info.start, TokenEnd(info))
  <2>1. 2 \in DOMAIN tokens /\ info \in Token
    BY <1>3 DEF Reported, ScanInv, TypeOK, info
  <2>2. PositionOf(info.start, info.line, info.col) /\ Plain(info.start, TokenEnd(info))
    BY <2>1 DEF PositionInv, DisplayInv, info
  <2> QED BY <2>1, <2>2, LineStart, TokenEndType
<1>4. CASE printError
  <2>1. /\ Reported /\ display' = "line" /\ index' = getLineStart(info.start)
        /\ UNCHANGED vars /\ shown' = shown /\ display = "none"
    BY <1>4 DEF printError
  <2>2. shown = <<>>
    BY <2>1 DEF DisplayInv
  <2>3. PICK start : start = getLineStart(info.start)
    OBVIOUS
  <2>4. start \in Nat /\ start <= Len(source)
    <3>1. info.start <= TokenEnd(info) /\ TokenEnd(info) <= Len(source)
      BY <2>1, InfoInSource DEF DisplayInv
    <3> QED BY <1>3, <1>t, <2>1, <2>3, <3>1
  <2>5. SubSeq(source, start + 1, start) = <<>> /\ Plain(start, start)
    BY <1>t, <2>4 DEF Plain
  <2>6. start \in start..(Len(source) + 1)
    BY <1>t, <2>4
  <2> QED BY <1>2, <2>1, <2>2, <2>3, <2>5, <2>6
<1>5. CASE putSource
  <2>1. display = "line" /\ ~ AtEndOfLine /\ UNCHANGED vars /\ Reported
    BY <1>5 DEF putSource, DisplayInv
  <2>2. PICK start : start = getLineStart(info.start)
    OBVIOUS
  <2>3. /\ index \in start..(Len(source) + 1) /\ start \in Nat /\ index \in Nat
        /\ index <= Len(source) => shown = SubSeq(source, start + 1, index)
        /\ Plain(start, index)
    BY <1>t, <1>3, <2>1, <2>2 DEF DisplayInv
  <2>4. CASE index > Len(source)
    BY <1>2, <1>5, <2>1, <2>4 DEF putSource
  <2>5. CASE ~ (index > Len(source))
    <3>1. shown' = Append(shown, CharAt(index)) /\ index' = index + 1 /\ display' = "line"
      BY <1>5, <2>1, <2>5 DEF putSource
    <3>2. index' \in start..(Len(source) + 1)
      BY <1>t, <2>3, <2>5, <3>1
    <3>3. index' <= Len(source) => shown' = SubSeq(source, start + 1, index')
      <4>1. CASE index < Len(source)
        <5>1. CharAt(index) = source[index + 1]
          BY <1>t, <2>3, <4>1, Character
        <5>2. shown = SubSeq(source, start + 1, index)
          BY <2>3, <2>5
        <5> QED BY <1>t, <2>3, <3>1, <4>1, <5>1, <5>2, OneMore
      <4>2. CASE ~ (index < Len(source))
        BY <1>t, <2>3, <3>1, <4>2
      <4> QED BY <4>1, <4>2
    <3>4. Plain(start, index')
      <4>1. CharAt(index) # "newline"
        <5>1. CASE index < info.start
          <6>1. index \in start..(info.start - 1)
            BY <1>3, <2>1, <2>3, <5>1
          <6> QED BY <1>3, <2>1, <2>2, <6>1 DEF Plain
        <5>2. CASE info.start <= index /\ index < TokenEnd(info)
          <6>1. index \in info.start..(TokenEnd(info) - 1)
            BY <1>3, <2>1, <2>3, <5>2
          <6> QED BY <1>3, <2>1, <6>1 DEF Plain
        <5>3. CASE index >= TokenEnd(info)
          BY <2>1, <5>3 DEF AtEndOfLine
        <5> QED BY <1>3, <2>1, <2>3, <5>1, <5>2, <5>3
      <4>2. \A i \in start..(index' - 1) : i = index \/ i \in start..(index - 1)
        BY <2>3, <3>1
      <4> QED BY <2>3, <4>1, <4>2 DEF Plain
    <3> QED BY <1>2, <2>1, <2>2, <3>1, <3>2, <3>3, <3>4
  <2> QED BY <2>4, <2>5
<1>6. CASE putCarets
  BY <1>2, <1>6 DEF putCarets, DisplayInv, AtEndOfLine
<1>7. CASE UNCHANGED <<vars, displayVars>>
  <2>1. UNCHANGED vars /\ display' = display /\ index' = index /\ shown' = shown
    BY <1>7 DEF displayVars
  <2> QED BY <1>2, <2>1 DEF DisplayInv, AtEndOfLine
<1>8. DisplayEnded => UNCHANGED <<vars, displayVars>>
  BY DEF DisplayEnded
<1> QED BY <1>1, <1>4, <1>5, <1>6, <1>7, <1>8 DEF DisplayNext

LEMMA LineShown ==
  ASSUME ScanInv, FrontierInv, PositionInv, DisplayInv
  PROVE  ShowsTheCitedLine
<1> SUFFICES ASSUME display = "shown"
             PROVE  /\ shown = Line(info.line)
                    /\ SubSeq(shown, info.col + 1, info.col + info.length) = Text(info)
  BY DEF ShowsTheCitedLine
<1>1. source \in Seq(Characters) /\ Len(source) \in Nat
  BY DEF ScanInv, TypeOK
<1>2. /\ info \in Token /\ 2 \in DOMAIN tokens
      /\ info.start <= TokenEnd(info) /\ TokenEnd(info) <= Len(source)
  BY InfoInSource DEF DisplayInv
<1>3. PositionOf(info.start, info.line, info.col)
  BY <1>2 DEF PositionInv, info
<1>4. PICK start : start = getLineStart(info.start)
  OBVIOUS
<1>5. /\ info.start \in Nat /\ info.length \in Nat /\ TokenEnd(info) = info.start + info.length
      /\ start \in 0..info.start /\ info.col = info.start - start
  BY <1>2, <1>3, <1>4, LineStart DEF Token, TokenEnd
<1>6. /\ index \in start..(Len(source) + 1)
      /\ index <= Len(source) => shown = SubSeq(source, start + 1, index)
      /\ Plain(start, index)
      /\ index >= TokenEnd(info) /\ CharAt(index) = "newline"
  BY <1>4 DEF DisplayInv, AtEndOfLine
<1>7. index \in Nat /\ index < Len(source)
  BY <1>1, <1>5, <1>6, Character
<1>8. shown = SubSeq(source, start + 1, index)
  BY <1>1, <1>6, <1>7
<1>9. shown = Line(info.line)
  <2>1. info.start <= index
    BY <1>5, <1>6, <1>7
  <2>2. Plain(getLineStart(info.start), index)
    BY <1>4, <1>6
  <2>3. Line(info.line) = SubSeq(source, getLineStart(info.start) + 1, index)
    BY <1>1, <1>3, <1>5, <1>6, <1>7, <2>1, <2>2, LineIs
  <2> QED BY <1>4, <1>8, <2>3
<1>10. SubSeq(shown, info.col + 1, info.col + info.length) = Text(info)
  <2>1. SubSeq(SubSeq(source, start + 1, index), (info.start - start) + 1,
               (info.start - start) + info.length)
          = SubSeq(source, info.start + 1, info.start + info.length)
    <3>1. PICK from, length, to : from = info.start /\ length = info.length /\ to = index
      OBVIOUS
    <3>2. /\ start \in Nat /\ from \in Nat /\ length \in Nat /\ to \in Nat
          /\ start <= from /\ from + length <= to /\ to <= Len(source)
      BY <1>1, <1>5, <1>6, <1>7, <3>1
    <3>3. SubSeq(SubSeq(source, start + 1, to), (from - start) + 1, (from - start) + length)
            = SubSeq(source, from + 1, from + length)
      BY <1>1, <3>2, BelowToken
    <3> QED BY <3>1, <3>3
  <2> QED BY <1>5, <1>8, <2>1 DEF Text
<1> QED BY <1>9, <1>10

(* The line shown for an error is the one with the number it carries, and  *)
(* the carets stand below the token.                                       *)
THEOREM CitedLineShown == DisplaySpec => []ShowsTheCitedLine
<1>1. DisplayInit => ScanInv /\ FrontierInv /\ PositionInv /\ DisplayInv
  <2>1. DisplayInit => Init
    BY DEF DisplayInit
  <2> QED BY <2>1, ScanInit, FrontierInit, PositionsInit, NothingShown
<1>2. [DisplayNext]_<<vars, displayVars>> => [Next]_vars
  BY DEF DisplayNext, Lex, printError, putSource, putCarets, DisplayEnded, Next
<1>3. ScanInv /\ FrontierInv /\ PositionInv /\ DisplayInv
        /\ [DisplayNext]_<<vars, displayVars>>
        => (ScanInv /\ FrontierInv /\ PositionInv /\ DisplayInv)'
  BY <1>2, ScanStep, FrontierStep, PositionsStep, DisplayStep
<1>4. ScanInv /\ FrontierInv /\ PositionInv /\ DisplayInv => ShowsTheCitedLine
  BY LineShown
<1> QED BY <1>1, <1>3, <1>4, PTL DEF DisplaySpec
==============================================================================
