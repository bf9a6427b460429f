------------------------------- MODULE Lexer -------------------------------
(***************************************************************************)
(* The lexer (src/lexer.cpp): nextTokenExpected, called until it delivers  *)
(* the end of the file or an error.  mode is the loop that runs; each      *)
(* action is one trip through it or one way out of it.                     *)
(***************************************************************************)
EXTENDS Integers, Sequences, SequencesExt

CONSTANTS
    Letters,    \* the letters, and "_"
    Reserved,   \* the types of the words that are no identifiers, by their text
    MaxInt,     \* the greatest value of an int literal, 2^31 - 1 in the code
    Unrepresentable,  \* the texts of numbers too large or too small for a double
    Texts       \* the texts, as sequences of characters

Digits == {"0", "1", "2", "3", "4", "5", "6", "7", "8", "9"}
HexLetters == {"a", "b", "c", "d", "e", "f", "A", "B", "C", "D", "E", "F"}
Blanks == {" ", "\t", "\r", "\n"}
Escapes == {"n", "t", "\"", "\\"}
Singles == {"+", "-", "*", "/", "%", "^", "~", "=", "!", "<", ">", "&", "|", "(", ")", "{", "}",
            "[", "]", ",", ";", ":", "."}
Doubles == {<<"+", "+">>, <<"+", "=">>, <<"-", "-">>, <<"-", "=">>, <<"=", "=">>, <<"!", "=">>,
            <<"<", "<">>, <<"<", "=">>, <<">", ">">>, <<">", "=">>, <<"&", "&">>, <<"|", "|">>,
            <<":", ":">>}

DigitValue ==
    [c \in Digits \cup HexLetters |->
        CASE c = "0" -> 0 [] c = "1" -> 1 [] c = "2" -> 2 [] c = "3" -> 3 [] c = "4" -> 4
          [] c = "5" -> 5 [] c = "6" -> 6 [] c = "7" -> 7 [] c = "8" -> 8 [] c = "9" -> 9
          [] c \in {"a", "A"} -> 10 [] c \in {"b", "B"} -> 11 [] c \in {"c", "C"} -> 12
          [] c \in {"d", "D"} -> 13 [] c \in {"e", "E"} -> 14 [] c \in {"f", "F"} -> 15]

WordCharacters == Letters \cup Digits
ReservedTypes == {"Keyword", "FloatLiteral"}
TokenTypes == ReservedTypes \cup {"Identifier", "IntLiteral", "StringLiteral", "Operator", "EndOfFile"}

ASSUME LexerAssumption ==
    /\ HexLetters \cup {"x", "X"} \subseteq Letters
    /\ Letters \cap (Digits \cup Blanks \cup Singles \cup {"\"", "\\", "end"}) = {}
    /\ \A w \in DOMAIN Reserved : Reserved[w] \in ReservedTypes
    /\ MaxInt \in Nat
    /\ Texts \subseteq Seq(STRING \ {"end"})

VARIABLES
    text,        \* source_
    place,       \* pos_, line_ and column_
    mode,        \* the loop that runs, "between" the tokens, or "done"
    begin,       \* where the token or comment began
    depth,       \* the comments that are open
    value,       \* the number read so far
    tokens,      \* the tokens delivered, each with its first and last character
    diagnostic   \* the error and its place

vars == <<text, place, mode, begin, depth, value, tokens, diagnostic>>

Modes == {"between", "lineComment", "blockComment", "word", "hex", "binary", "decimal", "fraction",
          "exponent", "string", "done"}

Start == [pos |-> 0, line |-> 1, column |-> 1]
NoError == [what |-> "none", at |-> Start]

-----------------------------------------------------------------------------
(* Characters.                                                             *)

CharAt(pos) == IF pos < Len(text) THEN text[pos + 1] ELSE "end"
peek == CharAt(place.pos)
peekNext == CharAt(place.pos + 1)

\* A mutant: a new line goes on in the column of the last one.
advanceKeepsColumn(p) ==
    CASE CharAt(p.pos) = "end" -> p
      [] CharAt(p.pos) = "\n"  -> [p EXCEPT !.pos = @ + 1, !.line = @ + 1]
      [] OTHER                 -> [p EXCEPT !.pos = @ + 1, !.column = @ + 1]

\* The place behind the next character.
advance(p) ==
    CASE CharAt(p.pos) = "end" -> p
      [] CharAt(p.pos) = "\n"  -> [pos |-> p.pos + 1, line |-> p.line + 1, column |-> 1]
      [] OTHER                 -> [p EXCEPT !.pos = @ + 1, !.column = @ + 1]

\* The loop goes on, or another one takes over, behind n characters.
Move(n, next) ==
    /\ place' = CASE n = 0 -> place [] n = 1 -> advance(place) [] n = 2 -> advance(advance(place))
    /\ mode' = next
    /\ UNCHANGED <<text, tokens, diagnostic>>

\* A token from one place up to a character.
Token(type, from, last, v) ==
    [type |-> type, first |-> from.pos + 1, last |-> last, line |-> from.line,
     column |-> from.column, value |-> v]

\* A token ends behind n more characters.
Deliver(type, n, v) ==
    /\ tokens' = Append(tokens, Token(type, begin, place.pos + n, v))
    /\ place' = IF n = 0 THEN place ELSE advance(place)
    /\ mode' = "between"
    /\ UNCHANGED <<text, begin, depth, diagnostic>>
    /\ value' = 0

lexicalError(what, at) ==
    /\ diagnostic' = [what |-> what, at |-> at]
    /\ mode' = "done"
    /\ UNCHANGED <<text, place, begin, depth, value, tokens>>

-----------------------------------------------------------------------------
(* skipWhitespaceAndComments.                                              *)

Opens(a, b) == peek = a /\ peekNext = b

Blank ==
    /\ mode = "between" /\ peek \in Blanks
    /\ Move(1, mode)
    /\ UNCHANGED <<begin, depth, value>>

LineComment ==
    \/ /\ mode = "between" /\ Opens("/", "/")
       /\ Move(2, "lineComment")
       /\ UNCHANGED <<begin, depth, value>>
    \/ /\ mode = "lineComment" /\ peek \notin {"\n", "end"}
       /\ Move(1, mode)
       /\ UNCHANGED <<begin, depth, value>>
    \/ /\ mode = "lineComment" /\ peek \in {"\n", "end"}
       /\ Move(0, "between")
       /\ UNCHANGED <<begin, depth, value>>

OpenComment ==
    /\ mode = "between" /\ Opens("/", "*")
    /\ Move(2, "blockComment")
    /\ begin' = place
    /\ depth' = 1
    /\ UNCHANGED value

\* A mutant: the first end closes all comments.
BlockCommentNotNested ==
    /\ mode = "blockComment"
    /\ CASE depth = 0 \/ peek = "end" -> IF depth = 0 THEN Move(0, "between") /\ UNCHANGED depth
                                         ELSE lexicalError("comment", begin)
         [] depth > 0 /\ Opens("*", "/") -> Move(2, mode) /\ depth' = 0
         [] OTHER -> Move(1, mode) /\ UNCHANGED depth
    /\ UNCHANGED <<begin, value>>

\* A mutant: the star of a start may be that of an end.
BlockCommentSharesStar ==
    /\ mode = "blockComment"
    /\ CASE depth = 0 \/ peek = "end" -> IF depth = 0 THEN Move(0, "between") /\ UNCHANGED depth
                                         ELSE lexicalError("comment", begin)
         [] depth > 0 /\ Opens("/", "*") -> Move(1, mode) /\ depth' = depth + 1
         [] depth > 0 /\ Opens("*", "/") -> Move(2, mode) /\ depth' = depth - 1
         [] OTHER -> Move(1, mode) /\ UNCHANGED depth
    /\ UNCHANGED <<begin, value>>

BlockComment ==
    /\ mode = "blockComment"
    /\ CASE depth = 0 \/ peek = "end" -> IF depth = 0 THEN Move(0, "between") /\ UNCHANGED depth
                                         ELSE lexicalError("comment", begin)
         [] depth > 0 /\ Opens("/", "*") -> Move(2, mode) /\ depth' = depth + 1
         [] depth > 0 /\ Opens("*", "/") -> Move(2, mode) /\ depth' = depth - 1
         [] OTHER -> Move(1, mode) /\ UNCHANGED depth
    /\ UNCHANGED <<begin, value>>

AtToken == mode = "between" /\ peek \notin Blanks /\ ~Opens("/", "/") /\ ~Opens("/", "*")

-----------------------------------------------------------------------------
(* Words, numbers and strings.                                             *)

Begins(next, n) ==
    /\ Move(n, next)
    /\ begin' = place
    /\ value' = 0
    /\ UNCHANGED depth

\* A digit more.
Digit(base) ==
    /\ Move(1, mode)
    /\ value' = value * base + DigitValue[peek]
    /\ UNCHANGED <<begin, depth>>

Skip(n, next) == Move(n, next) /\ UNCHANGED <<begin, depth, value>>

Word == AtToken /\ peek \in Letters /\ Begins("word", 0)

identifierOrKeyword ==
    /\ mode = "word"
    /\ LET lexeme == SubSeq(text, begin.pos + 1, place.pos)
       IN  IF peek \in WordCharacters THEN Skip(1, mode)
           ELSE Deliver(IF lexeme \in DOMAIN Reserved THEN Reserved[lexeme] ELSE "Identifier", 0, 0)

number ==
    /\ AtToken /\ peek \in Digits
    /\ CASE peek = "0" /\ peekNext \in {"x", "X"} -> Begins("hex", 2)
         [] peek = "0" /\ peekNext \in {"b", "B"} -> Begins("binary", 2)
         [] OTHER                                 -> Begins("decimal", 0)

NoDigitsYet == place.pos = begin.pos + 2

Hex ==
    /\ mode = "hex"
    /\ CASE peek \in Digits \cup HexLetters -> Digit(16)
         [] peek \notin Digits \cup HexLetters /\ NoDigitsYet -> lexicalError("digits", begin)
         [] peek \in WordCharacters \ (Digits \cup HexLetters) /\ ~NoDigitsYet ->
                lexicalError("character", begin)
         [] OTHER -> IF value > MaxInt THEN lexicalError("range", begin) ELSE Deliver("IntLiteral", 0, value)

\* The range is looked at with each digit, so the value never grows far.
Binary ==
    /\ mode = "binary"
    /\ CASE peek \in {"0", "1"} ->
              IF value * 2 + DigitValue[peek] > MaxInt THEN lexicalError("range", begin) ELSE Digit(2)
         [] peek \notin {"0", "1"} /\ NoDigitsYet -> lexicalError("digits", begin)
         [] peek \in WordCharacters \ {"0", "1"} /\ ~NoDigitsYet -> lexicalError("character", begin)
         [] OTHER -> Deliver("IntLiteral", 0, value)

\* A point needs a digit behind it, and an exponent behind its sign.
Point ==
    IF CharAt(place.pos + 1) \in Digits THEN Skip(1, "fraction") ELSE lexicalError("digits", begin)
\* A mutant: only the digits are expected.
ExponentUnsigned ==
    IF peekNext \in Digits THEN Skip(1, "exponent") ELSE lexicalError("digits", begin)

Exponent ==
    LET sign == IF peekNext \in {"+", "-"} THEN 1 ELSE 0
    IN  IF CharAt(place.pos + 1 + sign) \in Digits THEN Skip(1 + sign, "exponent")
        ELSE lexicalError("digits", begin)

\* std::stod throws when no double is near to the number.
Float ==
    IF SubSeq(text, begin.pos + 1, place.pos) \in Unrepresentable THEN lexicalError("float", begin)
    ELSE Deliver("FloatLiteral", 0, 0)

Decimal ==
    \/ /\ mode = "decimal"
       /\ CASE peek \in Digits     -> Digit(10)
            [] peek = "."          -> Point
            [] peek \in {"e", "E"} -> Exponent
            [] OTHER -> IF value > MaxInt THEN lexicalError("range", begin)
                        ELSE Deliver("IntLiteral", 0, value)
    \/ /\ mode = "fraction"
       /\ CASE peek \in Digits     -> Skip(1, mode)
            [] peek \in {"e", "E"} -> Exponent
            [] OTHER               -> Float
    \/ /\ mode = "exponent"
       /\ IF peek \in Digits THEN Skip(1, mode) ELSE Float

String == AtToken /\ peek = "\"" /\ Begins("string", 1)

\* A mutant: a quote ends the string, escaped or not.
stringLiteralAtQuote ==
    /\ mode = "string"
    /\ CASE peek \in {"\n", "end"} -> lexicalError("string", begin)
         [] peek = "\""            -> Deliver("StringLiteral", 1, 0)
         [] OTHER                  -> Skip(1, mode)

stringLiteral ==
    /\ mode = "string"
    /\ CASE peek \in {"\n", "end"} -> lexicalError("string", begin)
         [] peek = "\"" -> Deliver("StringLiteral", 1, 0)
         [] peek = "\\" /\ peekNext = "end" -> lexicalError("escape", begin)
         [] peek = "\\" /\ peekNext \in Escapes -> Skip(2, mode)
         [] peek = "\\" /\ peekNext \notin Escapes \cup {"end"} ->
                lexicalError("escape", advance(advance(place)))
         [] OTHER -> Skip(1, mode)

\* One character or, if the next fits, two.
Operator ==
    /\ AtToken
    /\ peek \notin WordCharacters \cup {"\"", "end"}
    /\ LET length == IF <<peek, peekNext>> \in Doubles THEN 2 ELSE 1
       IN  IF peek \in Singles
           THEN /\ tokens' = Append(tokens, Token("Operator", place, place.pos + length, 0))
                /\ place' = IF length = 2 THEN advance(advance(place)) ELSE advance(place)
                /\ UNCHANGED <<text, mode, begin, depth, value, diagnostic>>
           ELSE lexicalError("character", place)

End ==
    /\ AtToken /\ peek = "end"
    /\ tokens' = Append(tokens, Token("EndOfFile", place, place.pos, 0))
    /\ mode' = "done"
    /\ UNCHANGED <<text, place, begin, depth, value, diagnostic>>

-----------------------------------------------------------------------------
Init ==
    /\ text \in Texts
    /\ place = Start
    /\ mode = "between"
    /\ begin = Start
    /\ depth = 0
    /\ value = 0
    /\ tokens = <<>>
    /\ diagnostic = NoError

Next ==
    \/ Blank \/ LineComment \/ OpenComment \/ BlockComment
    \/ Word \/ identifierOrKeyword \/ number \/ Hex \/ Binary \/ Decimal
    \/ String \/ stringLiteral \/ Operator \/ End

Spec == Init /\ [][Next]_vars
=============================================================================
