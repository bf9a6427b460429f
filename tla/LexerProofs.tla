----------------------------- MODULE LexerProofs -----------------------------
(***************************************************************************)
(* Theorems about Lexer, for every set of texts, every alphabet of letters *)
(* and all reserved words.                                                 *)
(***************************************************************************)
EXTENDS LexicalGrammar, CallStackProofs

LEMMA MaxIntIsNatural == MaxInt \in Nat
<1>. QED BY LexerAssumption, Zenon

-----------------------------------------------------------------------------
(* Places.                                                                 *)

\* A text ends where no character is left.
LEMMA CharFacts ==
    ASSUME text \in Texts
    PROVE  /\ Len(text) \in Nat /\ DOMAIN text = 1 .. Len(text)
           /\ \A i \in 1 .. Len(text) : text[i] # "end"
           /\ \A pos \in Nat : CharAt(pos) = "end" <=> Len(text) <= pos
           /\ \A pos \in Nat : pos < Len(text) => CharAt(pos) = text[pos + 1]
<1>1. text \in Seq(STRING \ {"end"})
  BY LexerAssumption
<1>2. Len(text) \in Nat /\ DOMAIN text = 1 .. Len(text) /\ \A i \in 1 .. Len(text) : text[i] # "end"
  BY <1>1
<1>3. ASSUME NEW pos \in Nat
      PROVE  /\ CharAt(pos) = "end" <=> Len(text) <= pos
             /\ pos < Len(text) => CharAt(pos) = text[pos + 1]
  <2>. DEFINE n == Len(text)
  <2>1. n \in Nat /\ \A i \in 1 .. n : text[i] # "end"
    BY <1>2
  <2>2. CharAt(pos) = IF pos < n THEN text[pos + 1] ELSE "end"
    BY DEF CharAt
  <2>. HIDE DEF n
  <2>3. CharAt(pos) = "end" <=> n <= pos
    BY <2>1, <2>2
  <2>. QED BY <2>2, <2>3 DEF n
<1>. QED BY <1>2, <1>3

\* The place behind a character is one further, but never behind the text.
LEMMA AdvanceFacts ==
    ASSUME text \in Texts, NEW p \in Places, p.pos <= Len(text)
    PROVE  /\ advance(p) \in Places
           /\ advance(p).pos <= Len(text)
           /\ CharAt(p.pos) = "end" => advance(p) = p
           /\ CharAt(p.pos) # "end" => advance(p).pos = p.pos + 1
<1>1. p.pos \in Nat /\ p.line \in Nat /\ p.column \in Nat
  BY DEF Places
<1>2. Len(text) \in Nat /\ (CharAt(p.pos) = "end" <=> Len(text) <= p.pos)
  BY <1>1, CharFacts
<1>3. CASE CharAt(p.pos) = "end"
  <2>1. advance(p) = p
    BY <1>3 DEF advance
  <2>. QED BY <1>3, <2>1
<1>4. CASE CharAt(p.pos) = "\n"
  <2>1. advance(p) = [pos |-> p.pos + 1, line |-> p.line + 1, column |-> 1]
    BY <1>4 DEF advance
  <2>2. p.pos + 1 <= Len(text)
    BY <1>1, <1>2, <1>4
  <2>. QED BY <1>1, <1>4, <2>1, <2>2 DEF Places
<1>5. CASE CharAt(p.pos) \notin {"end", "\n"}
  <2>1. advance(p) = [p EXCEPT !.pos = @ + 1, !.column = @ + 1]
    BY <1>5 DEF advance
  <2>2. advance(p) = [pos |-> p.pos + 1, line |-> p.line, column |-> p.column + 1]
    BY <2>1 DEF Places
  <2>3. p.pos + 1 <= Len(text)
    BY <1>1, <1>2, <1>5
  <2>. QED BY <1>1, <1>5, <2>2, <2>3 DEF Places
<1>. QED BY <1>3, <1>4, <1>5

\* Where a loop is, and one or two characters further.
LEMMA PlaceFacts ==
    ASSUME TypeOK
    PROVE  /\ place.pos \in Nat /\ begin.pos \in Nat /\ Len(text) \in Nat
           /\ begin.pos <= place.pos /\ place.pos <= Len(text)
           /\ advance(place) \in Places /\ advance(advance(place)) \in Places
           /\ place.pos <= advance(place).pos /\ advance(place).pos <= Len(text)
           /\ place.pos <= advance(advance(place)).pos /\ advance(advance(place)).pos <= Len(text)
           /\ peek # "end" => advance(place).pos = place.pos + 1
           /\ peek # "end" /\ peekNext # "end" => advance(advance(place)).pos = place.pos + 2
<1>1. /\ text \in Texts /\ place \in Places /\ place.pos <= Len(text)
      /\ begin \in Places /\ begin.pos <= place.pos
  BY DEF TypeOK
<1>2. place.pos \in Nat /\ begin.pos \in Nat /\ Len(text) \in Nat
  BY <1>1, CharFacts DEF Places
<1>. DEFINE p == advance(place)
<1>3. /\ p \in Places /\ p.pos <= Len(text) /\ p.pos \in Nat
      /\ CharAt(place.pos) = "end" => p = place
      /\ CharAt(place.pos) # "end" => p.pos = place.pos + 1
  <2>1. /\ p \in Places /\ p.pos <= Len(text)
        /\ CharAt(place.pos) = "end" => p = place
        /\ CharAt(place.pos) # "end" => p.pos = place.pos + 1
    BY <1>1, AdvanceFacts
  <2>. QED BY <2>1 DEF Places
<1>. HIDE DEF p
<1>4. /\ advance(p) \in Places /\ advance(p).pos <= Len(text) /\ advance(p).pos \in Nat
      /\ CharAt(p.pos) = "end" => advance(p) = p
      /\ CharAt(p.pos) # "end" => advance(p).pos = p.pos + 1
  <2>1. /\ advance(p) \in Places /\ advance(p).pos <= Len(text)
        /\ CharAt(p.pos) = "end" => advance(p) = p
        /\ CharAt(p.pos) # "end" => advance(p).pos = p.pos + 1
    BY <1>1, <1>3, AdvanceFacts
  <2>. QED BY <2>1 DEF Places
<1>5. place.pos <= p.pos /\ p.pos <= advance(p).pos
  BY <1>2, <1>3, <1>4
<1>6. peek # "end" => p.pos = place.pos + 1
  BY <1>3 DEF peek
<1>7. peek # "end" /\ peekNext # "end" => advance(p).pos = place.pos + 2
  BY <1>2, <1>4, <1>6 DEF peekNext
<1>. QED BY <1>1, <1>2, <1>3, <1>4, <1>5, <1>6, <1>7 DEF p

-----------------------------------------------------------------------------
(* Type correctness.                                                       *)

\* Behind n characters.
Behind(n) == CASE n = 0 -> place [] n = 1 -> advance(place) [] n = 2 -> advance(advance(place))

LEMMA BehindFacts ==
    ASSUME TypeOK, NEW n \in {0, 1, 2}
    PROVE  /\ Behind(n) \in Places
           /\ Behind(n).pos \in Nat /\ place.pos <= Behind(n).pos /\ Behind(n).pos <= Len(text)
           /\ Behind(n) \in {place, advance(place), advance(advance(place))}
<1>1. Behind(n) \in {place, advance(place), advance(advance(place))}
  BY DEF Behind
<1>2. place \in Places
  BY DEF TypeOK
<1>. QED BY <1>1, <1>2, PlaceFacts DEF Places

\* A loop goes on or another one takes over, and the type invariant holds if
\* what it says about that loop does.
LEMMA MoveTypes ==
    ASSUME TypeOK, mode # "done", NEW n \in {0, 1, 2}, NEW next \in Modes, Move(n, next),
           begin' \in {begin, place}, depth' \in Nat, value' \in Nat,
           next = "blockComment" => 2 * depth' <= Behind(n).pos - begin'.pos,
           next \in {"hex", "binary"} => begin'.pos + 2 <= Behind(n).pos,
           next = "binary" => value' <= MaxInt
    PROVE  TypeOK'
<1>1. /\ place' = Behind(n) /\ mode' = next /\ text' = text /\ tokens' = tokens
      /\ diagnostic' = diagnostic
  BY DEF Move, Behind
<1>2. begin' \in Places /\ begin'.pos <= Behind(n).pos
  <2>1. begin \in Places /\ place \in Places
    BY DEF TypeOK
  <2>2. begin.pos \in Nat /\ place.pos \in Nat /\ begin.pos <= place.pos
    BY PlaceFacts
  <2>3. Behind(n).pos \in Nat /\ place.pos <= Behind(n).pos
    BY BehindFacts
  <2>. QED BY <2>1, <2>2, <2>3
<1>3. diagnostic = NoError
  BY DEF TypeOK
<1>. QED BY <1>1, <1>2, <1>3, BehindFacts DEF TypeOK

\* A token has a type and a value, and ends in the text.
LEMMA TokenTyped ==
    ASSUME TypeOK, NEW type \in TokenTypes, NEW from \in Places, NEW last \in Nat,
           NEW v \in 0 .. MaxInt
    PROVE  Append(tokens, Token(type, from, last, v)) \in
               Seq([type : TokenTypes, first : Nat, last : Nat, line : Nat, column : Nat, value : 0 .. MaxInt])
<1>1. Token(type, from, last, v) \in
          [type : TokenTypes, first : Nat, last : Nat, line : Nat, column : Nat, value : 0 .. MaxInt]
  BY DEF Token, Places
<1>2. tokens \in
          Seq([type : TokenTypes, first : Nat, last : Nat, line : Nat, column : Nat, value : 0 .. MaxInt])
  BY DEF TypeOK
<1>. QED BY <1>1, <1>2

LEMMA DeliverTypes ==
    ASSUME TypeOK, mode # "done", NEW type \in TokenTypes, NEW n \in {0, 1}, NEW v \in 0 .. MaxInt,
           Deliver(type, n, v)
    PROVE  TypeOK'
<1>1. /\ tokens' = Append(tokens, Token(type, begin, place.pos + n, v))
      /\ place' = Behind(n) /\ mode' = "between" /\ value' = 0
      /\ UNCHANGED <<text, begin, depth, diagnostic>>
  BY DEF Deliver, Behind
<1>2. begin \in Places /\ place.pos + n \in Nat
  BY PlaceFacts DEF TypeOK
<1>3. begin.pos <= Behind(n).pos
  BY PlaceFacts, BehindFacts
<1>4. "between" \in Modes /\ diagnostic = NoError
  BY DEF Modes, TypeOK
<1>5. tokens' \in
          Seq([type : TokenTypes, first : Nat, last : Nat, line : Nat, column : Nat, value : 0 .. MaxInt])
  BY <1>1, <1>2, TokenTyped
<1>. QED BY <1>1, <1>2, <1>3, <1>4, <1>5, BehindFacts DEF TypeOK

LEMMA ErrorTypes ==
    ASSUME TypeOK, NEW what \in Messages, NEW at \in Places, lexicalError(what, at)
    PROVE  TypeOK'
<1>. QED BY DEF lexicalError, TypeOK, Modes

\* An action that begins a token, or goes on in one.
LEMMA BeginsTypes ==
    ASSUME TypeOK, mode # "done", NEW n \in {0, 1, 2}, NEW next \in Modes, Begins(next, n),
           next # "blockComment",
           next \in {"hex", "binary"} => place.pos + 2 <= Behind(n).pos
    PROVE  TypeOK'
<1>1. Move(n, next) /\ begin' = place /\ value' = 0 /\ depth' = depth
  BY DEF Begins
<1>2. depth \in Nat
  BY DEF TypeOK
<1>3. 0 <= MaxInt
  BY MaxIntIsNatural
<1>. QED BY <1>1, <1>2, <1>3, MoveTypes

LEMMA SkipTypes ==
    ASSUME TypeOK, mode # "done", NEW n \in {0, 1, 2}, NEW next \in Modes, Skip(n, next),
           next \notin {"blockComment", "hex", "binary"}
    PROVE  TypeOK'
<1>1. Move(n, next) /\ begin' = begin /\ value' = value /\ depth' = depth
  BY DEF Skip
<1>2. depth \in Nat /\ value \in Nat
  BY DEF TypeOK
<1>. QED BY <1>1, <1>2, MoveTypes

\* The digits have values.
LEMMA DigitValues == \A c \in Digits \cup HexLetters : DigitValue[c] \in Nat
<1>. SUFFICES ASSUME NEW c \in Digits \cup HexLetters PROVE DigitValue[c] \in Nat
  OBVIOUS
<1>1. CASE c \in {"0", "1", "2", "3", "4", "5", "6", "7"}
  BY <1>1 DEF DigitValue
<1>2. CASE c \in {"8", "9", "a", "b", "c", "d", "e", "f"}
  BY <1>2 DEF DigitValue
<1>3. CASE c \in {"A", "B", "C", "D", "E", "F"}
  BY <1>3 DEF DigitValue
<1>. QED BY <1>1, <1>2, <1>3 DEF Digits, HexLetters

LEMMA DigitTypes ==
    ASSUME TypeOK, NEW base \in Nat, Digit(base), peek \in Digits \cup HexLetters,
           mode \in {"hex", "binary", "decimal"},
           mode = "binary" => value * base + DigitValue[peek] <= MaxInt
    PROVE  TypeOK'
<1>1. /\ Move(1, mode) /\ begin' = begin /\ depth' = depth
      /\ value' = value * base + DigitValue[peek]
  BY DEF Digit
<1>2. depth \in Nat /\ value \in Nat /\ mode \in Modes /\ mode # "done"
  BY DEF TypeOK
<1>3. value' \in Nat
  BY <1>1, <1>2, DigitValues
<1>4. mode \in {"hex", "binary"} => begin'.pos + 2 <= Behind(1).pos
  <2>1. mode \in {"hex", "binary"} => begin.pos + 2 <= place.pos
    BY DEF TypeOK
  <2>2. Behind(1).pos \in Nat /\ place.pos <= Behind(1).pos /\ begin.pos \in Nat /\ place.pos \in Nat
    BY BehindFacts, PlaceFacts
  <2>. QED BY <1>1, <2>1, <2>2
<1>. QED BY <1>1, <1>2, <1>3, <1>4, MoveTypes

\* The errors of the loops name where their token began.
LEMMA ErrorAtBegin ==
    ASSUME TypeOK, NEW what \in Messages, lexicalError(what, begin)
    PROVE  TypeOK'
<1>1. begin \in Places
  BY DEF TypeOK
<1>. QED BY <1>1, ErrorTypes

LEMMA SpaceTypes == TypeOK /\ (Blank \/ LineComment \/ OpenComment) => TypeOK'
<1>. SUFFICES ASSUME TypeOK, Blank \/ LineComment \/ OpenComment PROVE TypeOK'
  OBVIOUS
<1>0. depth \in Nat /\ value \in Nat /\ "between" \in Modes /\ "lineComment" \in Modes /\ "blockComment" \in Modes
  BY DEF TypeOK, Modes
<1>1. CASE Blank
  <2>1. Skip(1, "between") /\ mode = "between"
    BY <1>1 DEF Blank, Skip
  <2>. QED BY <1>0, <2>1, SkipTypes
<1>2. CASE LineComment
  <2>1. (Skip(2, "lineComment") \/ Skip(1, "lineComment") \/ Skip(0, "between")) /\ mode # "done"
    BY <1>2 DEF LineComment, Skip
  <2>. QED BY <1>0, <2>1, SkipTypes
<1>3. CASE OpenComment
  <2>1. /\ Move(2, "blockComment") /\ begin' = place /\ depth' = 1 /\ value' = value
        /\ mode # "done" /\ peek # "end" /\ peekNext # "end"
    BY <1>3 DEF OpenComment, Opens
  <2>2. Behind(2) = advance(advance(place))
    BY DEF Behind
  <2>3. 2 * depth' <= Behind(2).pos - begin'.pos
    BY <2>1, <2>2, PlaceFacts
  <2>. QED BY <1>0, <2>1, <2>3, MoveTypes
<1>. QED BY <1>1, <1>2, <1>3

LEMMA BlockCommentTypes == TypeOK /\ BlockComment => TypeOK'
<1>. SUFFICES ASSUME TypeOK, BlockComment PROVE TypeOK'
  OBVIOUS
<1>1. /\ mode = "blockComment" /\ begin' = begin /\ value' = value
      /\ depth \in Nat /\ value \in Nat /\ 2 * depth <= place.pos - begin.pos
      /\ "between" \in Modes /\ "blockComment" \in Modes
  BY DEF BlockComment, TypeOK, Modes
<1>2. CASE Move(0, "between") /\ depth' = depth
  BY <1>1, <1>2, MoveTypes
<1>3. CASE lexicalError("comment", begin)
  BY <1>3, ErrorAtBegin DEF Messages
<1>4. ASSUME Opens("/", "*") \/ Opens("*", "/"), depth > 0, Move(2, mode),
             depth' = depth + 1 \/ depth' = depth - 1
      PROVE  TypeOK'
  <2>1. Behind(2) = advance(advance(place)) /\ peek # "end" /\ peekNext # "end"
    BY <1>4 DEF Behind, Opens
  <2>2. Behind(2).pos = place.pos + 2 /\ place.pos \in Nat /\ begin.pos \in Nat
    BY <2>1, PlaceFacts
  <2>3. depth' \in Nat /\ 2 * depth' <= Behind(2).pos - begin'.pos
    BY <1>1, <1>4, <2>2
  <2>. QED BY <1>1, <1>4, <2>3, MoveTypes
<1>5. CASE Move(1, mode) /\ depth' = depth
  <2>1. Behind(1).pos \in Nat /\ place.pos <= Behind(1).pos /\ place.pos \in Nat /\ begin.pos \in Nat
    BY BehindFacts, PlaceFacts
  <2>2. 2 * depth' <= Behind(1).pos - begin'.pos
    BY <1>1, <1>5, <2>1
  <2>. QED BY <1>1, <1>5, <2>2, MoveTypes
<1>6. \/ Move(0, "between") /\ depth' = depth
      \/ lexicalError("comment", begin)
      \/ /\ Opens("/", "*") \/ Opens("*", "/")
         /\ depth > 0 /\ Move(2, mode)
         /\ depth' = depth + 1 \/ depth' = depth - 1
      \/ Move(1, mode) /\ depth' = depth
  BY DEF BlockComment
<1>. QED BY <1>2, <1>3, <1>4, <1>5, <1>6

LEMMA WordTypes == TypeOK /\ (Word \/ identifierOrKeyword \/ String \/ stringLiteral) => TypeOK'
<1>. SUFFICES ASSUME TypeOK, Word \/ identifierOrKeyword \/ String \/ stringLiteral PROVE TypeOK'
  OBVIOUS
<1>0. 0 \in 0 .. MaxInt
  BY MaxIntIsNatural
<1>1. CASE Word
  <2>1. Begins("word", 0) /\ mode # "done"
    BY <1>1 DEF Word, AtToken
  <2>. QED BY <2>1, BeginsTypes DEF Modes
<1>2. CASE identifierOrKeyword
  <2>. DEFINE lexeme == SubSeq(text, begin.pos + 1, place.pos)
              type == IF lexeme \in DOMAIN Reserved THEN Reserved[lexeme] ELSE "Identifier"
  <2>1. mode = "word" /\ (Skip(1, mode) \/ Deliver(type, 0, 0))
    BY <1>2 DEF identifierOrKeyword
  <2>2. type \in TokenTypes
    BY LexerAssumption DEF TokenTypes, ReservedTypes
  <2>. HIDE DEF type
  <2>3. CASE Skip(1, mode)
    BY <2>1, <2>3, SkipTypes DEF Modes
  <2>4. CASE Deliver(type, 0, 0)
    BY <1>0, <2>1, <2>2, <2>4, DeliverTypes
  <2>. QED BY <2>1, <2>3, <2>4
<1>3. CASE String
  <2>1. Begins("string", 1) /\ mode # "done"
    BY <1>3 DEF String, AtToken
  <2>. QED BY <2>1, BeginsTypes DEF Modes
<1>4. CASE stringLiteral
  <2>1. /\ mode = "string"
        /\ \/ lexicalError("string", begin)
           \/ Deliver("StringLiteral", 1, 0)
           \/ lexicalError("escape", begin)
           \/ lexicalError("escape", advance(advance(place)))
           \/ Skip(2, mode) \/ Skip(1, mode)
    BY <1>4 DEF stringLiteral
  <2>2. CASE lexicalError("string", begin) \/ lexicalError("escape", begin)
    BY <2>2, ErrorAtBegin DEF Messages
  <2>3. CASE lexicalError("escape", advance(advance(place)))
    BY <2>3, ErrorTypes, PlaceFacts DEF Messages
  <2>4. CASE Deliver("StringLiteral", 1, 0)
    BY <1>0, <2>1, <2>4, DeliverTypes DEF TokenTypes
  <2>5. CASE Skip(2, mode) \/ Skip(1, mode)
    BY <2>1, <2>5, SkipTypes DEF Modes
  <2>. QED BY <2>1, <2>2, <2>3, <2>4, <2>5
<1>. QED BY <1>1, <1>2, <1>3, <1>4

LEMMA NumberTypes == TypeOK /\ (number \/ Hex \/ Binary) => TypeOK'
<1>. SUFFICES ASSUME TypeOK, number \/ Hex \/ Binary PROVE TypeOK'
  OBVIOUS
<1>1. CASE number
  <2>1. /\ mode # "done" /\ peek # "end"
        /\ \/ peekNext # "end" /\ Begins("hex", 2)
           \/ peekNext # "end" /\ Begins("binary", 2)
           \/ Begins("decimal", 0)
    BY <1>1 DEF number, AtToken, Digits
  <2>2. peekNext # "end" => place.pos + 2 <= Behind(2).pos
    <3>1. Behind(2) = advance(advance(place))
      BY DEF Behind
    <3>. QED BY <2>1, <3>1, PlaceFacts
  <2>. QED BY <2>1, <2>2, BeginsTypes DEF Modes
<1>2. CASE Hex
  <2>1. /\ mode = "hex"
        /\ \/ peek \in Digits \cup HexLetters /\ Digit(16)
           \/ lexicalError("digits", begin)
           \/ lexicalError("character", begin)
           \/ lexicalError("range", begin)
           \/ ~(value > MaxInt) /\ Deliver("IntLiteral", 0, value)
    BY <1>2 DEF Hex
  <2>2. CASE peek \in Digits \cup HexLetters /\ Digit(16)
    BY <2>1, <2>2, DigitTypes
  <2>3. CASE lexicalError("digits", begin) \/ lexicalError("character", begin) \/ lexicalError("range", begin)
    BY <2>3, ErrorAtBegin DEF Messages
  <2>4. CASE ~(value > MaxInt) /\ Deliver("IntLiteral", 0, value)
    <3>1. value \in 0 .. MaxInt
      BY <2>4, MaxIntIsNatural DEF TypeOK
    <3>. QED BY <2>1, <2>4, <3>1, DeliverTypes DEF TokenTypes
  <2>. QED BY <2>1, <2>2, <2>3, <2>4
<1>3. CASE Binary
  <2>1. /\ mode = "binary"
        /\ \/ peek \in {"0", "1"} /\ ~(value * 2 + DigitValue[peek] > MaxInt) /\ Digit(2)
           \/ lexicalError("digits", begin)
           \/ lexicalError("character", begin)
           \/ lexicalError("range", begin)
           \/ Deliver("IntLiteral", 0, value)
    BY <1>3 DEF Binary
  <2>2. CASE peek \in {"0", "1"} /\ ~(value * 2 + DigitValue[peek] > MaxInt) /\ Digit(2)
    <3>1. peek \in Digits \cup HexLetters
      BY <2>2 DEF Digits
    <3>2. value * 2 + DigitValue[peek] <= MaxInt
      <4>1. DigitValue[peek] \in Nat /\ value \in Nat /\ MaxInt \in Nat
        BY <3>1, DigitValues, MaxIntIsNatural DEF TypeOK
      <4>. QED BY <2>2, <4>1
    <3>. QED BY <2>1, <2>2, <3>1, <3>2, DigitTypes
  <2>3. CASE lexicalError("digits", begin) \/ lexicalError("character", begin) \/ lexicalError("range", begin)
    BY <2>3, ErrorAtBegin DEF Messages
  <2>4. CASE Deliver("IntLiteral", 0, value)
    <3>1. value \in 0 .. MaxInt
      BY <2>1, MaxIntIsNatural DEF TypeOK
    <3>. QED BY <2>1, <2>4, <3>1, DeliverTypes DEF TokenTypes
  <2>. QED BY <2>1, <2>2, <2>3, <2>4
<1>. QED BY <1>1, <1>2, <1>3

LEMMA DecimalTypes == TypeOK /\ Decimal => TypeOK'
<1>. SUFFICES ASSUME TypeOK, Decimal PROVE TypeOK'
  OBVIOUS
<1>1. /\ mode \in {"decimal", "fraction", "exponent"}
      /\ \/ mode = "decimal" /\ peek \in Digits /\ Digit(10)
         \/ Skip(1, "fraction") \/ Skip(1, "exponent") \/ Skip(2, "exponent")
         \/ lexicalError("digits", begin)
         \/ lexicalError("range", begin) \/ lexicalError("float", begin)
         \/ ~(value > MaxInt) /\ Deliver("IntLiteral", 0, value)
         \/ Deliver("FloatLiteral", 0, 0)
  BY DEF Decimal, Point, Exponent, Float
<1>2. CASE mode = "decimal" /\ peek \in Digits /\ Digit(10)
  BY <1>2, DigitTypes
<1>3. CASE Skip(1, "fraction") \/ Skip(1, "exponent") \/ Skip(2, "exponent")
  BY <1>1, <1>3, SkipTypes DEF Modes
<1>4. CASE lexicalError("digits", begin) \/ lexicalError("range", begin) \/ lexicalError("float", begin)
  BY <1>4, ErrorAtBegin DEF Messages
<1>5. CASE ~(value > MaxInt) /\ Deliver("IntLiteral", 0, value)
  <2>1. value \in 0 .. MaxInt
    BY <1>5, MaxIntIsNatural DEF TypeOK
  <2>. QED BY <1>1, <1>5, <2>1, DeliverTypes DEF TokenTypes
<1>6. CASE Deliver("FloatLiteral", 0, 0)
  <2>1. 0 \in 0 .. MaxInt
    BY MaxIntIsNatural
  <2>. QED BY <1>1, <1>6, <2>1, DeliverTypes DEF TokenTypes, ReservedTypes
<1>. QED BY <1>1, <1>2, <1>3, <1>4, <1>5, <1>6

LEMMA OperatorTypes == TypeOK /\ (Operator \/ End) => TypeOK'
<1>. SUFFICES ASSUME TypeOK, Operator \/ End PROVE TypeOK'
  OBVIOUS
<1>0. place \in Places /\ 0 \in 0 .. MaxInt /\ place.pos \in Nat
  BY MaxIntIsNatural, PlaceFacts DEF TypeOK
<1>1. CASE Operator
  <2>. DEFINE length == IF <<peek, peekNext>> \in Doubles THEN 2 ELSE 1
  <2>1. \/ /\ tokens' = Append(tokens, Token("Operator", place, place.pos + length, 0))
           /\ place' = IF length = 2 THEN advance(advance(place)) ELSE advance(place)
           /\ UNCHANGED <<text, mode, begin, depth, value, diagnostic>>
           /\ mode = "between"
        \/ lexicalError("character", place)
    BY <1>1 DEF Operator, AtToken
  <2>2. length \in Nat
    OBVIOUS
  <2>. HIDE DEF length
  <2>3. ASSUME tokens' = Append(tokens, Token("Operator", place, place.pos + length, 0)),
               place' = IF length = 2 THEN advance(advance(place)) ELSE advance(place),
               UNCHANGED <<text, mode, begin, depth, value, diagnostic>>,
               mode = "between"
        PROVE  TypeOK'
    <3>1. place.pos + length \in Nat /\ "Operator" \in TokenTypes
      BY <1>0, <2>2 DEF TokenTypes
    <3>2. tokens' \in
              Seq([type : TokenTypes, first : Nat, last : Nat, line : Nat, column : Nat, value : 0 .. MaxInt])
      BY <1>0, <2>3, <3>1, TokenTyped
    <3>3. place' \in Places /\ place'.pos <= Len(text) /\ begin.pos <= place'.pos
      BY <2>3, PlaceFacts DEF Places
    <3>. QED BY <2>3, <3>2, <3>3 DEF TypeOK
  <2>4. CASE lexicalError("character", place)
    BY <1>0, <2>4, ErrorTypes DEF Messages
  <2>. QED BY <2>1, <2>3, <2>4
<1>2. CASE End
  <2>1. /\ tokens' = Append(tokens, Token("EndOfFile", place, place.pos, 0)) /\ mode' = "done"
        /\ UNCHANGED <<text, place, begin, depth, value, diagnostic>>
    BY <1>2 DEF End
  <2>2. tokens' \in
            Seq([type : TokenTypes, first : Nat, last : Nat, line : Nat, column : Nat, value : 0 .. MaxInt])
    BY <1>0, <2>1, TokenTyped DEF TokenTypes
  <2>. QED BY <2>1, <2>2 DEF TypeOK, Modes
<1>. QED BY <1>1, <1>2

LEMMA TypeInit == Init => TypeOK
<1>. SUFFICES ASSUME Init PROVE TypeOK
  OBVIOUS
<1>1. text \in Texts /\ Len(text) \in Nat
  BY CharFacts DEF Init
<1>2. Start \in Places /\ Start.pos = 0
  BY DEF Start, Places
<1>3. NoError \in [what : Messages, at : Places]
  BY <1>2 DEF NoError, Messages
<1>. QED BY <1>1, <1>2, <1>3 DEF Init, TypeOK, Modes

LEMMA TypeStep == TypeOK /\ [Next]_vars => TypeOK'
<1>1. TypeOK /\ UNCHANGED vars => TypeOK'
  BY DEF TypeOK, vars
<1>. QED BY <1>1, SpaceTypes, BlockCommentTypes, WordTypes, NumberTypes, DecimalTypes, OperatorTypes
         DEF Next

\* The lexer stays in its text, counts no comment that has not been opened, and
\* delivers no int that is out of range.
THEOREM TypeCorrect == Spec => []TypeOK
<1>. QED BY TypeInit, TypeStep, PTL DEF Spec

-----------------------------------------------------------------------------
(* Lines and columns.                                                      *)

\* The characters up to a position that are new lines.
NewLines(pos) == {i \in 1 .. pos : text[i] = "\n"}

\* The first place of a text, and the one behind a character.
Placed(p) == p.line = LineAt(p.pos + 1) /\ p.column = ColumnAt(p.pos + 1)

LEMMA NewLinesFacts ==
    ASSUME NEW pos \in Nat
    PROVE  /\ IsFiniteSet(NewLines(pos)) /\ NewLines(pos) \subseteq 1 .. pos
           /\ Cardinality(NewLines(pos)) \in Nat
           /\ NewLines(pos + 1) = IF text[pos + 1] = "\n" THEN NewLines(pos) \cup {pos + 1} ELSE NewLines(pos)
           /\ LineAt(pos + 1) = 1 + Cardinality(NewLines(pos))
           /\ ColumnAt(pos + 1) = (pos + 1) - Max({0} \cup NewLines(pos))
<1>1. NewLines(pos) \subseteq 1 .. pos
  BY DEF NewLines
<1>2. IsFiniteSet(1 .. pos)
  BY FS_Interval
<1>3. IsFiniteSet(NewLines(pos))
  BY <1>1, <1>2, FS_Subset
<1>4. Cardinality(NewLines(pos)) \in Nat
  BY <1>3, FS_CardinalityType
<1>5. NewLines(pos + 1) = IF text[pos + 1] = "\n" THEN NewLines(pos) \cup {pos + 1} ELSE NewLines(pos)
  BY DEF NewLines
<1>6. \A first : first - 1 = pos =>
          LineAt(first) = 1 + Cardinality(NewLines(pos)) /\ ColumnAt(first) = first - Max({0} \cup NewLines(pos))
  BY Zenon DEF LineAt, ColumnAt, NewLines
<1>7. LineAt(pos + 1) = 1 + Cardinality(NewLines(pos)) /\ ColumnAt(pos + 1) = (pos + 1) - Max({0} \cup NewLines(pos))
  <2>. DEFINE first == pos + 1
  <2>1. first - 1 = pos
    OBVIOUS
  <2>. HIDE DEF first
  <2>2. LineAt(first) = 1 + Cardinality(NewLines(pos)) /\ ColumnAt(first) = first - Max({0} \cup NewLines(pos))
    BY <1>6, <2>1, Zenon
  <2>. QED BY <2>2, Zenon DEF first
<1>. QED BY <1>1, <1>3, <1>4, <1>5, <1>7

\* A number that belongs to a set and is not exceeded in it is its maximum.
LEMMA MaxIs ==
    ASSUME NEW S \in SUBSET Int, NEW m \in S, \A k \in S : k <= m
    PROVE  Max(S) = m
<1>1. \A x \in S : (\A y \in S : x >= y) => x = m
  OBVIOUS
<1>2. \A y \in S : m >= y
  OBVIOUS
<1>. QED BY <1>1, <1>2 DEF Max

LEMMA PlacedStart == text \in Texts => Placed(Start)
<1>1. NewLines(0) = {}
  BY DEF NewLines
<1>2. Cardinality({}) = 0
  BY FS_EmptySet
<1>3. Max({0}) = 0
  BY MaxIs
<1>4. {0} \cup {} = {0}
  OBVIOUS
<1>5. LineAt(0 + 1) = 1 + Cardinality(NewLines(0)) /\ ColumnAt(0 + 1) = (0 + 1) - Max({0} \cup NewLines(0))
  BY NewLinesFacts
<1>. QED BY <1>1, <1>2, <1>3, <1>4, <1>5 DEF Placed, Start

\* Counting goes along with reading.
LEMMA PlacedBehind ==
    ASSUME text \in Texts, NEW p \in Places, p.pos <= Len(text), Placed(p)
    PROVE  Placed(advance(p))
<1>1. p.pos \in Nat /\ p.line \in Nat /\ p.column \in Nat
  BY DEF Places
<1>. DEFINE pos == p.pos
            lines == NewLines(pos)
<1>2. /\ pos \in Nat
      /\ p.line = 1 + Cardinality(lines) /\ p.column = (pos + 1) - Max({0} \cup lines)
      /\ IsFiniteSet(lines) /\ lines \subseteq 1 .. pos /\ Cardinality(lines) \in Nat
      /\ NewLines(pos + 1) = IF text[pos + 1] = "\n" THEN lines \cup {pos + 1} ELSE lines
      /\ LineAt(pos + 1 + 1) = 1 + Cardinality(NewLines(pos + 1))
      /\ ColumnAt(pos + 1 + 1) = (pos + 1 + 1) - Max({0} \cup NewLines(pos + 1))
  <2>1. pos + 1 \in Nat
    BY <1>1
  <2>. QED BY <1>1, <2>1, NewLinesFacts DEF Placed
<1>3. CharAt(pos) # "end" => CharAt(pos) = text[pos + 1]
  BY <1>1, CharFacts
<1>4. CASE CharAt(pos) = "end"
  <2>1. advance(p) = p
    BY <1>4 DEF advance
  <2>. QED BY <2>1
<1>5. CASE CharAt(pos) = "\n"
  <2>1. advance(p) = [pos |-> pos + 1, line |-> p.line + 1, column |-> 1]
    BY <1>5 DEF advance
  <2>2. NewLines(pos + 1) = lines \cup {pos + 1}
    BY <1>2, <1>3, <1>5
  <2>3. Cardinality(lines \cup {pos + 1}) = Cardinality(lines) + 1
    <3>1. pos + 1 \notin lines
      BY <1>2
    <3>. QED BY <1>2, <3>1, FS_AddElement
  <2>4. Max({0} \cup (lines \cup {pos + 1})) = pos + 1
    <3>. DEFINE S == {0} \cup (lines \cup {pos + 1})
    <3>1. S \in SUBSET Int /\ pos + 1 \in S /\ \A k \in S : k <= pos + 1
      BY <1>2
    <3>. QED BY <3>1, MaxIs
  <2>5. LineAt(pos + 1 + 1) = p.line + 1 /\ ColumnAt(pos + 1 + 1) = 1
    <3>. HIDE DEF pos, lines
    <3>1. ColumnAt(pos + 1 + 1) = (pos + 1 + 1) - (pos + 1)
      BY <1>2, <2>2, <2>4
    <3>2. LineAt(pos + 1 + 1) = 1 + (Cardinality(lines) + 1)
      BY <1>2, <2>2, <2>3
    <3>. QED BY <1>2, <3>1, <3>2
  <2>. QED BY <2>1, <2>5 DEF Placed
<1>6. CASE CharAt(pos) \notin {"end", "\n"}
  <2>1. advance(p) = [p EXCEPT !.pos = @ + 1, !.column = @ + 1]
    BY <1>6 DEF advance
  <2>2. advance(p) = [pos |-> pos + 1, line |-> p.line, column |-> p.column + 1]
    BY <2>1 DEF Places
  <2>3. NewLines(pos + 1) = lines
    BY <1>2, <1>3, <1>6
  <2>4. Max({0} \cup lines) \in Int
    <3>1. CASE lines = {}
      <4>. HIDE DEF lines
      <4>1. Max({0}) = 0
        BY MaxIs
      <4>2. {0} \cup lines = {0}
        BY <3>1
      <4>3. Max({0} \cup lines) = 0
        BY <4>1, <4>2, Zenon
      <4>. QED BY <4>3
    <3>2. CASE lines # {}
      <4>1. PICK m \in lines : \A k \in lines : k <= m
        BY <1>2, <3>2, Greatest
      <4>. DEFINE S == {0} \cup lines
      <4>2. S \in SUBSET Int /\ m \in S /\ \A k \in S : k <= m
        BY <1>2, <4>1
      <4>3. Max(S) = m
        BY <4>2, MaxIs
      <4>. QED BY <4>2, <4>3
    <3>. QED BY <3>1, <3>2
  <2>5. LineAt(pos + 1 + 1) = p.line /\ ColumnAt(pos + 1 + 1) = p.column + 1
    <3>. DEFINE m == Max({0} \cup lines)
    <3>1. m \in Int /\ p.column = (pos + 1) - m /\ ColumnAt(pos + 1 + 1) = (pos + 1 + 1) - m
      BY <1>2, <2>3, <2>4
    <3>2. LineAt(pos + 1 + 1) = p.line
      BY <1>2, <2>3
    <3>. HIDE DEF pos, m
    <3>. QED BY <1>2, <3>1, <3>2
  <2>. QED BY <2>2, <2>5 DEF Placed
<1>. QED BY <1>4, <1>5, <1>6

\* The kinds of steps: a loop goes on or another takes over, a token ends, an
\* error ends it all.
Moves    == (\E n \in {0, 1, 2}, next \in Modes : Move(n, next)) /\ begin' \in {begin, place}
Delivers == \E n \in {0, 1} : \E type, v : Deliver(type, n, v)
Errs     == \E at \in {begin, place, advance(advance(place))} : \E what : lexicalError(what, at)

LEMMA KindsOfSteps == TypeOK /\ Next => Moves \/ Delivers \/ Errs \/ Operator \/ End
<1>. SUFFICES ASSUME TypeOK, Next PROVE Moves \/ Delivers \/ Errs \/ Operator \/ End
  OBVIOUS
<1>0. \A n \in {0, 1, 2}, next \in Modes : Skip(n, next) \/ Begins(next, n) => Moves
  BY DEF Skip, Begins, Moves
<1>1. \A base : Digit(base) => Moves
  <2>1. mode \in Modes
    BY DEF TypeOK
  <2>. QED BY <2>1 DEF Digit, Moves
<1>2. \A what : lexicalError(what, begin) \/ lexicalError(what, place)
                   \/ lexicalError(what, advance(advance(place))) => Errs
  BY Zenon DEF Errs
<1>3. \A type, v : Deliver(type, 0, v) \/ Deliver(type, 1, v) => Delivers
  BY Zenon DEF Delivers
<1>4. Blank \/ LineComment => Moves
  <2>1. Blank => Skip(1, "between")
    BY DEF Blank, Skip
  <2>2. LineComment => Skip(2, "lineComment") \/ Skip(1, "lineComment") \/ Skip(0, "between")
    BY DEF LineComment, Skip
  <2>. QED BY <1>0, <2>1, <2>2 DEF Modes
<1>5. OpenComment => Moves
  BY DEF OpenComment, Moves, Modes
<1>6. BlockComment => Moves \/ Errs
  <2>1. BlockComment => \/ Move(0, "between") \/ Move(1, mode) \/ Move(2, mode)
                        \/ lexicalError("comment", begin)
    BY DEF BlockComment
  <2>2. BlockComment => begin' = begin /\ mode \in Modes /\ "between" \in Modes
    BY DEF BlockComment, TypeOK, Modes
  <2>. QED BY <1>2, <2>1, <2>2 DEF Moves
<1>7. Word \/ number \/ String => Moves
  <2>1. Word => Begins("word", 0)
    BY DEF Word
  <2>2. number => Begins("hex", 2) \/ Begins("binary", 2) \/ Begins("decimal", 0)
    BY DEF number
  <2>3. String => Begins("string", 1)
    BY DEF String
  <2>. QED BY <1>0, <2>1, <2>2, <2>3 DEF Modes
<1>8. identifierOrKeyword => Moves \/ Delivers
  <2>1. identifierOrKeyword => Skip(1, "word") \/ \E type : Deliver(type, 0, 0)
    BY Zenon DEF identifierOrKeyword
  <2>. QED BY <1>0, <1>3, <2>1 DEF Modes
<1>9. Hex => Moves \/ Delivers \/ Errs
  <2>1. Hex => \/ Digit(16) \/ Deliver("IntLiteral", 0, value)
               \/ \E what : lexicalError(what, begin)
    BY DEF Hex
  <2>. QED BY <1>1, <1>2, <1>3, <2>1
<1>10. Binary => Moves \/ Delivers \/ Errs
  <2>1. Binary => \/ Digit(2) \/ Deliver("IntLiteral", 0, value)
                  \/ \E what : lexicalError(what, begin)
    BY DEF Binary
  <2>. QED BY <1>1, <1>2, <1>3, <2>1
<1>11. Decimal => Moves \/ Delivers \/ Errs
  <2>1. Decimal => \/ Digit(10) \/ Skip(1, "fraction") \/ Skip(1, "exponent") \/ Skip(2, "exponent")
                   \/ Deliver("IntLiteral", 0, value) \/ Deliver("FloatLiteral", 0, 0)
                   \/ lexicalError("digits", begin) \/ lexicalError("range", begin)
                   \/ lexicalError("float", begin)
    BY DEF Decimal, Point, Exponent, Float
  <2>. QED BY <1>0, <1>1, <1>2, <1>3, <2>1 DEF Modes
<1>12. stringLiteral => Moves \/ Delivers \/ Errs
  <2>1. stringLiteral => \/ lexicalError("string", begin)
                         \/ Deliver("StringLiteral", 1, 0)
                         \/ lexicalError("escape", begin)
                         \/ lexicalError("escape", advance(advance(place)))
                         \/ Skip(2, "string") \/ Skip(1, "string")
    BY DEF stringLiteral
  <2>. QED BY <1>0, <1>2, <1>3, <2>1 DEF Modes
<1>. QED BY <1>4, <1>5, <1>6, <1>7, <1>8, <1>9, <1>10, <1>11, <1>12 DEF Next

\* A step reads up to two characters, and names no other places than where it
\* begins, where its token began and, for an escape, where it ends.
LEMMA StepPlaces ==
    ASSUME TypeOK, Next
    PROVE  /\ text' = text
           /\ place' \in {place, advance(place), advance(advance(place))}
           /\ begin' \in {begin, place}
           /\ \/ tokens' = tokens
              \/ \E from \in {begin, place} :
                     \E type, last, v : tokens' = Append(tokens, Token(type, from, last, v))
           /\ \/ diagnostic' = diagnostic
              \/ diagnostic'.at \in {begin, place, advance(advance(place))}
<1>1. CASE Moves
  BY <1>1 DEF Moves, Move
<1>2. CASE Delivers
  BY <1>2 DEF Delivers, Deliver
<1>3. CASE Errs
  BY <1>3 DEF Errs, lexicalError
<1>4. CASE Operator
  <2>1. CASE \E what : lexicalError(what, place)
    BY <2>1 DEF lexicalError
  <2>2. CASE \E last : /\ tokens' = Append(tokens, Token("Operator", place, last, 0))
                       /\ place' \in {advance(place), advance(advance(place))}
                       /\ UNCHANGED <<text, begin, diagnostic>>
    BY <2>2
  <2>. QED BY <1>4, <2>1, <2>2 DEF Operator
<1>5. CASE End
  BY <1>5 DEF End
<1>. QED BY <1>1, <1>2, <1>3, <1>4, <1>5, KindsOfSteps

\* Every place that is kept is the right one.
PlacesOK == Placed(place) /\ Placed(begin) /\ PlacesTrue

LEMMA PlacesStep == TypeOK /\ PlacesOK /\ [Next]_vars => PlacesOK'
<1>. SUFFICES ASSUME TypeOK, PlacesOK, [Next]_vars PROVE PlacesOK'
  OBVIOUS
<1>1. CASE UNCHANGED vars
  BY <1>1 DEF vars, PlacesOK, PlacesTrue, Placed, LineAt, ColumnAt
<1>2. CASE Next
  <2>1. text' = text
    BY <1>2, StepPlaces
  <2>2. \A n : LineAt(n)' = LineAt(n) /\ ColumnAt(n)' = ColumnAt(n)
    BY <2>1 DEF LineAt, ColumnAt
  <2>3. /\ Placed(place) /\ Placed(begin)
        /\ Placed(advance(place)) /\ Placed(advance(advance(place)))
    <3>1. /\ text \in Texts /\ place \in Places /\ place.pos <= Len(text)
          /\ advance(place) \in Places /\ advance(place).pos <= Len(text)
      BY PlaceFacts DEF TypeOK
    <3>2. Placed(place) /\ Placed(begin)
      BY DEF PlacesOK
    <3>3. Placed(advance(place))
      BY <3>1, <3>2, PlacedBehind
    <3>4. Placed(advance(advance(place)))
      BY <3>1, <3>3, PlacedBehind
    <3>. QED BY <3>2, <3>3, <3>4
  <2>4. Placed(place)' /\ Placed(begin)'
    BY <1>2, <2>2, <2>3, StepPlaces DEF Placed
  <2>5. ASSUME tokens' # <<>>
        PROVE  Last(tokens)'.line = LineAt(Last(tokens)'.first) /\ Last(tokens)'.column = ColumnAt(Last(tokens)'.first)
    <3>1. CASE tokens' = tokens
      BY <2>5, <3>1 DEF PlacesOK, PlacesTrue, Last
    <3>2. ASSUME NEW from \in {begin, place}, NEW type, NEW last, NEW v,
                 tokens' = Append(tokens, Token(type, from, last, v))
          PROVE  /\ Last(tokens)'.line = LineAt(Last(tokens)'.first)
                 /\ Last(tokens)'.column = ColumnAt(Last(tokens)'.first)
      <4>1. Last(tokens)' = Token(type, from, last, v)
        <5>. DEFINE t == Token(type, from, last, v)
        <5>1. tokens' = Append(tokens, t)
          BY <3>2
        <5>2. Len(tokens') = Len(tokens) + 1 /\ tokens'[Len(tokens) + 1] = t
          <6>. HIDE DEF t
          <6>1. PICK T : tokens \in Seq(T)
            BY DEF TypeOK
          <6>. QED BY <5>1, <6>1
        <5>. QED BY <5>2 DEF Last
      <4>2. Placed(from)
        BY <2>3
      <4>. QED BY <4>1, <4>2 DEF Placed, Token
    <3>. QED BY <1>2, <3>1, <3>2, StepPlaces
  <2>6. diagnostic'.at.line = LineAt(diagnostic'.at.pos + 1) /\ diagnostic'.at.column = ColumnAt(diagnostic'.at.pos + 1)
    <3>1. CASE diagnostic' = diagnostic
      BY <3>1 DEF PlacesOK, PlacesTrue
    <3>2. CASE diagnostic'.at \in {begin, place, advance(advance(place))}
      BY <2>3, <3>2 DEF Placed
    <3>. QED BY <1>2, <3>1, <3>2, StepPlaces
  <2>. QED BY <2>2, <2>4, <2>5, <2>6 DEF PlacesOK, PlacesTrue
<1>. QED BY <1>1, <1>2

\* Every token and every error is reported at its line and column.
THEOREM ReportedWhereItIs == Spec => []PlacesTrue
<1>1. Init => PlacesOK
  <2>. SUFFICES ASSUME Init PROVE PlacesOK
    OBVIOUS
  <2>1. text \in Texts /\ place = Start /\ begin = Start /\ tokens = <<>> /\ diagnostic = NoError
    BY DEF Init
  <2>2. Placed(Start)
    BY <2>1, PlacedStart
  <2>3. NoError.at = Start
    BY DEF NoError
  <2>. QED BY <2>1, <2>2, <2>3 DEF PlacesOK, PlacesTrue, Placed
<1>2. PlacesOK => PlacesTrue
  BY DEF PlacesOK
<1>. QED BY <1>1, <1>2, PlacesStep, TypeCorrect, PTL DEF Spec

-----------------------------------------------------------------------------
(* Blanks and comments.                                                    *)

LEMMA TextIsSequence == ASSUME text \in Texts PROVE text \in Seq(STRING \ {"end"})
<1>. QED BY LexerAssumption

\* Two parts of sequences with the same elements are the same.
LEMMA SameElements ==
    ASSUME NEW s \in Seq(STRING), NEW t \in Seq(STRING), NEW n \in Nat, Len(s) = n, Len(t) = n,
           \A i \in 1 .. n : s[i] = t[i]
    PROVE  s = t
<1>. QED OBVIOUS

\* A part of the text.
LEMMA PartFacts ==
    ASSUME text \in Texts, NEW a \in Nat, NEW b \in Nat, a <= b, b <= Len(text)
    PROVE  /\ Part(a + 1, b) \in Seq(STRING) /\ Len(Part(a + 1, b)) = b - a
           /\ \A i \in 1 .. b - a : Part(a + 1, b)[i] = text[a + i]
<1>1. \A i \in 1 .. Len(text) : text[i] \in STRING
  <2>1. text \in Seq(STRING \ {"end"})
    BY TextIsSequence
  <2>. QED BY <2>1
<1>. DEFINE m == a + 1
            n == Len(text)
<1>2. n \in Nat
  BY CharFacts
<1>3. m \in Int /\ b \in Int /\ \A i \in m .. b : text[i] \in STRING
  <2>1. \A i \in m .. b : i \in 1 .. n
    BY <1>2
  <2>. QED BY <1>1, <2>1
<1>4. m + 0 = a + 1 /\ b - m + 1 = b - a /\ (b < m => b - a = 0) /\ \A i \in Int : m + i - 1 = a + i
  OBVIOUS
<1>. HIDE DEF m, n
<1>5. /\ SubSeq(text, m, b) \in Seq(STRING)
      /\ Len(SubSeq(text, m, b)) = IF m <= b THEN b - m + 1 ELSE 0
      /\ \A i \in 1 .. b - m + 1 : SubSeq(text, m, b)[i] = text[m + i - 1]
  BY <1>3, SubSeqProperties
<1>6. Len(SubSeq(text, m, b)) = b - a
  BY <1>3, <1>4, <1>5
<1>7. \A i \in 1 .. b - a : SubSeq(text, m, b)[i] = text[a + i]
  BY <1>4, <1>5
<1>. QED BY <1>5, <1>6, <1>7 DEF Part, m

\* What lies between two cuts.
Between(s, i, j) == SubSeq(s, i + 1, j)

\* A part of a part of the text is a part of the text.
LEMMA PartOfPart ==
    ASSUME text \in Texts, NEW a \in Nat, NEW b \in Nat, a <= b, b <= Len(text),
           NEW i \in Nat, NEW j \in Nat, i <= j, a + j <= b
    PROVE  Between(Part(a + 1, b), i, j) = Part((a + i) + 1, a + j)
<1>. DEFINE s == Part(a + 1, b)
            c == a + i
            d == a + j
            t == Part(c + 1, d)
            m == i + 1
            n == j - i
<1>1. /\ c \in Nat /\ d \in Nat /\ c <= d /\ d <= b /\ d - c = n /\ n \in Nat /\ m \in Int /\ j \in Int
      /\ j - m + 1 = n /\ (j < m => n = 0)
  OBVIOUS
<1>2. d <= Len(text)
  BY <1>1, CharFacts
<1>3. s \in Seq(STRING) /\ Len(s) = b - a /\ \A k \in 1 .. b - a : s[k] = text[a + k]
  BY PartFacts
<1>4. t \in Seq(STRING) /\ Len(t) = d - c /\ \A k \in 1 .. d - c : t[k] = text[c + k]
  BY <1>1, <1>2, PartFacts
<1>5. \A k \in m .. j : k \in 1 .. b - a
  OBVIOUS
<1>6. \A k \in 1 .. n : m + k - 1 \in 1 .. b - a /\ a + (m + k - 1) = c + k
  OBVIOUS
<1>. HIDE DEF s, t
<1>7. \A k \in m .. j : s[k] \in STRING
  <2>1. \A k \in 1 .. b - a : s[k] \in STRING
    BY <1>3
  <2>. QED BY <1>5, <2>1
<1>8. /\ SubSeq(s, m, j) \in Seq(STRING)
      /\ Len(SubSeq(s, m, j)) = IF m <= j THEN j - m + 1 ELSE 0
      /\ \A k \in 1 .. j - m + 1 : SubSeq(s, m, j)[k] = s[m + k - 1]
  <2>. HIDE DEF m
  <2>. QED BY <1>1, <1>7, SubSeqProperties, SMTT(40)
<1>. HIDE DEF c, d, m, n
<1>9. Len(SubSeq(s, m, j)) = n
  BY <1>1, <1>8
<1>10. \A k \in 1 .. n : SubSeq(s, m, j)[k] = t[k]
  BY <1>1, <1>3, <1>4, <1>6, <1>8
<1>11. SubSeq(s, m, j) = t
  BY <1>1, <1>4, <1>8, <1>9, <1>10, SameElements
<1>. QED BY <1>11 DEF Between, s, t, c, d, m

\* The text from one position to another is nothing but blanks and comments.
Space(a, b) == a <= b /\ IsSpace(Part(a + 1, b))

LEMMA SpaceEmpty ==
    ASSUME text \in Texts, NEW a \in Nat, a <= Len(text)
    PROVE  Space(a, a)
<1>. DEFINE s == Part(a + 1, a)
<1>1. Len(s) = 0
  <2>1. a <= a /\ a - a = 0
    OBVIOUS
  <2>. QED BY <2>1, PartFacts
<1>. HIDE DEF s
<1>2. {0} \in SUBSET (0 .. 0) /\ {0, 0} \subseteq {0} /\ \A i, j \in {0} : ~(i < j)
  OBVIOUS
<1>3. IsSpace(s)
  BY <1>1, <1>2, Zenon DEF IsSpace, Between
<1>. QED BY <1>3 DEF Space, s

\* One more piece makes one more cut.
LEMMA SpaceGrows ==
    ASSUME text \in Texts, NEW a \in Nat, NEW b \in Nat, NEW c \in Nat,
           Space(a, b), b < c, c <= Len(text), IsGap(Part(b + 1, c))
    PROVE  Space(a, c)
<1>. DEFINE s == Part(a + 1, b)
            t == Part(a + 1, c)
<1>1. a <= b /\ IsSpace(s)
  BY DEF Space
<1>2. Len(text) \in Nat /\ b <= Len(text) /\ a <= c
  BY <1>1, CharFacts
<1>3. Len(s) = b - a /\ Len(t) = c - a
  BY <1>1, <1>2, PartFacts
<1>4. ASSUME NEW i \in Nat, NEW j \in Nat, i <= j, a + j <= b
      PROVE  Between(t, i, j) = Between(s, i, j)
  <2>1. a + j <= c
    BY <1>4
  <2>2. Between(s, i, j) = Part((a + i) + 1, a + j)
    <3>1. i <= j /\ a + j <= b /\ a <= b /\ b <= Len(text)
      BY <1>1, <1>2, <1>4
    <3>2. Between(Part(a + 1, b), i, j) = Part((a + i) + 1, a + j)
      <4>. HIDE DEF s, t
      <4>. QED BY <3>1, PartOfPart
    <3>. QED BY <3>2
  <2>3. Between(t, i, j) = Part((a + i) + 1, a + j)
    <3>1. i <= j /\ a + j <= c /\ a <= c /\ c <= Len(text)
      BY <1>2, <1>4, <2>1
    <3>2. Between(Part(a + 1, c), i, j) = Part((a + i) + 1, a + j)
      <4>. HIDE DEF s, t
      <4>. QED BY <3>1, PartOfPart
    <3>. QED BY <3>2
  <2>. QED BY <2>2, <2>3
<1>5. Between(t, b - a, c - a) = Part(b + 1, c)
  <2>. DEFINE i == b - a
              j == c - a
  <2>1. i \in Nat /\ j \in Nat /\ i <= j /\ a + i = b /\ a + j = c /\ a + j <= c
    BY <1>1
  <2>. HIDE DEF i, j
  <2>2. Between(t, i, j) = Part((a + i) + 1, a + j)
    <3>1. i \in Nat /\ j \in Nat /\ i <= j /\ a + j <= c /\ a <= c /\ c <= Len(text)
      BY <1>2, <2>1
    <3>2. Between(Part(a + 1, c), i, j) = Part((a + i) + 1, a + j)
      <4>. HIDE DEF s, t
      <4>. QED BY <3>1, PartOfPart
    <3>. QED BY <3>2
  <2>. QED BY <2>1, <2>2 DEF i, j
<1>. HIDE DEF s, t
<1>6. PICK cuts \in SUBSET (0 .. b - a) :
          /\ {0, b - a} \subseteq cuts
          /\ \A i, j \in cuts : i < j /\ (\A k \in cuts : k <= i \/ j <= k) => IsGap(Between(s, i, j))
  BY <1>1, <1>3 DEF IsSpace, Between
<1>. DEFINE more == cuts \cup {c - a}
<1>7. more \in SUBSET (0 .. c - a) /\ {0, c - a} \subseteq more
  BY <1>1, <1>6
<1>8. ASSUME NEW i \in more, NEW j \in more, i < j, \A k \in more : k <= i \/ j <= k
      PROVE  IsGap(Between(t, i, j))
  <2>1. CASE j = c - a
    <3>1. b - a \in more /\ b - a < c - a
      BY <1>1, <1>6
    <3>2. b - a <= i
      BY <1>8, <2>1, <3>1
    <3>3. i \in cuts
      BY <1>8, <2>1
    <3>4. i = b - a
      BY <1>1, <1>6, <3>2, <3>3
    <3>. QED BY <1>5, <2>1, <3>4
  <2>2. CASE j # c - a
    <3>1. j \in cuts
      BY <2>2
    <3>2. j < c - a
      BY <1>1, <1>6, <3>1
    <3>3. i # c - a
      BY <1>1, <1>6, <1>8, <3>1, <3>2
    <3>4. i \in cuts
      BY <3>3
    <3>5. IsGap(Between(s, i, j))
      BY <1>6, <1>8, <3>1, <3>4
    <3>6. i \in Nat /\ j \in Nat /\ i <= j /\ a + j <= b
      BY <1>1, <1>6, <1>8, <3>1, <3>4
    <3>. QED BY <1>4, <3>5, <3>6
  <2>. QED BY <2>1, <2>2
<1>. HIDE DEF more
<1>9. IsSpace(t)
  BY <1>3, <1>7, <1>8 DEF IsSpace, Between
<1>. QED BY <1>2, <1>9 DEF Space, t

\* A line comment has begun at s and has not ended at b.
InLineComment(s, b) ==
    /\ s + 2 <= b
    /\ text[s + 1] = "/" /\ text[s + 2] = "/"
    /\ \A i \in s + 1 .. b : text[i] # "\n"

LEMMA LineCommentEnds ==
    ASSUME text \in Texts, NEW s \in Nat, NEW b \in Nat, b <= Len(text), InLineComment(s, b)
    PROVE  IsGap(Part(s + 1, b))
<1>. DEFINE t == Part(s + 1, b)
            n == b - s
<1>1. s + 2 <= b /\ s <= b
  BY DEF InLineComment
<1>2. t \in Seq(STRING) /\ Len(t) = n /\ \A i \in 1 .. n : t[i] = text[s + i]
  BY <1>1, PartFacts
<1>3. n \in Nat /\ n >= 2 /\ \A i \in 1 .. n : s + i \in s + 1 .. b
  BY <1>1
<1>. HIDE DEF t, n
<1>4. Len(t) >= 2 /\ t[1] = "/" /\ t[2] = "/"
  BY <1>2, <1>3 DEF InLineComment
<1>5. ASSUME NEW i \in DOMAIN t PROVE t[i] \in STRING \ {"\n"}
  <2>1. i \in 1 .. n /\ t[i] \in STRING
    BY <1>2
  <2>2. t[i] # "\n"
    BY <1>2, <1>3, <2>1 DEF InLineComment
  <2>. QED BY <2>1, <2>2
<1>6. IsLineComment(t)
  BY <1>4, <1>5 DEF IsLineComment, AllIn
<1>. QED BY <1>6 DEF IsGap, t

LEMMA BlankIsGap ==
    ASSUME text \in Texts, NEW b \in Nat, b + 1 <= Len(text), text[b + 1] \in Blanks
    PROVE  IsGap(Part(b + 1, b + 1))
<1>. DEFINE c == b + 1
            t == Part(b + 1, c)
<1>1. c \in Nat /\ b <= c /\ c <= Len(text) /\ c - b = 1
  OBVIOUS
<1>. HIDE DEF c
<1>2. Len(t) = c - b /\ \A i \in 1 .. c - b : t[i] = text[b + i]
  BY <1>1, PartFacts
<1>3. IsBlank(t)
  <2>. HIDE DEF t
  <2>. QED BY <1>1, <1>2 DEF IsBlank
<1>. QED BY <1>3 DEF IsGap, c

-----------------------------------------------------------------------------
(* Nested comments.                                                        *)

\* Both marks, as pairs of characters.
MarkPairs == {<<"/", "*">>, <<"*", "/">>}

\* The marks up to k, counted from b, that begin with a character.
MarksWith(b, marks, k, c) == {i \in marks : i <= k /\ text[b + i] = c}
\* The comments that the marks up to k leave open.
OpenFrom(b, marks, k) ==
    Cardinality(MarksWith(b, marks, k, "/")) - Cardinality(MarksWith(b, marks, k, "*"))

LEMMA MarksFinite ==
    ASSUME NEW b \in Nat, NEW m \in Nat, NEW marks \in SUBSET (1 .. m), NEW k \in Nat, NEW c
    PROVE  IsFiniteSet(MarksWith(b, marks, k, c)) /\ Cardinality(MarksWith(b, marks, k, c)) \in Nat
<1>1. IsFiniteSet(1 .. m)
  BY FS_Interval
<1>2. MarksWith(b, marks, k, c) \subseteq 1 .. m
  BY DEF MarksWith
<1>3. IsFiniteSet(MarksWith(b, marks, k, c))
  BY <1>1, <1>2, FS_Subset
<1>. QED BY <1>3, FS_CardinalityType

\* A mark behind k is not counted up to k, and nothing is counted twice.
LEMMA OpenKept ==
    ASSUME NEW b \in Nat, NEW m \in Nat, NEW marks \in SUBSET (1 .. m), NEW k \in Nat
    PROVE  /\ OpenFrom(b, marks, k) \in Int
           /\ m <= k => OpenFrom(b, marks, k) = OpenFrom(b, marks, m)
           /\ \A j \in Nat : k < j => OpenFrom(b, marks \cup {j}, k) = OpenFrom(b, marks, k)
<1>1. OpenFrom(b, marks, k) \in Int
  <2>1. /\ Cardinality(MarksWith(b, marks, k, "/")) \in Nat
        /\ Cardinality(MarksWith(b, marks, k, "*")) \in Nat
    BY MarksFinite
  <2>. QED BY <2>1 DEF OpenFrom
<1>2. ASSUME m <= k PROVE OpenFrom(b, marks, k) = OpenFrom(b, marks, m)
  <2>1. \A i \in marks : i <= k /\ i <= m
    BY <1>2
  <2>2. \A c : MarksWith(b, marks, k, c) = MarksWith(b, marks, m, c)
    BY <2>1 DEF MarksWith
  <2>. QED BY <2>2 DEF OpenFrom
<1>3. ASSUME NEW j \in Nat, k < j PROVE OpenFrom(b, marks \cup {j}, k) = OpenFrom(b, marks, k)
  <2>1. \A c : MarksWith(b, marks \cup {j}, k, c) = MarksWith(b, marks, k, c)
    BY <1>3 DEF MarksWith
  <2>. QED BY <2>1 DEF OpenFrom
<1>. QED BY <1>1, <1>2, <1>3

\* One mark more opens a comment or closes one.
LEMMA OpenGrows ==
    ASSUME NEW b \in Nat, NEW m \in Nat, NEW marks \in SUBSET (1 .. m), NEW j \in Nat, m < j
    PROVE  /\ text[b + j] = "/" => OpenFrom(b, marks \cup {j}, j) = OpenFrom(b, marks, m) + 1
           /\ text[b + j] = "*" => OpenFrom(b, marks \cup {j}, j) = OpenFrom(b, marks, m) - 1
<1>1. ASSUME NEW c PROVE MarksWith(b, marks \cup {j}, j, c) =
          IF text[b + j] = c THEN MarksWith(b, marks, m, c) \cup {j} ELSE MarksWith(b, marks, m, c)
  <2>1. j <= j /\ \A i \in marks : i <= j /\ i <= m
    OBVIOUS
  <2>. QED BY <2>1 DEF MarksWith
<1>2. ASSUME NEW c PROVE /\ IsFiniteSet(MarksWith(b, marks, m, c))
                         /\ Cardinality(MarksWith(b, marks, m, c)) \in Nat
                         /\ j \notin MarksWith(b, marks, m, c)
  <2>1. j \notin MarksWith(b, marks, m, c)
    BY DEF MarksWith
  <2>. QED BY <2>1, MarksFinite
<1>3. ASSUME NEW c, text[b + j] = c
      PROVE  Cardinality(MarksWith(b, marks \cup {j}, j, c)) = Cardinality(MarksWith(b, marks, m, c)) + 1
  <2>. DEFINE S == MarksWith(b, marks, m, c)
  <2>1. IsFiniteSet(S) /\ j \notin S
    BY <1>2
  <2>2. MarksWith(b, marks \cup {j}, j, c) = S \cup {j}
    BY <1>1, <1>3
  <2>. HIDE DEF S
  <2>3. Cardinality(S \cup {j}) = Cardinality(S) + 1
    BY <2>1, FS_AddElement
  <2>. QED BY <2>2, <2>3 DEF S
<1>4. ASSUME NEW c, text[b + j] # c
      PROVE  Cardinality(MarksWith(b, marks \cup {j}, j, c)) = Cardinality(MarksWith(b, marks, m, c))
  BY <1>1, <1>4
<1>5. ASSUME text[b + j] = "/" PROVE OpenFrom(b, marks \cup {j}, j) = OpenFrom(b, marks, m) + 1
  <2>1. /\ Cardinality(MarksWith(b, marks \cup {j}, j, "/")) = Cardinality(MarksWith(b, marks, m, "/")) + 1
        /\ Cardinality(MarksWith(b, marks \cup {j}, j, "*")) = Cardinality(MarksWith(b, marks, m, "*"))
    BY <1>3, <1>4, <1>5
  <2>2. /\ Cardinality(MarksWith(b, marks, m, "/")) \in Nat
        /\ Cardinality(MarksWith(b, marks, m, "*")) \in Nat
    BY <1>2
  <2>. QED BY <2>1, <2>2 DEF OpenFrom
<1>6. ASSUME text[b + j] = "*" PROVE OpenFrom(b, marks \cup {j}, j) = OpenFrom(b, marks, m) - 1
  <2>1. /\ Cardinality(MarksWith(b, marks \cup {j}, j, "*")) = Cardinality(MarksWith(b, marks, m, "*")) + 1
        /\ Cardinality(MarksWith(b, marks \cup {j}, j, "/")) = Cardinality(MarksWith(b, marks, m, "/"))
    BY <1>3, <1>4, <1>6
  <2>2. /\ Cardinality(MarksWith(b, marks, m, "/")) \in Nat
        /\ Cardinality(MarksWith(b, marks, m, "*")) \in Nat
    BY <1>2
  <2>. QED BY <2>1, <2>2 DEF OpenFrom
<1>. QED BY <1>5, <1>6

\* The characters behind a position, two by two.
PairAt(pos) == <<CharAt(pos), CharAt(pos + 1)>>

\* These are the marks in n characters from b: each pair that is one, unless its
\* first character belongs to the mark before.  The last character read is in no
\* mark with the next.
Marked(b, n, marks) ==
    /\ 1 \in marks /\ text[b + 1] = "/"
    /\ \A i \in 1 .. n : i \in marks <=> PairAt(b + i - 1) \in MarkPairs /\ i - 1 \notin marks

\* They leave so many comments open, and one or more before.
Nested(b, n, marks, open) ==
    /\ open = OpenFrom(b, marks, n - 1)
    /\ \A k \in 1 .. n - 1 : OpenFrom(b, marks, k) = 0 <=> open = 0 /\ k = n - 1
    /\ open = 0 => n >= 4

\* A block comment begins at b, and n characters of it have been read.
InBlockComment(b, n, open) ==
    /\ n >= 2
    /\ \E marks \in SUBSET (1 .. n - 1) : Marked(b, n, marks) /\ Nested(b, n, marks, open)

\* Where there is a pair that is a mark, there are two characters.
LEMMA PairFacts ==
    ASSUME text \in Texts, NEW pos \in Nat, PairAt(pos) \in MarkPairs
    PROVE  /\ pos + 2 <= Len(text)
           /\ PairAt(pos) = <<text[pos + 1], text[pos + 2]>>
<1>1. CharAt(pos) # "end" /\ CharAt(pos + 1) # "end"
  BY DEF PairAt, MarkPairs
<1>. DEFINE n == Len(text)
            next == pos + 1
<1>2. n \in Nat /\ pos < n
  BY <1>1, CharFacts
<1>3. next \in Nat /\ next < n /\ CharAt(next) = text[next + 1] /\ CharAt(pos) = text[pos + 1]
  <2>1. next \in Nat
    OBVIOUS
  <2>. HIDE DEF next
  <2>2. next < n
    BY <1>1, <2>1, CharFacts DEF next
  <2>. QED BY <1>2, <2>1, <2>2, CharFacts
<1>4. next + 1 = pos + 2
  OBVIOUS
<1>. QED BY <1>2, <1>3, <1>4 DEF PairAt

\* A comment begins with two characters.
LEMMA BlockCommentBegins ==
    ASSUME text \in Texts, NEW b \in Nat, PairAt(b) = <<"/", "*">>
    PROVE  InBlockComment(b, 2, 1)
<1>1. b + 2 <= Len(text) /\ text[b + 1] = "/"
  <2>1. PairAt(b) \in MarkPairs
    BY DEF MarkPairs
  <2>2. b + 2 <= Len(text) /\ PairAt(b) = <<text[b + 1], text[b + 2]>>
    BY <2>1, PairFacts
  <2>. QED BY <2>2
<1>2. {1} \in SUBSET (1 .. 2 - 1)
  OBVIOUS
<1>3. Marked(b, 2, {1})
  <2>1. b + 1 - 1 = b
    OBVIOUS
  <2>2. PairAt(b + 1 - 1) \in MarkPairs
    BY <2>1 DEF MarkPairs
  <2>3. 1 \in {1} <=> PairAt(b + 1 - 1) \in MarkPairs /\ 1 - 1 \notin {1}
    BY <2>2
  <2>4. 2 \in {1} <=> PairAt(b + 2 - 1) \in MarkPairs /\ 2 - 1 \notin {1}
    OBVIOUS
  <2>5. \A i \in 1 .. 2 : i = 1 \/ i = 2
    OBVIOUS
  <2>. QED BY <1>1, <2>3, <2>4, <2>5 DEF Marked
<1>4. OpenFrom(b, {1}, 1) = 1
  <2>1. OpenFrom(b, {} \cup {1}, 1) = OpenFrom(b, {}, 0) + 1
    BY <1>1, OpenGrows
  <2>2. OpenFrom(b, {}, 0) = 0
    <3>1. MarksWith(b, {}, 0, "/") = {} /\ MarksWith(b, {}, 0, "*") = {}
      BY DEF MarksWith
    <3>2. Cardinality({}) = 0
      BY FS_EmptySet
    <3>. QED BY <3>1, <3>2 DEF OpenFrom
  <2>3. {} \cup {1} = {1}
    OBVIOUS
  <2>. QED BY <2>1, <2>2, <2>3
<1>5. Nested(b, 2, {1}, 1)
  BY <1>4 DEF Nested
<1>. QED BY <1>2, <1>3, <1>5 DEF InBlockComment

\* A character that begins no mark leaves all as it is.
LEMMA BlockCommentGoesOn ==
    ASSUME text \in Texts, NEW b \in Nat, NEW n \in Nat, NEW open \in Nat, open # 0,
           InBlockComment(b, n, open), PairAt(b + n) \notin MarkPairs
    PROVE  InBlockComment(b, n + 1, open)
<1>1. n >= 2
  BY DEF InBlockComment
<1>2. PICK marks \in SUBSET (1 .. n - 1) : Marked(b, n, marks) /\ Nested(b, n, marks, open)
  BY DEF InBlockComment
<1>. DEFINE m == n + 1
<1>3. m \in Nat /\ m >= 2 /\ m - 1 = n /\ marks \in SUBSET (1 .. m - 1) /\ b + m - 1 = b + n
  BY <1>1
<1>4. m \notin marks
  BY <1>2, <1>3
<1>5. Marked(b, m, marks)
  <2>1. \A i \in 1 .. m : i \in 1 .. n \/ i = m
    OBVIOUS
  <2>. HIDE DEF m
  <2>. QED BY <1>2, <1>3, <1>4, <2>1 DEF Marked
<1>6. OpenFrom(b, marks, n) = OpenFrom(b, marks, n - 1)
  <2>1. n - 1 \in Nat /\ n - 1 <= n
    BY <1>1
  <2>. QED BY <2>1, OpenKept
<1>7. Nested(b, m, marks, open)
  <2>1. open = OpenFrom(b, marks, m - 1)
    BY <1>2, <1>3, <1>6 DEF Nested
  <2>2. ASSUME NEW k \in 1 .. m - 1 PROVE OpenFrom(b, marks, k) # 0
    <3>1. CASE k = n
      BY <1>3, <2>1, <3>1
    <3>2. CASE k # n
      <4>1. k \in 1 .. n - 1
        BY <1>3, <3>2
      <4>. QED BY <1>2, <4>1 DEF Nested
    <3>. QED BY <3>1, <3>2
  <2>. HIDE DEF m
  <2>. QED BY <2>1, <2>2 DEF Nested
<1>. HIDE DEF m
<1>8. InBlockComment(b, m, open)
  BY <1>3, <1>5, <1>7 DEF InBlockComment
<1>. QED BY <1>8 DEF m

\* A mark opens a comment or closes one.
LEMMA BlockCommentMarks ==
    ASSUME text \in Texts, NEW b \in Nat, NEW n \in Nat, NEW open \in Nat, open # 0,
           InBlockComment(b, n, open), NEW next \in Nat,
           \/ PairAt(b + n) = <<"/", "*">> /\ next = open + 1
           \/ PairAt(b + n) = <<"*", "/">> /\ next = open - 1
    PROVE  InBlockComment(b, n + 2, next)
<1>1. n >= 2
  BY DEF InBlockComment
<1>2. PICK marks \in SUBSET (1 .. n - 1) : Marked(b, n, marks) /\ Nested(b, n, marks, open)
  BY DEF InBlockComment
<1>. DEFINE j == n + 1
            m == n + 2
            more == marks \cup {j}
<1>3. /\ m \in Nat /\ m >= 4 /\ m - 1 = j /\ j - 1 = n /\ b + j - 1 = b + n /\ j \in Nat
      /\ more \in SUBSET (1 .. m - 1)
  BY <1>1
<1>4. n \notin marks /\ m \notin more /\ j \in more
  BY <1>2
<1>5. PairAt(b + n) \in MarkPairs
  BY DEF MarkPairs
<1>6. Marked(b, m, more)
  <2>1. 1 \in more /\ text[b + 1] = "/"
    BY <1>2 DEF Marked
  <2>2. ASSUME NEW i \in 1 .. m
        PROVE  i \in more <=> PairAt(b + i - 1) \in MarkPairs /\ i - 1 \notin more
    <3>1. CASE i = m
      BY <1>3, <1>4, <3>1
    <3>2. CASE i = j
      <4>1. n \notin more
        BY <1>4
      <4>. QED BY <1>3, <1>4, <1>5, <3>2, <4>1
    <3>3. CASE i \in 1 .. n
      <4>1. (i \in more <=> i \in marks) /\ (i - 1 \in more <=> i - 1 \in marks)
        BY <3>3
      <4>2. i \in marks <=> PairAt(b + i - 1) \in MarkPairs /\ i - 1 \notin marks
        BY <1>2, <3>3 DEF Marked
      <4>. QED BY <4>1, <4>2
    <3>4. i = m \/ i = j \/ i \in 1 .. n
      OBVIOUS
    <3>. QED BY <3>1, <3>2, <3>3, <3>4
  <2>. HIDE DEF more, m
  <2>. QED BY <2>1, <2>2 DEF Marked
<1>7. next = OpenFrom(b, more, j)
  <2>1. n - 1 \in Nat /\ n - 1 < j
    BY <1>1
  <2>2. /\ text[b + j] = "/" => OpenFrom(b, more, j) = OpenFrom(b, marks, n - 1) + 1
        /\ text[b + j] = "*" => OpenFrom(b, more, j) = OpenFrom(b, marks, n - 1) - 1
    <3>. HIDE DEF j
    <3>. QED BY <1>3, <2>1, OpenGrows
  <2>3. open = OpenFrom(b, marks, n - 1)
    BY <1>2 DEF Nested
  <2>4. PairAt(b + n) = <<text[b + j], text[b + m]>>
    <3>. DEFINE pos == b + n
    <3>1. pos \in Nat /\ pos + 1 = b + j /\ pos + 2 = b + m
      OBVIOUS
    <3>. HIDE DEF pos
    <3>2. PairAt(pos) = <<text[pos + 1], text[pos + 2]>>
      BY <1>5, <3>1, PairFacts DEF pos
    <3>3. PairAt(pos) = <<text[b + j], text[b + m]>>
      BY <3>1, <3>2
    <3>. QED BY <3>3 DEF pos
  <2>. HIDE DEF j, m, more
  <2>. QED BY <2>2, <2>3, <2>4
<1>8. Nested(b, m, more, next)
  <2>1. ASSUME NEW k \in 1 .. n PROVE OpenFrom(b, more, k) # 0
    <3>1. OpenFrom(b, more, k) = OpenFrom(b, marks, k)
      <4>1. n - 1 \in Nat /\ k \in Nat /\ k < j /\ j \in Nat
        BY <1>1
      <4>2. OpenFrom(b, marks \cup {j}, k) = OpenFrom(b, marks, k)
        <5>. DEFINE p == n - 1
        <5>1. p \in Nat /\ marks \in SUBSET (1 .. p)
          BY <4>1
        <5>. HIDE DEF j, p
        <5>. QED BY <4>1, <5>1, OpenKept
      <4>. QED BY <4>2
    <3>2. CASE k \in 1 .. n - 1
      BY <1>2, <3>1, <3>2 DEF Nested
    <3>3. CASE k = n
      <4>1. n - 1 \in Nat /\ n - 1 <= n
        BY <1>1
      <4>2. OpenFrom(b, marks, n) = OpenFrom(b, marks, n - 1)
        BY <4>1, OpenKept
      <4>. QED BY <1>2, <3>1, <3>3, <4>2 DEF Nested
    <3>4. k \in 1 .. n - 1 \/ k = n
      OBVIOUS
    <3>. QED BY <3>2, <3>3, <3>4
  <2>2. next = OpenFrom(b, more, m - 1)
    BY <1>3, <1>7
  <2>3. ASSUME NEW k \in 1 .. m - 1 PROVE OpenFrom(b, more, k) = 0 <=> next = 0 /\ k = m - 1
    <3>1. CASE k = j
      BY <1>3, <1>7, <3>1
    <3>2. CASE k # j
      <4>1. k \in 1 .. n /\ k # m - 1
        BY <1>3, <3>2
      <4>. QED BY <2>1, <4>1
    <3>. QED BY <3>1, <3>2
  <2>. HIDE DEF m, more, j
  <2>. QED BY <1>3, <2>2, <2>3 DEF Nested
<1>. HIDE DEF m, more
<1>9. InBlockComment(b, m, next)
  BY <1>3, <1>6, <1>8 DEF InBlockComment
<1>. QED BY <1>9 DEF m

\* The pairs of a part of the text.
LEMMA PairOfPart ==
    ASSUME text \in Texts, NEW b \in Nat, NEW n \in Nat, b + n <= Len(text), NEW i \in 1 .. n - 1
    PROVE  PairAt(b + i - 1) = <<Part(b + 1, b + n)[i], Part(b + 1, b + n)[i + 1]>>
<1>. DEFINE c == b + n
            s == Part(b + 1, c)
            p == b + i - 1
            q == p + 1
<1>1. c \in Nat /\ b <= c /\ c <= Len(text) /\ c - b = n
  OBVIOUS
<1>. HIDE DEF c
<1>2. \A k \in 1 .. n : s[k] = text[b + k]
  BY <1>1, PartFacts
<1>3. /\ p \in Nat /\ q \in Nat /\ p + 1 = b + i /\ q + 1 = b + (i + 1) /\ p < b + n /\ q < b + n
      /\ i \in 1 .. n /\ i + 1 \in 1 .. n
  OBVIOUS
<1>4. p < Len(text) /\ q < Len(text)
  <2>1. Len(text) \in Nat
    BY CharFacts
  <2>. HIDE DEF p, q
  <2>. QED BY <1>3, <2>1
<1>. HIDE DEF p, s
<1>5. CharAt(p) = text[p + 1]
  BY <1>3, <1>4, CharFacts
<1>6. CharAt(p + 1) = text[q + 1]
  <2>. HIDE DEF q
  <2>1. CharAt(q) = text[q + 1]
    BY <1>3, <1>4, CharFacts
  <2>. QED BY <2>1 DEF q
<1>7. PairAt(p) = <<s[i], s[i + 1]>>
  <2>. HIDE DEF q
  <2>. QED BY <1>2, <1>3, <1>5, <1>6 DEF PairAt
<1>. QED BY <1>7 DEF p, s, c

\* With the last comment closed the whole is a comment.
LEMMA BlockCommentEnds ==
    ASSUME text \in Texts, NEW b \in Nat, NEW n \in Nat, b + n <= Len(text), InBlockComment(b, n, 0)
    PROVE  IsGap(Part(b + 1, b + n))
<1>1. PICK marks \in SUBSET (1 .. n - 1) : Marked(b, n, marks) /\ Nested(b, n, marks, 0)
  BY DEF InBlockComment
<1>2. n >= 4
  BY <1>1 DEF Nested
<1>. DEFINE c == b + n
            s == Part(b + 1, c)
<1>3. c \in Nat /\ b <= c /\ c <= Len(text) /\ c - b = n
  OBVIOUS
<1>. HIDE DEF c
<1>4. Len(s) = n /\ \A i \in 1 .. n : s[i] = text[b + i]
  BY <1>3, PartFacts
<1>. HIDE DEF s
<1>5. AreMarks(marks, s)
  <2>1. \A i \in 1 .. n - 1 : PairAt(b + i - 1) = <<s[i], s[i + 1]>>
    BY PairOfPart DEF s, c
  <2>2. \A i \in 1 .. n - 1 : i \in 1 .. n
    OBVIOUS
  <2>3. \A i \in 1 .. n - 1 : i \in marks <=> <<s[i], s[i + 1]>> \in MarkPairs /\ i - 1 \notin marks
    BY <1>1, <2>1, <2>2 DEF Marked
  <2>. QED BY <1>4, <2>3 DEF AreMarks, MarkPairs
<1>6. s[1] = "/" /\ 1 \in marks
  BY <1>1, <1>2, <1>4 DEF Marked
<1>7. ASSUME NEW k PROVE Open(s, marks, k) = OpenFrom(b, marks, k)
  <2>1. \A i \in marks : s[i] = text[b + i]
    BY <1>2, <1>4
  <2>2. ASSUME NEW d PROVE {i \in marks : i <= k /\ s[i] = d} = MarksWith(b, marks, k, d)
    BY <2>1 DEF MarksWith
  <2>. QED BY <2>2 DEF Open, OpenFrom
<1>8. \A k \in 1 .. n - 1 : Open(s, marks, k) = 0 <=> k = n - 1
  BY <1>1, <1>7 DEF Nested
<1>9. IsBlockComment(s)
  BY <1>2, <1>4, <1>5, <1>6, <1>8 DEF IsBlockComment
<1>. QED BY <1>9 DEF IsGap, s, c

-----------------------------------------------------------------------------
(* Between the tokens.                                                     *)

TokenModes == {"word", "hex", "binary", "decimal", "fraction", "exponent", "string"}

\* Where the last token ended.
LastEnd == IF tokens = <<>> THEN 0 ELSE Last(tokens).last

\* What has been read since then is blanks and comments, but for the comment or
\* the token that is being read.
Skipped ==
    /\ mode = "between" => Space(LastEnd, place.pos)
    /\ mode = "lineComment" => \E s \in Nat : Space(LastEnd, s) /\ InLineComment(s, place.pos)
    /\ mode = "blockComment" =>
           Space(LastEnd, begin.pos) /\ InBlockComment(begin.pos, place.pos - begin.pos, depth)
    /\ mode \in TokenModes => Space(LastEnd, begin.pos)
    /\ NothingLost

LEMMA LastEndNatural == TypeOK => LastEnd \in Nat
<1>. SUFFICES ASSUME TypeOK PROVE LastEnd \in Nat
  OBVIOUS
<1>. DEFINE R == [type : TokenTypes, first : Nat, last : Nat, line : Nat, column : Nat, value : 0 .. MaxInt]
<1>1. tokens \in Seq(R)
  BY DEF TypeOK
<1>2. tokens # <<>> => Last(tokens) \in R
  <2>. HIDE DEF R
  <2>. QED BY <1>1 DEF Last
<1>. QED BY <1>2 DEF LastEnd

\* A step that delivers no token takes back none.
LEMMA NothingDelivered ==
    ASSUME Skipped, text' = text, tokens' = tokens
    PROVE  /\ LastEnd' = LastEnd /\ NothingLost'
           /\ \A a, b : Space(a, b)' <=> Space(a, b)
           /\ \A a, b : InLineComment(a, b)' <=> InLineComment(a, b)
           /\ \A a, n, open : InBlockComment(a, n, open)' <=> InBlockComment(a, n, open)
<1>1. LastEnd' = LastEnd
  BY DEF LastEnd
<1>2. NothingLost'
  BY DEF NothingLost, Skipped, Part
<1>3. \A a, b : Space(a, b)' <=> Space(a, b)
  BY DEF Space, Part
<1>4. \A a, b : InLineComment(a, b)' <=> InLineComment(a, b)
  BY DEF InLineComment
<1>5. \A pos : PairAt(pos)' = PairAt(pos)
  BY DEF PairAt, CharAt
<1>6. \A b, marks, k : OpenFrom(b, marks, k)' = OpenFrom(b, marks, k)
  BY DEF OpenFrom, MarksWith
<1>7. \A b, n, marks : Marked(b, n, marks)' <=> Marked(b, n, marks)
  BY <1>5 DEF Marked
<1>8. \A b, n, marks, open : Nested(b, n, marks, open)' <=> Nested(b, n, marks, open)
  BY <1>6 DEF Nested
<1>9. \A a, n, open : InBlockComment(a, n, open)' <=> InBlockComment(a, n, open)
  BY <1>7, <1>8 DEF InBlockComment
<1>. QED BY <1>1, <1>2, <1>3, <1>4, <1>9

\* In front of a new token lies what has been skipped.
LEMMA TokenDelivered ==
    ASSUME TypeOK, text' = text, NEW from \in Places, NEW type, NEW last, NEW v,
           tokens' = Append(tokens, Token(type, from, last, v)), Space(LastEnd, from.pos)
    PROVE  LastEnd' = last /\ NothingLost'
<1>. DEFINE t == Token(type, from, last, v)
            n == Len(tokens)
<1>1. t.first = from.pos + 1 /\ t.last = last /\ from.pos \in Nat /\ t.first - 1 = from.pos
  BY DEF Token, Places
<1>2. PICK R : tokens \in Seq(R)
  BY DEF TypeOK
<1>. HIDE DEF t
<1>3. /\ n \in Nat /\ Len(tokens') = n + 1 /\ tokens'[n + 1] = t /\ tokens' # <<>>
      /\ n # 0 => tokens'[n] = tokens[n]
      /\ n = 0 <=> tokens = <<>>
  BY <1>2 DEF t
<1>. HIDE DEF n
<1>4. LastEnd' = last
  BY <1>1, <1>3 DEF LastEnd, Last
<1>5. LastEnd = IF n = 0 THEN 0 ELSE tokens[n].last
  BY <1>3 DEF LastEnd, Last, n
<1>6. IsSpace(Part(LastEnd + 1, from.pos))
  BY DEF Space
<1>7. (n + 1 = 1 <=> n = 0) /\ (n + 1) - 1 = n
  BY <1>3
<1>8. (IF n + 1 = 1 THEN 1 ELSE tokens'[(n + 1) - 1].last + 1) = LastEnd + 1
  BY <1>3, <1>5, <1>7
<1>9. NothingLost'
  <2>. DEFINE k == n + 1
  <2>1. /\ (IF k = 1 THEN 1 ELSE tokens'[k - 1].last + 1) = LastEnd + 1
        /\ tokens'[k].first - 1 = from.pos /\ Len(tokens') = k
    BY <1>1, <1>3, <1>8
  <2>. HIDE DEF k
  <2>2. IsSpace(SubSeq(text, IF k = 1 THEN 1 ELSE tokens'[k - 1].last + 1, tokens'[k].first - 1))
    BY <1>6, <2>1 DEF Part
  <2>. QED BY <2>1, <2>2 DEF NothingLost, Part
<1>. QED BY <1>4, <1>9

\* The characters that come next.
LEMMA NextFacts ==
    ASSUME TypeOK
    PROVE  /\ peek # "end" => place.pos + 1 <= Len(text) /\ peek = text[place.pos + 1]
           /\ PairAt(place.pos) = <<peek, peekNext>>
<1>1. place.pos \in Nat /\ text \in Texts /\ Len(text) \in Nat
  BY PlaceFacts DEF TypeOK
<1>2. peek # "end" => place.pos < Len(text) /\ peek = text[place.pos + 1]
  BY <1>1, CharFacts DEF peek
<1>3. PairAt(place.pos) = <<peek, peekNext>>
  BY DEF PairAt, peek, peekNext
<1>. QED BY <1>1, <1>2, <1>3

LEMMA SkippedBlank == TypeOK /\ Skipped /\ Blank => Skipped'
<1>. SUFFICES ASSUME TypeOK, Skipped, Blank PROVE Skipped'
  OBVIOUS
<1>1. /\ mode = "between" /\ mode' = "between" /\ peek \in Blanks /\ peek # "end"
      /\ text' = text /\ tokens' = tokens /\ place' = advance(place)
  <2>1. mode = "between" /\ peek \in Blanks /\ Move(1, mode)
    BY DEF Blank
  <2>2. peek # "end"
    BY <2>1 DEF Blanks
  <2>. QED BY <2>1, <2>2 DEF Move
<1>. DEFINE b == place.pos
            c == b + 1
<1>2. b \in Nat /\ c \in Nat /\ c <= Len(text) /\ text[c] \in Blanks /\ b < c /\ text \in Texts
  BY <1>1, PlaceFacts, NextFacts DEF TypeOK
<1>3. place'.pos = c
  BY <1>1, PlaceFacts
<1>4. Space(LastEnd, b)
  BY <1>1 DEF Skipped
<1>5. IsGap(Part(b + 1, c))
  BY <1>2, BlankIsGap
<1>. HIDE DEF b, c
<1>6. Space(LastEnd, c)
  BY <1>2, <1>4, <1>5, LastEndNatural, SpaceGrows
<1>7. LastEnd' = LastEnd /\ NothingLost'
  BY <1>1, NothingDelivered
<1>8. Space(LastEnd, place.pos)'
  BY <1>3, <1>6, <1>1, NothingDelivered
<1>. QED BY <1>1, <1>7, <1>8 DEF Skipped, TokenModes

LEMMA SkippedLineComment == TypeOK /\ Skipped /\ LineComment => Skipped'
<1>. SUFFICES ASSUME TypeOK, Skipped, LineComment PROVE Skipped'
  OBVIOUS
<1>0. /\ place.pos \in Nat /\ place.pos <= Len(text) /\ Len(text) \in Nat /\ text \in Texts
      /\ text' = text /\ tokens' = tokens /\ LastEnd \in Nat
  BY PlaceFacts, LastEndNatural DEF LineComment, Move, TypeOK
<1>1. /\ LastEnd' = LastEnd /\ NothingLost'
      /\ \A a, b : Space(a, b)' <=> Space(a, b)
      /\ \A a, b : InLineComment(a, b)' <=> InLineComment(a, b)
  BY <1>0, NothingDelivered
<1>. DEFINE b == place.pos
<1>2. CASE /\ mode = "between" /\ Opens("/", "/")
           /\ mode' = "lineComment" /\ place' = advance(advance(place))
  <2>1. peek # "end" /\ peekNext # "end" /\ peek = "/" /\ peekNext = "/"
    BY <1>2 DEF Opens
  <2>2. place'.pos = b + 2
    BY <1>2, <2>1, PlaceFacts
  <2>3. text[b + 1] = "/"
    BY <2>1, NextFacts
  <2>4. text[b + 2] = "/"
    <3>. DEFINE d == b + 1
    <3>1. d \in Nat /\ CharAt(d) # "end" /\ CharAt(d) = "/" /\ d + 1 = b + 2
      BY <1>0, <2>1 DEF peekNext
    <3>2. CharAt(d) = text[d + 1]
      <4>. HIDE DEF d
      <4>. QED BY <1>0, <3>1, CharFacts
    <3>. QED BY <3>1, <3>2
  <2>5. InLineComment(b, b + 2)
    <3>1. \A i \in b + 1 .. b + 2 : i = b + 1 \/ i = b + 2
      BY <1>0
    <3>. QED BY <1>0, <2>3, <2>4, <3>1 DEF InLineComment
  <2>6. Space(LastEnd, b)
    BY <1>2 DEF Skipped
  <2>7. (\E s \in Nat : Space(LastEnd, s) /\ InLineComment(s, place.pos))'
    BY <1>0, <1>1, <2>2, <2>5, <2>6
  <2>. QED BY <1>1, <1>2, <2>7 DEF Skipped, TokenModes
<1>3. CASE /\ mode = "lineComment" /\ peek \notin {"\n", "end"}
           /\ mode' = "lineComment" /\ place' = advance(place)
  <2>1. place'.pos = b + 1 /\ text[b + 1] # "\n"
    BY <1>3, PlaceFacts, NextFacts
  <2>2. PICK s \in Nat : Space(LastEnd, s) /\ InLineComment(s, b)
    BY <1>3 DEF Skipped
  <2>3. InLineComment(s, b + 1)
    <3>1. \A i \in s + 1 .. b + 1 : i = b + 1 \/ i \in s + 1 .. b
      BY <1>0
    <3>2. s + 2 <= b + 1
      BY <1>0, <2>2 DEF InLineComment
    <3>. QED BY <2>1, <2>2, <3>1, <3>2 DEF InLineComment
  <2>4. (\E a \in Nat : Space(LastEnd, a) /\ InLineComment(a, place.pos))'
    BY <1>1, <2>1, <2>2, <2>3
  <2>. QED BY <1>1, <1>3, <2>4 DEF Skipped, TokenModes
<1>4. CASE mode = "lineComment" /\ mode' = "between" /\ place' = place
  <2>1. PICK s \in Nat : Space(LastEnd, s) /\ InLineComment(s, b)
    BY <1>4 DEF Skipped
  <2>2. IsGap(Part(s + 1, b)) /\ s < b
    <3>1. s < b
      BY <1>0, <2>1 DEF InLineComment
    <3>. QED BY <1>0, <2>1, <3>1, LineCommentEnds
  <2>3. Space(LastEnd, b)
    BY <1>0, <2>1, <2>2, SpaceGrows
  <2>4. Space(LastEnd, place.pos)'
    BY <1>1, <1>4, <2>3
  <2>. QED BY <1>1, <1>4, <2>4 DEF Skipped, TokenModes
<1>. QED BY <1>2, <1>3, <1>4 DEF LineComment, Move

LEMMA SkippedOpenComment == TypeOK /\ Skipped /\ OpenComment => Skipped'
<1>. SUFFICES ASSUME TypeOK, Skipped, OpenComment PROVE Skipped'
  OBVIOUS
<1>1. /\ mode = "between" /\ mode' = "blockComment" /\ peek = "/" /\ peekNext = "*"
      /\ text' = text /\ tokens' = tokens /\ place' = advance(advance(place))
      /\ begin' = place /\ depth' = 1
  BY DEF OpenComment, Move, Opens
<1>. DEFINE b == place.pos
<1>2. b \in Nat /\ text \in Texts /\ PairAt(b) = <<"/", "*">> /\ place'.pos = b + 2
  BY <1>1, PlaceFacts, NextFacts DEF TypeOK
<1>3. InBlockComment(b, 2, 1)
  BY <1>2, BlockCommentBegins
<1>4. Space(LastEnd, b)
  BY <1>1 DEF Skipped
<1>5. begin'.pos = b /\ place'.pos - begin'.pos = 2
  BY <1>1, <1>2
<1>6. LastEnd' = LastEnd /\ NothingLost'
  BY <1>1, NothingDelivered
<1>7. Space(LastEnd, begin.pos)' /\ InBlockComment(begin.pos, place.pos - begin.pos, depth)'
  BY <1>1, <1>3, <1>4, <1>5, NothingDelivered
<1>. QED BY <1>1, <1>6, <1>7 DEF Skipped, TokenModes

LEMMA SkippedBlockComment == TypeOK /\ Skipped /\ BlockComment => Skipped'
<1>. SUFFICES ASSUME TypeOK, Skipped, BlockComment PROVE Skipped'
  OBVIOUS
<1>. DEFINE b == begin.pos
            n == place.pos - b
<1>1. /\ b \in Nat /\ n \in Nat /\ b + n = place.pos /\ place.pos <= Len(text) /\ text \in Texts
      /\ depth \in Nat /\ LastEnd \in Nat
  BY PlaceFacts, LastEndNatural DEF TypeOK
<1>2. mode = "blockComment" /\ begin' = begin
  BY DEF BlockComment
<1>3. Space(LastEnd, b) /\ InBlockComment(b, n, depth) /\ n >= 2
  BY <1>2 DEF Skipped, InBlockComment
<1>4. PairAt(b + n) = <<peek, peekNext>>
  BY <1>1, NextFacts
<1>5. CASE lexicalError("comment", begin)
  <2>1. mode' = "done" /\ text' = text /\ tokens' = tokens
    BY <1>5 DEF lexicalError
  <2>2. NothingLost'
    BY <2>1, NothingDelivered
  <2>. QED BY <2>1, <2>2 DEF Skipped, TokenModes
<1>6. CASE depth = 0 /\ Move(0, "between")
  <2>1. mode' = "between" /\ text' = text /\ tokens' = tokens /\ place' = place
    BY <1>6 DEF Move
  <2>2. IsGap(Part(b + 1, b + n))
    <3>. HIDE DEF b, n
    <3>. QED BY <1>1, <1>3, <1>6, BlockCommentEnds
  <2>3. Space(LastEnd, b + n)
    <3>1. b + n \in Nat /\ b < b + n
      BY <1>1, <1>3
    <3>. HIDE DEF b, n
    <3>. QED BY <1>1, <1>3, <2>2, <3>1, SpaceGrows
  <2>4. Space(LastEnd, place.pos)
    BY <1>1, <2>3
  <2>5. Space(LastEnd, place.pos)' /\ NothingLost'
    BY <2>1, <2>4, NothingDelivered
  <2>. QED BY <2>1, <2>5 DEF Skipped, TokenModes
<1>7. ASSUME NEW k \in Nat, place'.pos = place.pos + k, mode' = "blockComment",
             text' = text, tokens' = tokens, InBlockComment(b, n + k, depth')
      PROVE  Skipped'
  <2>1. begin'.pos = b /\ place'.pos - begin'.pos = n + k
    BY <1>1, <1>2, <1>7
  <2>2. LastEnd' = LastEnd /\ NothingLost'
    BY <1>7, NothingDelivered
  <2>3. Space(LastEnd, begin.pos)'
    BY <1>3, <1>7, <2>1, NothingDelivered
  <2>4. InBlockComment(begin.pos, place.pos - begin.pos, depth)'
    <3>. HIDE DEF b, n
    <3>. QED BY <1>7, <2>1, NothingDelivered
  <2>. QED BY <1>7, <2>2, <2>3, <2>4 DEF Skipped, TokenModes
<1>8. ASSUME depth # 0, peek # "end", ~Opens("/", "*"), ~Opens("*", "/"), Move(1, mode), depth' = depth
      PROVE  Skipped'
  <2>1. place'.pos = place.pos + 1 /\ mode' = "blockComment" /\ text' = text /\ tokens' = tokens
    BY <1>2, <1>8, PlaceFacts DEF Move
  <2>2. PairAt(b + n) \notin MarkPairs
    <3>1. ~(peek = "/" /\ peekNext = "*") /\ ~(peek = "*" /\ peekNext = "/")
      BY <1>8 DEF Opens
    <3>2. <<peek, peekNext>> \notin MarkPairs
      BY <3>1 DEF MarkPairs
    <3>. QED BY <1>4, <3>2
  <2>3. InBlockComment(b, n + 1, depth)
    <3>. HIDE DEF b, n
    <3>. QED BY <1>1, <1>3, <1>8, <2>2, BlockCommentGoesOn
  <2>4. InBlockComment(b, n + 1, depth')
    BY <1>8, <2>3
  <2>. HIDE DEF b, n
  <2>. QED BY <1>7, <2>1, <2>4
<1>9. ASSUME depth # 0, Move(2, mode), peek # "end", peekNext # "end",
             \/ PairAt(b + n) = <<"/", "*">> /\ depth' = depth + 1
             \/ PairAt(b + n) = <<"*", "/">> /\ depth' = depth - 1
      PROVE  Skipped'
  <2>1. place'.pos = place.pos + 2 /\ mode' = "blockComment" /\ text' = text /\ tokens' = tokens
    BY <1>2, <1>9, PlaceFacts DEF Move
  <2>2. depth' \in Nat
    BY <1>1, <1>9
  <2>3. InBlockComment(b, n + 2, depth')
    <3>. HIDE DEF b, n
    <3>. QED BY <1>1, <1>3, <1>9, <2>2, BlockCommentMarks
  <2>. HIDE DEF b, n
  <2>. QED BY <1>7, <2>1, <2>3
<1>10. \/ lexicalError("comment", begin)
       \/ depth = 0 /\ Move(0, "between")
       \/ depth # 0 /\ peek # "end" /\ ~Opens("/", "*") /\ ~Opens("*", "/") /\ Move(1, mode) /\ depth' = depth
       \/ /\ depth # 0 /\ Move(2, mode)
          /\ \/ Opens("/", "*") /\ depth' = depth + 1
             \/ Opens("*", "/") /\ depth' = depth - 1
  BY <1>1 DEF BlockComment
<1>11. CASE /\ depth # 0 /\ Move(2, mode)
            /\ \/ Opens("/", "*") /\ depth' = depth + 1
               \/ Opens("*", "/") /\ depth' = depth - 1
  <2>1. /\ peek # "end" /\ peekNext # "end"
        /\ \/ <<peek, peekNext>> = <<"/", "*">> /\ depth' = depth + 1
           \/ <<peek, peekNext>> = <<"*", "/">> /\ depth' = depth - 1
    BY <1>11 DEF Opens
  <2>. HIDE DEF b, n
  <2>. QED BY <1>4, <1>9, <1>11, <2>1
<1>. HIDE DEF b, n
<1>. QED BY <1>5, <1>6, <1>8, <1>10, <1>11

\* What the loops for words, numbers and strings do to the place where their
\* token began.
LEMMA StepsInTokens ==
    ASSUME TypeOK,
           Word \/ identifierOrKeyword \/ number \/ Hex \/ Binary \/ Decimal \/ String \/ stringLiteral
    PROVE  \/ \E what, at : lexicalError(what, at)
           \/ /\ mode \in TokenModes
              /\ \E type, v : \/ Deliver(type, 0, v)
                              \/ peek # "end" /\ Deliver(type, 1, v)
           \/ /\ \/ mode = "between" /\ begin' = place
                 \/ mode \in TokenModes /\ begin' = begin
              /\ mode' \in TokenModes /\ text' = text /\ tokens' = tokens
<1>. DEFINE Refused == \E what, at : lexicalError(what, at)
            Delivered == mode \in TokenModes /\ \E type, v : \/ Deliver(type, 0, v)
                                                             \/ peek # "end" /\ Deliver(type, 1, v)
            Read == /\ \/ mode = "between" /\ begin' = place
                       \/ mode \in TokenModes /\ begin' = begin
                    /\ mode' \in TokenModes /\ text' = text /\ tokens' = tokens
<1>1. ASSUME mode \in TokenModes, NEW n, NEW next \in TokenModes, Skip(n, next) PROVE Read
  BY <1>1 DEF Skip, Move
<1>2. ASSUME mode \in TokenModes, NEW base, Digit(base) PROVE Read
  BY <1>2 DEF Digit, Move
<1>3. ASSUME mode = "between", NEW n, NEW next \in TokenModes, Begins(next, n) PROVE Read
  BY <1>3 DEF Begins, Move
<1>4. ASSUME NEW what, NEW at, lexicalError(what, at) PROVE Refused
  BY <1>4, Zenon
<1>5. ASSUME mode \in TokenModes, NEW type, NEW v, Deliver(type, 0, v) PROVE Delivered
  BY <1>5, Zenon
<1>6. ASSUME mode \in TokenModes, peek # "end", NEW type, NEW v, Deliver(type, 1, v) PROVE Delivered
  BY <1>6, Zenon
<1>. HIDE DEF Refused, Delivered, Read
<1>7. CASE Word \/ number \/ String
  <2>1. /\ mode = "between"
        /\ \/ Begins("word", 0) \/ Begins("hex", 2) \/ Begins("binary", 2) \/ Begins("decimal", 0)
           \/ Begins("string", 1)
    BY <1>7 DEF Word, number, String, AtToken
  <2>. QED BY <1>3, <2>1 DEF TokenModes, Read
<1>8. CASE identifierOrKeyword
  <2>1. mode = "word" /\ (Skip(1, "word") \/ \E type : Deliver(type, 0, 0))
    BY <1>8, Zenon DEF identifierOrKeyword
  <2>. QED BY <1>1, <1>5, <2>1 DEF TokenModes, Delivered, Read
<1>9. CASE Hex \/ Binary
  <2>1. /\ mode \in {"hex", "binary"}
        /\ \/ Digit(16) \/ Digit(2) \/ Deliver("IntLiteral", 0, value)
           \/ lexicalError("digits", begin) \/ lexicalError("character", begin)
           \/ lexicalError("range", begin)
    BY <1>9 DEF Hex, Binary
  <2>. QED BY <1>2, <1>4, <1>5, <2>1 DEF TokenModes, Refused, Delivered, Read
<1>10. CASE Decimal
  <2>1. /\ mode \in {"decimal", "fraction", "exponent"}
        /\ \/ Digit(10) \/ Skip(1, "fraction") \/ Skip(1, "exponent") \/ Skip(2, "exponent")
           \/ Deliver("IntLiteral", 0, value) \/ Deliver("FloatLiteral", 0, 0)
           \/ lexicalError("digits", begin) \/ lexicalError("range", begin)
           \/ lexicalError("float", begin)
    BY <1>10 DEF Decimal, Point, Exponent, Float
  <2>. QED BY <1>1, <1>2, <1>4, <1>5, <2>1 DEF TokenModes, Refused, Delivered, Read
<1>11. CASE stringLiteral
  <2>1. /\ mode = "string"
        /\ \/ lexicalError("string", begin)
           \/ peek # "end" /\ Deliver("StringLiteral", 1, 0)
           \/ lexicalError("escape", begin)
           \/ lexicalError("escape", advance(advance(place)))
           \/ Skip(2, "string") \/ Skip(1, "string")
    BY <1>11 DEF stringLiteral
  <2>. QED BY <1>1, <1>4, <1>6, <2>1 DEF TokenModes, Refused, Delivered, Read
<1>. QED BY <1>7, <1>8, <1>9, <1>10, <1>11

\* Behind a token nothing has been skipped yet.
LEMMA SkippedBehindToken ==
    ASSUME TypeOK, Skipped, text' = text, NEW from \in Places, NEW type, NEW v,
           tokens' = Append(tokens, Token(type, from, place'.pos, v)), Space(LastEnd, from.pos),
           mode' \in {"between", "done"}, place'.pos \in Nat, place'.pos <= Len(text)
    PROVE  Skipped'
<1>. DEFINE last == place'.pos
<1>1. LastEnd' = last /\ NothingLost'
  <2>. HIDE DEF last
  <2>. QED BY TokenDelivered DEF last
<1>2. text' \in Texts
  BY DEF TypeOK
<1>3. Space(last, last)
  <2>. HIDE DEF last
  <2>. QED BY SpaceEmpty DEF TypeOK, last
<1>4. \A a, b : Space(a, b)' <=> Space(a, b)
  BY DEF Space, Part
<1>5. Space(LastEnd, place.pos)'
  BY <1>1, <1>3, <1>4
<1>. QED BY <1>1, <1>5 DEF Skipped, TokenModes

LEMMA SkippedInTokens ==
    ASSUME TypeOK, Skipped,
           Word \/ identifierOrKeyword \/ number \/ Hex \/ Binary \/ Decimal \/ String \/ stringLiteral
    PROVE  Skipped'
<1>0. place.pos \in Nat /\ place.pos <= Len(text) /\ text \in Texts /\ begin \in Places
  BY PlaceFacts DEF TypeOK
<1>1. ASSUME NEW what, NEW at, lexicalError(what, at) PROVE Skipped'
  <2>1. mode' = "done" /\ text' = text /\ tokens' = tokens
    BY <1>1 DEF lexicalError
  <2>2. NothingLost'
    BY <2>1, NothingDelivered
  <2>. QED BY <2>1, <2>2 DEF Skipped, TokenModes
<1>2. ASSUME mode \in TokenModes, NEW type, NEW v, NEW n \in {0, 1}, n = 1 => peek # "end", Deliver(type, n, v)
      PROVE  Skipped'
  <2>1. /\ tokens' = Append(tokens, Token(type, begin, place.pos + n, v))
        /\ place' = (IF n = 0 THEN place ELSE advance(place))
        /\ mode' = "between" /\ text' = text
    BY <1>2 DEF Deliver
  <2>2. place'.pos = place.pos + n
    BY <1>0, <1>2, <2>1, PlaceFacts
  <2>3. place'.pos \in Nat /\ place'.pos <= Len(text)
    BY <1>0, <2>1, <2>2, PlaceFacts
  <2>4. Space(LastEnd, begin.pos)
    BY <1>2 DEF Skipped
  <2>. QED BY <1>0, <2>1, <2>2, <2>3, <2>4, SkippedBehindToken
<1>3. ASSUME \/ mode = "between" /\ begin' = place
             \/ mode \in TokenModes /\ begin' = begin,
             mode' \in TokenModes, text' = text, tokens' = tokens
      PROVE  Skipped'
  <2>1. Space(LastEnd, begin'.pos)
    BY <1>3 DEF Skipped
  <2>2. LastEnd' = LastEnd /\ NothingLost'
    BY <1>3, NothingDelivered
  <2>3. Space(LastEnd, begin.pos)'
    BY <1>3, <2>1, NothingDelivered
  <2>. QED BY <1>3, <2>2, <2>3 DEF Skipped, TokenModes
<1>. QED BY <1>1, <1>2, <1>3, StepsInTokens

LEMMA SkippedOperator == TypeOK /\ Skipped /\ (Operator \/ End) => Skipped'
<1>. SUFFICES ASSUME TypeOK, Skipped, Operator \/ End PROVE Skipped'
  OBVIOUS
<1>0. place.pos \in Nat /\ place.pos <= Len(text) /\ text \in Texts /\ place \in Places /\ mode = "between"
  BY PlaceFacts DEF TypeOK, Operator, End, AtToken
<1>1. Space(LastEnd, place.pos)
  BY <1>0 DEF Skipped
<1>2. CASE lexicalError("character", place)
  <2>1. mode' = "done" /\ text' = text /\ tokens' = tokens
    BY <1>2 DEF lexicalError
  <2>2. NothingLost'
    BY <2>1, NothingDelivered
  <2>. QED BY <2>1, <2>2 DEF Skipped, TokenModes
<1>3. CASE Operator /\ ~lexicalError("character", place)
  <2>. DEFINE length == IF <<peek, peekNext>> \in Doubles THEN 2 ELSE 1
  <2>1. /\ tokens' = Append(tokens, Token("Operator", place, place.pos + length, 0))
        /\ place' = IF length = 2 THEN advance(advance(place)) ELSE advance(place)
        /\ text' = text /\ mode' = mode /\ peek # "end"
    BY <1>3 DEF Operator
  <2>2. length \in {1, 2} /\ (length = 2 => peekNext # "end")
    BY DEF Doubles
  <2>. HIDE DEF length
  <2>3. place'.pos = place.pos + length
    BY <2>1, <2>2, PlaceFacts
  <2>4. place'.pos \in Nat /\ place'.pos <= Len(text)
    BY <1>0, <2>1, <2>2, <2>3, PlaceFacts
  <2>. QED BY <1>0, <1>1, <2>1, <2>3, <2>4, SkippedBehindToken
<1>4. CASE End
  <2>1. /\ tokens' = Append(tokens, Token("EndOfFile", place, place.pos, 0)) /\ mode' = "done"
        /\ text' = text /\ place' = place
    BY <1>4 DEF End
  <2>. QED BY <1>0, <1>1, <2>1, SkippedBehindToken
<1>. QED BY <1>2, <1>3, <1>4

LEMMA SkippedStep == TypeOK /\ Skipped /\ [Next]_vars => Skipped'
<1>. SUFFICES ASSUME TypeOK, Skipped, [Next]_vars PROVE Skipped'
  OBVIOUS
<1>1. CASE UNCHANGED vars
  <2>1. UNCHANGED <<text, place, mode, begin, depth, tokens>>
    BY <1>1 DEF vars
  <2>2. /\ LastEnd' = LastEnd /\ NothingLost'
        /\ \A a, b : Space(a, b)' <=> Space(a, b)
        /\ \A a, b : InLineComment(a, b)' <=> InLineComment(a, b)
        /\ \A a, n, open : InBlockComment(a, n, open)' <=> InBlockComment(a, n, open)
    BY <2>1, NothingDelivered
  <2>. QED BY <2>1, <2>2 DEF Skipped
<1>2. CASE Next
  BY <1>2, SkippedBlank, SkippedLineComment, SkippedOpenComment, SkippedBlockComment, SkippedInTokens,
     SkippedOperator DEF Next
<1>. QED BY <1>1, <1>2

LEMMA SkippedAlways == Spec => []Skipped
<1>1. Init => Skipped
  <2>. SUFFICES ASSUME Init PROVE Skipped
    OBVIOUS
  <2>1. text \in Texts /\ place = Start /\ mode = "between" /\ tokens = <<>>
    BY DEF Init
  <2>2. Space(0, 0)
    BY <2>1, CharFacts, SpaceEmpty
  <2>3. LastEnd = 0 /\ place.pos = 0
    BY <2>1 DEF LastEnd, Start
  <2>. QED BY <2>1, <2>2, <2>3 DEF Skipped, TokenModes, NothingLost
<1>. QED BY <1>1, SkippedStep, TypeCorrect, PTL DEF Spec

\* No part of the program is lost between two tokens: nothing but blanks and
\* comments lies there, however comments nest.
THEOREM NothingIsLost == Spec => []NothingLost
<1>1. Skipped => NothingLost
  BY DEF Skipped
<1>. QED BY <1>1, SkippedAlways, PTL

-----------------------------------------------------------------------------
(* The values of numerals.                                                 *)

\* A digit more, and the values of the beginnings of a sequence up to one.
OneMore(v, base, c) == v * base + DigitValue[c]
Values(g, s, base, n) == g = [i \in 0 .. n |-> IF i = 0 THEN 0 ELSE OneMore(g[i - 1], base, s[i])]

LEMMA PositionalIs ==
    ASSUME NEW s, NEW base
    PROVE  Positional(s, base) = (CHOOSE g : Values(g, s, base, Len(s)))[Len(s)]
<1>. QED BY DEF Positional, Values, OneMore

LEMMA ValuesExist ==
    ASSUME NEW s, NEW base, NEW n \in Nat
    PROVE  \E g : Values(g, s, base, n)
<1>. DEFINE Without == {m \in Nat : ~\E g : Values(g, s, base, m)}
<1>1. ASSUME Without # {} PROVE FALSE
  <2>1. PICK m \in Without : \A k \in Without : m <= k
    <3>1. Without \in SUBSET Nat
      OBVIOUS
    <3>. HIDE DEF Without
    <3>. QED BY <1>1, <3>1, Least
  <2>2. m # 0
    <3>1. Values([i \in 0 .. 0 |-> 0], s, base, 0)
      BY DEF Values
    <3>. QED BY <2>1, <3>1
  <2>3. m - 1 \in Nat /\ m - 1 \notin Without
    BY <2>1, <2>2
  <2>4. PICK g : Values(g, s, base, m - 1)
    BY <2>3
  <2>. DEFINE h == [i \in 0 .. m |-> IF i = m THEN OneMore(g[m - 1], base, s[m]) ELSE g[i]]
  <2>5. ASSUME NEW i \in 0 .. m
        PROVE  h[i] = IF i = 0 THEN 0 ELSE OneMore(h[i - 1], base, s[i])
    <3>1. CASE i = m
      <4>1. h[i - 1] = g[m - 1] /\ h[i] = OneMore(g[m - 1], base, s[m])
        BY <2>2, <2>3, <3>1
      <4>. QED BY <2>2, <3>1, <4>1
    <3>2. CASE i # m
      <4>1. i \in 0 .. m - 1 /\ h[i] = g[i] /\ (i # 0 => h[i - 1] = g[i - 1])
        BY <2>3, <3>2
      <4>2. g[i] = IF i = 0 THEN 0 ELSE OneMore(g[i - 1], base, s[i])
        BY <2>4, <4>1 DEF Values
      <4>. QED BY <4>1, <4>2
    <3>. QED BY <3>1, <3>2
  <2>6. Values(h, s, base, m)
    <3>1. h = [i \in 0 .. m |-> h[i]]
      OBVIOUS
    <3>. HIDE DEF h
    <3>. QED BY <2>5, <3>1 DEF Values
  <2>. QED BY <2>1, <2>6
<1>. QED BY <1>1

\* Two such functions agree where the sequences do.
LEMMA ValuesAgree ==
    ASSUME NEW s, NEW t, NEW base, NEW n \in Nat, NEW g, NEW h, NEW m \in Nat, n <= m,
           Values(g, s, base, n), Values(h, t, base, m), \A i \in 1 .. n : s[i] = t[i]
    PROVE  g[n] = h[n]
<1>. DEFINE Differ == {i \in Nat : i <= n /\ g[i] # h[i]}
<1>1. ASSUME Differ # {} PROVE FALSE
  <2>1. PICK i \in Differ : \A k \in Differ : i <= k
    <3>1. Differ \in SUBSET Nat
      OBVIOUS
    <3>. HIDE DEF Differ
    <3>. QED BY <1>1, <3>1, Least
  <2>2. i \in 0 .. n /\ i \in 0 .. m
    BY <2>1
  <2>3. g[i] = IF i = 0 THEN 0 ELSE OneMore(g[i - 1], base, s[i])
    BY <2>2 DEF Values
  <2>4. h[i] = IF i = 0 THEN 0 ELSE OneMore(h[i - 1], base, t[i])
    BY <2>2 DEF Values
  <2>5. i # 0
    BY <2>1, <2>3, <2>4
  <2>6. i - 1 \in Nat /\ i - 1 <= n /\ i - 1 \notin Differ
    BY <2>1, <2>2, <2>5
  <2>7. g[i - 1] = h[i - 1] /\ s[i] = t[i]
    BY <2>2, <2>5, <2>6
  <2>. QED BY <2>1, <2>3, <2>4, <2>7
<1>. QED BY <1>1

\* The value of nothing, and that of a numeral with a digit more.
LEMMA PositionalFacts ==
    ASSUME NEW s \in Seq(STRING), NEW base
    PROVE  /\ Positional(<<>>, base) = 0
           /\ \A c \in STRING : Positional(Append(s, c), base) = Positional(s, base) * base + DigitValue[c]
<1>1. \A t : Values(CHOOSE g : Values(g, t, base, 0), t, base, 0)
  BY ValuesExist
<1>2. Positional(<<>>, base) = 0
  <2>. DEFINE u == CHOOSE g : Values(g, <<>>, base, 0)
  <2>1. u = [i \in 0 .. 0 |-> IF i = 0 THEN 0 ELSE OneMore(u[i - 1], base, <<>>[i])]
    BY <1>1 DEF Values
  <2>2. Len(<<>>) = 0
    OBVIOUS
  <2>3. Positional(<<>>, base) = u[0]
    BY <2>2, PositionalIs
  <2>. HIDE DEF u
  <2>. QED BY <2>1, <2>3
<1>3. ASSUME NEW c \in STRING
      PROVE  Positional(Append(s, c), base) = Positional(s, base) * base + DigitValue[c]
  <2>. DEFINE n == Len(s)
              t == Append(s, c)
              g == CHOOSE x : Values(x, s, base, n)
              h == CHOOSE x : Values(x, t, base, n + 1)
  <2>1. n \in Nat /\ n + 1 \in Nat /\ n <= n + 1 /\ Len(t) = n + 1 /\ t[n + 1] = c /\ \A i \in 1 .. n : s[i] = t[i]
    OBVIOUS
  <2>2. Values(g, s, base, n) /\ Values(h, t, base, n + 1)
    <3>. HIDE DEF n, t
    <3>. QED BY <2>1, ValuesExist
  <2>3. Positional(s, base) = g[n] /\ Positional(t, base) = h[n + 1]
    BY <2>1, PositionalIs, Zenon
  <2>. HIDE DEF n, t, g, h
  <2>4. g[n] = h[n]
    BY <2>1, <2>2, ValuesAgree
  <2>5. h[n + 1] = OneMore(h[n], base, c)
    <3>1. n + 1 \in 0 .. n + 1 /\ n + 1 # 0 /\ (n + 1) - 1 = n
      BY <2>1
    <3>2. h[n + 1] = IF n + 1 = 0 THEN 0 ELSE OneMore(h[(n + 1) - 1], base, t[n + 1])
      BY <2>2, <3>1 DEF Values
    <3>. QED BY <2>1, <3>1, <3>2
  <2>. QED BY <2>3, <2>4, <2>5 DEF OneMore, t
<1>. QED BY <1>2, <1>3

-----------------------------------------------------------------------------
(* Escapes.                                                                *)

\* The backslashes in front of a character.
Run(s, i, n) == /\ \A k \in i - n .. i - 1 : s[k] = "\\"
                /\ n = i - 1 \/ s[i - n - 1] # "\\"

LEMMA RunUnique ==
    ASSUME NEW s, NEW i \in Nat \ {0}, NEW m \in 0 .. i - 1, NEW n \in 0 .. i - 1,
           Run(s, i, m), Run(s, i, n)
    PROVE  m = n
<1>1. ASSUME NEW x \in 0 .. i - 1, NEW y \in 0 .. i - 1, Run(s, i, x), Run(s, i, y), x < y
      PROVE  FALSE
  <2>1. i - x - 1 \in i - y .. i - 1 /\ x # i - 1
    BY <1>1
  <2>. QED BY <1>1, <2>1 DEF Run
<1>. QED BY <1>1

\* A backslash more, or none.
LEMMA RunGrows ==
    ASSUME NEW s, NEW i \in Nat \ {0}, NEW n \in 0 .. i - 1, Run(s, i, n)
    PROVE  /\ s[i] = "\\" => n + 1 \in 0 .. i /\ Run(s, i + 1, n + 1)
           /\ s[i] # "\\" => 0 \in 0 .. i /\ Run(s, i + 1, 0)
<1>1. ASSUME s[i] = "\\" PROVE Run(s, i + 1, n + 1)
  <2>1. \A k \in (i + 1) - (n + 1) .. (i + 1) - 1 : k = i \/ k \in i - n .. i - 1
    OBVIOUS
  <2>2. (i + 1) - (n + 1) - 1 = i - n - 1
    OBVIOUS
  <2>3. \A k \in (i + 1) - (n + 1) .. (i + 1) - 1 : s[k] = "\\"
    BY <1>1, <2>1 DEF Run
  <2>4. n + 1 = (i + 1) - 1 \/ s[(i + 1) - (n + 1) - 1] # "\\"
    BY <2>2 DEF Run
  <2>. QED BY <2>3, <2>4 DEF Run
<1>2. ASSUME s[i] # "\\" PROVE Run(s, i + 1, 0)
  <2>1. \A k \in (i + 1) - 0 .. (i + 1) - 1 : FALSE
    OBVIOUS
  <2>2. (i + 1) - 0 - 1 = i
    OBVIOUS
  <2>. QED BY <1>2, <2>1, <2>2 DEF Run
<1>. QED BY <1>1, <1>2

LEMMA RunStarts == \A s : Run(s, 1, 0)
<1>. QED BY DEF Run

LEMMA RunExists ==
    ASSUME NEW s, NEW i \in Nat \ {0}
    PROVE  \E n \in 0 .. i - 1 : Run(s, i, n)
<1>. DEFINE Without == {j \in Nat : j # 0 /\ ~\E n \in 0 .. j - 1 : Run(s, j, n)}
<1>1. ASSUME Without # {} PROVE FALSE
  <2>1. PICK j \in Without : \A k \in Without : j <= k
    <3>1. Without \in SUBSET Nat
      OBVIOUS
    <3>. HIDE DEF Without
    <3>. QED BY <1>1, <3>1, Least
  <2>2. j # 1
    BY <2>1, RunStarts
  <2>. DEFINE k == j - 1
  <2>3. k \in Nat \ {0} /\ k \notin Without /\ k + 1 = j
    BY <2>1, <2>2
  <2>4. PICK n \in 0 .. k - 1 : Run(s, k, n)
    BY <2>3
  <2>5. \E m \in 0 .. k : Run(s, k + 1, m)
    <3>. HIDE DEF k
    <3>. QED BY <2>3, <2>4, RunGrows
  <2>. QED BY <2>1, <2>3, <2>5
<1>. QED BY <1>1

LEMMA EscapedIs ==
    ASSUME NEW s, NEW i \in Nat \ {0}, NEW n \in 0 .. i - 1, Run(s, i, n)
    PROVE  Escaped(s, i) <=> n % 2 = 1
<1>. DEFINE r == CHOOSE m \in 0 .. i - 1 : Run(s, i, m)
<1>1. r \in 0 .. i - 1 /\ Run(s, i, r)
  OBVIOUS
<1>2. Escaped(s, i) <=> r % 2 = 1
  BY DEF Escaped, Run
<1>. HIDE DEF r
<1>3. r = n
  BY <1>1, RunUnique
<1>. QED BY <1>2, <1>3

\* Only a backslash that is not escaped escapes.
LEMMA EscapedNext ==
    ASSUME NEW s, NEW i \in Nat \ {0}
    PROVE  /\ ~Escaped(s, 1)
           /\ Escaped(s, i + 1) <=> s[i] = "\\" /\ ~Escaped(s, i)
<1>1. ~Escaped(s, 1)
  <2>1. 0 \in 0 .. 1 - 1 /\ 1 \in Nat \ {0} /\ 0 % 2 # 1
    OBVIOUS
  <2>. QED BY <2>1, RunStarts, EscapedIs
<1>2. PICK n \in 0 .. i - 1 : Run(s, i, n)
  BY RunExists
<1>3. Escaped(s, i) <=> n % 2 = 1
  BY <1>2, EscapedIs
<1>. DEFINE j == i + 1
<1>4. j \in Nat \ {0} /\ j - 1 = i
  OBVIOUS
<1>5. ASSUME s[i] = "\\" PROVE Escaped(s, j) <=> ~Escaped(s, i)
  <2>1. n + 1 \in 0 .. j - 1 /\ Run(s, j, n + 1)
    BY <1>2, <1>4, <1>5, RunGrows
  <2>2. Escaped(s, j) <=> (n + 1) % 2 = 1
    <3>. HIDE DEF j
    <3>. QED BY <1>4, <2>1, EscapedIs
  <2>3. (n + 1) % 2 = 1 <=> n % 2 # 1
    OBVIOUS
  <2>. HIDE DEF j
  <2>. QED BY <1>3, <2>2, <2>3
<1>6. ASSUME s[i] # "\\" PROVE ~Escaped(s, j)
  <2>1. 0 \in 0 .. j - 1 /\ Run(s, j, 0) /\ 0 % 2 # 1
    BY <1>2, <1>4, <1>6, RunGrows
  <2>. HIDE DEF j
  <2>. QED BY <1>4, <2>1, EscapedIs
<1>. QED BY <1>1, <1>5, <1>6

\* Whether a character is escaped depends on what is in front of it.
LEMMA EscapedAlike ==
    ASSUME NEW s, NEW t, NEW i \in Nat \ {0}, \A k \in 1 .. i - 1 : s[k] = t[k]
    PROVE  Escaped(s, i) <=> Escaped(t, i)
<1>1. PICK n \in 0 .. i - 1 : Run(s, i, n)
  BY RunExists
<1>2. /\ \A k \in i - n .. i - 1 : k \in 1 .. i - 1
      /\ n # i - 1 => i - n - 1 \in 1 .. i - 1
  OBVIOUS
<1>3. Run(t, i, n)
  BY <1>1, <1>2 DEF Run
<1>. QED BY <1>1, <1>3, EscapedIs

-----------------------------------------------------------------------------
(* Lexemes, by the characters of the text.                                 *)

\* The characters behind one place up to another.
Digital(a, b) == \A k \in a + 1 .. b : text[k] \in Digits
PointAt(a, b, p) == /\ a + 1 < p /\ p < b /\ text[p] = "."
                    /\ \A k \in a + 1 .. b : k # p => text[k] \in Digits
Mantissa(a, b) == (a < b /\ Digital(a, b)) \/ \E p \in Nat : PointAt(a, b, p)
ExponentAt(a, b, f) == /\ f \in {a + 1, a + 2} /\ f <= b /\ Digital(f - 1, b)
                       /\ f = a + 2 => text[a + 1] \in {"+", "-"}

LEMMA NumeralPart ==
    ASSUME text \in Texts, NEW a \in Nat, NEW b \in Nat, a <= b, b <= Len(text), NEW C
    PROVE  /\ AllIn(Part(a + 1, b), C) <=> \A k \in a + 1 .. b : text[k] \in C
           /\ Part(a + 1, b) = <<>> <=> a = b
<1>. DEFINE s == Part(a + 1, b)
            n == b - a
<1>1. s \in Seq(STRING) /\ Len(s) = n /\ n \in Nat /\ \A i \in 1 .. n : s[i] = text[a + i]
  BY PartFacts
<1>2. \A k \in a + 1 .. b : k - a \in 1 .. n /\ a + (k - a) = k
  OBVIOUS
<1>3. \A i \in 1 .. n : a + i \in a + 1 .. b
  OBVIOUS
<1>4. n = 0 <=> a = b
  OBVIOUS
<1>. HIDE DEF s, n
<1>5. AllIn(s, C) <=> \A i \in 1 .. n : text[a + i] \in C
  <2>1. DOMAIN s = 1 .. n
    BY <1>1
  <2>. QED BY <1>1, <2>1 DEF AllIn
<1>6. (\A i \in 1 .. n : text[a + i] \in C) <=> \A k \in a + 1 .. b : text[k] \in C
  BY <1>2, <1>3
<1>7. s = <<>> <=> n = 0
  BY <1>1
<1>. QED BY <1>4, <1>5, <1>6, <1>7 DEF s

LEMMA DigitsPart ==
    ASSUME text \in Texts, NEW a \in Nat, NEW b \in Nat, a <= b, b <= Len(text)
    PROVE  Numeral(Part(a + 1, b), Digits) <=> a < b /\ Digital(a, b)
<1>1. AllIn(Part(a + 1, b), Digits) <=> Digital(a, b)
  BY NumeralPart DEF Digital
<1>2. Part(a + 1, b) = <<>> <=> a = b
  BY NumeralPart
<1>. QED BY <1>1, <1>2 DEF Numeral

LEMMA WordPart ==
    ASSUME text \in Texts, NEW a \in Nat, NEW b \in Nat, a <= b, b <= Len(text)
    PROVE  IsWord(Part(a + 1, b)) <=>
               a < b /\ text[a + 1] \in Letters /\ \A k \in a + 1 .. b : text[k] \in WordCharacters
<1>1. AllIn(Part(a + 1, b), WordCharacters) <=> \A k \in a + 1 .. b : text[k] \in WordCharacters
  BY NumeralPart
<1>2. Part(a + 1, b) = <<>> <=> a = b
  BY NumeralPart
<1>3. a < b => Part(a + 1, b)[1] = text[a + 1]
  BY PartFacts
<1>. QED BY <1>1, <1>2, <1>3 DEF IsWord

LEMMA BasedPart ==
    ASSUME text \in Texts, NEW a \in Nat, NEW b \in Nat, a <= b, b <= Len(text), NEW marks, NEW digits
    PROVE  /\ IsBased(Part(a + 1, b), marks, digits) <=>
                  /\ a + 2 < b /\ text[a + 1] = "0" /\ text[a + 2] \in marks
                  /\ \A k \in a + 3 .. b : text[k] \in digits
           /\ a + 2 < b => SubSeq(Part(a + 1, b), 3, Len(Part(a + 1, b))) = Part(a + 3, b)
<1>. DEFINE s == Part(a + 1, b)
            n == b - a
<1>1. Len(s) = n /\ n \in Nat /\ \A i \in 1 .. n : s[i] = text[a + i]
  BY PartFacts
<1>2. a + 2 < b <=> n > 2
  OBVIOUS
<1>3. ASSUME a + 2 < b
      PROVE  /\ s[1] = text[a + 1] /\ s[2] = text[a + 2]
             /\ SubSeq(s, 3, n) = Part(a + 3, b)
             /\ AllIn(SubSeq(s, 3, n), digits) <=> \A k \in a + 3 .. b : text[k] \in digits
  <2>1. 1 \in 1 .. n /\ 2 \in 1 .. n /\ 2 \in Nat /\ n \in Nat /\ 2 <= n /\ a + n = b /\ a + n <= b
    BY <1>3
  <2>2. s[1] = text[a + 1] /\ s[2] = text[a + 2]
    BY <1>1, <2>1
  <2>3. Between(s, 2, n) = Part((a + 2) + 1, b)
    <3>1. Between(s, 2, n) = Part((a + 2) + 1, a + n)
      <4>. HIDE DEF n
      <4>. QED BY <2>1, PartOfPart
    <3>. QED BY <2>1, <3>1
  <2>4. 2 + 1 = 3 /\ (a + 2) + 1 = a + 3 /\ a + 2 \in Nat /\ a + 2 <= b
    BY <1>3
  <2>5. SubSeq(s, 3, n) = Part(a + 3, b)
    BY <2>3, <2>4 DEF Between
  <2>6. AllIn(Part((a + 2) + 1, b), digits) <=> \A k \in (a + 2) + 1 .. b : text[k] \in digits
    BY <2>4, NumeralPart
  <2>. HIDE DEF s, n
  <2>. QED BY <2>2, <2>4, <2>5, <2>6
<1>. HIDE DEF s, n
<1>4. SubSeq(s, 3, Len(s)) = SubSeq(s, 3, n)
  BY <1>1
<1>. QED BY <1>1, <1>2, <1>3, <1>4 DEF IsBased, s

\* The parts in front of and behind a character.
LEMMA PartSplit ==
    ASSUME text \in Texts, NEW a \in Nat, NEW b \in Nat, a <= b, b <= Len(text), NEW i \in 1 .. b - a
    PROVE  /\ SubSeq(Part(a + 1, b), 1, i - 1) = Part(a + 1, (a + i) - 1)
           /\ SubSeq(Part(a + 1, b), i + 1, Len(Part(a + 1, b))) = Part((a + i) + 1, b)
<1>. DEFINE s == Part(a + 1, b)
            n == b - a
<1>1. Len(s) = n /\ n \in Nat /\ a + n = b
  BY PartFacts
<1>2. /\ 0 \in Nat /\ i - 1 \in Nat /\ 0 <= i - 1 /\ a + (i - 1) <= b
      /\ i \in Nat /\ i <= n /\ a + n <= b
  BY <1>1
<1>3. Between(s, 0, i - 1) = Part((a + 0) + 1, a + (i - 1))
  <2>. DEFINE j == i - 1
  <2>. HIDE DEF n
  <2>1. j \in Nat /\ 0 <= j /\ a + j <= b
    BY <1>2
  <2>. HIDE DEF j
  <2>2. Between(s, 0, j) = Part((a + 0) + 1, a + j)
    BY <2>1, PartOfPart
  <2>. QED BY <2>2 DEF j
<1>4. Between(s, i, n) = Part((a + i) + 1, a + n)
  <2>. HIDE DEF n
  <2>. QED BY <1>1, <1>2, PartOfPart
<1>5. 0 + 1 = 1 /\ (a + 0) + 1 = a + 1 /\ a + (i - 1) = (a + i) - 1
  OBVIOUS
<1>. HIDE DEF s, n
<1>. QED BY <1>1, <1>3, <1>4, <1>5 DEF Between, s

LEMMA FractionPart ==
    ASSUME text \in Texts, NEW a \in Nat, NEW b \in Nat, a <= b, b <= Len(text)
    PROVE  IsFraction(Part(a + 1, b)) <=> \E p \in Nat : PointAt(a, b, p)
<1>. DEFINE s == Part(a + 1, b)
            n == b - a
<1>1. s \in Seq(STRING) /\ Len(s) = n /\ n \in Nat /\ \A i \in 1 .. n : s[i] = text[a + i]
  BY PartFacts
<1>2. DOMAIN s = 1 .. n
  <2>. HIDE DEF s, n
  <2>. QED BY <1>1
<1>3. ASSUME NEW i \in 1 .. n
      PROVE  (/\ s[i] = "."
              /\ Numeral(SubSeq(s, 1, i - 1), Digits) /\ Numeral(SubSeq(s, i + 1, Len(s)), Digits))
             <=> PointAt(a, b, a + i)
  <2>. DEFINE p == a + i
  <2>1. p \in Nat /\ p - 1 \in Nat /\ a <= p - 1 /\ p - 1 <= Len(text) /\ p <= b /\ s[i] = text[p]
    <3>1. Len(text) \in Nat
      BY CharFacts
    <3>. QED BY <1>1, <3>1
  <2>2. SubSeq(s, 1, i - 1) = Part(a + 1, p - 1) /\ SubSeq(s, i + 1, Len(s)) = Part(p + 1, b)
    BY PartSplit
  <2>. DEFINE q == p - 1
  <2>3. Numeral(Part(a + 1, q), Digits) <=> a < q /\ Digital(a, q)
    <3>. HIDE DEF q
    <3>. QED BY <2>1, DigitsPart DEF q
  <2>4. Numeral(Part(p + 1, b), Digits) <=> p < b /\ Digital(p, b)
    <3>. HIDE DEF p
    <3>. QED BY <2>1, DigitsPart
  <2>. HIDE DEF s, n, p
  <2>5. PointAt(a, b, p) <=> text[p] = "." /\ a < p - 1 /\ Digital(a, p - 1) /\ p < b /\ Digital(p, b)
    BY <2>1 DEF PointAt, Digital
  <2>. QED BY <2>1, <2>2, <2>3, <2>4, <2>5 DEF p
<1>4. \A p \in Nat : PointAt(a, b, p) => p - a \in 1 .. n /\ a + (p - a) = p
  BY DEF PointAt
<1>5. \A i \in 1 .. n : a + i \in Nat
  OBVIOUS
<1>. HIDE DEF s, n
<1>6. ASSUME NEW p \in Nat, PointAt(a, b, p) PROVE \E i \in 1 .. n : PointAt(a, b, a + i)
  BY <1>4, <1>6
<1>. QED BY <1>2, <1>3, <1>5, <1>6 DEF IsFraction, s

LEMMA MantissaPart ==
    ASSUME text \in Texts, NEW a \in Nat, NEW b \in Nat, a <= b, b <= Len(text)
    PROVE  Numeral(Part(a + 1, b), Digits) \/ IsFraction(Part(a + 1, b)) <=> Mantissa(a, b)
<1>1. Numeral(Part(a + 1, b), Digits) <=> a < b /\ Digital(a, b)
  BY DigitsPart
<1>2. IsFraction(Part(a + 1, b)) <=> \E p \in Nat : PointAt(a, b, p)
  BY FractionPart
<1>. QED BY <1>1, <1>2 DEF Mantissa

LEMMA TailPart ==
    ASSUME text \in Texts, NEW a \in Nat, NEW b \in Nat, a < b, b <= Len(text)
    PROVE  Tail(Part(a + 1, b)) = Part((a + 1) + 1, b)
<1>. DEFINE s == Part(a + 1, b)
            t == Part((a + 1) + 1, b)
            n == b - a
<1>1. s \in Seq(STRING) /\ Len(s) = n /\ n \in Nat \ {0} /\ \A i \in 1 .. n : s[i] = text[a + i]
  BY PartFacts
<1>2. t \in Seq(STRING) /\ Len(t) = b - (a + 1) /\ \A i \in 1 .. b - (a + 1) : t[i] = text[(a + 1) + i]
  <2>. DEFINE c == a + 1
  <2>1. c \in Nat /\ c <= b
    OBVIOUS
  <2>. HIDE DEF c
  <2>2. /\ Part(c + 1, b) \in Seq(STRING) /\ Len(Part(c + 1, b)) = b - c
        /\ \A i \in 1 .. b - c : Part(c + 1, b)[i] = text[c + i]
    BY <2>1, PartFacts
  <2>. QED BY <2>2 DEF c
<1>3. b - (a + 1) = n - 1 /\ \A i \in 1 .. n - 1 : (a + 1) + i = a + (i + 1)
  OBVIOUS
<1>. HIDE DEF s, t, n
<1>4. Tail(s) \in Seq(STRING) /\ Len(Tail(s)) = n - 1 /\ \A i \in 1 .. n - 1 : Tail(s)[i] = s[i + 1]
  BY <1>1
<1>5. \A i \in 1 .. n - 1 : i + 1 \in 1 .. n
  BY <1>1
<1>6. \A i \in 1 .. n - 1 : Tail(s)[i] = t[i]
  <2>. SUFFICES ASSUME NEW i \in 1 .. n - 1 PROVE Tail(s)[i] = t[i]
    OBVIOUS
  <2>1. Tail(s)[i] = s[i + 1] /\ s[i + 1] = text[a + (i + 1)]
    BY <1>1, <1>4, <1>5
  <2>2. t[i] = text[(a + 1) + i] /\ (a + 1) + i = a + (i + 1)
    BY <1>2, <1>3
  <2>. QED BY <2>1, <2>2
<1>7. n - 1 \in Nat
  BY <1>1
<1>8. Tail(s) = t
  BY <1>2, <1>3, <1>4, <1>6, <1>7, SameElements
<1>. QED BY <1>8 DEF s, t

LEMMA ExponentPart ==
    ASSUME text \in Texts, NEW a \in Nat, NEW b \in Nat, a <= b, b <= Len(text)
    PROVE  IsExponent(Part(a + 1, b)) <=> \E f \in Nat : ExponentAt(a, b, f)
<1>. DEFINE s == Part(a + 1, b)
            c == a + 1
<1>1. Numeral(s, Digits) <=> a < b /\ Digital(a, b)
  BY DigitsPart
<1>2. Len(s) = b - a /\ (a < b => s[1] = text[a + 1]) /\ (Len(s) > 1 <=> c < b)
  BY PartFacts
<1>3. ASSUME c < b PROVE Numeral(Tail(s), Digits) <=> Digital(c, b)
  <2>1. Tail(s) = Part(c + 1, b)
    BY <1>3, TailPart
  <2>2. c \in Nat /\ c <= b
    BY <1>3
  <2>. HIDE DEF c, s
  <2>. QED BY <1>3, <2>1, <2>2, DigitsPart
<1>4. ExponentAt(a, b, a + 1) <=> a < b /\ Digital(a, b)
  BY DEF ExponentAt, Digital
<1>5. ExponentAt(a, b, a + 2) <=> c < b /\ Digital(c, b) /\ text[a + 1] \in {"+", "-"}
  BY DEF ExponentAt, Digital
<1>6. \A f \in Nat : ExponentAt(a, b, f) => f = a + 1 \/ f = a + 2
  BY DEF ExponentAt
<1>7. a + 1 \in Nat /\ a + 2 \in Nat /\ (c < b => a < b)
  OBVIOUS
<1>8. (\E f \in Nat : ExponentAt(a, b, f)) <=> ExponentAt(a, b, a + 1) \/ ExponentAt(a, b, a + 2)
  BY <1>6, <1>7
<1>. HIDE DEF c, s
<1>. QED BY <1>1, <1>2, <1>3, <1>4, <1>5, <1>7, <1>8 DEF IsExponent, s

FloatAt(a, b, e, f) == /\ a < e /\ e <= b /\ text[e] \in {"e", "E"}
                       /\ Mantissa(a, e - 1) /\ ExponentAt(e, b, f)

LEMMA FloatPart ==
    ASSUME text \in Texts, NEW a \in Nat, NEW b \in Nat, a <= b, b <= Len(text)
    PROVE  IsFloat(Part(a + 1, b)) <=> \/ \E p \in Nat : PointAt(a, b, p)
                                       \/ \E e, f \in Nat : FloatAt(a, b, e, f)
<1>. DEFINE s == Part(a + 1, b)
            n == b - a
            Here(i) == LET mantissa == SubSeq(s, 1, i - 1)
                       IN  /\ s[i] \in {"e", "E"}
                           /\ Numeral(mantissa, Digits) \/ IsFraction(mantissa)
                           /\ IsExponent(SubSeq(s, i + 1, Len(s)))
<1>1. s \in Seq(STRING) /\ Len(s) = n /\ n \in Nat /\ \A i \in 1 .. n : s[i] = text[a + i]
  BY PartFacts
<1>2. DOMAIN s = 1 .. n
  <2>. HIDE DEF s, n
  <2>. QED BY <1>1
<1>3. ASSUME NEW i \in 1 .. n
      PROVE  Here(i) <=> \E f \in Nat : FloatAt(a, b, a + i, f)
  <2>. DEFINE e == a + i
              q == e - 1
  <2>1. e \in Nat /\ q \in Nat /\ a <= q /\ q <= Len(text) /\ a < e /\ e <= b /\ s[i] = text[e]
    <3>1. Len(text) \in Nat
      BY CharFacts
    <3>2. s[i] = text[e]
      <4>. HIDE DEF s, n
      <4>. QED BY <1>1
    <3>3. n \in Nat /\ i \in Nat /\ 1 <= i /\ i <= n
      OBVIOUS
    <3>. QED BY <3>1, <3>2, <3>3
  <2>2. SubSeq(s, 1, i - 1) = Part(a + 1, q) /\ SubSeq(s, i + 1, Len(s)) = Part(e + 1, b)
    BY PartSplit
  <2>3. Numeral(Part(a + 1, q), Digits) \/ IsFraction(Part(a + 1, q)) <=> Mantissa(a, q)
    <3>. HIDE DEF q
    <3>. QED BY <2>1, MantissaPart DEF q
  <2>4. IsExponent(Part(e + 1, b)) <=> \E f \in Nat : ExponentAt(e, b, f)
    <3>. HIDE DEF e, q
    <3>. QED BY <2>1, ExponentPart
  <2>5. \A f : FloatAt(a, b, e, f) <=> text[e] \in {"e", "E"} /\ Mantissa(a, q) /\ ExponentAt(e, b, f)
    BY <2>1 DEF FloatAt
  <2>. HIDE DEF s, n, e, q
  <2>. QED BY <2>1, <2>2, <2>3, <2>4, <2>5 DEF e
<1>4. \A e \in Nat : a < e /\ e <= b => e - a \in 1 .. n /\ a + (e - a) = e
  OBVIOUS
<1>5. \A i \in 1 .. n : a + i \in Nat
  OBVIOUS
<1>6. IsFraction(s) <=> \E p \in Nat : PointAt(a, b, p)
  BY FractionPart
<1>7. IsFloat(s) <=> IsFraction(s) \/ \E i \in DOMAIN s : Here(i)
  BY DEF IsFloat
<1>. HIDE DEF s, n, Here
<1>8. ASSUME NEW e \in Nat, NEW f \in Nat, FloatAt(a, b, e, f)
      PROVE  \E i \in 1 .. n : \E g \in Nat : FloatAt(a, b, a + i, g)
  BY <1>4, <1>8 DEF FloatAt
<1>. QED BY <1>2, <1>3, <1>5, <1>6, <1>7, <1>8 DEF s

Quote == "\""
LEMMA QuoteFacts == Quote # "\\" /\ Quote # "\n" /\ "\n" # "\\" /\ "\n" \notin Escapes
<1>. QED BY Zenon DEF Quote, Escapes

\* Whether the character at a place is escaped, by the text from there on.
EscapedIn(a, i) == Escaped(Part(a + 1, Len(text)), i)

LEMMA StringPart ==
    ASSUME text \in Texts, NEW a \in Nat, NEW b \in Nat, a <= b, b <= Len(text)
    PROVE  /\ IsString(Part(a + 1, b)) <=>
                  /\ b - a >= 2
                  /\ \A i \in 1 .. b - a :
                         /\ text[a + i] # "\n"
                         /\ EscapedIn(a, i) => text[a + i] \in Escapes
                         /\ text[a + i] = Quote /\ ~EscapedIn(a, i) <=> i \in {1, b - a}
           /\ ~EscapedIn(a, 1)
           /\ \A i \in 1 .. Len(text) - a :
                  EscapedIn(a, i + 1) <=> text[a + i] = "\\" /\ ~EscapedIn(a, i)
<1>. DEFINE s == Part(a + 1, b)
            n == b - a
            t == Part(a + 1, Len(text))
            m == Len(text) - a
<1>1. s \in Seq(STRING) /\ Len(s) = n /\ n \in Nat /\ \A i \in 1 .. n : s[i] = text[a + i]
  BY PartFacts
<1>2. m \in Nat /\ n <= m /\ \A i \in 1 .. m : t[i] = text[a + i]
  <2>. DEFINE l == Len(text)
  <2>1. l \in Nat /\ a <= l /\ l <= l
    BY CharFacts
  <2>. HIDE DEF l
  <2>2. \A i \in 1 .. l - a : Part(a + 1, l)[i] = text[a + i]
    BY <2>1, PartFacts DEF l
  <2>. QED BY <2>1, <2>2 DEF l
<1>3. DOMAIN s = 1 .. n
  <2>. HIDE DEF s, n
  <2>. QED BY <1>1
<1>. HIDE DEF s, n, t, m
<1>4. ASSUME NEW i \in 1 .. n PROVE Escaped(s, i) <=> Escaped(t, i)
  <2>1. i \in Nat \ {0} /\ \A k \in 1 .. i - 1 : s[k] = t[k]
    BY <1>1, <1>2
  <2>. QED BY <2>1, EscapedAlike
<1>5. IsString(s) <=>
          /\ n >= 2
          /\ \A i \in 1 .. n : /\ text[a + i] # "\n"
                               /\ Escaped(t, i) => text[a + i] \in Escapes
                               /\ text[a + i] = Quote /\ ~Escaped(t, i) <=> i \in {1, n}
  BY <1>1, <1>3, <1>4, Zenon DEF IsString, Quote
<1>6. ~Escaped(t, 1)
  <2>1. 1 \in Nat \ {0}
    OBVIOUS
  <2>. QED BY <2>1, EscapedNext
<1>7. ASSUME NEW i \in 1 .. m PROVE Escaped(t, i + 1) <=> text[a + i] = "\\" /\ ~Escaped(t, i)
  <2>1. i \in Nat \ {0} /\ t[i] = text[a + i]
    BY <1>2
  <2>. QED BY <2>1, EscapedNext
<1>. QED BY <1>5, <1>6, <1>7 DEF EscapedIn, s, n, t, m

\* Two characters, and the first character of an operator.
LEMMA OperatorPart ==
    ASSUME text \in Texts, NEW a \in Nat, NEW b \in Nat, a <= b, b <= Len(text)
    PROVE  /\ IsOperator(Part(a + 1, b)) <=> \/ b = a + 2 /\ <<text[a + 1], text[a + 2]>> \in Doubles
                                             \/ b = a + 1 /\ text[a + 1] \in Singles
           /\ IsOperator(Part(a + 1, b)) => a < b /\ text[a + 1] \in Singles
<1>. DEFINE s == Part(a + 1, b)
            n == b - a
<1>1. s \in Seq(STRING) /\ Len(s) = n /\ n \in Nat /\ \A i \in 1 .. n : s[i] = text[a + i]
  BY PartFacts
<1>2. (n = 2 <=> b = a + 2) /\ (n = 1 <=> b = a + 1)
  OBVIOUS
<1>. HIDE DEF s, n
<1>3. \A x \in Doubles : \E y, z \in Singles : x = <<y, z>>
  <2>. SUFFICES ASSUME NEW x \in Doubles PROVE \E y, z \in Singles : x = <<y, z>>
    OBVIOUS
  <2>1. CASE x \in {<<"+", "+">>, <<"+", "=">>, <<"-", "-">>, <<"-", "=">>, <<"=", "=">>, <<"!", "=">>}
    BY <2>1 DEF Singles
  <2>2. CASE x \in {<<"<", "<">>, <<"<", "=">>, <<">", ">">>, <<">", "=">>, <<"&", "&">>, <<"|", "|">>,
                    <<":", ":">>}
    BY <2>2 DEF Singles
  <2>. QED BY <2>1, <2>2 DEF Doubles
<1>4. n = 2 => s = <<text[a + 1], text[a + 2]>>
  BY <1>1
<1>5. s \in Doubles <=> n = 2 /\ <<text[a + 1], text[a + 2]>> \in Doubles
  <2>1. ASSUME s \in Doubles PROVE n = 2
    <3>1. PICK y \in Singles, z \in Singles : s = <<y, z>>
      BY <1>3, <2>1
    <3>2. Len(<<y, z>>) = 2
      OBVIOUS
    <3>. QED BY <1>1, <3>1, <3>2
  <2>. QED BY <1>4, <2>1
<1>6. n = 1 => s[1] = text[a + 1]
  BY <1>1
<1>7. <<text[a + 1], text[a + 2]>> \in Doubles => text[a + 1] \in Singles
  BY <1>3
<1>8. IsOperator(s) <=> s \in Doubles \/ (Len(s) = 1 /\ s[1] \in Singles)
  BY DEF IsOperator
<1>9. IsOperator(s) <=> \/ n = 2 /\ <<text[a + 1], text[a + 2]>> \in Doubles
                        \/ n = 1 /\ text[a + 1] \in Singles
  BY <1>1, <1>5, <1>6, <1>8
<1>10. n = 1 \/ n = 2 => a < b
  BY <1>2
<1>. QED BY <1>2, <1>7, <1>9, <1>10 DEF s

-----------------------------------------------------------------------------
(* Where a lexeme ends, no longer one begins at its first character.       *)

BasedAt(a, b, marks, digits) == /\ a + 2 < b /\ text[a + 1] = "0" /\ text[a + 2] \in marks
                                /\ \A k \in a + 3 .. b : text[k] \in digits
NumberAt(a, b) == \/ a < b /\ Digital(a, b)
                  \/ BasedAt(a, b, {"x", "X"}, Digits \cup HexLetters)
                  \/ BasedAt(a, b, {"b", "B"}, {"0", "1"})
                  \/ \E p \in Nat : PointAt(a, b, p)
                  \/ \E e, f \in Nat : FloatAt(a, b, e, f)

LEMMA IntPart ==
    ASSUME text \in Texts, NEW a \in Nat, NEW b \in Nat, a <= b, b <= Len(text)
    PROVE  /\ IsHex(Part(a + 1, b)) <=> BasedAt(a, b, {"x", "X"}, Digits \cup HexLetters)
           /\ IsBinary(Part(a + 1, b)) <=> BasedAt(a, b, {"b", "B"}, {"0", "1"})
<1>1. \A marks, digits : IsBased(Part(a + 1, b), marks, digits) <=> BasedAt(a, b, marks, digits)
  BY BasedPart DEF BasedAt
<1>. QED BY <1>1 DEF IsHex, IsBinary

LEMMA NumberPart ==
    ASSUME text \in Texts, NEW a \in Nat, NEW b \in Nat, a <= b, b <= Len(text)
    PROVE  /\ IsInt(Part(a + 1, b)) \/ IsFloat(Part(a + 1, b)) <=> NumberAt(a, b)
           /\ NumberAt(a, b) => a < b /\ text[a + 1] \in Digits
<1>1. IsHex(Part(a + 1, b)) <=> BasedAt(a, b, {"x", "X"}, Digits \cup HexLetters)
  BY IntPart
<1>2. IsBinary(Part(a + 1, b)) <=> BasedAt(a, b, {"b", "B"}, {"0", "1"})
  BY IntPart
<1>3. Numeral(Part(a + 1, b), Digits) <=> a < b /\ Digital(a, b)
  BY DigitsPart
<1>4. IsFloat(Part(a + 1, b)) <=> (\E p \in Nat : PointAt(a, b, p)) \/ \E e, f \in Nat : FloatAt(a, b, e, f)
  BY FloatPart
<1>5. IsInt(Part(a + 1, b)) \/ IsFloat(Part(a + 1, b)) <=> NumberAt(a, b)
  BY <1>1, <1>2, <1>3, <1>4 DEF IsInt, NumberAt
<1>6. ASSUME NEW c \in Nat, c < b, Digital(a, c), a < c PROVE text[a + 1] \in Digits
  BY <1>6 DEF Digital
<1>7. ASSUME NEW c \in Nat, NEW p \in Nat, PointAt(a, c, p) PROVE a < c /\ text[a + 1] \in Digits
  <2>1. a + 1 < p /\ p < c /\ a + 1 \in a + 1 .. c /\ a + 1 # p
    BY <1>7 DEF PointAt
  <2>. QED BY <1>7, <2>1 DEF PointAt
<1>8. ASSUME a < b, Digital(a, b) PROVE text[a + 1] \in Digits
  BY <1>8 DEF Digital
<1>9. ASSUME NEW marks, NEW digits, BasedAt(a, b, marks, digits) PROVE a < b /\ text[a + 1] \in Digits
  BY <1>9 DEF BasedAt, Digits
<1>10. ASSUME NEW e \in Nat, NEW f \in Nat, FloatAt(a, b, e, f) PROVE a < b /\ text[a + 1] \in Digits
  <2>. DEFINE c == e - 1
  <2>1. c \in Nat /\ c < b /\ Mantissa(a, c)
    BY <1>10 DEF FloatAt
  <2>. HIDE DEF c
  <2>2. (a < c /\ Digital(a, c)) \/ \E p \in Nat : PointAt(a, c, p)
    BY <2>1 DEF Mantissa
  <2>. QED BY <1>6, <1>7, <2>1, <2>2
<1>. QED BY <1>5, <1>7, <1>8, <1>9, <1>10 DEF NumberAt

\* Words, numbers, strings and operators begin with characters of four kinds.
LEMMA LexemeKinds ==
    ASSUME text \in Texts, NEW a \in Nat, NEW b \in Nat, a <= b, b <= Len(text),
           IsLexeme(Part(a + 1, b))
    PROVE  /\ a < b
           /\ \/ text[a + 1] \in Letters /\ \A k \in a + 1 .. b : text[k] \in WordCharacters
              \/ text[a + 1] \in Digits /\ NumberAt(a, b)
              \/ text[a + 1] = Quote /\ IsString(Part(a + 1, b))
              \/ text[a + 1] \in Singles /\ IsOperator(Part(a + 1, b))
<1>1. CASE IsWord(Part(a + 1, b))
  BY <1>1, WordPart
<1>2. CASE IsInt(Part(a + 1, b)) \/ IsFloat(Part(a + 1, b))
  <2>1. NumberAt(a, b)
    BY <1>2, NumberPart
  <2>2. a < b /\ text[a + 1] \in Digits
    BY <2>1, NumberPart
  <2>. QED BY <2>1, <2>2
<1>3. CASE IsString(Part(a + 1, b))
  <2>. DEFINE n == b - a
  <2>1. /\ n >= 2
        /\ \A i \in 1 .. n : text[a + i] = Quote /\ ~EscapedIn(a, i) <=> i \in {1, n}
    BY <1>3, StringPart
  <2>2. 1 \in 1 .. n /\ a < b
    <3>1. b - a >= 2
      BY <2>1
    <3>. QED BY <3>1
  <2>3. text[a + 1] = Quote
    <3>. HIDE DEF n
    <3>. QED BY <2>1, <2>2
  <2>. QED BY <1>3, <2>2, <2>3
<1>4. CASE IsOperator(Part(a + 1, b))
  BY <1>4, OperatorPart
<1>. QED BY <1>1, <1>2, <1>3, <1>4 DEF IsLexeme

LEMMA KindsDiffer ==
    /\ \A c \in Letters : c \notin Digits /\ c \notin Singles /\ c # Quote /\ c # "end"
    /\ \A c \in Digits : c \notin Singles /\ c # Quote
    /\ Quote \notin Singles
<1>1. \A c \in Letters : c \notin Digits /\ c \notin Singles /\ c # Quote /\ c # "end"
  BY LexerAssumption, Zenon DEF Quote
<1>2. \A c \in Digits : c \notin Singles /\ c # Quote
  BY DEF Digits, Singles, Quote
<1>3. Quote \notin Singles
  BY DEF Singles, Quote
<1>. QED BY <1>1, <1>2, <1>3

\* No lexeme begins behind one place and ends behind another.
NoneLonger(a, b) == \A last \in b + 1 .. Len(text) : ~IsLexeme(Part(a + 1, last))

LEMMA WordLongest ==
    ASSUME text \in Texts, NEW a \in Nat, NEW b \in Nat, a <= b, b <= Len(text), a < Len(text),
           text[a + 1] \in Letters, b < Len(text) => text[b + 1] \notin WordCharacters
    PROVE  NoneLonger(a, b)
<1>. SUFFICES ASSUME NEW last \in b + 1 .. Len(text), IsLexeme(Part(a + 1, last)) PROVE FALSE
  BY DEF NoneLonger
<1>1. last \in Nat /\ a <= last /\ last <= Len(text) /\ b < Len(text) /\ b + 1 \in a + 1 .. last
  BY CharFacts
<1>2. \A k \in a + 1 .. last : text[k] \in WordCharacters
  BY <1>1, LexemeKinds, KindsDiffer
<1>. QED BY <1>1, <1>2

LEMMA NumberLongest ==
    ASSUME text \in Texts, NEW a \in Nat, NEW b \in Nat, a <= b, b <= Len(text), a < Len(text),
           text[a + 1] \in Digits,
           \A last \in b + 1 .. Len(text) : ~NumberAt(a, last)
    PROVE  NoneLonger(a, b)
<1>. SUFFICES ASSUME NEW last \in b + 1 .. Len(text), IsLexeme(Part(a + 1, last)) PROVE FALSE
  BY DEF NoneLonger
<1>1. last \in Nat /\ a <= last /\ last <= Len(text)
  BY CharFacts
<1>2. NumberAt(a, last)
  BY <1>1, LexemeKinds, KindsDiffer
<1>. QED BY <1>2

LEMMA OperatorLongest ==
    ASSUME text \in Texts, NEW a \in Nat, NEW b \in Nat, b <= Len(text),
           b = a + 2 \/ (b = a + 1 /\ (b < Len(text) => <<text[a + 1], text[a + 2]>> \notin Doubles)),
           text[a + 1] \in Singles
    PROVE  NoneLonger(a, b)
<1>. SUFFICES ASSUME NEW last \in b + 1 .. Len(text), IsLexeme(Part(a + 1, last)) PROVE FALSE
  BY DEF NoneLonger
<1>1. last \in Nat /\ a <= last /\ last <= Len(text) /\ a + 1 < last /\ b < Len(text)
  BY CharFacts
<1>2. IsOperator(Part(a + 1, last))
  BY <1>1, LexemeKinds, KindsDiffer
<1>3. last = a + 2 /\ <<text[a + 1], text[a + 2]>> \in Doubles
  BY <1>1, <1>2, OperatorPart
<1>. QED BY <1>1, <1>3

LEMMA StringLongest ==
    ASSUME text \in Texts, NEW a \in Nat, NEW b \in Nat, a <= b, b <= Len(text),
           IsString(Part(a + 1, b))
    PROVE  NoneLonger(a, b)
<1>. SUFFICES ASSUME NEW last \in b + 1 .. Len(text), IsLexeme(Part(a + 1, last)) PROVE FALSE
  BY DEF NoneLonger
<1>. DEFINE n == b - a
            m == last - a
<1>1. last \in Nat /\ a <= last /\ last <= Len(text) /\ n < m /\ n \in Nat /\ m \in Nat
  BY CharFacts
<1>2. /\ n >= 2
      /\ \A i \in 1 .. n : text[a + i] = Quote /\ ~EscapedIn(a, i) <=> i \in {1, n}
  BY StringPart
<1>3. text[a + 1] = Quote
  <2>1. b - a >= 2
    BY <1>2
  <2>2. 1 \in 1 .. n
    BY <2>1
  <2>. HIDE DEF n
  <2>. QED BY <1>2, <2>2
<1>4. IsString(Part(a + 1, last))
  BY <1>1, <1>3, LexemeKinds, KindsDiffer
<1>5. \A i \in 1 .. m : text[a + i] = Quote /\ ~EscapedIn(a, i) <=> i \in {1, m}
  BY <1>1, <1>4, StringPart
<1>. HIDE DEF n, m
<1>6. n \in 1 .. m /\ n \in 1 .. n /\ n \notin {1, m}
  <2>1. n >= 2 /\ n < m /\ n \in Nat /\ m \in Nat
    BY <1>1, <1>2
  <2>. QED BY <2>1
<1>. QED BY <1>2, <1>5, <1>6

\* Digits and a point, and what is neither.
Pointed == Digits \cup {"."}
LEMMA MantissaFacts ==
    ASSUME NEW a \in Nat, NEW c \in Nat, Mantissa(a, c)
    PROVE  a < c /\ \A k \in a + 1 .. c : text[k] \in Pointed
<1>1. CASE a < c /\ Digital(a, c)
  BY <1>1 DEF Digital, Pointed
<1>2. ASSUME NEW p \in Nat, PointAt(a, c, p) PROVE a < c /\ \A k \in a + 1 .. c : text[k] \in Pointed
  BY <1>2 DEF PointAt, Pointed
<1>. QED BY <1>1, <1>2 DEF Mantissa

LEMMA PointedFacts ==
    /\ \A c \in {"e", "E", "x", "X", "b", "B"} : c \notin Pointed /\ c \notin Digits
    /\ \A c \in {"x", "X", "b", "B"} : c \notin {"e", "E"}
    /\ "." \notin Digits
<1>. QED BY DEF Digits, Pointed

LEMMA FloatFacts ==
    ASSUME NEW a \in Nat, NEW b \in Nat, NEW e \in Nat, NEW f \in Nat, FloatAt(a, b, e, f)
    PROVE  /\ a + 1 < e /\ e < b /\ text[e] \in {"e", "E"} /\ \A k \in a + 1 .. e - 1 : text[k] \in Pointed
           /\ f \in {e + 1, e + 2} /\ f <= b /\ \A k \in f .. b : text[k] \in Digits
<1>. DEFINE c == e - 1
<1>1. a < e /\ e <= b /\ text[e] \in {"e", "E"} /\ Mantissa(a, c) /\ ExponentAt(e, b, f)
  BY DEF FloatAt
<1>2. c \in Nat
  BY <1>1
<1>. HIDE DEF c
<1>3. a < c /\ \A k \in a + 1 .. c : text[k] \in Pointed
  BY <1>1, <1>2, MantissaFacts
<1>4. f \in {e + 1, e + 2} /\ f <= b /\ Digital(f - 1, b)
  BY <1>1 DEF ExponentAt
<1>5. \A k \in f .. b : text[k] \in Digits
  BY <1>4 DEF Digital
<1>6. a + 1 < e /\ e < b
  BY <1>3, <1>4 DEF c
<1>. QED BY <1>1, <1>3, <1>4, <1>5, <1>6 DEF c

LEMMA BasedLongest ==
    ASSUME NEW a \in Nat, NEW b \in Nat, a + 2 <= b, text[a + 2] \in {"x", "X", "b", "B"},
           ~BasedAt(a, b, {"x", "X"}, Digits \cup HexLetters), ~BasedAt(a, b, {"b", "B"}, {"0", "1"})
    PROVE  ~NumberAt(a, b)
<1>1. text[a + 2] \notin Pointed /\ text[a + 2] \notin {"e", "E"} /\ text[a + 2] \notin Digits
  BY PointedFacts
<1>2. ~Digital(a, b)
  BY <1>1 DEF Digital
<1>3. ASSUME NEW p \in Nat, PointAt(a, b, p) PROVE FALSE
  BY <1>1, <1>3, MantissaFacts DEF Mantissa
<1>4. ASSUME NEW e \in Nat, NEW f \in Nat, FloatAt(a, b, e, f) PROVE FALSE
  <2>1. a + 1 < e /\ text[e] \in {"e", "E"} /\ \A k \in a + 1 .. e - 1 : text[k] \in Pointed
    BY <1>4, FloatFacts
  <2>2. a + 2 = e \/ a + 2 \in a + 1 .. e - 1
    BY <2>1
  <2>. QED BY <1>1, <2>1, <2>2
<1>. QED BY <1>2, <1>3, <1>4 DEF NumberAt

LEMMA DecimalLongest ==
    ASSUME NEW a \in Nat, NEW b \in Nat, a < b, Digital(a, b), NEW last \in Nat, b < last,
           text[b + 1] \notin Pointed \cup {"e", "E"},
           text[a + 1] = "0" => text[a + 2] \notin {"x", "X", "b", "B"}
    PROVE  ~NumberAt(a, last)
<1>1. b + 1 \in a + 1 .. last
  OBVIOUS
<1>2. ~Digital(a, last)
  BY <1>1 DEF Digital, Pointed
<1>3. \A marks, digits : BasedAt(a, last, marks, digits) => text[a + 1] = "0" /\ text[a + 2] \in marks
  BY DEF BasedAt
<1>4. ASSUME NEW p \in Nat, PointAt(a, last, p) PROVE FALSE
  BY <1>1, <1>4, MantissaFacts DEF Mantissa
<1>5. ASSUME NEW e \in Nat, NEW f \in Nat, FloatAt(a, last, e, f) PROVE FALSE
  <2>1. a + 1 < e /\ text[e] \in {"e", "E"} /\ \A k \in a + 1 .. e - 1 : text[k] \in Pointed
    BY <1>5, FloatFacts
  <2>2. b + 1 = e \/ b + 1 \in a + 1 .. e - 1 \/ e \in a + 1 .. b
    BY <2>1
  <2>3. \A k \in a + 1 .. b : text[k] \in Digits
    BY DEF Digital
  <2>. QED BY <2>1, <2>2, <2>3, PointedFacts
<1>. QED BY <1>2, <1>3, <1>4, <1>5 DEF NumberAt

LEMMA FractionLongest ==
    ASSUME NEW a \in Nat, NEW b \in Nat, NEW d \in Nat, PointAt(a, b, d), NEW last \in Nat, b < last,
           text[b + 1] \notin Digits \cup {"e", "E"}
    PROVE  ~NumberAt(a, last)
<1>0. /\ a + 1 < d /\ d < b /\ text[d] = "." /\ d \in a + 1 .. last /\ b + 1 \in a + 1 .. last /\ b + 1 # d
      /\ d \in a + 1 .. b
  BY DEF PointAt
<1>1. \A k \in a + 1 .. b : text[k] \in Pointed
  BY MantissaFacts DEF Mantissa
<1>2. ~Digital(a, last)
  BY <1>0, PointedFacts DEF Digital
<1>3. ASSUME NEW marks, NEW digits, marks \subseteq {"x", "X", "b", "B"}, BasedAt(a, last, marks, digits)
      PROVE  FALSE
  <2>1. a + 2 \in a + 1 .. b /\ text[a + 2] \in marks
    BY <1>0, <1>3 DEF BasedAt
  <2>. QED BY <1>1, <1>3, <2>1, PointedFacts
<1>4. ASSUME NEW c \in Nat, b < c, NEW p \in Nat, PointAt(a, c, p) PROVE FALSE
  <2>1. p = d
    <3>1. d \in a + 1 .. c
      BY <1>0, <1>4
    <3>. QED BY <1>0, <1>4, <3>1, PointedFacts DEF PointAt
  <2>2. b + 1 \in a + 1 .. c /\ b + 1 # p
    BY <1>0, <1>4, <2>1
  <2>. QED BY <1>4, <2>2 DEF PointAt
<1>5. ASSUME NEW e \in Nat, NEW f \in Nat, FloatAt(a, last, e, f) PROVE FALSE
  <2>. DEFINE c == e - 1
  <2>1. a + 1 < e /\ text[e] \in {"e", "E"} /\ Mantissa(a, c) /\ c \in Nat
    BY <1>5, FloatFacts DEF FloatAt
  <2>2. e \notin a + 1 .. b /\ e # b + 1
    BY <1>1, <2>1, PointedFacts
  <2>3. b < c
    BY <2>1, <2>2
  <2>. HIDE DEF c
  <2>4. ~Digital(a, c)
    <3>1. d \in a + 1 .. c
      BY <1>0, <2>1, <2>3
    <3>. QED BY <1>0, <3>1, PointedFacts DEF Digital
  <2>. QED BY <1>4, <2>1, <2>3, <2>4 DEF Mantissa
<1>6. \A p \in Nat : ~PointAt(a, last, p)
  BY <1>4
<1>7. ~BasedAt(a, last, {"x", "X"}, Digits \cup HexLetters) /\ ~BasedAt(a, last, {"b", "B"}, {"0", "1"})
  BY <1>3
<1>. QED BY <1>2, <1>5, <1>6, <1>7 DEF NumberAt

LEMMA ExponentLongest ==
    ASSUME NEW a \in Nat, NEW b \in Nat, NEW e \in Nat, NEW f \in Nat, FloatAt(a, b, e, f),
           NEW last \in Nat, b < last, text[b + 1] \notin Digits
    PROVE  ~NumberAt(a, last)
<1>1. /\ a + 1 < e /\ e < b /\ text[e] \in {"e", "E"} /\ \A k \in a + 1 .. e - 1 : text[k] \in Pointed
      /\ f \in {e + 1, e + 2} /\ f <= b
  BY FloatFacts
<1>2. e \in a + 1 .. last /\ text[e] \notin Pointed /\ text[e] \notin Digits
  BY <1>1, PointedFacts
<1>3. ~Digital(a, last)
  BY <1>2 DEF Digital
<1>4. ASSUME NEW p \in Nat, PointAt(a, last, p) PROVE FALSE
  BY <1>2, <1>4, MantissaFacts DEF Mantissa
<1>5. ASSUME NEW marks, NEW digits, marks \subseteq {"x", "X", "b", "B"}, BasedAt(a, last, marks, digits)
      PROVE  FALSE
  <2>1. text[a + 2] \in marks /\ (a + 2 = e \/ a + 2 \in a + 1 .. e - 1)
    BY <1>1, <1>5 DEF BasedAt
  <2>. QED BY <1>1, <1>5, <2>1, PointedFacts
<1>6. ASSUME NEW x \in Nat, NEW y \in Nat, FloatAt(a, last, x, y) PROVE FALSE
  <2>1. /\ a + 1 < x /\ text[x] \in {"e", "E"} /\ \A k \in a + 1 .. x - 1 : text[k] \in Pointed
        /\ y \in {x + 1, x + 2} /\ y <= last /\ \A k \in y .. last : text[k] \in Digits
    BY <1>6, FloatFacts
  <2>2. text[x] \notin Pointed
    BY <2>1, PointedFacts
  <2>3. x = e
    <3>1. x \notin a + 1 .. e - 1 /\ e \notin a + 1 .. x - 1
      BY <1>1, <1>2, <2>1, <2>2
    <3>. QED BY <1>1, <2>1, <3>1
  <2>4. b + 1 \in y .. last
    BY <1>1, <2>1, <2>3
  <2>. QED BY <2>1, <2>4
<1>7. ~BasedAt(a, last, {"x", "X"}, Digits \cup HexLetters) /\ ~BasedAt(a, last, {"b", "B"}, {"0", "1"})
  BY <1>5
<1>. QED BY <1>3, <1>4, <1>6, <1>7 DEF NumberAt

-----------------------------------------------------------------------------
(* What the loops have read of their token.                                *)

Marks == {"x", "X", "b", "B"}

InWord(a, b) == /\ a < Len(text) /\ text[a + 1] \in Letters
                /\ \A k \in a + 1 .. b : text[k] \in WordCharacters
InBased(a, b, marks, digits, base, v) ==
    /\ a + 2 <= b /\ text[a + 1] = "0" /\ text[a + 2] \in marks
    /\ \A k \in a + 3 .. b : text[k] \in digits
    /\ v = Positional(Part((a + 2) + 1, b), base)
InDecimal(a, b, v) ==
    /\ a < Len(text) /\ text[a + 1] \in Digits /\ Digital(a, b)
    /\ text[a + 1] = "0" /\ a + 2 <= Len(text) => text[a + 2] \notin Marks
    /\ v = Positional(Part(a + 1, b), 10)
InFraction(a, b) ==
    \E d \in Nat : /\ a + 1 < d /\ d <= b /\ d < Len(text) /\ text[d] = "." /\ text[d + 1] \in Digits
                   /\ \A k \in a + 1 .. b : k # d => text[k] \in Digits
InExponent(a, b) ==
    \E e, f \in Nat : /\ a < e /\ text[e] \in {"e", "E"} /\ Mantissa(a, e - 1)
                      /\ f \in {e + 1, e + 2} /\ (f = e + 2 => text[e + 1] \in {"+", "-"})
                      /\ f <= Len(text) /\ text[f] \in Digits
                      /\ f <= b + 1 /\ Digital(f - 1, b)
InString(a, b) ==
    /\ a < b
    /\ \A i \in 1 .. b - a : /\ text[a + i] # "\n"
                             /\ EscapedIn(a, i) => text[a + i] \in Escapes
                             /\ text[a + i] = Quote /\ ~EscapedIn(a, i) <=> i = 1
    /\ ~EscapedIn(a, (b - a) + 1)

\* A loop that has read what lies between two places, and a number.
Reads(loop, a, b, v) ==
    /\ loop = "word"     => InWord(a, b)
    /\ loop = "hex"      => InBased(a, b, {"x", "X"}, Digits \cup HexLetters, 16, v)
    /\ loop = "binary"   => InBased(a, b, {"b", "B"}, {"0", "1"}, 2, v)
    /\ loop = "decimal"  => InDecimal(a, b, v)
    /\ loop = "fraction" => InFraction(a, b)
    /\ loop = "exponent" => InExponent(a, b)
    /\ loop = "string"   => InString(a, b)

Lexed == LongestLexemes /\ Reads(mode, begin.pos, place.pos, value)

LEMMA PartGrows ==
    ASSUME text \in Texts, NEW a \in Nat, NEW b \in Nat, a <= b, b < Len(text), NEW base
    PROVE  Positional(Part(a + 1, b + 1), base) = Positional(Part(a + 1, b), base) * base + DigitValue[text[b + 1]]
<1>. DEFINE s == Part(a + 1, b)
            t == Part(a + 1, b + 1)
            n == b - a
            c == text[b + 1]
<1>1. s \in Seq(STRING) /\ Len(s) = n /\ n \in Nat /\ \A i \in 1 .. n : s[i] = text[a + i]
  BY PartFacts, CharFacts
<1>2. t \in Seq(STRING) /\ Len(t) = n + 1 /\ \A i \in 1 .. n + 1 : t[i] = text[a + i]
  <2>. DEFINE d == b + 1
  <2>1. d \in Nat /\ a <= d /\ d <= Len(text) /\ d - a = n + 1
    BY CharFacts
  <2>. HIDE DEF d, n
  <2>2. /\ Part(a + 1, d) \in Seq(STRING) /\ Len(Part(a + 1, d)) = d - a
        /\ \A i \in 1 .. d - a : Part(a + 1, d)[i] = text[a + i]
    BY <2>1, PartFacts
  <2>. QED BY <2>1, <2>2 DEF d
<1>3. a + (n + 1) = b + 1
  OBVIOUS
<1>. HIDE DEF s, t, n
<1>4. t[n + 1] = c /\ c \in STRING
  <2>1. n + 1 \in 1 .. n + 1
    BY <1>1
  <2>2. t[n + 1] = c
    BY <1>2, <1>3, <2>1
  <2>. QED BY <1>2, <2>1, <2>2
<1>. HIDE DEF c
<1>5. Append(s, c) \in Seq(STRING) /\ Len(Append(s, c)) = n + 1 /\ n + 1 \in Nat
  <2>1. Append(s, c) \in Seq(STRING) /\ Len(Append(s, c)) = Len(s) + 1
    BY <1>1, <1>4, AppendProperties
  <2>. QED BY <1>1, <2>1
<1>6. ASSUME NEW i \in 1 .. n + 1 PROVE Append(s, c)[i] = t[i]
  <2>1. CASE i = n + 1
    <3>1. Append(s, c)[Len(s) + 1] = c
      BY <1>1, <1>4, AppendProperties
    <3>. QED BY <1>1, <1>4, <2>1, <3>1
  <2>2. CASE i # n + 1
    <3>1. i \in 1 .. n
      BY <1>1, <2>2
    <3>2. Append(s, c)[i] = s[i]
      BY <1>1, <3>1
    <3>. QED BY <1>1, <1>2, <3>1, <3>2
  <2>. QED BY <2>1, <2>2
<1>7. t = Append(s, c)
  BY <1>2, <1>5, <1>6, SameElements
<1>8. Positional(Append(s, c), base) = Positional(s, base) * base + DigitValue[c]
  BY <1>1, <1>4, PositionalFacts
<1>. QED BY <1>7, <1>8 DEF s, t, c

LEMMA NoValueYet ==
    ASSUME text \in Texts, NEW a \in Nat, a <= Len(text), NEW base
    PROVE  Positional(Part(a + 1, a), base) = 0
<1>1. Part(a + 1, a) = <<>>
  BY NumeralPart
<1>2. <<>> \in Seq(STRING)
  OBVIOUS
<1>. QED BY <1>1, <1>2, PositionalFacts

\* Every loop begins with what its token begins with.
LEMMA LoopsBegin ==
    ASSUME text \in Texts, NEW a \in Nat, a < Len(text)
    PROVE  /\ text[a + 1] \in Letters => InWord(a, a)
           /\ \A marks, digits, base :
                  a + 1 < Len(text) /\ text[a + 1] = "0" /\ text[a + 2] \in marks
                      => InBased(a, a + 2, marks, digits, base, 0)
           /\ /\ text[a + 1] \in Digits
              /\ text[a + 1] = "0" /\ a + 2 <= Len(text) => text[a + 2] \notin Marks
              => InDecimal(a, a, 0)
           /\ text[a + 1] = Quote => InString(a, a + 1)
<1>0. Len(text) \in Nat
  BY CharFacts
<1>1. text[a + 1] \in Letters => InWord(a, a)
  BY DEF InWord
<1>2. ASSUME NEW marks, NEW digits, NEW base,
             a + 1 < Len(text), text[a + 1] = "0", text[a + 2] \in marks
      PROVE  InBased(a, a + 2, marks, digits, base, 0)
  <2>. DEFINE c == a + 2
  <2>1. c \in Nat /\ c <= Len(text)
    BY <1>0, <1>2
  <2>. HIDE DEF c
  <2>2. Positional(Part(c + 1, c), base) = 0
    BY <2>1, NoValueYet
  <2>3. a + 2 <= c /\ \A k \in a + 3 .. c : FALSE
    BY <2>1 DEF c
  <2>4. InBased(a, c, marks, digits, base, 0)
    BY <1>2, <2>2, <2>3 DEF InBased, c
  <2>. QED BY <2>4 DEF c
<1>3. ASSUME text[a + 1] \in Digits,
             text[a + 1] = "0" /\ a + 2 <= Len(text) => text[a + 2] \notin Marks
      PROVE  InDecimal(a, a, 0)
  <2>1. Positional(Part(a + 1, a), 10) = 0
    BY <1>0, NoValueYet
  <2>2. Digital(a, a)
    BY DEF Digital
  <2>. QED BY <1>3, <2>1, <2>2 DEF InDecimal
<1>4. ASSUME text[a + 1] = Quote PROVE InString(a, a + 1)
  <2>. DEFINE b == a + 1
  <2>1. b \in Nat /\ a <= b /\ b <= Len(text) /\ 1 \in 1 .. Len(text) - a /\ b - a = 1 /\ (b - a) + 1 = 1 + 1
    BY <1>0
  <2>2. ~EscapedIn(a, 1)
    <3>. HIDE DEF b
    <3>. QED BY <2>1, StringPart
  <2>3. ~EscapedIn(a, 1 + 1)
    <3>1. EscapedIn(a, 1 + 1) <=> text[a + 1] = "\\" /\ ~EscapedIn(a, 1)
      <4>. HIDE DEF b
      <4>. QED BY <2>1, StringPart
    <3>. QED BY <1>4, <3>1, QuoteFacts
  <2>4. ~EscapedIn(a, (b - a) + 1)
    BY <2>1, <2>3
  <2>5. \A i \in 1 .. b - a : i = 1
    OBVIOUS
  <2>6. a < b
    OBVIOUS
  <2>7. InString(a, b)
    <3>. HIDE DEF b
    <3>. QED BY <1>4, <2>2, <2>4, <2>5, <2>6, QuoteFacts DEF InString
  <2>. QED BY <2>7
<1>. QED BY <1>1, <1>2, <1>3, <1>4

\* A character more.
LEMMA WordGrows ==
    ASSUME NEW a \in Nat, NEW b \in Nat, a <= b, InWord(a, b), text[b + 1] \in WordCharacters
    PROVE  InWord(a, b + 1)
<1>1. \A k \in a + 1 .. b + 1 : k = b + 1 \/ k \in a + 1 .. b
  OBVIOUS
<1>. QED BY <1>1 DEF InWord

LEMMA BasedGrows ==
    ASSUME text \in Texts, NEW a \in Nat, NEW b \in Nat, b < Len(text), NEW marks, NEW digits, NEW base, NEW v,
           InBased(a, b, marks, digits, base, v), text[b + 1] \in digits
    PROVE  InBased(a, b + 1, marks, digits, base, v * base + DigitValue[text[b + 1]])
<1>. DEFINE c == a + 2
<1>1. c \in Nat /\ c <= b /\ c <= b + 1
  BY DEF InBased
<1>. HIDE DEF c
<1>2. Positional(Part(c + 1, b + 1), base) = Positional(Part(c + 1, b), base) * base + DigitValue[text[b + 1]]
  BY <1>1, PartGrows
<1>3. v = Positional(Part(c + 1, b), base)
  BY DEF InBased, c
<1>4. v * base + DigitValue[text[b + 1]] = Positional(Part(c + 1, b + 1), base)
  BY <1>2, <1>3
<1>5. \A k \in a + 3 .. b + 1 : k = b + 1 \/ k \in a + 3 .. b
  OBVIOUS
<1>6. \A k \in a + 3 .. b + 1 : text[k] \in digits
  BY <1>5 DEF InBased
<1>7. text[a + 1] = "0" /\ text[a + 2] \in marks /\ a + 2 <= b + 1
  BY <1>1 DEF InBased, c
<1>. QED BY <1>4, <1>6, <1>7 DEF InBased, c

LEMMA DigitalGrows ==
    ASSUME NEW a \in Nat, NEW b \in Nat, Digital(a, b), text[b + 1] \in Digits
    PROVE  Digital(a, b + 1)
<1>1. \A k \in a + 1 .. b + 1 : k = b + 1 \/ k \in a + 1 .. b
  OBVIOUS
<1>. QED BY <1>1 DEF Digital

LEMMA DecimalGrows ==
    ASSUME text \in Texts, NEW a \in Nat, NEW b \in Nat, a <= b, b < Len(text), NEW v,
           InDecimal(a, b, v), text[b + 1] \in Digits
    PROVE  InDecimal(a, b + 1, v * 10 + DigitValue[text[b + 1]])
<1>1. Positional(Part(a + 1, b + 1), 10) = Positional(Part(a + 1, b), 10) * 10 + DigitValue[text[b + 1]]
  BY PartGrows
<1>2. v = Positional(Part(a + 1, b), 10)
  BY DEF InDecimal
<1>3. v * 10 + DigitValue[text[b + 1]] = Positional(Part(a + 1, b + 1), 10)
  BY <1>1, <1>2
<1>4. Digital(a, b + 1)
  BY DigitalGrows DEF InDecimal
<1>. QED BY <1>3, <1>4 DEF InDecimal

LEMMA DecimalPointed ==
    ASSUME NEW a \in Nat, NEW b \in Nat, a <= b, b + 1 < Len(text), NEW v,
           InDecimal(a, b, v), text[b + 1] = ".", text[(b + 1) + 1] \in Digits
    PROVE  InFraction(a, b + 1)
<1>1. a < b
  BY PointedFacts DEF InDecimal
<1>. DEFINE d == b + 1
<1>2. d \in Nat /\ a + 1 < d /\ d <= b + 1 /\ \A k \in a + 1 .. b + 1 : k # d => k \in a + 1 .. b
  BY <1>1
<1>3. text[d] = "." /\ d < Len(text) /\ text[d + 1] \in Digits
  OBVIOUS
<1>. HIDE DEF d
<1>. QED BY <1>2, <1>3 DEF InFraction, InDecimal, Digital

LEMMA FractionGrows ==
    ASSUME NEW a \in Nat, NEW b \in Nat, InFraction(a, b), text[b + 1] \in Digits
    PROVE  InFraction(a, b + 1)
<1>1. \A k \in a + 1 .. b + 1 : k = b + 1 \/ k \in a + 1 .. b
  OBVIOUS
<1>2. PICK d \in Nat : /\ a + 1 < d /\ d <= b /\ d < Len(text) /\ text[d] = "." /\ text[d + 1] \in Digits
                       /\ \A k \in a + 1 .. b : k # d => text[k] \in Digits
  BY DEF InFraction
<1>3. d <= b + 1 /\ \A k \in a + 1 .. b + 1 : k # d => text[k] \in Digits
  BY <1>1, <1>2
<1>. QED BY <1>2, <1>3 DEF InFraction

\* In front of anything but a digit, the digits behind the point are there.
LEMMA FractionEnds ==
    ASSUME NEW a \in Nat, NEW b \in Nat, InFraction(a, b),
           b < Len(text) => text[b + 1] \notin Digits
    PROVE  \E d \in Nat : PointAt(a, b, d)
<1>1. PICK d \in Nat : /\ a + 1 < d /\ d <= b /\ d < Len(text) /\ text[d] = "." /\ text[d + 1] \in Digits
                       /\ \A k \in a + 1 .. b : k # d => text[k] \in Digits
  BY DEF InFraction
<1>2. d # b
  BY <1>1
<1>3. d < b
  BY <1>1, <1>2
<1>. QED BY <1>1, <1>3 DEF PointAt

LEMMA ExponentBegins ==
    ASSUME NEW a \in Nat, NEW b \in Nat, Len(text) \in Nat, a <= b, Mantissa(a, b), text[b + 1] \in {"e", "E"},
           NEW sign \in {0, 1}, (b + 1) + sign < Len(text), text[((b + 1) + sign) + 1] \in Digits,
           sign = 1 => text[(b + 1) + 1] \in {"+", "-"}
    PROVE  InExponent(a, (b + 1) + sign)
<1>. DEFINE e == b + 1
            f == (e + sign) + 1
<1>1. e \in Nat /\ f \in Nat /\ a < e /\ e - 1 = b /\ f \in {e + 1, e + 2} /\ (f = e + 2 => sign = 1)
      /\ f <= (e + sign) + 1
  OBVIOUS
<1>2. text[e] \in {"e", "E"} /\ Mantissa(a, e - 1) /\ text[f] \in Digits
  BY <1>1
<1>3. f = e + 2 => text[e + 1] \in {"+", "-"}
  BY <1>1
<1>4. f <= Len(text)
  OBVIOUS
<1>5. Digital(f - 1, e + sign)
  BY DEF Digital
<1>. HIDE DEF e, f
<1>6. InExponent(a, e + sign)
  BY <1>1, <1>2, <1>3, <1>4, <1>5 DEF InExponent
<1>. QED BY <1>6 DEF e

LEMMA ExponentGrows ==
    ASSUME NEW a \in Nat, NEW b \in Nat, InExponent(a, b), text[b + 1] \in Digits
    PROVE  InExponent(a, b + 1)
<1>1. PICK e \in Nat, f \in Nat :
          /\ a < e /\ text[e] \in {"e", "E"} /\ Mantissa(a, e - 1)
          /\ f \in {e + 1, e + 2} /\ (f = e + 2 => text[e + 1] \in {"+", "-"})
          /\ f <= Len(text) /\ text[f] \in Digits
          /\ f <= b + 1 /\ Digital(f - 1, b)
  BY DEF InExponent
<1>. DEFINE c == f - 1
<1>2. c \in Nat /\ f <= (b + 1) + 1
  BY <1>1
<1>3. Digital(c, b + 1)
  <2>. HIDE DEF c
  <2>. QED BY <1>1, <1>2, DigitalGrows DEF c
<1>. QED BY <1>1, <1>2, <1>3 DEF InExponent

LEMMA ExponentEnds ==
    ASSUME NEW a \in Nat, NEW b \in Nat, InExponent(a, b), Len(text) \in Nat,
           b < Len(text) => text[b + 1] \notin Digits
    PROVE  \E e, f \in Nat : FloatAt(a, b, e, f)
<1>1. PICK e \in Nat, f \in Nat :
          /\ a < e /\ text[e] \in {"e", "E"} /\ Mantissa(a, e - 1)
          /\ f \in {e + 1, e + 2} /\ (f = e + 2 => text[e + 1] \in {"+", "-"})
          /\ f <= Len(text) /\ text[f] \in Digits
          /\ f <= b + 1 /\ Digital(f - 1, b)
  BY DEF InExponent
<1>2. f <= b
  <2>1. f # b + 1
    BY <1>1
  <2>. QED BY <1>1, <2>1
<1>3. ExponentAt(e, b, f) /\ e <= b
  BY <1>1, <1>2 DEF ExponentAt
<1>. QED BY <1>1, <1>3 DEF FloatAt

LEMMA EscapedBehind ==
    ASSUME text \in Texts, NEW a \in Nat, NEW b \in Nat, a <= b, b < Len(text)
    PROVE  EscapedIn(a, (b - a) + 2) <=> text[b + 1] = "\\" /\ ~EscapedIn(a, (b - a) + 1)
<1>. DEFINE i == (b - a) + 1
<1>1. /\ i \in 1 .. Len(text) - a /\ a + i = b + 1 /\ i + 1 = (b - a) + 2
      /\ b <= Len(text)
  BY CharFacts
<1>. HIDE DEF i
<1>2. \A j \in 1 .. Len(text) - a : EscapedIn(a, j + 1) <=> text[a + j] = "\\" /\ ~EscapedIn(a, j)
  BY <1>1, StringPart
<1>3. EscapedIn(a, i + 1) <=> text[a + i] = "\\" /\ ~EscapedIn(a, i)
  BY <1>1, <1>2
<1>. QED BY <1>1, <1>3 DEF i

LEMMA StringGrows ==
    ASSUME text \in Texts, NEW a \in Nat, NEW b \in Nat, b < Len(text), InString(a, b),
           text[b + 1] \notin {"\n", Quote, "\\"}
    PROVE  InString(a, b + 1)
<1>. DEFINE n == b - a
<1>0. n \in Nat \ {0} /\ a < b /\ a + n = b /\ b <= Len(text)
  <2>1. a < b
    BY DEF InString
  <2>. QED BY <2>1, CharFacts
<1>1. /\ ~EscapedIn(a, n + 1)
      /\ \A i \in 1 .. n : /\ text[a + i] # "\n"
                           /\ EscapedIn(a, i) => text[a + i] \in Escapes
                           /\ text[a + i] = Quote /\ ~EscapedIn(a, i) <=> i = 1
  BY DEF InString
<1>2. (b + 1) - a = n + 1 /\ (n + 1) + 1 = n + 2 /\ a + (n + 1) = b + 1 /\ n + 1 # 1 /\ a < b + 1
  BY <1>0
<1>3. \A i \in 1 .. n + 1 : i = n + 1 \/ i \in 1 .. n
  BY <1>0
<1>4. ~EscapedIn(a, n + 2)
  BY <1>0, <1>1, EscapedBehind
<1>. HIDE DEF n
<1>5. \A i \in 1 .. n + 1 : /\ text[a + i] # "\n"
                            /\ EscapedIn(a, i) => text[a + i] \in Escapes
                            /\ text[a + i] = Quote /\ ~EscapedIn(a, i) <=> i = 1
  BY <1>0, <1>1, <1>2, <1>3
<1>6. ~EscapedIn(a, (n + 1) + 1)
  BY <1>2, <1>4
<1>. QED BY <1>0, <1>2, <1>5, <1>6 DEF InString

LEMMA StringEscapes ==
    ASSUME text \in Texts, NEW a \in Nat, NEW b \in Nat, b + 1 < Len(text), InString(a, b),
           text[b + 1] = "\\", text[(b + 1) + 1] \in Escapes
    PROVE  InString(a, b + 2)
<1>. DEFINE n == b - a
<1>0. n \in Nat \ {0} /\ a < b /\ a + n = b /\ b <= Len(text)
  <2>1. a < b
    BY DEF InString
  <2>. QED BY <2>1, CharFacts
<1>1. /\ ~EscapedIn(a, n + 1)
      /\ \A i \in 1 .. n : /\ text[a + i] # "\n"
                           /\ EscapedIn(a, i) => text[a + i] \in Escapes
                           /\ text[a + i] = Quote /\ ~EscapedIn(a, i) <=> i = 1
  BY DEF InString
<1>2. /\ (b + 2) - a = n + 2 /\ (n + 2) + 1 = n + 3 /\ a + (n + 1) = b + 1 /\ a + (n + 2) = (b + 1) + 1
      /\ n + 1 # 1 /\ n + 2 # 1 /\ a < b + 2 /\ b < Len(text) /\ a <= b
  BY <1>0, CharFacts
<1>3. \A i \in 1 .. n + 2 : i = n + 1 \/ i = n + 2 \/ i \in 1 .. n
  BY <1>0
<1>4. EscapedIn(a, n + 2)
  BY <1>0, <1>1, <1>2, EscapedBehind
<1>5. ~EscapedIn(a, n + 3)
  <2>. DEFINE c == b + 1
  <2>1. c \in Nat /\ a <= c /\ c < Len(text) /\ (c - a) + 2 = n + 3 /\ (c - a) + 1 = n + 2
    BY <1>2
  <2>. HIDE DEF n, c
  <2>2. EscapedIn(a, (c - a) + 2) <=> text[c + 1] = "\\" /\ ~EscapedIn(a, (c - a) + 1)
    BY <2>1, EscapedBehind
  <2>. QED BY <1>4, <2>1, <2>2
<1>6. "\n" \notin Escapes /\ "\\" # "\n" /\ "\\" # Quote
  BY QuoteFacts
<1>. HIDE DEF n
<1>7. \A i \in 1 .. n + 2 : /\ text[a + i] # "\n"
                            /\ EscapedIn(a, i) => text[a + i] \in Escapes
                            /\ text[a + i] = Quote /\ ~EscapedIn(a, i) <=> i = 1
  BY <1>0, <1>1, <1>2, <1>3, <1>4, <1>6
<1>8. ~EscapedIn(a, (n + 2) + 1)
  BY <1>2, <1>5
<1>. QED BY <1>0, <1>2, <1>7, <1>8 DEF InString

LEMMA StringEnds ==
    ASSUME text \in Texts, NEW a \in Nat, NEW b \in Nat, b < Len(text), InString(a, b),
           text[b + 1] = Quote
    PROVE  IsString(Part(a + 1, b + 1))
<1>. DEFINE n == b - a
            c == b + 1
<1>0. n \in Nat \ {0} /\ a < b /\ a + n = b /\ c <= Len(text)
  <2>1. a < b
    BY DEF InString
  <2>. QED BY <2>1, CharFacts
<1>1. /\ ~EscapedIn(a, n + 1)
      /\ \A i \in 1 .. n : /\ text[a + i] # "\n"
                           /\ EscapedIn(a, i) => text[a + i] \in Escapes
                           /\ text[a + i] = Quote /\ ~EscapedIn(a, i) <=> i = 1
  BY DEF InString
<1>2. c - a = n + 1 /\ a + (n + 1) = c /\ n + 1 >= 2 /\ c \in Nat /\ a <= c /\ c <= Len(text)
  BY <1>0
<1>3. \A i \in 1 .. n + 1 : i = n + 1 \/ (i \in 1 .. n /\ i # n + 1)
  BY <1>0
<1>. HIDE DEF n
<1>4. \A i \in 1 .. n + 1 : /\ text[a + i] # "\n"
                            /\ EscapedIn(a, i) => text[a + i] \in Escapes
                            /\ text[a + i] = Quote /\ ~EscapedIn(a, i) <=> i \in {1, n + 1}
  BY <1>0, <1>1, <1>2, <1>3
<1>. HIDE DEF c
<1>. QED
  <2>1. /\ c - a >= 2
        /\ \A i \in 1 .. c - a : /\ text[a + i] # "\n"
                                 /\ EscapedIn(a, i) => text[a + i] \in Escapes
                                 /\ text[a + i] = Quote /\ ~EscapedIn(a, i) <=> i \in {1, c - a}
    BY <1>2, <1>4
  <2>2. IsString(Part(a + 1, c))
    BY <1>2, <2>1, StringPart
  <2>. QED BY <2>2 DEF c

-----------------------------------------------------------------------------
(* A token fits when its loop ends.                                        *)

Fits(t) ==
    /\ TypeFits(t)
    /\ \A last \in t.last + 1 .. Len(text) : ~IsLexeme(Part(t.first, last))
    /\ (IsHex(Lexeme(t)) \/ IsBinary(Lexeme(t))) /\ t.last < Len(text) =>
           text[t.last + 1] \notin WordCharacters

\* Only a number in another base is followed by no letter.
LEMMA FitsIf ==
    ASSUME text \in Texts, NEW a \in Nat, NEW b \in Nat, a <= b, b <= Len(text),
           NEW t, t.first = a + 1, t.last = b, TypeFits(t), NoneLonger(a, b),
           \/ ~IsHex(Part(a + 1, b)) /\ ~IsBinary(Part(a + 1, b))
           \/ b < Len(text) => text[b + 1] \notin WordCharacters
    PROVE  Fits(t)
<1>1. Lexeme(t) = Part(a + 1, b)
  BY DEF Lexeme
<1>. QED BY <1>1 DEF Fits, NoneLonger

LEMMA NotBased ==
    ASSUME text \in Texts, NEW a \in Nat, NEW b \in Nat, a <= b, b <= Len(text),
           a < b => text[a + 1] \notin Digits
    PROVE  ~IsHex(Part(a + 1, b)) /\ ~IsBinary(Part(a + 1, b))
<1>1. "0" \in Digits
  BY DEF Digits
<1>. QED BY <1>1, IntPart DEF BasedAt

LEMMA WordFits ==
    ASSUME text \in Texts, NEW a \in Nat, NEW b \in Nat, a <= b, b <= Len(text), InWord(a, b),
           b < Len(text) => text[b + 1] \notin WordCharacters,
           NEW t, t.first = a + 1, t.last = b,
           t.type = IF Part(a + 1, b) \in DOMAIN Reserved THEN Reserved[Part(a + 1, b)] ELSE "Identifier"
    PROVE  Fits(t)
<1>. DEFINE s == Part(a + 1, b)
<1>1. a < Len(text) /\ text[a + 1] \in Letters /\ \A k \in a + 1 .. b : text[k] \in WordCharacters
  BY DEF InWord
<1>2. a < b
  <2>1. text[a + 1] \in WordCharacters
    BY <1>1 DEF WordCharacters
  <2>. QED BY <1>1, <2>1
<1>3. IsWord(s)
  BY <1>1, <1>2, WordPart
<1>4. NoneLonger(a, b)
  BY <1>1, WordLongest
<1>5. ~IsHex(s) /\ ~IsBinary(s)
  BY <1>1, NotBased, KindsDiffer
<1>. HIDE DEF s
<1>6. Lexeme(t) = s
  BY DEF Lexeme, s
<1>7. TypeFits(t)
  <2>1. CASE s \in DOMAIN Reserved
    <3>1. t.type = Reserved[s] /\ (t.type = "Keyword" \/ t.type = "FloatLiteral")
      BY <2>1, LexerAssumption DEF ReservedTypes, s
    <3>. QED BY <1>6, <2>1, <3>1 DEF TypeFits
  <2>2. CASE s \notin DOMAIN Reserved
    <3>1. t.type = "Identifier"
      BY <2>2 DEF s
    <3>. QED BY <1>3, <1>6, <2>2, <3>1 DEF TypeFits
  <2>. QED BY <2>1, <2>2
<1>. QED BY <1>4, <1>5, <1>7, FitsIf DEF s

LEMMA BasedFits ==
    ASSUME text \in Texts, NEW a \in Nat, NEW b \in Nat, b <= Len(text), NEW v, v <= MaxInt,
           \/ /\ InBased(a, b, {"x", "X"}, Digits \cup HexLetters, 16, v)
              /\ b < Len(text) => text[b + 1] \notin Digits \cup HexLetters
           \/ /\ InBased(a, b, {"b", "B"}, {"0", "1"}, 2, v)
              /\ b < Len(text) => text[b + 1] \notin {"0", "1"},
           a + 2 < b, b < Len(text) => text[b + 1] \notin WordCharacters,
           NEW t, t.first = a + 1, t.last = b, t.type = "IntLiteral", t.value = v
    PROVE  Fits(t)
<1>. DEFINE s == Part(a + 1, b)
            hex == Digits \cup HexLetters
<1>0. a <= b /\ a < Len(text) /\ Len(text) \in Nat /\ a + 2 <= b
  BY CharFacts
<1>1. \A marks, digits, base : InBased(a, b, marks, digits, base, v) =>
          /\ BasedAt(a, b, marks, digits)
          /\ v = Positional(Part((a + 2) + 1, b), base)
  BY DEF InBased, BasedAt
<1>2. SubSeq(s, 3, Len(s)) = Part((a + 2) + 1, b)
  <2>1. SubSeq(s, 3, Len(s)) = Part(a + 3, b)
    BY <1>0, BasedPart
  <2>2. a + 3 = (a + 2) + 1
    OBVIOUS
  <2>. QED BY <2>1, <2>2
<1>3. /\ IsHex(s) <=> BasedAt(a, b, {"x", "X"}, hex)
      /\ IsBinary(s) <=> BasedAt(a, b, {"b", "B"}, {"0", "1"})
  BY <1>0, IntPart
<1>4. ~(IsHex(s) /\ IsBinary(s))
  <2>1. \A c : ~(c \in {"x", "X"} /\ c \in {"b", "B"})
    OBVIOUS
  <2>2. \A marks, digits : BasedAt(a, b, marks, digits) => text[a + 2] \in marks
    BY DEF BasedAt
  <2>. QED BY <1>3, <2>1, <2>2
<1>5. Lexeme(t) = s
  BY DEF Lexeme
<1>6. IsInt(s) /\ v = IntValue(s)
  <2>. HIDE DEF s, hex
  <2>1. CASE InBased(a, b, {"x", "X"}, hex, 16, v)
    <3>1. IsHex(s) /\ ~IsBinary(s) /\ v = Positional(SubSeq(s, 3, Len(s)), 16)
      BY <1>1, <1>2, <1>3, <1>4, <2>1
    <3>. QED BY <3>1 DEF IsInt, IntValue
  <2>2. CASE InBased(a, b, {"b", "B"}, {"0", "1"}, 2, v)
    <3>1. IsBinary(s) /\ ~IsHex(s) /\ v = Positional(SubSeq(s, 3, Len(s)), 2)
      BY <1>1, <1>2, <1>3, <1>4, <2>2
    <3>. QED BY <3>1 DEF IsInt, IntValue
  <2>. QED BY <2>1, <2>2 DEF hex
<1>7. text[a + 1] \in Digits /\ text[a + 2] \in {"x", "X", "b", "B"}
  BY <1>1 DEF BasedAt, Digits
<1>8. ASSUME NEW last \in b + 1 .. Len(text) PROVE ~NumberAt(a, last)
  <2>1. last \in Nat /\ b < last /\ b < Len(text) /\ b + 1 \in a + 3 .. last /\ a + 2 <= last
    BY <1>0
  <2>2. ~BasedAt(a, last, {"x", "X"}, hex)
    <3>1. CASE InBased(a, b, {"x", "X"}, hex, 16, v) /\ text[b + 1] \notin hex
      BY <2>1, <3>1 DEF BasedAt
    <3>2. CASE InBased(a, b, {"b", "B"}, {"0", "1"}, 2, v)
      BY <3>2 DEF BasedAt, InBased
    <3>. QED BY <2>1, <3>1, <3>2
  <2>3. ~BasedAt(a, last, {"b", "B"}, {"0", "1"})
    <3>1. CASE InBased(a, b, {"b", "B"}, {"0", "1"}, 2, v) /\ text[b + 1] \notin {"0", "1"}
      BY <2>1, <3>1 DEF BasedAt
    <3>2. CASE InBased(a, b, {"x", "X"}, hex, 16, v)
      BY <3>2 DEF BasedAt, InBased
    <3>. QED BY <2>1, <3>1, <3>2
  <2>. QED BY <1>7, <2>1, <2>2, <2>3, BasedLongest
<1>9. NoneLonger(a, b)
  BY <1>0, <1>7, <1>8, NumberLongest
<1>10. TypeFits(t)
  <2>. HIDE DEF s
  <2>. QED BY <1>5, <1>6 DEF TypeFits
<1>. QED BY <1>0, <1>9, <1>10, FitsIf

LEMMA DecimalFits ==
    ASSUME text \in Texts, NEW a \in Nat, NEW b \in Nat, a <= b, b <= Len(text), NEW v, v <= MaxInt,
           InDecimal(a, b, v), b < Len(text) => text[b + 1] \notin Pointed \cup {"e", "E"},
           NEW t, t.first = a + 1, t.last = b, t.type = "IntLiteral", t.value = v
    PROVE  Fits(t)
<1>. DEFINE s == Part(a + 1, b)
<1>1. /\ a < Len(text) /\ text[a + 1] \in Digits /\ Digital(a, b)
      /\ text[a + 1] = "0" /\ a + 2 <= Len(text) => text[a + 2] \notin Marks
      /\ v = Positional(s, 10)
  BY DEF InDecimal
<1>2. a < b
  <2>1. text[a + 1] \in Pointed
    BY <1>1 DEF Pointed
  <2>. QED BY <1>1, <2>1
<1>3. Numeral(s, Digits)
  BY <1>1, <1>2, DigitsPart
<1>4. ~IsHex(s) /\ ~IsBinary(s)
  <2>1. a + 2 <= b => text[a + 2] \in Digits
    BY <1>1 DEF Digital
  <2>2. \A marks, digits : BasedAt(a, b, marks, digits) => a + 2 <= b /\ text[a + 2] \in marks
    BY DEF BasedAt
  <2>3. \A c \in Digits : c \notin {"x", "X"} /\ c \notin {"b", "B"}
    BY PointedFacts
  <2>4. ~BasedAt(a, b, {"x", "X"}, Digits \cup HexLetters) /\ ~BasedAt(a, b, {"b", "B"}, {"0", "1"})
    BY <2>1, <2>2, <2>3
  <2>. QED BY <2>4, IntPart
<1>5. ASSUME NEW last \in b + 1 .. Len(text) PROVE ~NumberAt(a, last)
  <2>1. last \in Nat /\ b < last /\ b < Len(text) /\ a + 2 <= last /\ a + 2 <= Len(text)
    BY <1>2, CharFacts
  <2>2. text[a + 1] = "0" => text[a + 2] \notin {"x", "X", "b", "B"}
    BY <1>1, <2>1 DEF Marks
  <2>. QED BY <1>1, <1>2, <2>1, <2>2, DecimalLongest
<1>6. NoneLonger(a, b)
  BY <1>1, <1>5, NumberLongest
<1>7. Lexeme(t) = s
  BY DEF Lexeme
<1>8. TypeFits(t)
  <2>. HIDE DEF s
  <2>1. IsInt(s) /\ IntValue(s) = v
    BY <1>1, <1>3, <1>4 DEF IsInt, IntValue
  <2>. QED BY <1>7, <2>1 DEF TypeFits
<1>. QED BY <1>4, <1>6, <1>8, FitsIf

\* Where a float may end: behind its fraction or its exponent, with no digit more.
FloatEnds(a, b) ==
    \/ /\ InFraction(a, b)
       /\ b < Len(text) => text[b + 1] \notin Digits \cup {"e", "E"}
    \/ /\ InExponent(a, b)
       /\ b < Len(text) => text[b + 1] \notin Digits

LEMMA FloatIsLongest ==
    ASSUME text \in Texts, NEW a \in Nat, NEW b \in Nat, a <= b, b <= Len(text), FloatEnds(a, b)
    PROVE  /\ IsFloat(Part(a + 1, b)) /\ ~IsHex(Part(a + 1, b)) /\ ~IsBinary(Part(a + 1, b))
           /\ a < b /\ text[a + 1] \in Digits /\ NumberAt(a, b)
           /\ \A last \in b + 1 .. Len(text) : ~NumberAt(a, last)
           /\ \/ \E d \in Nat : PointAt(a, b, d)
              \/ \E e, f \in Nat : FloatAt(a, b, e, f)
<1>. DEFINE s == Part(a + 1, b)
<1>0. Len(text) \in Nat
  BY CharFacts
<1>2. ASSUME text[a + 2] \in Pointed \cup {"e", "E"} PROVE ~IsHex(s) /\ ~IsBinary(s)
  <2>1. \A marks, digits : BasedAt(a, b, marks, digits) => text[a + 2] \in marks
    BY DEF BasedAt
  <2>2. \A c \in {"x", "X", "b", "B"} : c \notin Pointed \cup {"e", "E"}
    BY PointedFacts
  <2>. QED BY <1>2, <2>1, <2>2, IntPart
<1>3. CASE InFraction(a, b) /\ (b < Len(text) => text[b + 1] \notin Digits \cup {"e", "E"})
  <2>1. PICK d \in Nat : PointAt(a, b, d)
    BY <1>3, FractionEnds
  <2>2. IsFloat(s) /\ NumberAt(a, b)
    BY <2>1, FloatPart DEF NumberAt
  <2>3. a < b /\ text[a + 1] \in Digits
    BY <2>2, NumberPart
  <2>4. text[a + 2] \in Pointed
    BY <2>1 DEF PointAt, Pointed
  <2>5. ASSUME NEW last \in b + 1 .. Len(text) PROVE ~NumberAt(a, last)
    <3>1. last \in Nat /\ b < last /\ b < Len(text)
      BY <1>0
    <3>. QED BY <1>3, <2>1, <3>1, FractionLongest
  <2>. QED BY <1>2, <2>1, <2>2, <2>3, <2>4, <2>5
<1>4. CASE InExponent(a, b) /\ (b < Len(text) => text[b + 1] \notin Digits)
  <2>1. PICK e \in Nat, f \in Nat : FloatAt(a, b, e, f)
    BY <1>0, <1>4, ExponentEnds
  <2>2. IsFloat(s) /\ NumberAt(a, b)
    BY <2>1, FloatPart DEF NumberAt
  <2>3. a < b /\ text[a + 1] \in Digits
    BY <2>2, NumberPart
  <2>4. text[a + 2] \in Pointed \cup {"e", "E"}
    <3>1. a + 1 < e /\ text[e] \in {"e", "E"} /\ \A k \in a + 1 .. e - 1 : text[k] \in Pointed
      BY <2>1, FloatFacts
    <3>2. a + 2 = e \/ a + 2 \in a + 1 .. e - 1
      BY <3>1
    <3>. QED BY <3>1, <3>2
  <2>5. ASSUME NEW last \in b + 1 .. Len(text) PROVE ~NumberAt(a, last)
    <3>1. last \in Nat /\ b < last /\ b < Len(text)
      BY <1>0
    <3>. QED BY <1>4, <2>1, <3>1, ExponentLongest
  <2>. QED BY <1>2, <2>1, <2>2, <2>3, <2>4, <2>5
<1>. QED BY <1>3, <1>4 DEF FloatEnds

LEMMA FloatFits ==
    ASSUME text \in Texts, NEW a \in Nat, NEW b \in Nat, a <= b, b <= Len(text), FloatEnds(a, b),
           Part(a + 1, b) \notin Unrepresentable,
           NEW t, t.first = a + 1, t.last = b, t.type = "FloatLiteral"
    PROVE  Fits(t)
<1>. DEFINE s == Part(a + 1, b)
<1>0. Len(text) \in Nat
  BY CharFacts
<1>1. /\ IsFloat(s) /\ ~IsHex(s) /\ ~IsBinary(s) /\ a < b /\ text[a + 1] \in Digits
      /\ \A last \in b + 1 .. Len(text) : ~NumberAt(a, last)
  BY FloatIsLongest
<1>2. NoneLonger(a, b)
  BY <1>0, <1>1, NumberLongest
<1>3. TypeFits(t)
  <2>1. Lexeme(t) = s /\ s \notin Unrepresentable
    BY DEF Lexeme
  <2>. HIDE DEF s
  <2>. QED BY <1>1, <2>1 DEF TypeFits
<1>. QED BY <1>1, <1>2, <1>3, FitsIf

LEMMA StringFits ==
    ASSUME text \in Texts, NEW a \in Nat, NEW b \in Nat, b < Len(text), InString(a, b),
           text[b + 1] = Quote, NEW t, t.first = a + 1, t.last = b + 1, t.type = "StringLiteral"
    PROVE  Fits(t)
<1>. DEFINE c == b + 1
<1>1. c \in Nat /\ a < c /\ a <= c /\ c <= Len(text)
  BY CharFacts DEF InString
<1>2. IsString(Part(a + 1, c))
  BY StringEnds
<1>3. text[a + 1] = Quote
  <2>. DEFINE n == b - a
  <2>1. a < b /\ \A i \in 1 .. n : text[a + i] = Quote /\ ~EscapedIn(a, i) <=> i = 1
    BY DEF InString
  <2>2. 1 \in 1 .. n
    BY <2>1
  <2>. HIDE DEF n
  <2>. QED BY <2>1, <2>2
<1>. HIDE DEF c
<1>4. NoneLonger(a, c)
  BY <1>1, <1>2, StringLongest
<1>5. ~IsHex(Part(a + 1, c)) /\ ~IsBinary(Part(a + 1, c))
  BY <1>1, <1>3, NotBased, KindsDiffer
<1>6. Lexeme(t) = Part(a + 1, c)
  BY DEF Lexeme, c
<1>7. TypeFits(t)
  BY <1>2, <1>6 DEF TypeFits
<1>. QED BY <1>1, <1>4, <1>5, <1>7, FitsIf DEF c

LEMMA OperatorFits ==
    ASSUME text \in Texts, NEW a \in Nat, NEW b \in Nat, b <= Len(text), text[a + 1] \in Singles,
           \/ b = a + 2 /\ <<text[a + 1], text[a + 2]>> \in Doubles
           \/ b = a + 1 /\ (b < Len(text) => <<text[a + 1], text[a + 2]>> \notin Doubles),
           NEW t, t.first = a + 1, t.last = b, t.type = "Operator"
    PROVE  Fits(t)
<1>1. a <= b
  OBVIOUS
<1>2. IsOperator(Part(a + 1, b))
  BY <1>1, OperatorPart
<1>3. NoneLonger(a, b)
  BY OperatorLongest
<1>4. ~IsHex(Part(a + 1, b)) /\ ~IsBinary(Part(a + 1, b))
  BY <1>1, NotBased, KindsDiffer
<1>5. Lexeme(t) = Part(a + 1, b)
  BY DEF Lexeme
<1>6. TypeFits(t)
  BY <1>2, <1>5 DEF TypeFits
<1>. QED BY <1>1, <1>3, <1>4, <1>6, FitsIf

LEMMA EndFits ==
    ASSUME text \in Texts, NEW a \in Nat, a = Len(text),
           NEW t, t.first = a + 1, t.last = a, t.type = "EndOfFile"
    PROVE  Fits(t)
<1>1. a <= a /\ a <= Len(text) /\ ~(a < a)
  OBVIOUS
<1>2. Part(a + 1, a) = <<>>
  BY <1>1, NumeralPart
<1>3. NoneLonger(a, a)
  BY DEF NoneLonger
<1>4. ~IsHex(Part(a + 1, a)) /\ ~IsBinary(Part(a + 1, a))
  BY <1>1, NotBased
<1>5. Lexeme(t) = <<>>
  BY <1>2 DEF Lexeme
<1>6. TypeFits(t)
  BY <1>5 DEF TypeFits
<1>. QED BY <1>1, <1>3, <1>4, <1>6, FitsIf

-----------------------------------------------------------------------------
(* The steps.                                                              *)

\* The next three characters.
LEMMA PeekFacts ==
    ASSUME TypeOK
    PROVE  /\ place.pos \in Nat /\ Len(text) \in Nat /\ begin.pos \in Nat /\ begin.pos <= place.pos
           /\ place.pos <= Len(text) /\ text \in Texts
           /\ peek # "end" => place.pos < Len(text)
           /\ place.pos < Len(text) => peek = text[place.pos + 1] /\ peek # "end"
           /\ peekNext # "end" => place.pos + 1 < Len(text)
           /\ place.pos + 1 < Len(text) => peekNext = text[(place.pos + 1) + 1] /\ peekNext # "end"
           /\ \A n \in Nat : CharAt(n) # "end" => n < Len(text) /\ CharAt(n) = text[n + 1]
<1>1. /\ place.pos \in Nat /\ Len(text) \in Nat /\ begin.pos \in Nat /\ begin.pos <= place.pos
      /\ place.pos <= Len(text) /\ text \in Texts /\ place.pos + 1 \in Nat
  BY PlaceFacts DEF TypeOK
<1>2. ASSUME NEW n \in Nat
      PROVE  /\ CharAt(n) # "end" => n < Len(text)
             /\ n < Len(text) => CharAt(n) = text[n + 1] /\ CharAt(n) # "end"
  <2>1. CharAt(n) = "end" <=> Len(text) <= n
    BY <1>1, CharFacts
  <2>2. n < Len(text) => CharAt(n) = text[n + 1]
    BY <1>1, CharFacts
  <2>. QED BY <1>1, <2>1, <2>2
<1>. QED BY <1>1, <1>2 DEF peek, peekNext

LEMMA NoEnd ==
    /\ "end" \notin Digits /\ "end" \notin HexLetters /\ "end" \notin WordCharacters
    /\ "end" \notin Singles /\ "end" \notin Escapes /\ "end" # Quote
    /\ \A c : <<c, "end">> \notin Doubles
<1>1. "end" \notin Digits /\ "end" \notin HexLetters /\ "end" \notin Singles
  BY DEF Digits, HexLetters, Singles
<1>2. "end" \notin Letters
  BY KindsDiffer
<1>3. "end" \notin Escapes /\ "end" # Quote
  BY Zenon DEF Escapes, Quote
<1>4. \A c : <<c, "end">> \notin Doubles
  BY DEF Doubles
<1>. QED BY <1>1, <1>2, <1>3, <1>4 DEF WordCharacters

LEMMA MoveReads ==
    ASSUME TypeOK, NEW n \in {0, 1, 2}, NEW next, Move(n, next),
           n # 0 => peek # "end", n = 2 => peekNext # "end"
    PROVE  /\ place'.pos = place.pos + n /\ mode' = next
           /\ text' = text /\ tokens' = tokens
<1>1. place' = Behind(n) /\ mode' = next /\ text' = text /\ tokens' = tokens
  BY DEF Move, Behind
<1>2. Behind(n).pos = place.pos + n
  BY PlaceFacts DEF Behind
<1>. QED BY <1>1, <1>2

LEMMA ReadsAlike ==
    ASSUME text' = text, NEW loop, NEW a, NEW b, NEW v
    PROVE  Reads(loop, a, b, v)' <=> Reads(loop, a, b, v)
<1>1. \A x, y : /\ Digital(x, y)' <=> Digital(x, y)
                /\ Part(x, y)' = Part(x, y)
                /\ EscapedIn(x, y)' <=> EscapedIn(x, y)
  BY DEF Digital, Part, EscapedIn
<1>2. \A x, y, p : PointAt(x, y, p)' <=> PointAt(x, y, p)
  BY DEF PointAt
<1>3. \A x, y : Mantissa(x, y)' <=> Mantissa(x, y)
  BY <1>1, <1>2 DEF Mantissa
<1>4. \A x, y : InWord(x, y)' <=> InWord(x, y)
  BY DEF InWord
<1>5. \A x, y, marks, digits, base, z :
          InBased(x, y, marks, digits, base, z)' <=> InBased(x, y, marks, digits, base, z)
  BY <1>1 DEF InBased
<1>6. \A x, y, z : InDecimal(x, y, z)' <=> InDecimal(x, y, z)
  BY <1>1 DEF InDecimal
<1>7. \A x, y : InFraction(x, y)' <=> InFraction(x, y)
  BY DEF InFraction
<1>8. \A x, y : InExponent(x, y)' <=> InExponent(x, y)
  BY <1>1, <1>3 DEF InExponent
<1>9. \A x, y : InString(x, y)' <=> InString(x, y)
  BY <1>1 DEF InString
<1>. QED BY <1>4, <1>5, <1>6, <1>7, <1>8, <1>9 DEF Reads

\* A step that delivers nothing.
LEMMA ReadOn ==
    ASSUME Lexed, text' = text, tokens' = tokens, Reads(mode', begin'.pos, place'.pos, value')
    PROVE  Lexed'
<1>1. LongestLexemes'
  BY DEF Lexed, LongestLexemes, TypeFits, Lexeme, Part
<1>2. Reads(mode, begin.pos, place.pos, value)'
  BY ReadsAlike
<1>. QED BY <1>1, <1>2 DEF Lexed

LEMMA NotInToken ==
    ASSUME NEW loop \in {"between", "lineComment", "blockComment", "done"}, NEW a, NEW b, NEW v
    PROVE  Reads(loop, a, b, v)
<1>. QED BY DEF Reads

LEMMA FitDelivered ==
    ASSUME TypeOK, text' = text, NEW t, tokens' = Append(tokens, t), Fits(t),
           mode' \in {"between", "done"}
    PROVE  Lexed'
<1>1. Last(tokens') = t
  <2>1. PICK R : tokens \in Seq(R)
    BY DEF TypeOK
  <2>. QED BY <2>1 DEF Last
<1>2. LongestLexemes'
  <2>1. Last(tokens)' = t
    BY <1>1
  <2>. QED BY <2>1 DEF LongestLexemes, Fits, TypeFits, Lexeme, Part
<1>3. Reads(mode, begin.pos, place.pos, value)'
  BY NotInToken, ReadsAlike
<1>. QED BY <1>2, <1>3 DEF Lexed

LEMMA LexedElsewhere ==
    ASSUME TypeOK, Lexed, Blank \/ LineComment \/ OpenComment \/ BlockComment
    PROVE  Lexed'
<1>1. text' = text /\ tokens' = tokens /\ mode' \in {"between", "lineComment", "blockComment", "done"}
  <2>1. CASE Blank \/ LineComment \/ OpenComment
    BY <2>1 DEF Blank, LineComment, OpenComment, Move
  <2>2. CASE BlockComment
    BY <2>2 DEF BlockComment, Move, lexicalError
  <2>. QED BY <2>1, <2>2
<1>2. Reads(mode', begin'.pos, place'.pos, value')
  BY <1>1, NotInToken
<1>. QED BY <1>1, <1>2, ReadOn

LEMMA LexedError ==
    ASSUME Lexed, NEW what, NEW at, lexicalError(what, at)
    PROVE  Lexed'
<1>1. text' = text /\ tokens' = tokens /\ mode' = "done"
  BY DEF lexicalError
<1>2. Reads(mode', begin'.pos, place'.pos, value')
  BY <1>1, NotInToken
<1>. QED BY <1>1, <1>2, ReadOn

LEMMA LexedBegins ==
    ASSUME TypeOK, Lexed, Word \/ number \/ String
    PROVE  Lexed'
<1>. DEFINE p == place.pos
<1>1. /\ p \in Nat /\ Len(text) \in Nat /\ text \in Texts
      /\ peek # "end" => p < Len(text)
      /\ p < Len(text) => peek = text[p + 1]
      /\ peekNext # "end" => p + 1 < Len(text)
      /\ p + 1 < Len(text) => peekNext = text[(p + 1) + 1]
      /\ (p + 1) + 1 = p + 2
  BY PeekFacts
<1>2. ASSUME NEW n \in {0, 1, 2}, NEW next, Begins(next, n), n # 0 => peek # "end", n = 2 => peekNext # "end",
             Reads(next, p, p + n, 0)
      PROVE  Lexed'
  <2>1. Move(n, next) /\ begin' = place /\ value' = 0
    BY <1>2 DEF Begins
  <2>2. place'.pos = p + n /\ mode' = next /\ text' = text /\ tokens' = tokens
    BY <1>2, <2>1, MoveReads
  <2>3. Reads(mode', begin'.pos, place'.pos, value')
    BY <1>2, <2>1, <2>2
  <2>. QED BY <2>2, <2>3, ReadOn
<1>3. p + 0 = p
  BY <1>1
<1>. HIDE DEF p
<1>4. CASE Word
  <2>1. peek \in Letters /\ peek # "end" /\ Begins("word", 0)
    BY <1>4, KindsDiffer DEF Word
  <2>2. InWord(p, p)
    BY <1>1, <2>1, LoopsBegin
  <2>3. Reads("word", p, p + 0, 0)
    BY <1>3, <2>2 DEF Reads
  <2>. QED BY <1>2, <2>1, <2>3
<1>5. ASSUME peek = "0", peekNext \in {"x", "X"}, Begins("hex", 2) PROVE Lexed'
  <2>1. peek # "end" /\ peekNext # "end"
    BY <1>5
  <2>2. p < Len(text) /\ p + 1 < Len(text) /\ text[p + 1] = "0" /\ text[p + 2] \in {"x", "X"}
    BY <1>1, <1>5, <2>1
  <2>3. InBased(p, p + 2, {"x", "X"}, Digits \cup HexLetters, 16, 0)
    BY <1>1, <2>2, LoopsBegin
  <2>4. Reads("hex", p, p + 2, 0)
    BY <2>3 DEF Reads
  <2>. QED BY <1>2, <1>5, <2>1, <2>4
<1>6. ASSUME peek = "0", peekNext \in {"b", "B"}, Begins("binary", 2) PROVE Lexed'
  <2>1. peek # "end" /\ peekNext # "end"
    BY <1>6
  <2>2. p < Len(text) /\ p + 1 < Len(text) /\ text[p + 1] = "0" /\ text[p + 2] \in {"b", "B"}
    BY <1>1, <1>6, <2>1
  <2>3. InBased(p, p + 2, {"b", "B"}, {"0", "1"}, 2, 0)
    BY <1>1, <2>2, LoopsBegin
  <2>4. Reads("binary", p, p + 2, 0)
    BY <2>3 DEF Reads
  <2>. QED BY <1>2, <1>6, <2>1, <2>4
<1>7. ASSUME peek \in Digits, peek = "0" => peekNext \notin Marks, Begins("decimal", 0) PROVE Lexed'
  <2>1. peek # "end"
    BY <1>7, NoEnd
  <2>2. p < Len(text) /\ text[p + 1] \in Digits
    BY <1>1, <1>7, <2>1
  <2>3. text[p + 1] = "0" /\ p + 2 <= Len(text) => text[p + 2] \notin Marks
    <3>1. p + 2 <= Len(text) => p + 1 < Len(text)
      BY <1>1
    <3>. QED BY <1>1, <1>7, <2>2, <3>1
  <2>4. InDecimal(p, p, 0)
    BY <1>1, <2>2, <2>3, LoopsBegin
  <2>5. Reads("decimal", p, p + 0, 0)
    BY <1>3, <2>4 DEF Reads
  <2>. QED BY <1>2, <1>7, <2>1, <2>5
<1>8. CASE number
  <2>1. \/ peek = "0" /\ peekNext \in {"x", "X"} /\ Begins("hex", 2)
        \/ peek = "0" /\ peekNext \in {"b", "B"} /\ Begins("binary", 2)
        \/ peek \in Digits /\ (peek = "0" => peekNext \notin Marks) /\ Begins("decimal", 0)
    BY <1>8 DEF number, Marks
  <2>. QED BY <1>5, <1>6, <1>7, <2>1
<1>9. CASE String
  <2>1. peek = Quote /\ Begins("string", 1)
    BY <1>9, Zenon DEF String, Quote
  <2>2. peek # "end"
    BY <2>1, NoEnd
  <2>3. InString(p, p + 1)
    BY <1>1, <2>1, <2>2, LoopsBegin
  <2>4. Reads("string", p, p + 1, 0)
    BY <2>3 DEF Reads
  <2>. QED BY <1>2, <2>1, <2>2, <2>4
<1>. QED BY <1>4, <1>8, <1>9

\* A loop goes on.
LEMMA LexedSkips ==
    ASSUME TypeOK, Lexed, NEW n \in {1, 2}, NEW next, Skip(n, next), peek # "end", n = 2 => peekNext # "end",
           Reads(next, begin.pos, place.pos + n, value)
    PROVE  Lexed'
<1>1. Move(n, next) /\ begin' = begin /\ value' = value
  BY DEF Skip
<1>2. place'.pos = place.pos + n /\ mode' = next /\ text' = text /\ tokens' = tokens
  BY <1>1, MoveReads
<1>3. Reads(mode', begin'.pos, place'.pos, value')
  BY <1>1, <1>2
<1>. QED BY <1>2, <1>3, ReadOn

LEMMA LexedDigit ==
    ASSUME TypeOK, Lexed, NEW base, Digit(base), peek # "end",
           Reads(mode, begin.pos, place.pos + 1, value * base + DigitValue[peek])
    PROVE  Lexed'
<1>1. Move(1, mode) /\ begin' = begin /\ value' = value * base + DigitValue[peek]
  BY DEF Digit
<1>2. place'.pos = place.pos + 1 /\ mode' = mode /\ text' = text /\ tokens' = tokens
  BY <1>1, MoveReads
<1>3. Reads(mode', begin'.pos, place'.pos, value')
  BY <1>1, <1>2
<1>. QED BY <1>2, <1>3, ReadOn

LEMMA LexedDelivers ==
    ASSUME TypeOK, Lexed, NEW type, NEW n, NEW v, Deliver(type, n, v),
           Fits(Token(type, begin, place.pos + n, v))
    PROVE  Lexed'
<1>1. tokens' = Append(tokens, Token(type, begin, place.pos + n, v)) /\ text' = text /\ mode' = "between"
  BY DEF Deliver
<1>. QED BY <1>1, FitDelivered

LEMMA LexedWord ==
    ASSUME TypeOK, Lexed, identifierOrKeyword
    PROVE  Lexed'
<1>. DEFINE p == place.pos
            a == begin.pos
            s == SubSeq(text, a + 1, p)
            type == IF s \in DOMAIN Reserved THEN Reserved[s] ELSE "Identifier"
            t == Token(type, begin, p + 0, 0)
<1>1. /\ mode = "word"
      /\ \/ peek \in WordCharacters /\ Skip(1, "word")
         \/ peek \notin WordCharacters /\ Deliver(type, 0, 0)
  BY DEF identifierOrKeyword
<1>2. /\ p \in Nat /\ a \in Nat /\ a <= p /\ text \in Texts /\ p <= Len(text) /\ Len(text) \in Nat
      /\ peek # "end" => p < Len(text)
      /\ p < Len(text) => peek = text[p + 1]
  BY PeekFacts
<1>3. InWord(a, p)
  BY <1>1 DEF Lexed, Reads
<1>4. s = Part(a + 1, p)
  BY DEF Part
<1>5. t.first = a + 1 /\ t.last = p + 0 /\ t.type = type /\ p + 0 = p
  BY <1>2 DEF Token
<1>. HIDE DEF p, a, s, t
<1>6. CASE peek \in WordCharacters /\ Skip(1, "word")
  <2>1. peek # "end"
    BY <1>6, NoEnd
  <2>2. InWord(a, p + 1)
    BY <1>2, <1>3, <1>6, <2>1, WordGrows
  <2>3. Reads("word", a, p + 1, value)
    BY <2>2 DEF Reads
  <2>. QED BY <1>6, <2>1, <2>3, LexedSkips DEF a, p
<1>7. CASE peek \notin WordCharacters /\ Deliver(type, 0, 0)
  <2>1. p < Len(text) => text[p + 1] \notin WordCharacters
    BY <1>2, <1>7
  <2>2. t.type = IF Part(a + 1, p) \in DOMAIN Reserved THEN Reserved[Part(a + 1, p)] ELSE "Identifier"
    BY <1>4, <1>5
  <2>3. t.last = p
    BY <1>5
  <2>4. Fits(t)
    BY <1>2, <1>3, <1>5, <2>1, <2>2, <2>3, WordFits
  <2>5. Fits(Token(type, begin, place.pos + 0, 0))
    BY <2>4 DEF t, p
  <2>. HIDE DEF type
  <2>. QED BY <1>7, <2>5, LexedDelivers
<1>. QED BY <1>1, <1>6, <1>7

LEMMA LexedBased ==
    ASSUME TypeOK, Lexed, Hex \/ Binary
    PROVE  Lexed'
<1>. DEFINE p == place.pos
            a == begin.pos
            hex == Digits \cup HexLetters
            t == Token("IntLiteral", begin, p + 0, value)
<1>1. /\ p \in Nat /\ a \in Nat /\ a <= p /\ text \in Texts /\ p <= Len(text) /\ Len(text) \in Nat
      /\ peek # "end" => p < Len(text)
      /\ p < Len(text) => peek = text[p + 1]
  BY PeekFacts
<1>2. t.first = a + 1 /\ t.last = p /\ t.type = "IntLiteral" /\ t.value = value
  BY <1>1 DEF Token
<1>3. ASSUME NEW what, lexicalError(what, begin) PROVE Lexed'
  BY <1>3, LexedError
<1>4. ASSUME Deliver("IntLiteral", 0, value), Fits(t) PROVE Lexed'
  BY <1>4, LexedDelivers
<1>5. value \in Nat /\ (mode = "binary" => value <= MaxInt)
  BY DEF TypeOK
<1>6. ~NoDigitsYet <=> p # a + 2
  BY DEF NoDigitsYet
<1>7. "end" \notin hex /\ "end" \notin {"0", "1"}
  BY NoEnd
<1>. HIDE DEF p, a, t
<1>8. CASE Hex
  <2>1. mode = "hex"
    BY <1>8 DEF Hex
  <2>2. InBased(a, p, {"x", "X"}, hex, 16, value)
    BY <2>1 DEF Lexed, Reads, a, p
  <2>3. CASE peek \in hex /\ Digit(16)
    <3>. HIDE DEF hex
    <3>1. peek # "end" /\ p < Len(text) /\ peek = text[p + 1]
      BY <1>1, <1>7, <2>3
    <3>2. InBased(a, p + 1, {"x", "X"}, hex, 16, value * 16 + DigitValue[peek])
      BY <1>1, <2>2, <2>3, <3>1, BasedGrows
    <3>3. Reads(mode, begin.pos, place.pos + 1, value * 16 + DigitValue[peek])
      BY <2>1, <3>2 DEF Reads, a, p, hex
    <3>. QED BY <2>3, <3>1, <3>3, LexedDigit
  <2>4. CASE /\ peek \notin hex /\ ~NoDigitsYet /\ peek \notin WordCharacters
             /\ value <= MaxInt /\ Deliver("IntLiteral", 0, value)
    <3>1. a + 2 < p
      <4>1. a + 2 <= p
        BY <2>2 DEF InBased
      <4>. QED BY <1>1, <1>6, <2>4, <4>1
    <3>2. p < Len(text) => text[p + 1] \notin hex /\ text[p + 1] \notin WordCharacters
      BY <1>1, <2>4
    <3>3. Fits(t)
      BY <1>1, <1>2, <1>5, <2>2, <2>4, <3>1, <3>2, BasedFits
    <3>. QED BY <1>4, <2>4, <3>3
  <2>5. \/ peek \in hex /\ Digit(16)
        \/ lexicalError("digits", begin) \/ lexicalError("character", begin) \/ lexicalError("range", begin)
        \/ /\ peek \notin hex /\ ~NoDigitsYet /\ peek \notin WordCharacters
           /\ value <= MaxInt /\ Deliver("IntLiteral", 0, value)
    <3>1. value > MaxInt \/ value <= MaxInt
      BY <1>5, MaxIntIsNatural
    <3>. QED BY <1>8, <3>1 DEF Hex
  <2>. QED BY <1>3, <2>3, <2>4, <2>5
<1>9. CASE Binary
  <2>. DEFINE bits == {"0", "1"}
  <2>1. mode = "binary"
    BY <1>9 DEF Binary
  <2>2. InBased(a, p, {"b", "B"}, bits, 2, value)
    BY <2>1 DEF Lexed, Reads, a, p
  <2>3. CASE peek \in bits /\ Digit(2)
    <3>. HIDE DEF bits
    <3>1. peek # "end" /\ p < Len(text) /\ peek = text[p + 1]
      BY <1>1, <1>7, <2>3 DEF bits
    <3>2. InBased(a, p + 1, {"b", "B"}, bits, 2, value * 2 + DigitValue[peek])
      BY <1>1, <2>2, <2>3, <3>1, BasedGrows
    <3>3. Reads(mode, begin.pos, place.pos + 1, value * 2 + DigitValue[peek])
      BY <2>1, <3>2 DEF Reads, a, p, bits
    <3>. QED BY <2>3, <3>1, <3>3, LexedDigit
  <2>4. CASE /\ peek \notin bits /\ ~NoDigitsYet /\ peek \notin WordCharacters
             /\ Deliver("IntLiteral", 0, value)
    <3>1. a + 2 < p
      <4>1. a + 2 <= p
        BY <2>2 DEF InBased
      <4>. QED BY <1>1, <1>6, <2>4, <4>1
    <3>2. p < Len(text) => text[p + 1] \notin bits /\ text[p + 1] \notin WordCharacters
      BY <1>1, <2>4
    <3>3. Fits(t)
      BY <1>1, <1>2, <1>5, <2>1, <2>2, <2>4, <3>1, <3>2, BasedFits
    <3>. QED BY <1>4, <2>4, <3>3
  <2>5. \/ peek \in bits /\ Digit(2)
        \/ lexicalError("digits", begin) \/ lexicalError("character", begin) \/ lexicalError("range", begin)
        \/ /\ peek \notin bits /\ ~NoDigitsYet /\ peek \notin WordCharacters
           /\ Deliver("IntLiteral", 0, value)
    BY <1>9 DEF Binary
  <2>. QED BY <1>3, <2>3, <2>4, <2>5
<1>. QED BY <1>8, <1>9

\* An exponent begins if a digit comes behind its letter and its sign.
LEMMA LexedExponent ==
    ASSUME TypeOK, Lexed, Exponent, peek \in {"e", "E"}, Mantissa(begin.pos, place.pos)
    PROVE  Lexed'
<1>. DEFINE p == place.pos
            a == begin.pos
            sign == IF peekNext \in {"+", "-"} THEN 1 ELSE 0
<1>1. /\ p \in Nat /\ a \in Nat /\ a <= p /\ text \in Texts /\ p <= Len(text) /\ Len(text) \in Nat
      /\ peek # "end" => p < Len(text)
      /\ p < Len(text) => peek = text[p + 1]
      /\ peekNext # "end" => p + 1 < Len(text)
      /\ p + 1 < Len(text) => peekNext = text[(p + 1) + 1]
      /\ \A n \in Nat : CharAt(n) # "end" => n < Len(text) /\ CharAt(n) = text[n + 1]
  BY PeekFacts
<1>2. \/ CharAt(p + 1 + sign) \in Digits /\ Skip(1 + sign, "exponent")
      \/ lexicalError("digits", begin)
  BY DEF Exponent
<1>3. sign \in {0, 1} /\ (sign = 1 => peekNext \in {"+", "-"})
  OBVIOUS
<1>. HIDE DEF sign, p, a
<1>4. CASE CharAt(p + 1 + sign) \in Digits /\ Skip(1 + sign, "exponent")
  <2>1. (p + 1) + sign \in Nat /\ 1 + sign \in {1, 2} /\ p + (1 + sign) = (p + 1) + sign
        /\ (1 + sign = 2 => sign = 1)
    BY <1>1, <1>3
  <2>2. (p + 1) + sign < Len(text) /\ text[((p + 1) + sign) + 1] \in Digits
    BY <1>1, <1>4, <2>1, NoEnd
  <2>3. peek # "end" /\ text[p + 1] \in {"e", "E"}
    BY <1>1
  <2>4. sign = 1 => peekNext # "end" /\ text[(p + 1) + 1] \in {"+", "-"}
    BY <1>1, <1>3
  <2>5. InExponent(a, (p + 1) + sign)
    BY <1>1, <1>3, <2>2, <2>3, <2>4, ExponentBegins DEF a, p
  <2>6. Reads("exponent", begin.pos, place.pos + (1 + sign), value)
    BY <2>1, <2>5 DEF Reads, a, p
  <2>. DEFINE n == 1 + sign
  <2>7. n \in {1, 2} /\ (n = 2 => peekNext # "end") /\ Skip(n, "exponent")
        /\ Reads("exponent", begin.pos, place.pos + n, value)
    BY <1>4, <2>1, <2>4, <2>6
  <2>. HIDE DEF n
  <2>. QED BY <2>3, <2>7, LexedSkips
<1>. QED BY <1>2, <1>4, LexedError

LEMMA LexedDecimal ==
    ASSUME TypeOK, Lexed, Decimal
    PROVE  Lexed'
<1>. DEFINE p == place.pos
            a == begin.pos
<1>1. /\ p \in Nat /\ a \in Nat /\ a <= p /\ text \in Texts /\ p <= Len(text) /\ Len(text) \in Nat
      /\ peek # "end" => p < Len(text)
      /\ p < Len(text) => peek = text[p + 1]
      /\ \A n \in Nat : CharAt(n) # "end" => n < Len(text) /\ CharAt(n) = text[n + 1]
  BY PeekFacts
<1>2. \A type, v : LET t == Token(type, begin, p + 0, v)
                   IN  t.first = a + 1 /\ t.last = p /\ t.type = type /\ t.value = v
  BY <1>1 DEF Token
<1>3. value \in Nat
  BY DEF TypeOK
<1>. HIDE DEF p, a
<1>4. CASE mode = "decimal" /\ peek \in Digits /\ Digit(10)
  <2>1. peek # "end" /\ p < Len(text) /\ peek = text[p + 1]
    BY <1>1, <1>4, NoEnd
  <2>2. InDecimal(a, p, value)
    BY <1>4 DEF Lexed, Reads, a, p
  <2>3. InDecimal(a, p + 1, value * 10 + DigitValue[peek])
    BY <1>1, <1>4, <2>1, <2>2, DecimalGrows
  <2>4. Reads(mode, begin.pos, place.pos + 1, value * 10 + DigitValue[peek])
    BY <1>4, <2>3 DEF Reads, a, p
  <2>. QED BY <1>4, <2>1, <2>4, LexedDigit
<1>5. CASE mode = "decimal" /\ peek = "." /\ Point
  <2>1. \/ CharAt(p + 1) \in Digits /\ Skip(1, "fraction")
        \/ lexicalError("digits", begin)
    BY <1>5 DEF Point, p
  <2>2. CASE CharAt(p + 1) \in Digits /\ Skip(1, "fraction")
    <3>1. peek # "end" /\ text[p + 1] = "." /\ p + 1 \in Nat
      BY <1>1, <1>5
    <3>2. p + 1 < Len(text) /\ text[(p + 1) + 1] \in Digits
      BY <1>1, <2>2, <3>1, NoEnd
    <3>3. InDecimal(a, p, value)
      BY <1>5 DEF Lexed, Reads, a, p
    <3>4. InFraction(a, p + 1)
      BY <1>1, <3>1, <3>2, <3>3, DecimalPointed
    <3>5. Reads("fraction", begin.pos, place.pos + 1, value)
      BY <3>4 DEF Reads, a, p
    <3>. QED BY <2>2, <3>1, <3>5, LexedSkips
  <2>. QED BY <2>1, <2>2, LexedError
<1>6. CASE mode = "decimal" /\ peek \in {"e", "E"} /\ Exponent
  <2>1. InDecimal(a, p, value)
    BY <1>6 DEF Lexed, Reads, a, p
  <2>2. text[p + 1] \notin Digits
    BY <1>1, <1>6, PointedFacts
  <2>3. Mantissa(a, p)
    BY <1>1, <2>1, <2>2 DEF InDecimal, Mantissa
  <2>. QED BY <1>6, <2>3, LexedExponent DEF a, p
<1>7. CASE /\ mode = "decimal" /\ peek \notin Pointed \cup {"e", "E"}
           /\ value <= MaxInt /\ Deliver("IntLiteral", 0, value)
  <2>1. InDecimal(a, p, value)
    BY <1>7 DEF Lexed, Reads, a, p
  <2>2. p < Len(text) => text[p + 1] \notin Pointed \cup {"e", "E"}
    BY <1>1, <1>7
  <2>. DEFINE t == Token("IntLiteral", begin, p + 0, value)
  <2>3. t.first = a + 1 /\ t.last = p /\ t.type = "IntLiteral" /\ t.value = value
    BY <1>2
  <2>. HIDE DEF t
  <2>4. Fits(t)
    BY <1>1, <1>3, <1>7, <2>1, <2>2, <2>3, DecimalFits
  <2>5. Fits(Token("IntLiteral", begin, place.pos + 0, value))
    BY <2>4 DEF t, p
  <2>. QED BY <1>7, <2>5, LexedDelivers
<1>8. CASE mode = "fraction" /\ peek \in Digits /\ Skip(1, "fraction")
  <2>1. peek # "end" /\ text[p + 1] \in Digits
    BY <1>1, <1>8, NoEnd
  <2>2. InFraction(a, p + 1)
    BY <1>1, <1>8, <2>1, FractionGrows DEF Lexed, Reads, a, p
  <2>3. Reads("fraction", begin.pos, place.pos + 1, value)
    BY <2>2 DEF Reads, a, p
  <2>. QED BY <1>8, <2>1, <2>3, LexedSkips
<1>9. CASE mode = "fraction" /\ peek \in {"e", "E"} /\ Exponent
  <2>1. InFraction(a, p)
    BY <1>9 DEF Lexed, Reads, a, p
  <2>2. text[p + 1] \notin Digits
    BY <1>1, <1>9, PointedFacts
  <2>3. Mantissa(a, p)
    BY <1>1, <2>1, <2>2, FractionEnds DEF Mantissa
  <2>. QED BY <1>9, <2>3, LexedExponent DEF a, p
<1>10. CASE mode = "exponent" /\ peek \in Digits /\ Skip(1, "exponent")
  <2>1. peek # "end" /\ text[p + 1] \in Digits
    BY <1>1, <1>10, NoEnd
  <2>2. InExponent(a, p + 1)
    BY <1>1, <1>10, <2>1, ExponentGrows DEF Lexed, Reads, a, p
  <2>3. Reads("exponent", begin.pos, place.pos + 1, value)
    BY <2>2 DEF Reads, a, p
  <2>. QED BY <1>10, <2>1, <2>3, LexedSkips
<1>11. CASE /\ \/ mode = "fraction" /\ peek \notin Digits \cup {"e", "E"}
               \/ mode = "exponent" /\ peek \notin Digits
            /\ Float
  <2>0. CASE lexicalError("float", begin)
    BY <2>0, LexedError
  <2>. SUFFICES ASSUME Deliver("FloatLiteral", 0, 0), Part(begin.pos + 1, place.pos) \notin Unrepresentable
                PROVE  Lexed'
    BY <1>11, <2>0 DEF Float, Part
  <2>1. FloatEnds(a, p) /\ Part(a + 1, p) \notin Unrepresentable
    BY <1>1, <1>11 DEF Lexed, Reads, FloatEnds, a, p
  <2>. DEFINE t == Token("FloatLiteral", begin, p + 0, 0)
  <2>2. t.first = a + 1 /\ t.last = p /\ t.type = "FloatLiteral"
    BY <1>2
  <2>. HIDE DEF t
  <2>3. Fits(t)
    BY <1>1, <2>1, <2>2, FloatFits
  <2>4. Fits(Token("FloatLiteral", begin, place.pos + 0, 0))
    BY <2>3 DEF t, p
  <2>. QED BY <1>11, <2>4, LexedDelivers
<1>12. CASE mode = "decimal"
  <2>1. \/ peek \in Digits /\ Digit(10)
        \/ peek = "." /\ Point
        \/ peek \in {"e", "E"} /\ Exponent
        \/ lexicalError("range", begin)
        \/ /\ peek \notin Pointed \cup {"e", "E"}
           /\ value <= MaxInt /\ Deliver("IntLiteral", 0, value)
    <3>1. value > MaxInt \/ value <= MaxInt
      BY <1>3, MaxIntIsNatural
    <3>. QED BY <1>12, <3>1 DEF Decimal, Pointed
  <2>. QED BY <1>4, <1>5, <1>6, <1>7, <1>12, <2>1, LexedError
<1>13. CASE mode = "fraction"
  <2>1. \/ peek \in Digits /\ Skip(1, "fraction")
        \/ peek \in {"e", "E"} /\ Exponent
        \/ peek \notin Digits \cup {"e", "E"} /\ Float
    BY <1>13 DEF Decimal
  <2>. QED BY <1>8, <1>9, <1>11, <1>13, <2>1
<1>14. CASE mode = "exponent"
  <2>1. \/ peek \in Digits /\ Skip(1, "exponent")
        \/ peek \notin Digits /\ Float
    BY <1>14 DEF Decimal
  <2>. QED BY <1>10, <1>11, <1>14, <2>1
<1>15. mode \in {"decimal", "fraction", "exponent"}
  BY DEF Decimal
<1>. QED BY <1>12, <1>13, <1>14, <1>15

LEMMA LexedString ==
    ASSUME TypeOK, Lexed, stringLiteral
    PROVE  Lexed'
<1>. DEFINE p == place.pos
            a == begin.pos
            t == Token("StringLiteral", begin, p + 1, 0)
<1>1. /\ p \in Nat /\ a \in Nat /\ a <= p /\ text \in Texts /\ p <= Len(text) /\ Len(text) \in Nat
      /\ peek # "end" => p < Len(text)
      /\ p < Len(text) => peek = text[p + 1]
      /\ peekNext # "end" => p + 1 < Len(text)
      /\ p + 1 < Len(text) => peekNext = text[(p + 1) + 1]
  BY PeekFacts
<1>2. t.first = a + 1 /\ t.last = p + 1 /\ t.type = "StringLiteral"
  BY DEF Token
<1>3. mode = "string"
  BY DEF stringLiteral
<1>4. InString(a, p)
  BY <1>3 DEF Lexed, Reads
<1>. HIDE DEF p, a, t
<1>5. CASE peek = Quote /\ Deliver("StringLiteral", 1, 0)
  <2>1. p < Len(text) /\ text[p + 1] = Quote
    BY <1>1, <1>5, NoEnd
  <2>2. Fits(t)
    BY <1>1, <1>2, <1>4, <2>1, StringFits
  <2>3. Fits(Token("StringLiteral", begin, place.pos + 1, 0))
    BY <2>2 DEF t, p
  <2>. QED BY <1>5, <2>3, LexedDelivers
<1>6. CASE peek = "\\" /\ peekNext \in Escapes /\ Skip(2, "string")
  <2>1. peek # "end" /\ peekNext # "end"
    BY <1>6, NoEnd
  <2>2. p + 1 < Len(text) /\ text[p + 1] = "\\" /\ text[(p + 1) + 1] \in Escapes
    BY <1>1, <1>6, <2>1
  <2>3. InString(a, p + 2)
    BY <1>1, <1>4, <2>2, StringEscapes
  <2>4. Reads("string", begin.pos, place.pos + 2, value)
    BY <2>3 DEF Reads, a, p
  <2>. QED BY <1>6, <2>1, <2>4, LexedSkips
<1>7. CASE peek \notin {"\n", Quote, "\\"} /\ peek # "end" /\ Skip(1, "string")
  <2>1. p < Len(text) /\ text[p + 1] \notin {"\n", Quote, "\\"}
    BY <1>1, <1>7
  <2>2. InString(a, p + 1)
    BY <1>1, <1>4, <2>1, StringGrows
  <2>3. Reads("string", begin.pos, place.pos + 1, value)
    BY <2>2 DEF Reads, a, p
  <2>. QED BY <1>7, <2>3, LexedSkips
<1>8. \/ lexicalError("string", begin) \/ lexicalError("escape", begin)
      \/ lexicalError("escape", advance(advance(place)))
      \/ peek = Quote /\ Deliver("StringLiteral", 1, 0)
      \/ peek = "\\" /\ peekNext \in Escapes /\ Skip(2, "string")
      \/ peek \notin {"\n", Quote, "\\"} /\ peek # "end" /\ Skip(1, "string")
  <2>1. CASE peek \in {"\n", "end"}
    BY <2>1, Zenon DEF stringLiteral
  <2>2. CASE peek = Quote
    BY <2>2, Zenon DEF stringLiteral, Quote
  <2>3. CASE peek = "\\"
    BY <2>3, Zenon DEF stringLiteral
  <2>4. CASE peek \notin {"\n", "end", Quote, "\\"}
    BY <1>3, <2>4, Zenon DEF stringLiteral, Quote
  <2>. QED BY <2>1, <2>2, <2>3, <2>4
<1>. QED BY <1>5, <1>6, <1>7, <1>8, LexedError

LEMMA LexedOperator ==
    ASSUME TypeOK, Lexed, Operator \/ End
    PROVE  Lexed'
<1>. DEFINE p == place.pos
            length == IF <<peek, peekNext>> \in Doubles THEN 2 ELSE 1
<1>1. /\ p \in Nat /\ text \in Texts /\ p <= Len(text) /\ Len(text) \in Nat
      /\ peek # "end" => p < Len(text)
      /\ p < Len(text) => peek = text[p + 1] /\ peek # "end"
      /\ peekNext # "end" => p + 1 < Len(text)
      /\ p + 1 < Len(text) => peekNext = text[(p + 1) + 1]
      /\ (p + 1) + 1 = p + 2
  BY PeekFacts
<1>2. mode = "between"
  BY DEF Operator, End, AtToken
<1>3. \A type, last : LET t == Token(type, place, last, 0)
                      IN  t.first = p + 1 /\ t.last = last /\ t.type = type
  BY DEF Token
<1>. HIDE DEF p
<1>4. CASE Operator /\ peek \in Singles
  <2>. DEFINE t == Token("Operator", place, place.pos + length, 0)
  <2>1. tokens' = Append(tokens, t) /\ text' = text /\ mode' = "between"
    BY <1>2, <1>4 DEF Operator
  <2>2. p < Len(text) /\ text[p + 1] \in Singles
    BY <1>1, <1>4, NoEnd
  <2>3. t.first = p + 1 /\ t.last = p + length /\ t.type = "Operator"
    BY <1>3 DEF p
  <2>4. /\ p + length <= Len(text) /\ p + length \in Nat
        /\ \/ p + length = p + 2 /\ <<text[p + 1], text[p + 2]>> \in Doubles
           \/ p + length = p + 1 /\ (p + length < Len(text) => <<text[p + 1], text[p + 2]>> \notin Doubles)
    <3>1. CASE <<peek, peekNext>> \in Doubles
      <4>1. peekNext # "end" /\ length = 2
        BY <3>1, NoEnd
      <4>. QED BY <1>1, <2>2, <3>1, <4>1
    <3>2. CASE <<peek, peekNext>> \notin Doubles
      <4>1. length = 1
        BY <3>2
      <4>. QED BY <1>1, <2>2, <3>2, <4>1
    <3>. QED BY <3>1, <3>2
  <2>. DEFINE b == p + length
  <2>5. Fits(t)
    <3>. HIDE DEF t, length
    <3>1. b \in Nat /\ b <= Len(text) /\ t.last = b
      BY <2>3, <2>4
    <3>2. \/ b = p + 2 /\ <<text[p + 1], text[p + 2]>> \in Doubles
          \/ b = p + 1 /\ (b < Len(text) => <<text[p + 1], text[p + 2]>> \notin Doubles)
      BY <2>4
    <3>. HIDE DEF b
    <3>. QED BY <1>1, <2>2, <2>3, <3>1, <3>2, OperatorFits
  <2>. HIDE DEF t
  <2>. QED BY <2>1, <2>5, FitDelivered
<1>5. CASE Operator /\ peek \notin Singles
  BY <1>5, LexedError DEF Operator
<1>6. CASE End
  <2>. DEFINE t == Token("EndOfFile", place, place.pos, 0)
  <2>1. tokens' = Append(tokens, t) /\ text' = text /\ mode' = "done" /\ peek = "end"
    BY <1>6 DEF End
  <2>2. p = Len(text)
    BY <1>1, <2>1
  <2>3. t.first = p + 1 /\ t.last = p /\ t.type = "EndOfFile"
    BY <1>3 DEF p
  <2>. HIDE DEF t
  <2>4. Fits(t)
    BY <1>1, <2>2, <2>3, EndFits
  <2>. QED BY <2>1, <2>4, FitDelivered
<1>. QED BY <1>4, <1>5, <1>6

LEMMA LexedStep == TypeOK /\ Lexed /\ [Next]_vars => Lexed'
<1>. SUFFICES ASSUME TypeOK, Lexed, [Next]_vars PROVE Lexed'
  OBVIOUS
<1>1. CASE UNCHANGED vars
  <2>1. UNCHANGED <<text, place, mode, begin, value, tokens>>
    BY <1>1 DEF vars
  <2>2. Reads(mode', begin'.pos, place'.pos, value')
    BY <2>1 DEF Lexed
  <2>. QED BY <2>1, <2>2, ReadOn
<1>2. CASE Next
  BY <1>2, LexedElsewhere, LexedBegins, LexedWord, LexedBased, LexedDecimal, LexedString, LexedOperator DEF Next
<1>. QED BY <1>1, <1>2

LEMMA LexedAlways == Spec => []Lexed
<1>1. Init => Lexed
  <2>. SUFFICES ASSUME Init PROVE Lexed
    OBVIOUS
  <2>1. tokens = <<>> /\ mode = "between"
    BY DEF Init
  <2>. QED BY <2>1, NotInToken DEF Lexed, LongestLexemes
<1>. QED BY <1>1, LexedStep, TypeCorrect, PTL DEF Spec

\* Every token the lexer delivers is what the grammar says of its text, a number
\* with its value, and no longer lexeme begins where it does.
THEOREM TokensAreLongest == Spec => []LongestLexemes
<1>1. Lexed => LongestLexemes
  BY DEF Lexed
<1>. QED BY <1>1, LexedAlways, PTL

-----------------------------------------------------------------------------
(* What is refused.                                                        *)

\* A number that does not fit or runs into a letter or a point.
Stuck(a, last) == \/ IsInt(Part(a + 1, last)) /\ ~(IntValue(Part(a + 1, last)) <= MaxInt)
                  \/ IsFloat(Part(a + 1, last)) /\ Part(a + 1, last) \in Unrepresentable
                  \/ last < Len(text) /\ text[last + 1] \in WordCharacters \cup {"."}

\* No lexeme that begins behind a place fits and ends.
RefusedAt(a) == \A last \in a + 1 .. Len(text) : IsLexeme(Part(a + 1, last)) => ~Ends(a + 1, last)

LEMMA NumberRefused ==
    ASSUME text \in Texts, NEW a \in Nat, a < Len(text), text[a + 1] \in Digits,
           \A last \in a + 1 .. Len(text) : NumberAt(a, last) => Stuck(a, last)
    PROVE  RefusedAt(a)
<1>. SUFFICES ASSUME NEW last \in a + 1 .. Len(text), IsLexeme(Part(a + 1, last)) PROVE ~Ends(a + 1, last)
  BY DEF RefusedAt
<1>1. last \in Nat /\ a <= last /\ last <= Len(text)
  BY CharFacts
<1>2. NumberAt(a, last)
  BY <1>1, LexemeKinds, KindsDiffer
<1>3. IsInt(Part(a + 1, last)) \/ IsFloat(Part(a + 1, last))
  BY <1>1, <1>2, NumberPart
<1>4. Stuck(a, last)
  BY <1>2
<1>. QED BY <1>3, <1>4 DEF Ends, Stuck

\* The letters of numbers are letters.
LEMMA NumberLetters ==
    /\ \A c \in Marks \cup {"e", "E"} \cup HexLetters : c \in WordCharacters
    /\ \A c \in Digits : c \in WordCharacters
    /\ \A c \in Pointed : c \in WordCharacters \cup {"."}
<1>1. HexLetters \cup {"x", "X"} \subseteq Letters
  BY LexerAssumption, Zenon
<1>2. Marks \cup {"e", "E"} \subseteq HexLetters \cup {"x", "X"}
  BY DEF Marks, HexLetters
<1>. QED BY <1>1, <1>2 DEF WordCharacters, Pointed

\* The beginnings of a number in another base run into its digits.
LEMMA BasedRefused ==
    ASSUME text \in Texts, NEW a \in Nat, NEW q \in Nat, a + 2 <= q, q <= Len(text),
           text[a + 1] = "0", text[a + 2] \in Marks,
           \A k \in a + 3 .. q : text[k] \in WordCharacters,
           \A last \in q .. Len(text) : NumberAt(a, last) => Stuck(a, last)
    PROVE  RefusedAt(a)
<1>1. Len(text) \in Nat /\ a < Len(text) /\ text[a + 1] \in Digits
  BY CharFacts DEF Digits
<1>2. ASSUME NEW last \in a + 1 .. Len(text), NumberAt(a, last) PROVE Stuck(a, last)
  <2>1. CASE q <= last
    <3>1. last \in q .. Len(text)
      BY <2>1
    <3>. QED BY <1>2, <3>1
  <2>2. CASE last < q
    <3>1. last + 1 = a + 2 \/ last + 1 \in a + 3 .. q
      BY <2>2
    <3>2. text[last + 1] \in WordCharacters
      BY <3>1, NumberLetters
    <3>3. last < Len(text)
      BY <1>1, <2>2
    <3>. QED BY <3>2, <3>3 DEF Stuck
  <2>. QED BY <2>1, <2>2
<1>. QED BY <1>1, <1>2, NumberRefused

\* A number in another base that no digit follows.
LEMMA BasedStops ==
    ASSUME NEW a \in Nat, NEW q \in Nat, a + 2 <= q, NEW last \in Nat, q < last,
           \/ text[a + 2] \in {"x", "X"} /\ text[q + 1] \notin Digits \cup HexLetters
           \/ text[a + 2] \in {"b", "B"} /\ text[q + 1] \notin {"0", "1"}
    PROVE  ~NumberAt(a, last)
<1>1. q + 1 \in a + 3 .. last /\ a + 2 <= last
  OBVIOUS
<1>2. ~BasedAt(a, last, {"x", "X"}, Digits \cup HexLetters)
  BY <1>1 DEF BasedAt
<1>3. ~BasedAt(a, last, {"b", "B"}, {"0", "1"})
  BY <1>1 DEF BasedAt
<1>. QED BY <1>1, <1>2, <1>3, BasedLongest

\* Digits without a value never come too late.
LEMMA DigitsRefused ==
    ASSUME text \in Texts, NEW a \in Nat, NEW q \in Nat, a + 2 <= q, q <= Len(text),
           text[a + 1] = "0",
           \/ /\ text[a + 2] \in {"x", "X"} /\ \A k \in a + 3 .. q : text[k] \in Digits \cup HexLetters
              /\ q < Len(text) => text[q + 1] \notin Digits \cup HexLetters
           \/ /\ text[a + 2] \in {"b", "B"} /\ \A k \in a + 3 .. q : text[k] \in {"0", "1"}
              /\ q < Len(text) => text[q + 1] \notin {"0", "1"},
           NumberAt(a, q) => Stuck(a, q)
    PROVE  RefusedAt(a)
<1>0. Len(text) \in Nat
  BY CharFacts
<1>1. text[a + 2] \in Marks
  BY DEF Marks
<1>2. \A k \in a + 3 .. q : text[k] \in WordCharacters
  <2>1. "0" \in Digits /\ "1" \in Digits
    BY DEF Digits
  <2>. QED BY <2>1, NumberLetters
<1>3. ASSUME NEW last \in q .. Len(text), NumberAt(a, last) PROVE Stuck(a, last)
  <2>1. CASE last = q
    BY <1>3, <2>1
  <2>2. CASE last # q
    <3>1. last \in Nat /\ q < last /\ q < Len(text)
      BY <1>0, <2>2
    <3>. QED BY <1>3, <3>1, BasedStops
  <2>. QED BY <2>1, <2>2
<1>. QED BY <1>1, <1>2, <1>3, BasedRefused

\* The value of a binary number only grows.
LEMMA PositionalGrows ==
    ASSUME text \in Texts, NEW c \in Nat, NEW q \in Nat, NEW last \in Nat, c <= q, q <= last, last <= Len(text),
           \A k \in c + 1 .. last : text[k] \in {"0", "1"},
           Positional(Part(c + 1, q), 2) \in Nat
    PROVE  Positional(Part(c + 1, last), 2) \in Nat /\ Positional(Part(c + 1, q), 2) <= Positional(Part(c + 1, last), 2)
<1>. DEFINE V(m) == Positional(Part(c + 1, m), 2)
            Less == {m \in Nat : q <= m /\ m <= last /\ ~(V(m) \in Nat /\ V(q) <= V(m))}
<1>1. ASSUME Less # {} PROVE FALSE
  <2>1. PICK m \in Less : \A k \in Less : m <= k
    <3>1. Less \in SUBSET Nat
      OBVIOUS
    <3>. HIDE DEF Less
    <3>. QED BY <1>1, <3>1, Least
  <2>. DEFINE j == m - 1
  <2>2. m \in Nat /\ q <= m /\ m <= last /\ ~(V(m) \in Nat /\ V(q) <= V(m))
    BY <2>1
  <2>3. m # q
    <3>. DEFINE v == V(q)
    <3>1. v \in Nat
      OBVIOUS
    <3>. HIDE DEF v
    <3>2. v <= v
      BY <3>1
    <3>. QED BY <2>2, <3>1, <3>2 DEF v
  <2>4. j \in Nat /\ q <= j /\ j <= last /\ c <= j /\ j < Len(text) /\ j + 1 = m /\ m \in c + 1 .. last
    BY <2>2, <2>3, CharFacts
  <2>5. V(j) \in Nat /\ V(q) <= V(j)
    <3>1. j \notin Less
      BY <2>1, <2>4
    <3>. HIDE DEF V, j
    <3>. QED BY <2>4, <3>1
  <2>6. V(m) = V(j) * 2 + DigitValue[text[m]]
    <3>. HIDE DEF j
    <3>1. Positional(Part(c + 1, j + 1), 2) = Positional(Part(c + 1, j), 2) * 2 + DigitValue[text[j + 1]]
      BY <2>4, PartGrows
    <3>. QED BY <2>4, <3>1
  <2>7. DigitValue[text[m]] \in Nat
    <3>1. text[m] \in Digits
      BY <2>4 DEF Digits
    <3>. QED BY <3>1, DigitValues
  <2>8. V(q) \in Nat
    OBVIOUS
  <2>. HIDE DEF V, Less, j
  <2>9. V(m) \in Nat /\ V(q) <= V(m)
    BY <2>5, <2>6, <2>7, <2>8
  <2>. QED BY <2>2, <2>9
<1>2. last \notin Less
  BY <1>1
<1>. QED BY <1>2

LEMMA BinaryRefused ==
    ASSUME text \in Texts, NEW a \in Nat, NEW q \in Nat, q <= Len(text), NEW v \in Nat, v > MaxInt,
           InBased(a, q, {"b", "B"}, {"0", "1"}, 2, v), a + 2 < q
    PROVE  RefusedAt(a)
<1>. DEFINE c == a + 2
<1>1. /\ a + 2 <= q /\ text[a + 1] = "0" /\ text[a + 2] \in {"b", "B"} /\ text[a + 2] \in Marks
      /\ \A k \in a + 3 .. q : text[k] \in {"0", "1"}
      /\ v = Positional(Part(c + 1, q), 2)
  BY DEF InBased, Marks
<1>2. \A k \in a + 3 .. q : text[k] \in WordCharacters
  <2>1. "0" \in Digits /\ "1" \in Digits
    BY DEF Digits
  <2>. QED BY <1>1, <2>1, NumberLetters
<1>3. ASSUME NEW last \in q .. Len(text), NumberAt(a, last) PROVE Stuck(a, last)
  <2>. DEFINE s == Part(a + 1, last)
  <2>1. last \in Nat /\ q <= last /\ last <= Len(text) /\ a + 2 < last /\ a <= last /\ a + 2 <= last
    BY CharFacts
  <2>2. ~BasedAt(a, last, {"x", "X"}, Digits \cup HexLetters)
    <3>1. ~(text[a + 2] \in {"x", "X"})
      BY <1>1
    <3>. QED BY <3>1 DEF BasedAt
  <2>3. BasedAt(a, last, {"b", "B"}, {"0", "1"})
    BY <1>1, <1>3, <2>1, <2>2, BasedLongest DEF Marks
  <2>4. IsBinary(s) /\ ~IsHex(s)
    BY <2>1, <2>2, <2>3, IntPart
  <2>5. SubSeq(s, 3, Len(s)) = Part(c + 1, last)
    <3>1. SubSeq(s, 3, Len(s)) = Part(a + 3, last)
      BY <2>1, BasedPart
    <3>2. a + 3 = c + 1
      OBVIOUS
    <3>. QED BY <3>1, <3>2
  <2>6. c \in Nat /\ c <= q /\ \A k \in c + 1 .. last : text[k] \in {"0", "1"}
    BY <1>1, <2>3 DEF BasedAt
  <2>. HIDE DEF c, s
  <2>7. Positional(Part(c + 1, last), 2) \in Nat /\ Positional(Part(c + 1, q), 2) <= Positional(Part(c + 1, last), 2)
    BY <1>1, <2>1, <2>6, PositionalGrows
  <2>8. IsInt(s) /\ IntValue(s) = Positional(Part(c + 1, last), 2)
    BY <2>4, <2>5 DEF IsInt, IntValue
  <2>9. ~(IntValue(s) <= MaxInt)
    BY <1>1, <2>7, <2>8, MaxIntIsNatural
  <2>. QED BY <2>8, <2>9 DEF Stuck, s
<1>. QED BY <1>1, <1>2, <1>3, BasedRefused

\* The errors behind the digits of a number in another base.
LEMMA BasedErrors ==
    ASSUME text \in Texts, NEW a \in Nat, NEW p \in Nat, p <= Len(text), NEW v,
           \/ /\ InBased(a, p, {"x", "X"}, Digits \cup HexLetters, 16, v)
              /\ p < Len(text) => text[p + 1] \notin Digits \cup HexLetters
           \/ /\ InBased(a, p, {"b", "B"}, {"0", "1"}, 2, v)
              /\ p < Len(text) => text[p + 1] \notin {"0", "1"},
           \/ p = a + 2
           \/ p < Len(text) /\ text[p + 1] \in WordCharacters
           \/ InBased(a, p, {"x", "X"}, Digits \cup HexLetters, 16, v) /\ ~(v <= MaxInt)
    PROVE  RefusedAt(a)
<1>1. /\ a + 2 <= p /\ a <= p /\ text[a + 1] = "0" /\ text[a + 2] \in Marks
      /\ \/ /\ text[a + 2] \in {"x", "X"} /\ \A k \in a + 3 .. p : text[k] \in Digits \cup HexLetters
            /\ p < Len(text) => text[p + 1] \notin Digits \cup HexLetters
         \/ /\ text[a + 2] \in {"b", "B"} /\ \A k \in a + 3 .. p : text[k] \in {"0", "1"}
            /\ p < Len(text) => text[p + 1] \notin {"0", "1"}
  BY DEF InBased, Marks
<1>2. ASSUME NumberAt(a, p) PROVE Stuck(a, p)
  <2>1. CASE p = a + 2
    <3>1. ~BasedAt(a, p, {"x", "X"}, Digits \cup HexLetters) /\ ~BasedAt(a, p, {"b", "B"}, {"0", "1"})
      BY <2>1 DEF BasedAt
    <3>. QED BY <1>1, <1>2, <3>1, BasedLongest DEF Marks
  <2>2. CASE p < Len(text) /\ text[p + 1] \in WordCharacters
    BY <2>2 DEF Stuck
  <2>3. CASE p # a + 2 /\ InBased(a, p, {"x", "X"}, Digits \cup HexLetters, 16, v) /\ ~(v <= MaxInt)
    <3>. DEFINE s == Part(a + 1, p)
    <3>1. BasedAt(a, p, {"x", "X"}, Digits \cup HexLetters)
      BY <1>1, <2>3 DEF BasedAt, InBased
    <3>2. IsHex(s) /\ ~IsBinary(s)
      <4>1. ~(text[a + 2] \in {"b", "B"})
        BY <3>1 DEF BasedAt
      <4>2. ~BasedAt(a, p, {"b", "B"}, {"0", "1"})
        BY <4>1 DEF BasedAt
      <4>. QED BY <1>1, <3>1, <4>2, IntPart
    <3>3. SubSeq(s, 3, Len(s)) = Part((a + 2) + 1, p)
      <4>1. a + 2 < p
        BY <1>1, <2>3
      <4>2. SubSeq(s, 3, Len(s)) = Part(a + 3, p)
        BY <1>1, <4>1, BasedPart
      <4>3. a + 3 = (a + 2) + 1
        OBVIOUS
      <4>. QED BY <4>2, <4>3
    <3>4. v = Positional(Part((a + 2) + 1, p), 16)
      BY <2>3 DEF InBased
    <3>. HIDE DEF s
    <3>5. IntValue(s) = Positional(Part((a + 2) + 1, p), 16)
      BY <3>2, <3>3 DEF IntValue
    <3>6. IsInt(s)
      BY <3>2 DEF IsInt
    <3>. QED BY <2>3, <3>4, <3>5, <3>6 DEF Stuck, s
  <2>. QED BY <2>1, <2>2, <2>3
<1>. QED BY <1>1, <1>2, DigitsRefused

\* A number that is too great.
LEMMA DecimalRange ==
    ASSUME text \in Texts, NEW a \in Nat, NEW p \in Nat, a <= p, p <= Len(text), NEW v, ~(v <= MaxInt),
           InDecimal(a, p, v), p < Len(text) => text[p + 1] \notin Pointed \cup {"e", "E"}
    PROVE  RefusedAt(a)
<1>1. /\ a < Len(text) /\ text[a + 1] \in Digits /\ Digital(a, p)
      /\ text[a + 1] = "0" /\ a + 2 <= Len(text) => text[a + 2] \notin Marks
      /\ v = Positional(Part(a + 1, p), 10)
  BY DEF InDecimal
<1>2. a < p
  <2>1. text[a + 1] \in Pointed
    BY <1>1 DEF Pointed
  <2>. QED BY <1>1, <2>1
<1>3. ASSUME NEW last \in a + 1 .. Len(text), NumberAt(a, last) PROVE Stuck(a, last)
  <2>0. Len(text) \in Nat /\ last \in Nat
    BY CharFacts
  <2>1. CASE last < p
    <3>1. text[last + 1] \in Digits /\ last < Len(text)
      BY <1>1, <2>0, <2>1 DEF Digital
    <3>. QED BY <3>1 DEF Stuck, WordCharacters
  <2>2. CASE last = p
    <3>. DEFINE s == Part(a + 1, p)
    <3>1. Numeral(s, Digits)
      BY <1>1, <1>2, DigitsPart
    <3>2. ~IsHex(s) /\ ~IsBinary(s)
      <4>1. a + 2 <= p => text[a + 2] \in Digits
        BY <1>1 DEF Digital
      <4>2. \A marks, digits : BasedAt(a, p, marks, digits) => a + 2 <= p /\ text[a + 2] \in marks
        BY DEF BasedAt
      <4>3. \A c \in Digits : c \notin {"x", "X"} /\ c \notin {"b", "B"}
        BY PointedFacts
      <4>4. ~BasedAt(a, p, {"x", "X"}, Digits \cup HexLetters) /\ ~BasedAt(a, p, {"b", "B"}, {"0", "1"})
        BY <4>1, <4>2, <4>3
      <4>. QED BY <4>4, IntPart
    <3>3. IsInt(s) /\ IntValue(s) = v
      <4>. HIDE DEF s
      <4>. QED BY <1>1, <3>1, <3>2 DEF IsInt, IntValue, s
    <3>. QED BY <2>2, <3>3 DEF Stuck
  <2>3. CASE p < last
    <3>1. p < Len(text) /\ a + 2 <= Len(text)
      BY <1>2, <2>0, <2>3
    <3>2. text[a + 1] = "0" => text[a + 2] \notin {"x", "X", "b", "B"}
      BY <1>1, <3>1 DEF Marks
    <3>. QED BY <1>1, <1>2, <1>3, <2>0, <2>3, <3>1, <3>2, DecimalLongest
  <2>. QED BY <2>0, <2>1, <2>2, <2>3
<1>. QED BY <1>1, <1>3, NumberRefused

\* A point that no digit follows.
LEMMA PointRefused ==
    ASSUME text \in Texts, NEW a \in Nat, NEW p \in Nat, a <= p, p < Len(text), NEW v,
           InDecimal(a, p, v), text[p + 1] = ".", p + 1 < Len(text) => text[p + 2] \notin Digits
    PROVE  RefusedAt(a)
<1>1. /\ a < Len(text) /\ text[a + 1] \in Digits /\ \A k \in a + 1 .. p : text[k] \in Digits
      /\ text[a + 1] = "0" /\ a + 2 <= Len(text) => text[a + 2] \notin Marks
  BY DEF InDecimal, Digital
<1>2. text[p + 1] \notin Digits /\ text[p + 1] \notin {"e", "E"}
  BY PointedFacts
<1>3. ASSUME NEW last \in a + 1 .. Len(text), NumberAt(a, last) PROVE Stuck(a, last)
  <2>0. Len(text) \in Nat /\ last \in Nat
    BY CharFacts
  <2>1. CASE last <= p
    <3>1. last < Len(text) /\ (last = p \/ last + 1 \in a + 1 .. p)
      BY <2>0, <2>1
    <3>2. text[last + 1] \in WordCharacters \cup {"."}
      BY <1>1, <3>1 DEF WordCharacters
    <3>. QED BY <3>1, <3>2 DEF Stuck
  <2>2. CASE p < last
    <3>1. p + 1 \in a + 1 .. last /\ a + 1 < last
      <4>1. a # p
        BY <1>1, <1>2
      <4>. QED BY <2>0, <2>2, <4>1
    <3>2. ~Digital(a, last)
      BY <1>2, <3>1 DEF Digital
    <3>3. \A marks, digits : BasedAt(a, last, marks, digits) => a + 2 <= Len(text) /\ text[a + 1] = "0" /\ text[a + 2] \in marks
      BY <2>0 DEF BasedAt
    <3>4. \A k \in Nat, c \in Nat : PointAt(a, c, k) /\ p < c /\ c <= Len(text) => FALSE
      <4>. SUFFICES ASSUME NEW k \in Nat, NEW c \in Nat, PointAt(a, c, k), p < c, c <= Len(text) PROVE FALSE
        OBVIOUS
      <4>1. p + 1 \in a + 1 .. c
        OBVIOUS
      <4>2. k = p + 1
        BY <1>2, <4>1 DEF PointAt
      <4>3. p + 2 \in a + 1 .. c /\ p + 2 # k /\ p + 1 < Len(text)
        BY <2>0, <4>2 DEF PointAt
      <4>. QED BY <4>3 DEF PointAt
    <3>5. ASSUME NEW e \in Nat, NEW f \in Nat, FloatAt(a, last, e, f) PROVE FALSE
      <4>1. /\ a + 1 < e /\ e < last /\ text[e] \in {"e", "E"} /\ f \in {e + 1, e + 2}
            /\ \A k \in f .. last : text[k] \in Digits
        BY <3>5, FloatFacts
      <4>2. e \notin a + 1 .. p
        BY <1>1, <4>1, PointedFacts
      <4>3. p + 1 < e
        BY <1>2, <4>1, <4>2
      <4>. DEFINE c == e - 1
      <4>4. c \in Nat /\ p < c /\ c <= Len(text) /\ Mantissa(a, c)
        BY <2>0, <3>5, <4>1, <4>3 DEF FloatAt
      <4>. HIDE DEF c
      <4>5. ~Digital(a, c)
        BY <1>2, <4>4 DEF Digital
      <4>. QED BY <3>4, <4>4, <4>5 DEF Mantissa
    <3>. QED BY <1>1, <1>3, <2>0, <2>2, <3>2, <3>3, <3>4, <3>5 DEF NumberAt, Marks
  <2>. QED BY <2>0, <2>1, <2>2
<1>. QED BY <1>1, <1>3, NumberRefused

\* An exponent that no digit follows, behind its sign or without one.
LEMMA ExponentRefused ==
    ASSUME text \in Texts, NEW a \in Nat, NEW p \in Nat, p < Len(text), Mantissa(a, p),
           text[p + 1] \in {"e", "E"},
           \/ p + 1 < Len(text) /\ text[p + 2] \in {"+", "-"} /\ (p + 2 < Len(text) => text[p + 3] \notin Digits)
           \/ p + 1 < Len(text) => text[p + 2] \notin {"+", "-"} \cup Digits
    PROVE  RefusedAt(a)
<1>0. Len(text) \in Nat
  BY CharFacts
<1>1. a < p /\ a < Len(text) /\ text[a + 1] \in Digits /\ \A k \in a + 1 .. p : text[k] \in Pointed
  <2>1. a < p /\ \A k \in a + 1 .. p : text[k] \in Pointed
    BY MantissaFacts
  <2>2. CASE Digital(a, p)
    BY <2>1, <2>2 DEF Digital
  <2>3. ASSUME NEW d \in Nat, PointAt(a, p, d) PROVE text[a + 1] \in Digits
    <3>1. a + 1 \in a + 1 .. p /\ a + 1 # d
      BY <2>3 DEF PointAt
    <3>. QED BY <2>3, <3>1 DEF PointAt
  <2>. QED BY <1>0, <2>1, <2>2, <2>3 DEF Mantissa
<1>2. text[p + 1] \notin Pointed /\ text[p + 1] \notin Digits /\ text[p + 1] \notin Marks /\ text[p + 1] # "."
  BY PointedFacts DEF Marks, Pointed
<1>3. text[a + 2] \notin Marks
  <2>1. a + 2 = p + 1 \/ a + 2 \in a + 1 .. p
    BY <1>1
  <2>. QED BY <1>1, <1>2, <2>1, PointedFacts DEF Marks
<1>4. ASSUME NEW last \in a + 1 .. Len(text), NumberAt(a, last) PROVE Stuck(a, last)
  <2>0. last \in Nat
    OBVIOUS
  <2>1. CASE last <= p
    <3>1. last < Len(text) /\ (last = p \/ last + 1 \in a + 1 .. p)
      BY <1>0, <2>0, <2>1
    <3>2. text[last + 1] \in WordCharacters \cup {"."}
      BY <1>1, <3>1, NumberLetters
    <3>. QED BY <3>1, <3>2 DEF Stuck
  <2>2. CASE p < last
    <3>1. p + 1 \in a + 1 .. last
      BY <1>1, <2>2
    <3>2. ~Digital(a, last)
      BY <1>2, <3>1 DEF Digital
    <3>3. \A marks, digits : BasedAt(a, last, marks, digits) => text[a + 2] \in marks
      BY DEF BasedAt
    <3>4. \A d \in Nat : ~PointAt(a, last, d)
      BY <1>2, <3>1 DEF PointAt
    <3>5. ASSUME NEW e \in Nat, NEW f \in Nat, FloatAt(a, last, e, f) PROVE FALSE
      <4>1. /\ a + 1 < e /\ e < last /\ text[e] \in {"e", "E"} /\ f \in {e + 1, e + 2} /\ f <= last
            /\ \A k \in a + 1 .. e - 1 : text[k] \in Pointed
            /\ \A k \in f .. last : text[k] \in Digits
        BY <3>5, FloatFacts
      <4>2. f = e + 2 => text[e + 1] \in {"+", "-"}
        BY <3>5 DEF FloatAt, ExponentAt
      <4>3. e \notin a + 1 .. p
        BY <1>1, <4>1, PointedFacts
      <4>4. p + 1 \notin a + 1 .. e - 1
        BY <1>2, <4>1
      <4>5. e = p + 1
        BY <1>1, <4>1, <4>3, <4>4
      <4>6. text[f] \in Digits
        BY <4>1
      <4>7. e + 1 = p + 2 /\ e + 2 = p + 3 /\ p + 1 < Len(text) /\ (f = p + 3 => p + 2 < Len(text))
        BY <1>0, <4>1, <4>5
      <4>8. \A c \in {"+", "-"} : c \notin Digits
        BY DEF Digits
      <4>. QED BY <4>1, <4>2, <4>6, <4>7, <4>8
    <3>. QED BY <1>3, <1>4, <3>2, <3>3, <3>4, <3>5 DEF NumberAt, Marks
  <2>. QED BY <2>0, <2>1, <2>2
<1>. QED BY <1>1, <1>4, NumberRefused

\* A float that no double is near to: its beginnings that are numbers run on.
LEMMA FloatRefused ==
    ASSUME text \in Texts, NEW a \in Nat, NEW b \in Nat, a <= b, b <= Len(text), FloatEnds(a, b),
           Part(a + 1, b) \in Unrepresentable
    PROVE  RefusedAt(a)
<1>0. Len(text) \in Nat
  BY CharFacts
<1>1. /\ IsFloat(Part(a + 1, b)) /\ a < b /\ text[a + 1] \in Digits
      /\ \A last \in b + 1 .. Len(text) : ~NumberAt(a, last)
      /\ \/ \E d \in Nat : PointAt(a, b, d)
         \/ \E e, f \in Nat : FloatAt(a, b, e, f)
  BY FloatIsLongest
<1>2. ASSUME NEW last \in a + 1 .. Len(text), NumberAt(a, last) PROVE Stuck(a, last)
  <2>0. last \in Nat
    OBVIOUS
  <2>1. last <= b
    BY <1>0, <1>1, <1>2, <2>0
  <2>2. CASE last = b
    BY <1>1, <2>2 DEF Stuck
  <2>3. ASSUME last < b, text[last + 1] \in WordCharacters \cup {"."} PROVE Stuck(a, last)
    BY <1>0, <2>3 DEF Stuck
  <2>4. ASSUME NEW d \in Nat, PointAt(a, b, d), last < b PROVE Stuck(a, last)
    <3>1. last + 1 \in a + 1 .. b
      BY <2>0, <2>4
    <3>2. text[last + 1] \in Pointed
      BY <2>4, <3>1, MantissaFacts DEF Mantissa
    <3>. QED BY <2>3, <2>4, <3>2, NumberLetters
  <2>5. ASSUME NEW e \in Nat, NEW f \in Nat, FloatAt(a, b, e, f), last < b PROVE Stuck(a, last)
    <3>1. /\ a + 1 < e /\ e < b /\ text[e] \in {"e", "E"} /\ \A k \in a + 1 .. e - 1 : text[k] \in Pointed
          /\ f \in {e + 1, e + 2} /\ f <= b /\ \A k \in f .. b : text[k] \in Digits
      BY <2>5, FloatFacts
    <3>2. last # e
      <4>. SUFFICES ASSUME last = e PROVE FALSE
        OBVIOUS
      <4>1. text[last] \notin Digits /\ text[last] \notin Pointed /\ last \in a + 1 .. last
        BY <2>0, <3>1, PointedFacts
      <4>2. ~Digital(a, last)
        BY <4>1 DEF Digital
      <4>3. \A d \in Nat : ~PointAt(a, last, d)
        BY <4>1, MantissaFacts DEF Mantissa
      <4>4. ASSUME NEW x \in Nat, NEW y \in Nat, FloatAt(a, last, x, y) PROVE FALSE
        <5>1. x < last /\ y \in {x + 1, x + 2} /\ y <= last /\ \A k \in y .. last : text[k] \in Digits
          BY <4>4, FloatFacts
        <5>. QED BY <2>0, <4>1, <5>1
      <4>5. \A marks, digits : BasedAt(a, last, marks, digits) => a + 2 \in a + 1 .. e - 1 /\ text[a + 2] \in marks
        BY DEF BasedAt
      <4>6. \A c \in {"x", "X", "b", "B"} : c \notin Pointed
        BY PointedFacts
      <4>. QED BY <1>2, <3>1, <4>2, <4>3, <4>4, <4>5, <4>6 DEF NumberAt
    <3>3. last + 1 \in a + 1 .. e - 1 \/ last + 1 = e \/ last + 1 \in f .. b
      BY <2>0, <2>5, <3>1, <3>2
    <3>4. text[last + 1] \in WordCharacters \cup {"."}
      BY <3>1, <3>3, NumberLetters DEF WordCharacters
    <3>. QED BY <2>3, <2>5, <3>4
  <2>. QED BY <1>1, <2>0, <2>1, <2>2, <2>4, <2>5
<1>. QED BY <1>0, <1>1, <1>2, NumberRefused

\* A character that begins nothing.
LEMMA OperatorRefused ==
    ASSUME text \in Texts, NEW a \in Nat, a < Len(text),
           text[a + 1] \notin WordCharacters \cup {Quote} \cup Singles
    PROVE  RefusedAt(a)
<1>. SUFFICES ASSUME NEW last \in a + 1 .. Len(text), IsLexeme(Part(a + 1, last)) PROVE FALSE
  BY DEF RefusedAt
<1>1. last \in Nat /\ a <= last /\ last <= Len(text)
  BY CharFacts
<1>. QED BY <1>1, LexemeKinds DEF WordCharacters

\* A string that a new line or the end of the text stops, or a wrong escape.
LEMMA StringRefused ==
    ASSUME text \in Texts, NEW a \in Nat, NEW p \in Nat, p <= Len(text), InString(a, p),
           \/ p = Len(text)
           \/ text[p + 1] = "\n"
           \/ text[p + 1] = "\\" /\ (p + 1 < Len(text) => text[p + 2] \notin Escapes)
    PROVE  RefusedAt(a)
<1>. SUFFICES ASSUME NEW last \in a + 1 .. Len(text), IsLexeme(Part(a + 1, last)) PROVE FALSE
  BY DEF RefusedAt
<1>0. a < p
  BY DEF InString
<1>1. last \in Nat /\ a <= last /\ last <= Len(text) /\ Len(text) \in Nat /\ a < p
  <2>1. Len(text) \in Nat
    BY CharFacts
  <2>. QED BY <1>0, <2>1
<1>2. \A i \in 1 .. p - a : text[a + i] = Quote /\ ~EscapedIn(a, i) <=> i = 1
  BY DEF InString
<1>3. text[a + 1] = Quote
  BY <1>1, <1>2
<1>4. IsString(Part(a + 1, last))
  BY <1>1, <1>3, LexemeKinds, KindsDiffer
<1>5. /\ last - a >= 2
      /\ \A i \in 1 .. last - a : /\ text[a + i] # "\n"
                                  /\ EscapedIn(a, i) => text[a + i] \in Escapes
                                  /\ text[a + i] = Quote /\ ~EscapedIn(a, i) <=> i \in {1, last - a}
  BY <1>1, <1>4, StringPart
<1>6. p < last
  <2>1. CASE last <= p
    <3>. DEFINE i == last - a
    <3>1. i \in 1 .. last - a /\ i \in 1 .. p - a /\ i # 1 /\ i \in {1, last - a}
      BY <1>1, <1>5, <2>1
    <3>. QED BY <1>2, <1>5, <3>1
  <2>. QED BY <1>1, <2>1
<1>. DEFINE i == (p - a) + 1
            j == (p - a) + 2
<1>7. i \in 1 .. last - a /\ a + i = p + 1 /\ p < Len(text) /\ a <= p
  BY <1>1, <1>6
<1>8. text[p + 1] = "\\" /\ (p + 1 < Len(text) => text[p + 2] \notin Escapes)
  BY <1>5, <1>6, <1>7
<1>9. i # last - a
  <2>1. text[a + i] # Quote
    BY <1>7, <1>8, QuoteFacts
  <2>2. i \notin {1, last - a}
    BY <1>5, <1>7, <2>1
  <2>. QED BY <2>2
<1>10. j \in 1 .. last - a /\ a + j = p + 2 /\ p + 1 < Len(text)
  BY <1>1, <1>6, <1>9
<1>11. ~EscapedIn(a, i)
  BY DEF InString
<1>12. EscapedIn(a, j)
  BY <1>1, <1>7, <1>8, <1>11, EscapedBehind
<1>. HIDE DEF j
<1>. QED BY <1>5, <1>8, <1>10, <1>12

\* A comment that the text ends in is closed nowhere.
LEMMA CommentRefused ==
    ASSUME text \in Texts, NEW b \in Nat, NEW n \in Nat, NEW open \in Nat, open # 0,
           InBlockComment(b, n, open), NEW m \in Nat, m <= n, b + m <= Len(text)
    PROVE  ~IsBlockComment(Part(b + 1, b + m))
<1>. DEFINE s == Part(b + 1, b + m)
<1>. SUFFICES ASSUME IsBlockComment(s) PROVE FALSE
  OBVIOUS
<1>1. PICK marks \in SUBSET (1 .. n - 1) : Marked(b, n, marks) /\ Nested(b, n, marks, open)
  BY DEF InBlockComment
<1>2. Len(s) = m /\ \A i \in 1 .. m : s[i] = text[b + i]
  <2>. DEFINE c == b + m
  <2>1. c \in Nat /\ b <= c /\ c <= Len(text) /\ c - b = m
    OBVIOUS
  <2>. HIDE DEF c
  <2>2. Len(Part(b + 1, c)) = m /\ \A i \in 1 .. m : Part(b + 1, c)[i] = text[b + i]
    BY <2>1, PartFacts
  <2>. QED BY <2>2 DEF c
<1>3. \A i \in 1 .. m - 1 : PairAt(b + i - 1) = <<s[i], s[i + 1]>>
  BY PairOfPart
<1>. HIDE DEF s
<1>4. m >= 4
  BY <1>2 DEF IsBlockComment
<1>5. PICK others \in SUBSET (1 .. m - 1) :
          /\ AreMarks(others, s)
          /\ \A k \in 1 .. m - 1 : Open(s, others, k) = 0 <=> k = m - 1
  BY <1>2 DEF IsBlockComment
<1>6. \A i \in 1 .. m - 1 : i \in others <=> PairAt(b + i - 1) \in MarkPairs /\ i - 1 \notin others
  BY <1>2, <1>3, <1>5 DEF AreMarks, MarkPairs
<1>7. \A i \in 1 .. m - 1 : i \in marks <=> PairAt(b + i - 1) \in MarkPairs /\ i - 1 \notin marks
  BY <1>1 DEF Marked
<1>8. \A i \in 1 .. m - 1 : i \in others <=> i \in marks
  <2>. DEFINE Differ == {i \in 1 .. m - 1 : ~(i \in others <=> i \in marks)}
  <2>1. ASSUME Differ # {} PROVE FALSE
    <3>1. PICK i \in Differ : \A k \in Differ : i <= k
      <4>1. Differ \in SUBSET Nat
        OBVIOUS
      <4>. HIDE DEF Differ
      <4>. QED BY <2>1, <4>1, Least
    <3>2. i \in 1 .. m - 1 /\ ~(i \in others <=> i \in marks)
      BY <3>1
    <3>3. i - 1 \in others <=> i - 1 \in marks
      <4>1. CASE i = 1
        BY <4>1
      <4>2. CASE i # 1
        <5>1. i - 1 \in 1 .. m - 1 /\ ~(i <= i - 1)
          BY <3>2, <4>2
        <5>2. i - 1 \notin Differ
          BY <3>1, <5>1
        <5>. QED BY <5>1, <5>2
      <4>. QED BY <4>1, <4>2
    <3>. QED BY <1>6, <1>7, <3>2, <3>3
  <2>. QED BY <2>1
<1>9. Open(s, others, m - 1) = OpenFrom(b, marks, m - 1)
  <2>1. ASSUME NEW d
        PROVE  {i \in others : i <= m - 1 /\ s[i] = d} = MarksWith(b, marks, m - 1, d)
    <3>1. \A i \in 1 .. m - 1 : s[i] = text[b + i]
      BY <1>2
    <3>2. ASSUME NEW i
          PROVE  i \in others /\ i <= m - 1 /\ s[i] = d <=> i \in marks /\ i <= m - 1 /\ text[b + i] = d
      <4>1. CASE i \in 1 .. m - 1
        BY <1>8, <3>1, <4>1
      <4>2. CASE i \notin 1 .. m - 1
        <5>1. i \notin others
          BY <4>2
        <5>2. ASSUME i \in marks, i <= m - 1 PROVE FALSE
          <6>1. i \in 1 .. n - 1
            BY <5>2
          <6>. QED BY <4>2, <5>2, <6>1
        <5>. QED BY <5>1, <5>2
      <4>. QED BY <4>1, <4>2
    <3>. QED BY <3>2 DEF MarksWith
  <2>. QED BY <2>1 DEF Open, OpenFrom
<1>10. m - 1 \in 1 .. m - 1 /\ m - 1 \in 1 .. n - 1
  BY <1>4
<1>11. OpenFrom(b, marks, m - 1) # 0
  BY <1>1, <1>10 DEF Nested
<1>. QED BY <1>5, <1>9, <1>10, <1>11

-----------------------------------------------------------------------------
(* The steps that refuse.                                                  *)

Refusable(what, a) ==
    IF what = "comment" THEN \A last \in a + 1 .. Len(text) : ~IsBlockComment(Part(a + 1, last))
    ELSE RefusedAt(a)

\* Nothing is said of what the text is, but of its parts.
LEMMA RefusableAlike ==
    ASSUME text' = text, NEW what, NEW a
    PROVE  Refusable(what, a)' <=> Refusable(what, a)
<1>1. \A x, y : /\ IsLexeme(Part(x, y))' <=> IsLexeme(Part(x, y))
                /\ IsBlockComment(Part(x, y))' <=> IsBlockComment(Part(x, y))
                /\ Ends(x, y)' <=> Ends(x, y)
  BY DEF Part, Ends
<1>. QED BY <1>1 DEF Refusable, RefusedAt

LEMMA Refuses ==
    ASSUME NEW what, NEW at, lexicalError(what, at),
           Refusable(what, IF what = "escape" THEN begin.pos ELSE at.pos)
    PROVE  OnlyErrorsRefused'
<1>1. /\ text' = text /\ begin' = begin
      /\ diagnostic'.what = what /\ diagnostic'.at = at
  BY DEF lexicalError
<1>. DEFINE a == IF what = "escape" THEN begin.pos ELSE at.pos
<1>2. Refusable(diagnostic'.what, IF diagnostic'.what = "escape" THEN begin'.pos ELSE diagnostic'.at.pos)
  BY <1>1
<1>3. Refusable(diagnostic.what, IF diagnostic.what = "escape" THEN begin.pos ELSE diagnostic.at.pos)'
  BY <1>1, <1>2, RefusableAlike
<1>. QED BY <1>3 DEF OnlyErrorsRefused, Refusable, RefusedAt

\* Before an error there is none.
LEMMA RefusesNothing ==
    ASSUME TypeOK, mode # "done", diagnostic' = diagnostic
    PROVE  OnlyErrorsRefused'
<1>1. diagnostic = NoError
  BY DEF TypeOK
<1>2. diagnostic' = NoError
  BY <1>1
<1>. QED BY <1>2 DEF OnlyErrorsRefused, NoError, Start

LEMMA RefusesInBased ==
    ASSUME TypeOK, Lexed, Hex \/ Binary
    PROVE  OnlyErrorsRefused'
<1>. DEFINE p == place.pos
            a == begin.pos
            hex == Digits \cup HexLetters
            bits == {"0", "1"}
<1>1. /\ p \in Nat /\ a \in Nat /\ a <= p /\ text \in Texts /\ p <= Len(text) /\ Len(text) \in Nat
      /\ peek # "end" => p < Len(text)
      /\ p < Len(text) => peek = text[p + 1]
  BY PeekFacts
<1>2. ASSUME NEW what, what \notin {"escape", "comment"}, lexicalError(what, begin), RefusedAt(a)
      PROVE  OnlyErrorsRefused'
  BY <1>2, Refuses DEF Refusable
<1>3. value \in Nat /\ MaxInt \in Nat
  BY MaxIntIsNatural DEF TypeOK
<1>4. NoDigitsYet <=> p = a + 2
  BY DEF NoDigitsYet
<1>5. "end" \notin WordCharacters /\ "end" \notin bits
  BY NoEnd
<1>6. mode # "done"
  BY DEF Hex, Binary
<1>. HIDE DEF p, a
<1>7. CASE Hex
  <2>1. mode = "hex"
    BY <1>7 DEF Hex
  <2>2. InBased(a, p, {"x", "X"}, hex, 16, value)
    BY <2>1 DEF Lexed, Reads, a, p
  <2>3. CASE peek \notin hex
    <3>1. p < Len(text) => text[p + 1] \notin hex
      BY <1>1, <2>3
    <3>2. CASE lexicalError("digits", begin) /\ p = a + 2
      BY <1>1, <1>2, <2>2, <3>1, <3>2, BasedErrors
    <3>3. CASE lexicalError("character", begin) /\ peek \in WordCharacters
      <4>1. p < Len(text) /\ text[p + 1] \in WordCharacters
        BY <1>1, <1>5, <3>3
      <4>. QED BY <1>1, <1>2, <2>2, <3>1, <3>3, <4>1, BasedErrors
    <3>4. CASE lexicalError("range", begin) /\ value > MaxInt
      <4>1. ~(value <= MaxInt)
        BY <1>3, <3>4
      <4>. QED BY <1>1, <1>2, <2>2, <3>1, <3>4, <4>1, BasedErrors
    <3>5. CASE diagnostic' = diagnostic
      BY <1>6, <3>5, RefusesNothing
    <3>6. \/ lexicalError("digits", begin) /\ p = a + 2
          \/ lexicalError("character", begin) /\ peek \in WordCharacters
          \/ lexicalError("range", begin) /\ value > MaxInt
          \/ diagnostic' = diagnostic
      BY <1>4, <1>7, <2>3 DEF Hex, Deliver
    <3>. QED BY <3>2, <3>3, <3>4, <3>5, <3>6
  <2>4. CASE peek \in hex
    BY <1>6, <1>7, <2>4, RefusesNothing DEF Hex, Digit, Move
  <2>. QED BY <2>3, <2>4
<1>8. CASE Binary
  <2>1. mode = "binary"
    BY <1>8 DEF Binary
  <2>2. InBased(a, p, {"b", "B"}, bits, 2, value)
    BY <2>1 DEF Lexed, Reads, a, p
  <2>3. CASE peek \notin bits
    <3>1. p < Len(text) => text[p + 1] \notin bits
      BY <1>1, <2>3
    <3>2. CASE lexicalError("digits", begin) /\ p = a + 2
      BY <1>1, <1>2, <2>2, <3>1, <3>2, BasedErrors
    <3>3. CASE lexicalError("character", begin) /\ peek \in WordCharacters
      <4>1. p < Len(text) /\ text[p + 1] \in WordCharacters
        BY <1>1, <1>5, <3>3
      <4>. QED BY <1>1, <1>2, <2>2, <3>1, <3>3, <4>1, BasedErrors
    <3>4. CASE diagnostic' = diagnostic
      BY <1>6, <3>4, RefusesNothing
    <3>5. \/ lexicalError("digits", begin) /\ p = a + 2
          \/ lexicalError("character", begin) /\ peek \in WordCharacters
          \/ diagnostic' = diagnostic
      BY <1>4, <1>8, <2>3 DEF Binary, Deliver
    <3>. QED BY <3>2, <3>3, <3>4, <3>5
  <2>4. CASE peek \in bits
    <3>. DEFINE v == value * 2 + DigitValue[peek]
                q == p + 1
    <3>1. CASE lexicalError("range", begin) /\ v > MaxInt
      <4>1. p < Len(text) /\ text[p + 1] = peek
        BY <1>1, <1>5, <2>4
      <4>2. InBased(a, q, {"b", "B"}, bits, 2, v)
        BY <1>1, <2>2, <2>4, <4>1, BasedGrows
      <4>3. v \in Nat
        <5>1. peek \in Digits
          BY <2>4 DEF Digits
        <5>2. DigitValue[peek] \in Nat
          BY <5>1, DigitValues
        <5>. QED BY <1>3, <5>2
      <4>4. q \in Nat /\ q <= Len(text) /\ a + 2 < q
        <5>1. a + 2 <= p
          BY <2>2 DEF InBased
        <5>. QED BY <1>1, <4>1, <5>1
      <4>. HIDE DEF v, q
      <4>5. RefusedAt(a)
        BY <1>1, <3>1, <4>2, <4>3, <4>4, BinaryRefused
      <4>. QED BY <1>2, <3>1, <4>5
    <3>2. CASE Digit(2)
      BY <1>6, <3>2, RefusesNothing DEF Digit, Move
    <3>3. (lexicalError("range", begin) /\ v > MaxInt) \/ Digit(2)
      BY <1>8, <2>4 DEF Binary
    <3>. QED BY <3>1, <3>2, <3>3
  <2>. QED BY <2>3, <2>4
<1>. QED BY <1>7, <1>8

\* A sign is no digit, and neither is the end of the text.
LEMMA NoExponent ==
    ASSUME TypeOK, Lexed, Exponent, peek \in {"e", "E"}, mode # "done", Mantissa(begin.pos, place.pos)
    PROVE  OnlyErrorsRefused'
<1>. DEFINE p == place.pos
            a == begin.pos
            sign == IF peekNext \in {"+", "-"} THEN 1 ELSE 0
<1>1. /\ p \in Nat /\ a \in Nat /\ text \in Texts /\ Len(text) \in Nat
      /\ peek # "end" => p < Len(text)
      /\ p < Len(text) => peek = text[p + 1]
      /\ peekNext # "end" => p + 1 < Len(text)
      /\ p + 1 < Len(text) => peekNext = text[(p + 1) + 1]
  BY PeekFacts
<1>2. \A k \in Nat : k < Len(text) => CharAt(k) = text[k + 1]
  BY <1>1, CharFacts
<1>3. peekNext = CharAt(p + 1)
  BY DEF peekNext
<1>4. CASE CharAt((p + 1) + sign) \in Digits
  <2>1. diagnostic' = diagnostic
    BY <1>4 DEF Exponent, Skip, Move
  <2>. QED BY <2>1, RefusesNothing
<1>5. CASE CharAt((p + 1) + sign) \notin Digits
  <2>1. lexicalError("digits", begin)
    BY <1>5 DEF Exponent
  <2>2. p < Len(text) /\ text[p + 1] \in {"e", "E"} /\ Mantissa(a, p)
    BY <1>1
  <2>. HIDE DEF p, a
  <2>3. CASE peekNext \in {"+", "-"}
    <3>. DEFINE q == p + 2
    <3>1. (p + 1) + sign = q /\ q \in Nat /\ q + 1 = p + 3 /\ (p + 1) + 1 = p + 2
      BY <1>1, <2>3
    <3>2. p + 1 < Len(text) /\ text[p + 2] \in {"+", "-"}
      BY <1>1, <2>3, <3>1
    <3>3. q < Len(text) => text[p + 3] \notin Digits
      <4>. HIDE DEF q, sign
      <4>. QED BY <1>2, <1>5, <3>1
    <3>4. RefusedAt(a)
      BY <1>1, <2>2, <3>2, <3>3, ExponentRefused
    <3>. QED BY <2>1, <3>4, Refuses DEF Refusable, a
  <2>4. CASE peekNext \notin {"+", "-"}
    <3>1. (p + 1) + sign = p + 1 /\ (p + 1) + 1 = p + 2
      BY <1>1, <2>4
    <3>2. peekNext \notin Digits
      BY <1>3, <1>5, <3>1
    <3>3. p + 1 < Len(text) => text[p + 2] \notin {"+", "-"} \cup Digits
      BY <1>1, <2>4, <3>1, <3>2
    <3>4. RefusedAt(a)
      BY <1>1, <2>2, <3>3, ExponentRefused
    <3>. QED BY <2>1, <3>4, Refuses DEF Refusable, a
  <2>. QED BY <2>3, <2>4
<1>. QED BY <1>4, <1>5

LEMMA RefusesInDecimal ==
    ASSUME TypeOK, Lexed, Decimal
    PROVE  OnlyErrorsRefused'
<1>. DEFINE p == place.pos
            a == begin.pos
<1>1. /\ p \in Nat /\ a \in Nat /\ a <= p /\ text \in Texts /\ p <= Len(text) /\ Len(text) \in Nat
      /\ peek # "end" => p < Len(text)
      /\ p < Len(text) => peek = text[p + 1]
  BY PeekFacts
<1>2. \A k \in Nat : k < Len(text) => CharAt(k) = text[k + 1]
  BY <1>1, CharFacts
<1>3. ASSUME NEW what, what \notin {"escape", "comment"}, lexicalError(what, begin), RefusedAt(a)
      PROVE  OnlyErrorsRefused'
  BY <1>3, Refuses DEF Refusable
<1>4. value \in Nat /\ MaxInt \in Nat
  BY MaxIntIsNatural DEF TypeOK
<1>5. mode \in {"decimal", "fraction", "exponent"} /\ mode # "done"
  BY DEF Decimal
<1>6. ASSUME diagnostic' = diagnostic PROVE OnlyErrorsRefused'
  BY <1>5, <1>6, RefusesNothing
<1>7. CASE mode = "decimal"
  <2>1. InDecimal(a, p, value)
    BY <1>7 DEF Lexed, Reads
  <2>2. CASE peek \in Digits
    <3>1. diagnostic' = diagnostic
      BY <1>7, <2>2, PointedFacts DEF Decimal, Digit, Move
    <3>. QED BY <1>6, <3>1
  <2>3. CASE peek = "."
    <3>1. Point
      BY <1>7, <2>3, PointedFacts DEF Decimal
    <3>2. CASE CharAt(place.pos + 1) \in Digits
      <4>1. diagnostic' = diagnostic
        BY <3>1, <3>2 DEF Point, Skip, Move
      <4>. QED BY <1>6, <4>1
    <3>3. CASE CharAt(place.pos + 1) \notin Digits
      <4>1. lexicalError("digits", begin)
        BY <3>1, <3>3 DEF Point
      <4>2. p < Len(text) /\ text[p + 1] = "."
        BY <1>1, <2>3
      <4>3. p + 1 < Len(text) => text[p + 2] \notin Digits
        <5>. DEFINE q == p + 1
        <5>1. q \in Nat /\ q + 1 = p + 2
          BY <1>1
        <5>2. q < Len(text) => text[q + 1] \notin Digits
          <6>1. CharAt(q) \notin Digits
            BY <3>3
          <6>. HIDE DEF q
          <6>. QED BY <1>2, <5>1, <6>1
        <5>. QED BY <5>1, <5>2
      <4>. HIDE DEF p, a
      <4>4. RefusedAt(a)
        BY <1>1, <2>1, <4>2, <4>3, PointRefused
      <4>. QED BY <1>3, <4>1, <4>4
    <3>. QED BY <3>2, <3>3
  <2>4. CASE peek \in {"e", "E"}
    <3>1. Exponent
      BY <1>7, <2>4, PointedFacts DEF Decimal
    <3>2. text[p + 1] \notin Digits
      BY <1>1, <2>4, PointedFacts
    <3>3. Mantissa(a, p)
      <4>. HIDE DEF p, a
      <4>. QED BY <1>1, <2>1, <3>2 DEF InDecimal, Mantissa
    <3>. QED BY <1>5, <2>4, <3>1, <3>3, NoExponent
  <2>5. CASE peek \notin Pointed \cup {"e", "E"}
    <3>1. CASE value > MaxInt
      <4>1. lexicalError("range", begin)
        BY <1>7, <2>5, <3>1 DEF Decimal, Pointed
      <4>2. ~(value <= MaxInt)
        BY <1>4, <3>1
      <4>3. p < Len(text) => text[p + 1] \notin Pointed \cup {"e", "E"}
        BY <1>1, <2>5
      <4>. HIDE DEF p, a
      <4>4. RefusedAt(a)
        BY <1>1, <2>1, <4>2, <4>3, DecimalRange
      <4>. QED BY <1>3, <4>1, <4>4
    <3>2. CASE ~(value > MaxInt)
      <4>1. diagnostic' = diagnostic
        BY <1>7, <2>5, <3>2 DEF Decimal, Pointed, Deliver
      <4>. QED BY <1>6, <4>1
    <3>. QED BY <3>1, <3>2
  <2>. QED BY <2>2, <2>3, <2>4, <2>5 DEF Pointed
<1>8. CASE mode = "fraction" /\ peek \in {"e", "E"}
  <2>1. InFraction(a, p)
    BY <1>8 DEF Lexed, Reads
  <2>2. Exponent
    BY <1>8, PointedFacts DEF Decimal
  <2>3. text[p + 1] \notin Digits
    BY <1>1, <1>8, PointedFacts
  <2>4. Mantissa(a, p)
    <3>. HIDE DEF p, a
    <3>. QED BY <1>1, <2>1, <2>3, FractionEnds DEF Mantissa
  <2>. QED BY <1>5, <1>8, <2>2, <2>4, NoExponent
<1>9. CASE mode = "exponent" \/ (mode = "fraction" /\ peek \notin {"e", "E"})
  <2>1. diagnostic' = diagnostic \/ lexicalError("float", begin)
    BY <1>9 DEF Decimal, Float, Skip, Move, Deliver
  <2>2. ASSUME lexicalError("float", begin), diagnostic' # diagnostic PROVE RefusedAt(a)
    <3>1. Float /\ (\/ mode = "fraction" /\ peek \notin Digits \cup {"e", "E"}
                    \/ mode = "exponent" /\ peek \notin Digits)
      BY <1>9, <2>2 DEF Decimal, Skip, Move
    <3>2. Part(a + 1, p) \in Unrepresentable
      BY <2>2, <3>1 DEF Float, Deliver, Part
    <3>3. FloatEnds(a, p)
      BY <1>1, <3>1 DEF Lexed, Reads, FloatEnds
    <3>. HIDE DEF p, a
    <3>. QED BY <1>1, <3>2, <3>3, FloatRefused
  <2>. QED BY <1>3, <1>6, <2>1, <2>2
<1>. QED BY <1>5, <1>7, <1>8, <1>9

LEMMA RefusesInString ==
    ASSUME TypeOK, Lexed, stringLiteral
    PROVE  OnlyErrorsRefused'
<1>. DEFINE p == place.pos
            a == begin.pos
<1>1. /\ p \in Nat /\ a \in Nat /\ a <= p /\ text \in Texts /\ p <= Len(text) /\ Len(text) \in Nat
      /\ peek # "end" => p < Len(text)
      /\ p < Len(text) => peek = text[p + 1] /\ peek # "end"
      /\ peekNext # "end" => p + 1 < Len(text)
      /\ p + 1 < Len(text) => peekNext = text[(p + 1) + 1]
      /\ (p + 1) + 1 = p + 2
  BY PeekFacts
<1>2. mode = "string"
  BY DEF stringLiteral
<1>3. InString(a, p)
  BY <1>2 DEF Lexed, Reads
<1>. HIDE DEF p, a
<1>4. ASSUME NEW what, NEW at, what = "escape" \/ (what = "string" /\ at = begin),
             lexicalError(what, at), RefusedAt(a)
      PROVE  OnlyErrorsRefused'
  BY <1>4, Refuses DEF Refusable, a
<1>5. CASE peek \in {"\n", "end"}
  <2>1. lexicalError("string", begin)
    BY <1>5, Zenon DEF stringLiteral
  <2>2. p = Len(text) \/ text[p + 1] = "\n"
    BY <1>1, <1>5
  <2>3. RefusedAt(a)
    BY <1>1, <1>3, <2>2, StringRefused
  <2>. QED BY <1>4, <2>1, <2>3
<1>6. CASE peek = "\\" /\ peekNext \notin Escapes
  <2>1. \E at : lexicalError("escape", at)
    <3>1. CASE peekNext = "end"
      BY <1>6, <3>1, Zenon DEF stringLiteral
    <3>2. CASE peekNext \notin Escapes \cup {"end"}
      BY <1>6, <3>2, Zenon DEF stringLiteral
    <3>. QED BY <1>6, <3>1, <3>2
  <2>2. p < Len(text) /\ text[p + 1] = "\\" /\ (p + 1 < Len(text) => text[p + 2] \notin Escapes)
    BY <1>1, <1>6
  <2>3. RefusedAt(a)
    BY <1>1, <1>3, <2>2, StringRefused
  <2>. QED BY <1>4, <2>1, <2>3
<1>7. CASE peek = Quote \/ (peek = "\\" /\ peekNext \in Escapes) \/ peek \notin {"\n", "end", Quote, "\\"}
  <2>1. \/ Deliver("StringLiteral", 1, 0) \/ Skip(2, mode) \/ Skip(1, mode)
    <3>1. CASE peek = Quote
      BY <3>1, Zenon DEF stringLiteral, Quote
    <3>2. CASE peek = "\\" /\ peekNext \in Escapes
      BY <3>2, NoEnd, Zenon DEF stringLiteral
    <3>3. CASE peek \notin {"\n", "end", Quote, "\\"}
      BY <3>3, Zenon DEF stringLiteral, Quote
    <3>. QED BY <1>7, <3>1, <3>2, <3>3
  <2>2. diagnostic' = diagnostic
    BY <2>1 DEF Deliver, Skip, Move
  <2>. QED BY <1>2, <2>2, RefusesNothing
<1>. QED BY <1>5, <1>6, <1>7

LEMMA RefusesInComment ==
    ASSUME TypeOK, Skipped, BlockComment
    PROVE  OnlyErrorsRefused'
<1>. DEFINE p == place.pos
            b == begin.pos
            n == p - b
<1>1. /\ p \in Nat /\ b \in Nat /\ b <= p /\ text \in Texts /\ p <= Len(text) /\ Len(text) \in Nat
      /\ p < Len(text) => peek # "end"
  BY PeekFacts
<1>2. mode = "blockComment"
  BY DEF BlockComment
<1>3. CASE depth # 0 /\ peek = "end" /\ lexicalError("comment", begin)
  <2>1. InBlockComment(b, n, depth) /\ n \in Nat /\ p = Len(text) /\ depth \in Nat
    BY <1>1, <1>2, <1>3 DEF Skipped, TypeOK
  <2>2. ASSUME NEW last \in b + 1 .. Len(text) PROVE ~IsBlockComment(Part(b + 1, last))
    <3>. DEFINE m == last - b
    <3>1. m \in Nat /\ m <= n /\ b + m <= Len(text) /\ b + m = last
      BY <1>1, <2>1
    <3>. HIDE DEF m, n, b, p
    <3>2. ~IsBlockComment(Part(b + 1, b + m))
      BY <1>1, <1>3, <2>1, <3>1, CommentRefused
    <3>. QED BY <3>1, <3>2
  <2>3. Refusable("comment", begin.pos)
    BY <2>2 DEF Refusable
  <2>. QED BY <1>3, <2>3, Refuses
<1>4. CASE diagnostic' = diagnostic
  BY <1>2, <1>4, RefusesNothing
<1>5. \/ depth # 0 /\ peek = "end" /\ lexicalError("comment", begin)
      \/ diagnostic' = diagnostic
  BY DEF BlockComment, Move
<1>. QED BY <1>3, <1>4, <1>5

LEMMA RefusesOperator ==
    ASSUME TypeOK, Operator
    PROVE  OnlyErrorsRefused'
<1>. DEFINE p == place.pos
<1>1. /\ p \in Nat /\ text \in Texts /\ Len(text) \in Nat
      /\ peek # "end" => p < Len(text)
      /\ p < Len(text) => peek = text[p + 1]
  BY PeekFacts
<1>2. mode # "done"
  BY DEF Operator, AtToken
<1>3. CASE peek \notin Singles
  <2>1. lexicalError("character", place) /\ peek # "end" /\ peek \notin WordCharacters \cup {Quote}
    <3>1. lexicalError("character", place)
      BY <1>3 DEF Operator
    <3>2. peek \notin WordCharacters \cup {"\"", "end"}
      BY Zenon DEF Operator
    <3>3. peek \notin WordCharacters \cup {Quote, "end"}
      BY <3>2, Zenon DEF Quote
    <3>. QED BY <3>1, <3>3
  <2>2. p < Len(text) /\ text[p + 1] \notin WordCharacters \cup {Quote} \cup Singles
    BY <1>1, <1>3, <2>1
  <2>. HIDE DEF p
  <2>3. RefusedAt(p)
    BY <1>1, <2>2, OperatorRefused
  <2>. QED BY <2>1, <2>3, Refuses DEF Refusable, p
<1>4. CASE peek \in Singles
  <2>1. diagnostic' = diagnostic
    BY <1>4 DEF Operator
  <2>. QED BY <1>2, <2>1, RefusesNothing
<1>. QED BY <1>3, <1>4

LEMMA RefusesNowhereElse ==
    ASSUME TypeOK, Blank \/ LineComment \/ OpenComment \/ Word \/ identifierOrKeyword \/ number \/ String \/ End
    PROVE  OnlyErrorsRefused'
<1>1. mode # "done"
  BY DEF Blank, LineComment, OpenComment, Word, identifierOrKeyword, number, String, End, AtToken
<1>2. CASE Blank \/ LineComment \/ OpenComment
  <2>1. diagnostic' = diagnostic
    BY <1>2 DEF Blank, LineComment, OpenComment, Move
  <2>. QED BY <1>1, <2>1, RefusesNothing
<1>3. CASE Word \/ number \/ String
  <2>1. diagnostic' = diagnostic
    BY <1>3 DEF Word, number, String, Begins, Move
  <2>. QED BY <1>1, <2>1, RefusesNothing
<1>4. CASE identifierOrKeyword
  <2>1. diagnostic' = diagnostic
    BY <1>4 DEF identifierOrKeyword, Skip, Move, Deliver
  <2>. QED BY <1>1, <2>1, RefusesNothing
<1>5. CASE End
  <2>1. diagnostic' = diagnostic
    BY <1>5 DEF End
  <2>. QED BY <1>1, <2>1, RefusesNothing
<1>. QED BY <1>2, <1>3, <1>4, <1>5

LEMMA RefusalStep == TypeOK /\ Skipped /\ Lexed /\ OnlyErrorsRefused /\ [Next]_vars => OnlyErrorsRefused'
<1>. SUFFICES ASSUME TypeOK, Skipped, Lexed, OnlyErrorsRefused, [Next]_vars PROVE OnlyErrorsRefused'
  OBVIOUS
<1>1. CASE UNCHANGED vars
  BY <1>1 DEF vars, OnlyErrorsRefused, Part, Ends
<1>2. CASE Next
  BY <1>2, RefusesInBased, RefusesInDecimal, RefusesInString, RefusesInComment, RefusesOperator,
     RefusesNowhereElse DEF Next
<1>. QED BY <1>1, <1>2

\* The lexer refuses no text in which it could have gone on: no lexeme that fits
\* begins where an error is reported, and no comment ends that is reported open.
THEOREM RefusesOnlyErrors == Spec => []OnlyErrorsRefused
<1>1. Init => OnlyErrorsRefused
  BY DEF Init, OnlyErrorsRefused
<1>. QED BY <1>1, RefusalStep, TypeCorrect, SkippedAlways, LexedAlways, PTL DEF Spec
=============================================================================
