--------------------------- MODULE LexicalGrammar ---------------------------
(***************************************************************************)
(* Sections 2 to 10 of src/specs/grammar.md: which texts are lexemes and   *)
(* comments, said of whole texts.  The reference for Lexer.                *)
(***************************************************************************)
EXTENDS Lexer, FiniteSetsExt

Part(first, last) == SubSeq(text, first, last)
AllIn(s, set) == \A i \in DOMAIN s : s[i] \in set
Numeral(s, digits) == s # <<>> /\ AllIn(s, digits)

\* The value of a numeral, from those of its beginnings.
Positional(s, base) ==
    LET upto[i \in 0 .. Len(s)] == IF i = 0 THEN 0 ELSE upto[i - 1] * base + DigitValue[s[i]]
    IN  upto[Len(s)]

IsWord(s) == s # <<>> /\ s[1] \in Letters /\ AllIn(s, WordCharacters)

IsBased(s, marks, digits) ==
    Len(s) > 2 /\ s[1] = "0" /\ s[2] \in marks /\ AllIn(SubSeq(s, 3, Len(s)), digits)
IsHex(s)    == IsBased(s, {"x", "X"}, Digits \cup HexLetters)
IsBinary(s) == IsBased(s, {"b", "B"}, {"0", "1"})
IsInt(s)    == Numeral(s, Digits) \/ IsHex(s) \/ IsBinary(s)
IntValue(s) ==
    CASE IsHex(s)    -> Positional(SubSeq(s, 3, Len(s)), 16)
      [] IsBinary(s) -> Positional(SubSeq(s, 3, Len(s)), 2)
      [] OTHER       -> Positional(s, 10)

\* Digits, and a fraction or an exponent or both.
IsFraction(s) == \E i \in DOMAIN s :
    s[i] = "." /\ Numeral(SubSeq(s, 1, i - 1), Digits) /\ Numeral(SubSeq(s, i + 1, Len(s)), Digits)
IsExponent(s) == Numeral(s, Digits) \/ (Len(s) > 1 /\ s[1] \in {"+", "-"} /\ Numeral(Tail(s), Digits))
IsFloat(s) ==
    \/ IsFraction(s)
    \/ \E i \in DOMAIN s : LET mantissa == SubSeq(s, 1, i - 1)
                           IN  /\ s[i] \in {"e", "E"}
                               /\ Numeral(mantissa, Digits) \/ IsFraction(mantissa)
                               /\ IsExponent(SubSeq(s, i + 1, Len(s)))

\* Behind an odd number of backslashes.
Escaped(s, i) ==
    LET run == CHOOSE n \in 0 .. i - 1 : /\ \A k \in i - n .. i - 1 : s[k] = "\\"
                                         /\ n = i - 1 \/ s[i - n - 1] # "\\"
    IN  run % 2 = 1
IsString(s) ==
    /\ Len(s) >= 2
    /\ \A i \in DOMAIN s : /\ s[i] # "\n"
                           /\ Escaped(s, i) => s[i] \in Escapes
                           /\ s[i] = "\"" /\ ~Escaped(s, i) <=> i \in {1, Len(s)}

IsOperator(s) == s \in Doubles \/ (Len(s) = 1 /\ s[1] \in Singles)

IsLexeme(s) == IsWord(s) \/ IsInt(s) \/ IsFloat(s) \/ IsString(s) \/ IsOperator(s)

\* The ends of comments close the starts, as brackets do.  A mark is a start or
\* an end whose first character is not in the mark before: "/*/" is no end.
AreMarks(marks, s) ==
    \A i \in 1 .. Len(s) - 1 :
        i \in marks <=> <<s[i], s[i + 1]>> \in {<<"/", "*">>, <<"*", "/">>} /\ i - 1 \notin marks
\* The comments that are open behind a mark at n.
Open(s, marks, n) ==
    Cardinality({i \in marks : i <= n /\ s[i] = "/"}) - Cardinality({i \in marks : i <= n /\ s[i] = "*"})
IsBlockComment(s) ==
    /\ Len(s) >= 4
    /\ \E marks \in SUBSET (1 .. Len(s) - 1) :
           /\ AreMarks(marks, s)
           /\ 1 \in marks /\ s[1] = "/"
           /\ \A n \in 1 .. Len(s) - 1 : Open(s, marks, n) = 0 <=> n = Len(s) - 1
IsLineComment(s) == Len(s) >= 2 /\ s[1] = "/" /\ s[2] = "/" /\ AllIn(s, STRING \ {"\n"})
IsBlank(s) == Len(s) = 1 /\ s[1] \in Blanks

\* Nothing but blanks and comments: it can be cut into them.
IsGap(s) == IsBlank(s) \/ IsLineComment(s) \/ IsBlockComment(s)
IsSpace(s) ==
    \E cuts \in SUBSET (0 .. Len(s)) :
        /\ {0, Len(s)} \subseteq cuts
        /\ \A i, j \in cuts : i < j /\ (\A k \in cuts : k <= i \/ j <= k) => IsGap(SubSeq(s, i + 1, j))

-----------------------------------------------------------------------------
Lexeme(t) == Part(t.first, t.last)

TypeFits(t) ==
    LET s == Lexeme(t)
    IN  CASE t.type = "IntLiteral"    -> IsInt(s) /\ t.value = IntValue(s) /\ t.value <= MaxInt
          [] t.type = "FloatLiteral"  -> \/ IsFloat(s) /\ s \notin Unrepresentable
                                         \/ (s \in DOMAIN Reserved /\ Reserved[s] = t.type)
          [] t.type = "StringLiteral" -> IsString(s)
          [] t.type = "Keyword"       -> s \in DOMAIN Reserved /\ Reserved[s] = t.type
          [] t.type = "Identifier"    -> IsWord(s) /\ s \notin DOMAIN Reserved
          [] t.type = "Operator"      -> IsOperator(s)
          [] t.type = "EndOfFile"     -> s = <<>> /\ t.last = Len(text)

\* Every token is what the grammar says of its text, with the value of a
\* number, and no longer part of the text is a lexeme: "1.5" is no three tokens,
\* "a1" no two, "<<=" begins with "<<", and "0x1g" is not "0x1" and a name.
LongestLexemes ==
    tokens # <<>> =>
        LET t == Last(tokens)
        IN  /\ TypeFits(t)
            /\ \A last \in t.last + 1 .. Len(text) : ~IsLexeme(Part(t.first, last))
            /\ (IsHex(Lexeme(t)) \/ IsBinary(Lexeme(t))) /\ t.last < Len(text) =>
                   text[t.last + 1] \notin WordCharacters

\* Nothing but blanks and comments lies in front of a token, however comments
\* nest: no part of the program is taken for a comment, and none of a comment
\* for the program.
NothingLost ==
    tokens # <<>> =>
        LET n == Len(tokens)
        IN  IsSpace(Part(IF n = 1 THEN 1 ELSE tokens[n - 1].last + 1, tokens[n].first - 1))

\* The place a message names: the line counts the new lines before the token,
\* the column the characters since the last of them.
LineAt(first)   == 1 + Cardinality({i \in 1 .. first - 1 : text[i] = "\n"})
ColumnAt(first) == first - Max({0} \cup {i \in 1 .. first - 1 : text[i] = "\n"})
PlacesTrue ==
    /\ tokens # <<>> => LET t == Last(tokens)
                        IN  t.line = LineAt(t.first) /\ t.column = ColumnAt(t.first)
    /\ LET at == diagnostic.at IN at.line = LineAt(at.pos + 1) /\ at.column = ColumnAt(at.pos + 1)

\* What is refused is no program: no comment that begins at the place of the
\* error is closed, and no lexeme that begins there (for an escape, no string
\* around it) fits and ends.  A number fits when an int or a double holds it; one
\* that runs into a letter or a point does not end.
Ends(first, last) ==
    LET s == Part(first, last)
    IN  IsInt(s) \/ IsFloat(s) =>
            /\ IsInt(s) => IntValue(s) <= MaxInt
            /\ IsFloat(s) => s \notin Unrepresentable
            /\ last < Len(text) => text[last + 1] \notin WordCharacters \cup {"."}
OnlyErrorsRefused ==
    diagnostic # NoError =>
        LET first == IF diagnostic.what = "escape" THEN begin.pos + 1 ELSE diagnostic.at.pos + 1
        IN  \A last \in first .. Len(text) :
                IF diagnostic.what = "comment" THEN ~IsBlockComment(Part(first, last))
                ELSE IsLexeme(Part(first, last)) => ~Ends(first, last)

Places == [pos : Nat, line : Nat, column : Nat]
Messages == {"none", "comment", "digits", "character", "range", "float", "string", "escape"}

TypeOK ==
    /\ text \in Texts
    /\ place \in Places /\ place.pos <= Len(text)
    /\ mode \in Modes
    /\ begin \in Places /\ begin.pos <= place.pos
    /\ depth \in Nat
    /\ mode = "blockComment" => 2 * depth <= place.pos - begin.pos
    /\ mode \in {"hex", "binary"} => begin.pos + 2 <= place.pos
    /\ value \in Nat
    /\ mode = "binary" => value <= MaxInt
    /\ tokens \in Seq([type : TokenTypes, first : Nat, last : Nat, line : Nat, column : Nat, value : 0 .. MaxInt])
    /\ diagnostic \in [what : Messages, at : Places]
    /\ diagnostic # NoError => mode = "done"
=============================================================================
