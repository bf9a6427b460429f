-------------------------------- MODULE MCLexer --------------------------------
(* Every text of a few characters out of a few, chosen so that comments,     *)
(* numbers of each base, floats, strings, words and operators all come up,   *)
(* broken off and running into each other.                                   *)
EXTENDS LexicalGrammar

MCLetters == HexLetters \cup {"x", "X", "i", "n", "_"}
MCReserved == <<"i", "f">> :> "Keyword" @@ <<"i", "n", "f">> :> "FloatLiteral"

Upto(n, alphabet) == UNION {[1 .. k -> alphabet] : k \in 0 .. n}
Behind(prefix, n, alphabet) == {prefix \o s : s \in Upto(n, alphabet)}

Comments  == Upto(6, {"/", "*", "\n"}) \cup Behind(<<"/", "*", "/", "*">>, 5, {"/", "*", "a"})
HexTexts  == Behind(<<"0", "x">>, 3, {"0", "A", "x", ".", " "})
BinTexts  == Behind(<<"0", "b">>, 5, {"0", "1", "2"}) \cup Behind(<<"0", "b">>, 2, {"1", "_", "+", "e"})
Floats    == Upto(6, {"1", ".", "e", "-"})
Strings   == Behind(<<"\"">>, 5, {"\"", "\\", "n", "\n"})
Words     == Upto(4, {"i", "f", "n", "1", " "})
Operators == Upto(4, {"+", "<", "=", "&"}) \cup Upto(3, {":", "|", "?", "!", ")"})

\* The numbers written with 1 only that no double holds, when doubles reach from
\* 0.01 to below 1000: i digits in front of the point, f behind it, then e, a sign
\* and d digits.
Ones(n) == [k \in 1 .. n |-> "1"]
FloatText(i, f, sign, d) ==
    Ones(i) \o (IF f = 0 THEN <<>> ELSE <<".">> \o Ones(f)) \o (IF d = 0 THEN <<>> ELSE <<"e">> \o sign \o Ones(d))
Magnitude(i, sign, d) ==
    LET exponent == Positional(Ones(d), 10)
    IN  IF sign = <<"-">> THEN i - 1 - exponent ELSE i - 1 + exponent
MCUnrepresentable ==
    UNION {{FloatText(i, f, sign, d) : f \in 0 .. 4} :
           <<i, sign, d>> \in {q \in (1 .. 6) \X {<<>>, <<"-">>} \X (0 .. 4) :
                                   Magnitude(q[1], q[2], q[3]) \notin -2 .. 2}}

MCTexts == Comments \cup HexTexts \cup BinTexts \cup Floats \cup Strings \cup Words \cup Operators
=============================================================================
