---------------------------- MODULE TokenStream ----------------------------
(***************************************************************************)
(* What the parser may rely on: the tokens of the source pass one by one   *)
(* and in their order, then the end of the file for ever.  It may also     *)
(* give up at any time, and sees the end of the file from then on.         *)
(***************************************************************************)
EXTENDS Integers, Sequences

CONSTANTS
    Tokens,      \* the tokens
    EndOfFile    \* the token behind the last one

VARIABLES
    source,      \* the tokens of the file
    position,    \* the place of the current one, 0 before the first
    current,     \* the current token
    givenUp      \* an error was found

vars == <<source, position, current, givenUp>>

TokenAt(i) == IF i \in DOMAIN source THEN source[i] ELSE EndOfFile

Init ==
    /\ source \in Seq(Tokens)
    /\ position = 0
    /\ current = EndOfFile
    /\ givenUp = FALSE

Advance ==
    /\ ~givenUp
    /\ position <= Len(source)
    /\ position' = position + 1
    /\ current' = TokenAt(position')
    /\ UNCHANGED <<source, givenUp>>

GiveUp ==
    /\ givenUp' = TRUE
    /\ current' = EndOfFile
    /\ UNCHANGED <<source, position>>

Next == Advance \/ GiveUp

Spec == Init /\ [][Next]_vars
=============================================================================
