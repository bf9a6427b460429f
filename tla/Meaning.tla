------------------------------- MODULE Meaning -------------------------------
(***************************************************************************)
(* What the pipeline does with a program, against what the program means.  *)
(***************************************************************************)
EXTENDS MiniLang

Source == INSTANCE SourceSemantics WITH Declarations <- program

Ran == phase = "exited" /\ diagnostic = ""

\* A finished run has shown, read and returned what the source program means,
\* whatever the user typed: the source is evaluated without any bytecode.
MeaningPreserved ==
    Ran => LET meaning == Source!Meaning(input)
           IN  /\ output = meaning.output
               /\ error = meaning.error
               /\ error = "" => returnCode = meaning.code
               /\ Len(input) = meaning.reads
=============================================================================
