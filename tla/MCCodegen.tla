----------------------------- MODULE MCCodegen -----------------------------
(* The code generator on every nest of control constructs up to a depth,   *)
(* and on the programs about data and calls.                               *)
EXTENDS Codegen

CONSTANTS
    Depth,       \* how deep any constructs are nested
    LoopDepth,   \* how deep loops and switches are nested
    FloatUnit    \* as in Values

P == INSTANCE Programs

Deep == {"while", "for", "case"}
ThePrograms ==
    P!NestPrograms(P!Constructs, Depth) \cup P!BreakPrograms(P!Constructs, Depth)
    \cup P!NestPrograms(Deep, LoopDepth) \cup P!BreakPrograms(Deep, LoopDepth)
    \cup P!DataPrograms
TheStmts == P!AllStmts(ThePrograms)
TheExprs == P!AllExprs(ThePrograms)

\* The values of the constants: TLC keeps the value of a definition, but
\* evaluates again the one that a constant stands for.
MCPrograms == ThePrograms
MCStmts    == TheStmts
MCExprs    == TheExprs
=============================================================================
