----------------------------- MODULE MCMiniLang -----------------------------
(* The whole pipeline on small programs: those on which it does what the   *)
(* language promises, and two families on which it does not.               *)
EXTENDS Meaning

CONSTANTS
    Depth,      \* how deep any constructs are nested
    LoopDepth   \* how deep loops and switches are nested

P == INSTANCE Programs
T == INSTANCE SourcePrograms

Deep == {"while", "for", "case"}
\* The nests, the programs about data, and those the analyzer's types let pass.
MCPrograms ==
    LET nests == P!NestPrograms(P!Constructs, Depth) \cup P!NestPrograms(Deep, LoopDepth)
    IN  nests \cup P!DataPrograms \cup T!Accepted
MCBreakPrograms == P!BreakPrograms(P!Constructs, Depth)
MCLeakPrograms  == P!LeakPrograms

AllPrograms == MCPrograms \cup MCBreakPrograms \cup MCLeakPrograms
MCStmts == LET programs == AllPrograms IN P!AllStmts(programs)
MCExprs == LET programs == AllPrograms IN P!AllExprs(programs)
MCLines == P!Lines
=============================================================================
