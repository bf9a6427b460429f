------------------------------ MODULE MCNative ------------------------------
(* The x86-64 generator and its output on small programs.                  *)
EXTENDS Native

CONSTANT Depth   \* how deep control constructs are nested

P == INSTANCE NativePrograms

MCPrograms ==
    P!NativeNests(Depth)
    \cup P!IntArithmetic \cup P!UIntArithmetic \cup P!FloatArithmetic
    \cup {P!Unaries, P!StructsInFrame, P!Noisy}
    \cup {P!Indexed(i) : i \in {-8, -1, 0, 1, 2, 3}} \cup {P!Down(n) : n \in {0, 2}}
    \cup P!RefusedPrograms

MCComputedElement == P!ComputedElement

\* What the theorem about labels needs of a program, these have.
ASSUME ProgramsResolvable ==
    \A p \in MCPrograms \cup MCComputedElement :
        LET programs == {p}
        IN  Generator!Resolvable(p, P!AllExprs(programs), P!AllStmts(programs))
=============================================================================
