------------------------------ MODULE Programs ------------------------------
(***************************************************************************)
(* The programs on which the model checker runs the compiler: every nest   *)
(* of control constructs up to a depth, and a few programs about calls and *)
(* data.  This module serves TLC only.                                     *)
(***************************************************************************)
EXTENDS AST, FiniteSets

CONSTANT FloatUnit   \* as in Values

\* The two lines the user types: an empty one and the digit 1.
One   == <<49>>
Lines == {<<>>, One}

Num(n)   == IntLiteral(n)
Local(i) == Variable("int", i)
Mark(n)  == WriteStmt(<<Num(n)>>)
Give(n)  == Return(<<Num(n)>>)

\* A condition the user decides each time it is evaluated.
Asked == Binary("Equal", "bool", InputCall, StringLiteral(One))
\* 0 or 1, as the user decides.
AskedNumber == Builtin("Len", "int", InputCall)

Increment(slot) == Assign(slot, Binary("Add", "int", Local(slot), Num(1)))
CountTo(slot, n, body) ==
    For(<<VarDecl(slot, "int", 0, <<Num(0)>>)>>,
        Binary("Less", "bool", Local(slot), Num(n)),
        <<Increment(slot)>>, body)

-----------------------------------------------------------------------------
(* Nests.  Slot 0 holds a number the user chose; a for loop at depth d     *)
(* counts in slot d.                                                       *)

Constructs == {"then", "else", "while", "for", "case", "default"}
Loops      == {"while", "for"}
Switches   == {"case", "default"}
Leaves     == {BreakStmt, ContinueStmt, Give(7), Mark(9)}

\* The construct at depth d around some statements, and a mark behind them.
Around(construct, d, stmts) ==
    LET body == Block(stmts \o <<Mark(d)>>)
    IN  CASE construct = "then"    -> If(Asked, body, <<>>)
          [] construct = "else"    -> If(Asked, Mark(10 + d), <<body>>)
          [] construct = "while"   -> While(Asked, body)
          [] construct = "for"     -> CountTo(d, 2, body)
          [] construct = "case"    ->
                Switch(Local(0), <<CaseOf(0, <<body>>), CaseOf(1, <<Mark(20 + d)>>)>>,
                       <<Mark(30 + d)>>)
          [] construct = "default" ->
                Switch(Local(0), <<CaseOf(1, <<Mark(20 + d)>>)>>, <<body>>)

\* The nest given by a sequence of constructs, the outermost first.
Nested(nest, leaf) ==
    LET From[d \in 1 .. Len(nest) + 1] ==
            IF d > Len(nest) THEN leaf ELSE Around(nest[d], d, <<From[d + 1]>>)
    IN  From[1]

NestProgram(nest, leaf) ==
    <<FunctionDecl("main", "int", 0, Len(nest) + 1,
        <<VarDecl(0, "int", 0, <<AskedNumber>>), Nested(nest, leaf), Mark(8), Give(0)>>)>>

Has(nest, kinds) == \E i \in DOMAIN nest : nest[i] \in kinds

\* What the analyzer accepts: break inside a loop or switch, continue inside a loop.
LegalNest(nest, leaf) ==
    /\ leaf = BreakStmt => Has(nest, Loops \cup Switches)
    /\ leaf = ContinueStmt => Has(nest, Loops)

\* The innermost loop or switch is a loop, and a switch is open around it.
LoopInSwitch(nest) ==
    \E i, j \in DOMAIN nest :
        /\ i < j
        /\ nest[i] \in Switches
        /\ nest[j] \in Loops
        /\ \A k \in DOMAIN nest : k > j => nest[k] \notin Switches

Nests(constructs, depth) == UNION {[1 .. n -> constructs] : n \in 1 .. depth}
LegalPairs(constructs, depth) ==
    {p \in Nests(constructs, depth) \X Leaves : LegalNest(p[1], p[2])}

NestPrograms(constructs, depth) ==
    {NestProgram(p[1], p[2]) :
        p \in {q \in LegalPairs(constructs, depth) :
                   ~(q[2] = BreakStmt /\ LoopInSwitch(q[1]))}}

\* The programs with a break of a loop that stands inside a switch.
BreakPrograms(constructs, depth) ==
    {NestProgram(p[1], BreakStmt) :
        p \in {q \in LegalPairs(constructs, depth) : q[2] = BreakStmt /\ LoopInSwitch(q[1])}}

-----------------------------------------------------------------------------
(* Programs about data and calls.  Between them they use every expression, *)
(* every statement and every opcode.  String literals are single letters.  *)

S(c)  == StringLiteral(<<c>>)
Op(op, l, r)   == Binary(op, "int", l, r)
Test(op, l, r) == Binary(op, "bool", l, r)
Main(locals, body) == FunctionDecl("main", "int", 0, locals, body)
AskSlot0  == VarDecl(0, "int", 0, <<AskedNumber>>)
A         == Local(0)

\* Arithmetic, comparisons and casts; a division by zero when A is 0.
Numbers ==
    LET U == Variable("uint", 1)
        F == FloatLiteral((3 * FloatUnit) \div 2)
        OneU == CastTo("uint", Num(1))
    IN  <<Main(2, <<AskSlot0,
            WriteStmt(<<Op("Add", Op("Add", A, Num(100)), Num(100)), Op("Sub", Num(7), A),
                        Op("Mul", Num(7), A), Op("Mod", Num(7), Num(2)), Unary("Neg", A),
                        Unary("BitNot", A), Op("ShiftLeft", Num(5), A), Op("ShiftRight", Num(5), A),
                        Op("BitAnd", Num(6), Num(3)), Op("BitOr", Num(6), A),
                        Op("BitXor", Num(6), Num(3))>>),
            VarDecl(1, "uint", 0, <<CastTo("uint", A)>>),
            WriteStmt(<<Binary("Sub", "uint", U, OneU),
                        Binary("Mul", "float", CastTo("float", A), F),
                        CastTo("int", F), CastTo("bool", A), Unary("Not", CastTo("bool", A)),
                        Unary("BitNot", U), UIntLiteral(3)>>),
            WriteStmt(<<Test("Less", A, Num(1)), Test("Greater", A, Num(1)),
                        Test("LessEqual", A, Num(1)), Test("GreaterEqual", A, Num(1)),
                        Test("Equal", A, Num(1)), Test("NotEqual", A, Num(1))>>),
            WriteStmt(<<Op("Div", Num(10), A)>>),
            ExprStmt(Builtin("Exit", "void", Op("Add", A, Num(3)))),
            Give(0)>>)>>

\* toInt of what is typed, an assertion, a shift count out of range, panic.
Checks ==
    <<Main(1, <<VarDecl(0, "int", 0, <<Builtin("ToInt", "int", InputCall)>>),
        ExprStmt(Builtin("Assert", "void", Asked)),
        If(Test("Equal", Op("ShiftLeft", Num(1), Op("Mul", AskedNumber, Num(40))), Num(1)),
           Block(<<ExprStmt(Builtin("Panic", "void", Binary("Add", "string", S(112), S(113))))>>),
           <<>>),
        Give(0)>>)>>

\* Arrays in locals and in a field, an index out of bounds when A is 1.
Arrays ==
    LET V == Variable("array", 1)
        W == Variable("array", 2)
    IN  <<Main(4, <<AskSlot0,
            VarDecl(1, "array", 2, <<ArrayLiteral(<<Num(1), Num(2)>>)>>),
            VarDecl(2, "array", 2, <<>>),
            VarDecl(3, "struct", 0,
                <<StructLiteral(<<66>>, <<ArrayLiteral(<<Num(3), Num(4)>>), S(115)>>)>>),
            ArrayAssign(-1, <<FieldOf("array", 3, 0)>>, A, Num(9)),
            ArrayAssign(2, <<>>, Op("Add", A, Num(1)),
                        IndexOf("int", -1, <<FieldOf("array", 3, 0)>>, A)),
            WriteStmt(<<V, Variable("struct", 3), Builtin("Len", "int", V), Test("Equal", V, W)>>),
            Return(<<IndexOf("int", 1, <<>>, A)>>)>>)>>

Structs ==
    LET Point(x) == StructLiteral(<<80>>, <<x, S(115)>>)
        T == Variable("string", 3)
    IN  <<Main(4, <<AskSlot0,
            VarDecl(1, "struct", 0, <<Point(Num(1))>>),
            VarDecl(2, "struct", 0, <<Point(A)>>),
            FieldAssign(1, 0, Num(0)),
            WriteStmt(<<Variable("struct", 1), FieldOf("int", 1, 0),
                        Test("Equal", Variable("struct", 1), Variable("struct", 2))>>),
            VarDecl(3, "string", 0, <<>>),
            Assign(3, Binary("Add", "string", T, InputCall)),
            WriteStmt(<<T>>),
            Return(<<FieldOf("int", 1, 0)>>)>>)>>

\* Recursion, && and || with effects, a procedure, a converted argument.
Calls ==
    LET Told(n) == CallOf(0, "bool", <<Num(n)>>, <<"int">>)
        Down(e) == CallOf(1, "int", <<e>>, <<"int">>)
        Half(e) == CallOf(2, "float", <<e>>, <<"float">>)
        Quiet(n) == CallOf(3, "void", <<Num(n)>>, <<"int">>)
    IN  <<FunctionDecl("helper", "bool", 1, 1, <<WriteStmt(<<A>>), Return(<<Asked>>)>>),
          FunctionDecl("helper", "int", 1, 2,
              <<VarDecl(1, "int", 0, <<A>>),
                If(Test("Less", A, Num(1)), Block(<<Give(0)>>), <<>>),
                Return(<<Op("Add", Local(1), Down(Op("Sub", A, Num(1))))>>)>>),
          FunctionDecl("helper", "float", 1, 1,
              <<Return(<<Binary("Mul", "float", Variable("float", 0),
                                FloatLiteral(FloatUnit \div 2))>>)>>),
          FunctionDecl("helper", "void", 1, 1,
              <<If(Test("Equal", A, Num(0)), Block(<<Return(<<>>)>>), <<>>), WriteStmt(<<A>>)>>),
          Main(1, <<If(Or(And(Told(1), Told(2)), Told(3)), Mark(4), <<ExprStmt(Told(5))>>),
                    WriteStmt(<<Down(Num(2))>>),
                    VarDecl(0, "float", 0, <<Half(Num(3))>>),
                    WriteStmt(<<Variable("float", 0)>>),
                    ExprStmt(Quiet(0)), ExprStmt(Quiet(6)),
                    Give(0)>>)>>

\* A function that returns an array has no default value: rejected.
ArrayResult ==
    <<FunctionDecl("helper", "array", 1, 1, <<Return(<<Variable("array", 0)>>)>>),
      Main(0, <<Give(0)>>)>>

DataPrograms == {Numbers, Checks, Arrays, Structs, Calls, ArrayResult}

-----------------------------------------------------------------------------
(* Programs on which the compiled program and the language's description   *)
(* part ways.                                                              *)

\* The result of a procedure called as a statement stays on the operand stack:
\*   void note() { print(6); }  int one() { note(); return 1; }
\*   int main() { return 2 + one(); }
LeakPrograms ==
    {<<FunctionDecl("helper", "void", 0, 0, <<Mark(6)>>),
       FunctionDecl("helper", "int", 0, 0, <<ExprStmt(CallOf(0, "void", <<>>, <<>>)), Give(1)>>),
       Main(0, <<Return(<<Op("Add", Num(2), CallOf(1, "int", <<>>, <<>>))>>)>>)>>}

-----------------------------------------------------------------------------
(* The nodes of a program.                                                 *)

All(nodes) == {nodes[i] : i \in DOMAIN nodes}

\* The nodes that hang directly under an expression, or a statement.
Operands(e) ==
    CASE e.kind \in {"binary", "logic"} -> {e.left, e.right}
      [] e.kind \in {"unary", "cast", "builtin"} -> {e.operand}
      [] e.kind = "call"          -> All(e.args)
      [] e.kind = "arrayLiteral"  -> All(e.elems)
      [] e.kind = "structLiteral" -> All(e.fields)
      [] e.kind = "index"         -> All(e.array) \cup {e.index}
      [] OTHER -> {}
Inner(s) ==
    CASE s.kind = "block"  -> All(s.stmts)
      [] s.kind = "if"     -> {s.then} \cup All(s.else)
      [] s.kind = "while"  -> {s.body}
      [] s.kind = "for"    -> {s.body} \cup All(s.init) \cup All(s.update)
      [] s.kind = "switch" -> UNION {All(c.stmts) : c \in All(s.cases)} \cup All(s.default)
      [] OTHER -> {}

\* The expressions a statement mentions itself.
OwnExprs(s) ==
    CASE s.kind = "exprStmt" -> {s.expr}
      [] s.kind = "varDecl"  -> All(s.init)
      [] s.kind \in {"assign", "fieldAssign"} -> {s.value}
      [] s.kind = "arrayAssign" -> {s.value, s.index} \cup All(s.array)
      [] s.kind \in {"if", "while", "for"} -> {s.cond}
      [] s.kind = "switch"   -> {s.expr}
      [] s.kind = "return"   -> All(s.value)
      [] s.kind = "print"    -> All(s.args)
      [] OTHER -> {}

\* These nodes and all below them.  No tree of a run is deeper than Height; the
\* assumptions of Codegen would fail if one were.
Height == 12
Closure(nodes, Below(_)) ==
    LET Down[k \in 0 .. Height] ==
            IF k = 0 THEN nodes
            ELSE LET above == Down[k - 1] IN above \cup UNION {Below(n) : n \in above}
    IN  Down[Height]

AllStmts(ps) == Closure(UNION {UNION {All(p[f].body) : f \in DOMAIN p} : p \in ps}, Inner)
AllExprs(ps) == Closure(UNION {OwnExprs(s) : s \in AllStmts(ps)}, Operands)
=============================================================================
