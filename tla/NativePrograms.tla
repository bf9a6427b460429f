--------------------------- MODULE NativePrograms ---------------------------
(***************************************************************************)
(* The programs on which the model checker runs the x86-64 generator and   *)
(* its output.  This module serves TLC only.                               *)
(***************************************************************************)
EXTENDS Programs

Fn(path, type, types, locals, body) == TypedFunction(path, type, types, locals, body)
MainFn(locals, body) == Fn(<<"main">>, "int", <<>>, locals, body)

IntVar(slot, e) == VarDecl(slot, "int", 0, <<e>>)
\* A number that may be negative: there are no negative literals.
Const(n) == IF n < 0 THEN Unary("Neg", Num(-n)) ELSE Num(n)
Called(f, type, args) == CallOf(f, type, args, [i \in DOMAIN args |-> args[i].type])
\* The truth of a test as a number: print shows a bool as a word.
AsNumber(e) == CastTo("int", e)

-----------------------------------------------------------------------------
(* Nests of control constructs in a function of one parameter.  An if at   *)
(* depth d looks at what the loop around it counts, or at the parameter.   *)

NativeConstructs == {"then", "else", "while", "for"}

Branching(d) == Test("Less", Local(d - 1), Num(1))
NativeAround(construct, d, stmts) ==
    LET body == Block(stmts \o <<Mark(d)>>)
        counted == <<IntVar(d, Local(d - 1))>>
    IN  CASE construct = "then" -> Block(counted \o <<If(Branching(d), body, <<>>)>>)
          [] construct = "else" -> Block(counted \o <<If(Branching(d), Mark(10 + d), <<body>>)>>)
          [] construct = "for"  -> CountTo(d, 2, body)
          [] construct = "while" ->
                Block(<<IntVar(d, Num(0)),
                        While(Test("Less", Local(d), Num(2)), Block(<<Increment(d), body>>))>>)

RECURSIVE NativeNested(_, _, _)
NativeNested(nest, d, leaf) ==
    IF nest = <<>> THEN leaf
    ELSE NativeAround(Head(nest), d, <<NativeNested(Tail(nest), d + 1, leaf)>>)

NativeNest(nest, leaf, n) ==
    <<Fn(<<"f">>, "int", <<"int">>, Len(nest) + 1, <<NativeNested(nest, 1, leaf), Mark(8)>>),
      MainFn(1, <<IntVar(0, Called(0, "int", <<Num(n)>>)), WriteStmt(<<Local(0)>>), Give(3)>>)>>

NativeNests(depth) ==
    {NativeNest(p[1], p[2], n) : p \in LegalPairs(NativeConstructs, depth), n \in {0, 1}}

-----------------------------------------------------------------------------
(* Arithmetic: a program for each operation and pair of operands.          *)

Arithmetic(type, op, a, b) ==
    LET Var(slot) == Variable(type, slot)
        e == Binary(op, IF op \in {"Less", "Greater", "LessEqual", "GreaterEqual", "Equal", "NotEqual"}
                        THEN "bool" ELSE type, Var(0), Var(1))
    IN  <<MainFn(2, <<VarDecl(0, type, 0, <<CastTo(type, Const(a))>>),
                      VarDecl(1, type, 0, <<CastTo(type, Const(b))>>),
                      WriteStmt(<<IF e.type = "bool" THEN AsNumber(e) ELSE e>>),
                      Return(<<AsNumber(CastTo("bool", Var(0)))>>)>>)>>

IntArithmetic  == {Arithmetic("int", op, a, b) : op \in ArithmeticOps, a \in {-7, 6}, b \in {-2, 0, 3}}
\* No difference of uints below zero: see Narrow.
UIntArithmetic == {Arithmetic("uint", op, a, b) : op \in ArithmeticOps, a \in {6}, b \in {0, 4}}
                  \cup {Arithmetic("uint", "Less", 3, 5)}
FloatOperations == {"Add", "Sub", "Mul", "Less", "Greater", "LessEqual", "GreaterEqual", "Equal",
                    "NotEqual"}
FloatArithmetic ==
    {Arithmetic("float", op, a, b) : op \in FloatOperations, a \in {3}, b \in {-2, 3}}
    \cup {Arithmetic("float", "Div", 6, 3)}

\* All the operands of a long expression wait on the stack in turn.
Unaries ==
    LET T == Variable("bool", 1)
        F == FloatLiteral(3)
    IN  <<MainFn(3, <<IntVar(0, Num(5)), VarDecl(1, "bool", 0, <<>>), VarDecl(2, "float", 0, <<>>),
            Assign(1, Or(And(Test("Less", A, Num(6)), BoolLiteral(TRUE)), T)),
            If(Unary("Not", T), Mark(1), <<Mark(2)>>),
            If(And(T, Or(BoolLiteral(FALSE), CastTo("bool", F))), Mark(3), <<>>),
            WriteStmt(<<Unary("BitNot", A), Unary("Neg", F), CastTo("int", F), CastTo("uint", F),
                        CastTo("float", T), UIntLiteral(2), Variable("float", 2)>>),
            Return(<<Op("Sub", Op("Mul", A, Op("Sub", Num(3), Num(1))),
                        Op("Add", Num(1), Op("Mod", A, Num(3))))>>)>>)>>

-----------------------------------------------------------------------------
(* Arrays and structs.                                                     *)

\* Two arrays in the frame of a function and an index into them.
Indexed(i) ==
    LET At(slot, e) == IndexOf("int", slot, <<>>, e)
    IN  <<Fn(<<"geo", ":", ":", "f">>, "int", <<"int">>, 4,
            <<VarDecl(1, "array", 2, <<ArrayLiteral(<<Num(1), Op("Add", Num(1), Num(1))>>)>>),
              If(Test("Less", A, Num(9)), Block(<<VarDecl(2, "array", 3, <<>>),
                 ArrayAssign(2, <<>>, A, Num(9)),
                 ArrayAssign(2, <<>>, Op("Sub", Num(2), A), Local(0)),
                 WriteStmt(<<At(1, Num(0)), At(1, Num(1)), At(2, Num(0)), At(2, Num(1)), At(2, Num(2)),
                             Builtin("Len", "int", Variable("array", 2))>>)>>), <<>>),
              IntVar(3, At(1, A)),
              Return(<<Op("Add", At(1, At(1, Num(0))), Local(3))>>)>>),
          MainFn(2, <<IntVar(0, Num(4)),
                      IntVar(1, Op("Add", Local(0), Called(0, "int", <<Const(i)>>))),
                      WriteStmt(<<Local(0)>>), Return(<<Local(1)>>)>>)>>

\* Two structs, one declared in the body of a loop, and an array behind them; and
\* one without a value that is not used.
StructsInFrame ==
    LET T == Variable("string", 4)
    IN  <<MainFn(6, <<
            VarDecl(5, "struct", 2, <<>>),
            VarDecl(0, "struct", 3, <<StructLiteral(<<80>>, <<Num(1), BoolLiteral(TRUE), S(115)>>)>>),
            CountTo(1, 2, Block(<<VarDecl(2, "struct", 1, <<StructLiteral(<<81>>, <<Num(0)>>)>>),
                                  FieldAssign(2, 0, Local(1)),
                                  VarDecl(3, "array", 1, <<ArrayLiteral(<<Num(6)>>)>>),
                                  FieldAssign(0, 0, FieldOf("int", 2, 0))>>)),
            VarDecl(4, "string", 0, <<>>),
            Assign(4, FieldOf("string", 0, 2)),
            WriteStmt(<<FieldOf("int", 0, 0), AsNumber(FieldOf("bool", 0, 1)), T, S(116)>>),
            Give(0)>>)>>

-----------------------------------------------------------------------------
(* Calls.                                                                  *)

\* The label of the second function is that of the first one's end but for the number.
Down(n) ==
    <<Fn(<<"f">>, "int", <<"int">>, 2,
        <<If(Test("Less", A, Num(1)), Block(<<Give(0)>>), <<>>),
          IntVar(1, Op("Sub", A, Num(1))),
          Return(<<Op("Add", A, Called(0, "int", <<Local(1)>>))>>)>>),
      Fn(<<"f", "_", "end">>, "float", <<"float", "int", "string", "float", "uint", "bool">>, 6,
        <<WriteStmt(<<Variable("string", 2), Variable("uint", 4), AsNumber(Variable("bool", 5))>>),
          Return(<<Binary("Sub", "float", Variable("float", 0), Variable("float", 3))>>)>>),
      MainFn(1, <<
        VarDecl(0, "float", 0,
            <<Called(1, "float", <<FloatLiteral(5), Called(0, "int", <<Num(n)>>), S(97),
                                   FloatLiteral(2), CastTo("uint", Num(3)), BoolLiteral(TRUE)>>)>>),
        ExprStmt(Called(0, "int", <<Num(1)>>)),
        \* Called while an operand waits.
        WriteStmt(<<Op("Add", Op("Sub", Num(9), Called(0, "int", <<Num(n)>>)),
                       Called(0, "int", <<Called(0, "int", <<Num(1)>>)>>)), Variable("float", 0)>>),
        ExprStmt(Builtin("Assert", "void", Test("Less", Num(n), Num(2)))),
        Return(<<>>)>>)>>

\* A function that prints is called while an operand waits.
Noisy ==
    <<Fn(<<"f">>, "int", <<>>, 0, <<Mark(5), Return(<<Num(1)>>)>>),
      MainFn(0, <<Return(<<Op("Add", Num(2), Called(0, "int", <<>>))>>)>>)>>

-----------------------------------------------------------------------------
(* Programs that are refused: each has one part the generator cannot       *)
(* translate, behind one that it can.                                      *)

Beside(stmt) == <<MainFn(3, <<IntVar(0, Num(1)), stmt, Give(0)>>)>>
OfFunction(type, types, body) == <<Fn(<<"f">>, type, types, Len(types), body), MainFn(0, <<Give(0)>>)>>
ArrayVar(size, init) == VarDecl(1, "array", size, init)
StructVar(init)      == VarDecl(1, "struct", 1, <<init>>)

RefusedStatements ==
    {Switch(A, <<CaseOf(1, <<ArrayVar(1, <<>>), BreakStmt>>)>>, <<Mark(1)>>),
     WriteStmt(<<A, ArrayLiteral(<<A>>)>>),
     ExprStmt(InputCall), ExprStmt(Builtin("Exit", "void", A)), ExprStmt(Builtin("Panic", "void", S(97))),
     WriteStmt(<<Builtin("Len", "int", S(97))>>),
     WriteStmt(<<Binary("Add", "string", S(97), S(98))>>),
     WriteStmt(<<Binary("Add", "float", A, FloatLiteral(1))>>),
     WriteStmt(<<Binary("Add", "uint", A, UIntLiteral(1))>>),
     Block(<<ArrayVar(1, <<>>), VarDecl(2, "array", 1, <<Variable("array", 1)>>)>>),
     ArrayVar(2, <<ArrayLiteral(<<FloatLiteral(1), A>>)>>),
     StructVar(StructLiteral(<<80>>, <<FloatLiteral(1)>>)),
     Block(<<StructVar(StructLiteral(<<80>>, <<A>>)), VarDecl(2, "struct", 1, <<Variable("struct", 1)>>),
             WriteStmt(<<AsNumber(Test("Equal", Variable("struct", 1), Variable("struct", 2)))>>)>>),
     WriteStmt(<<IndexOf("int", -1, <<FieldOf("array", 1, 0)>>, A)>>)}

RefusedPrograms ==
    {Beside(stmt) : stmt \in RefusedStatements}
    \cup {OfFunction("void", <<>>, <<Mark(1)>>), OfFunction("int", <<"array">>, <<Give(1)>>),
          OfFunction("int", [i \in 1 .. 7 |-> "int"], <<Give(1)>>)}

-----------------------------------------------------------------------------
(* An element takes a value that is computed:                              *)
(*   int main() { int32[2] a = [1, 5]; a[0] = a[1] + 1; print(a[0]); ... } *)
ComputedElement ==
    {<<MainFn(1, <<VarDecl(0, "array", 2, <<ArrayLiteral(<<Num(1), Num(5)>>)>>),
                   ArrayAssign(0, <<>>, Num(0), Op("Add", IndexOf("int", 0, <<>>, Num(1)), Num(1))),
                   WriteStmt(<<IndexOf("int", 0, <<>>, Num(0))>>),
                   Give(0)>>)>>}
=============================================================================
