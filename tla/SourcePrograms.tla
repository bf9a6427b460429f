---------------------------- MODULE SourcePrograms ----------------------------
(***************************************************************************)
(* Programs as the parser hands them to the analyzer, most of them wrong:  *)
(* each tries one operation on operands of two types, or puts a value of   *)
(* one type in a place of another, and then uses what it has got in a way  *)
(* that only a value of the static type survives.  Those that the analyzer *)
(* accepts are compiled and run.  This module serves TLC only.             *)
(***************************************************************************)
EXTENDS Typing

CONSTANT FloatUnit   \* as in Values

Num(n) == IntLiteral(n)
Text   == StringLiteral(<<115>>)
Raw(op, l, r) == Binary(op, Unknown, l, r)
Built(callee, args) == CallExpr(callee, <<>>, args)
Show(e) == WriteStmt(<<e>>)

-----------------------------------------------------------------------------
(* struct P { int x; string s; int[2] a; }  struct Q { P x; }      *)

P == TypeOf("struct", "P")
Q == TypeOf("struct", "Q")
Array(element) == TypeOf("array", element)
Field(name, type, size) == [name |-> name, type |-> type, size |-> size]

Structs ==
    <<[name |-> "P", text |-> <<80>>,
       fields |-> <<Field("x", Scalar("int"), -1), Field("s", Scalar("string"), -1),
                    Field("a", Array("int"), 2)>>],
      [name |-> "Q", text |-> <<81>>, fields |-> <<Field("x", P, -1)>>]>>

Value(field, e) == [name |-> field, value |-> e]
Pair == ArrayLiteral(<<Num(1), Num(2)>>)
\* The fields out of their order.
PointOf(x, s, a) == StructLiteralExpr("P", <<Value("s", s), Value("a", a), Value("x", x)>>)
Point == PointOf(Num(1), Text, Pair)

\* A variable of each type.
Var(name, type, size, init) == VarDeclStmt(name, type, size, TRUE, <<init>>)
Variables ==
    <<Var("i", Scalar("int"), -1, Num(3)),
      Var("u", Scalar("uint"), -1, Num(2)),
      Var("f", Scalar("float"), -1, FloatLiteral(3)),
      Var("b", Scalar("bool"), -1, BoolLiteral(TRUE)),
      Var("s", Scalar("string"), -1, Text),
      Var("a", Array("int"), 2, Pair),
      Var("c", Array("int"), 3, ArrayLiteral(<<Num(1), Num(2), Num(3)>>)),
      Var("t", Array("string"), 2, ArrayLiteral(<<Text, Text>>)),
      Var("p", P, -1, Point),
      Var("q", Q, -1, StructLiteralExpr("Q", <<Value("x", Point)>>)),
      Var("r", Array("P"), 1, ArrayLiteral(<<Point>>))>>
VariableNames == {v.name : v \in ToSet(Variables)}
VariableNamed(name) == CHOOSE v \in ToSet(Variables) : v.name = name
TypeOfVar(name) == VariableNamed(name).type
SizeOfVar(name) == VariableNamed(name).size

\* An operand: an expression, and the variables that it takes.
Operand(e, names) == [expr |-> e, names |-> names]
OfVariable(name)  == Operand(NameExpr(name), {name})
Operands ==
    {OfVariable(name) : name \in VariableNames}
        \cup {Operand(Num(1), {}), Operand(Built("note", <<>>), {})}

\* Uses of a variable that fail for a value of any other type.
Uses(name, t) ==
    LET x == NameExpr(name)
        Element == IndexExpr(name, <<>>, Num(0))
    IN  CASE t.type = "int"    -> <<Show(Raw("Sub", x, Num(1)))>>
          [] t.type = "uint"   -> <<Show(Raw("Sub", x, CastTo("uint", Num(1))))>>
          [] t.type = "float"  -> <<Show(Raw("Mul", x, FloatLiteral(FloatUnit)))>>
          [] t.type = "bool"   -> <<Show(Unary("Not", x))>>
          [] t.type = "string" -> <<Show(Raw("Add", x, Text))>>
          [] t = Array("int")    -> <<Show(Raw("Sub", Element, Num(1))), Show(Built("len", <<x>>))>>
          [] t = Array("string") -> <<Show(Raw("Add", Element, Text))>>
          [] t = P -> <<Show(Raw("Sub", FieldAccessExpr(name, "x"), Num(1))),
                        Show(Raw("Add", FieldAccessExpr(name, "s"), Text)),
                        Show(IndexExpr("", <<FieldAccessExpr(name, "a")>>, Num(1)))>>
          [] t = Q -> <<Var("o", P, -1, FieldAccessExpr(name, "x")),
                        Show(Raw("Sub", FieldAccessExpr("o", "x"), Num(1)))>>
          [] OTHER -> <<Var("o", P, -1, Element), Show(Raw("Sub", FieldAccessExpr("o", "x"), Num(1)))>>

-----------------------------------------------------------------------------
(* Functions.                                                              *)

Function(name, typeParameters, parameters, returnType, body) ==
    [name |-> name, typeParameters |-> typeParameters,
     parameters |-> [i \in DOMAIN parameters |-> parameters[i].type],
     names |-> [i \in DOMAIN parameters |-> parameters[i].name],
     returnType |-> returnType, body |-> body]
Parameter(name, type) == [name |-> name, type |-> type]
Main(body) == Function("main", <<>>, <<>>, Scalar("int"), Append(body, Return(<<Num(0)>>)))

T == TypeOf("generic", "T")
X == NameExpr("x")
Give(e) == <<Return(<<e>>)>>
\* h adds, multiplies, joins or takes apart, as its parameter demands.
Functions ==
    <<Function("note", <<>>, <<>>, Scalar("void"), <<Show(Num(6))>>),
      Function("h", <<>>, <<Parameter("x", Scalar("int"))>>, Scalar("int"), Give(Raw("Sub", X, Num(1)))),
      Function("h", <<>>, <<Parameter("x", Scalar("float"))>>, Scalar("float"),
               Give(Raw("Mul", X, FloatLiteral(FloatUnit)))),
      Function("h", <<>>, <<Parameter("x", Scalar("string"))>>, Scalar("string"), Give(Raw("Add", X, Text))),
      Function("h", <<>>, <<Parameter("x", P)>>, Scalar("string"), Give(FieldAccessExpr("x", "s"))),
      Function("h", <<>>, <<Parameter("x", Array("int"))>>, Scalar("int"),
               Give(Raw("Sub", IndexExpr("x", <<>>, Num(1)), Num(1)))),
      Function("half", <<>>, <<Parameter("x", Scalar("float"))>>, Scalar("float"),
               Give(Raw("Div", X, FloatLiteral(2 * FloatUnit)))),
      Function("wide", <<>>, <<Parameter("x", Scalar("uint"))>>, Scalar("uint"),
               Give(Raw("Sub", X, CastTo("uint", Num(1))))),
      Function("second", <<"T">>, <<Parameter("y", T), Parameter("x", T)>>, T, Give(X))>>

Program(functions, names, stmts) ==
    [structs   |-> Structs,
     functions |-> functions \o
                   <<Main(SelectSeq(Variables, LAMBDA v : v.name \in names) \o stmts)>>]

-----------------------------------------------------------------------------
(* Expressions.                                                            *)

Ops == ArithmeticOps \cup ShortCircuitOps

Operations ==
    {Operand([Raw(op, l.expr, r.expr) EXCEPT !.kind = IF op \in ShortCircuitOps THEN "logic" ELSE @],
             l.names \cup r.names) : op \in Ops, l \in Operands, r \in Operands}
        \cup {Operand(Unary(op, e.expr), e.names) : op \in UnaryOps, e \in Operands}
        \cup {Operand(CastTo(type, e.expr), e.names) : type \in Scalars, e \in Operands}
        \cup {Operand(Built(b, <<e.expr>>), e.names) : b \in Builtins, e \in Operands}
        \cup {Operand(IndexExpr(name, <<>>, e.expr), {name} \cup e.names) :
                  name \in VariableNames, e \in Operands}
        \cup {Operand(FieldAccessExpr(name, field), {name}) :
                  name \in VariableNames, field \in {"x", "s", "a"}}
        \cup {Operand(ArrayLiteral(<<l.expr, r.expr>>), l.names \cup r.names) :
                  l \in Operands, r \in Operands}
        \cup {Operand(PointOf(x.expr, s.expr, a.expr), x.names \cup s.names \cup a.names) :
                  x \in {OfVariable("i"), OfVariable("u"), Operand(Num(1), {})}, s \in Operands, a \in Operands}
Calls ==
    {Operand(Built(f, <<e.expr>>), e.names) : f \in {"h", "half", "wide"}, e \in Operands}
        \cup {Operand(CallExpr("second", ts, <<l.expr, r.expr>>), l.names \cup r.names) :
                  ts \in {<<>>, <<Scalar("float")>>, <<P>>}, l \in Operands, r \in Operands}

\* What the type of an expression is good for: each of these is right for one type.
UsesOf(e) ==
    {Raw("Sub", e, Num(1)), Raw("Sub", e, CastTo("uint", Num(1))), Raw("Mul", e, FloatLiteral(FloatUnit)),
     Unary("Not", e), Raw("Add", e, Text)}

ExpressionPrograms(functions, operands) ==
    LET Of(o, e)    == Program(functions, o.names, <<Show(e)>>)
        accepted    == {o \in operands : analyze(Of(o, o.expr)) # <<>>}
    IN  {Of(o, o.expr) : o \in accepted}
            \cup UNION {{Of(o, e) : e \in UsesOf(o.expr)} : o \in accepted}

-----------------------------------------------------------------------------
(* Statements: each puts a value in a place and then uses the place.       *)

Candidates == Operands \cup {Operand(Pair, {}), Operand(ArrayLiteral(<<Text, Text>>), {}),
                          Operand(ArrayLiteral(<<Num(1)>>), {})}
Try(names, stmts) == Program(SubSeq(Functions, 1, 1), names, stmts)

\* Declarations of a variable like one of Variables, with other initializers.
DeclarationPrograms ==
    {Try(o.names, <<VarDeclStmt("n", TypeOfVar(v), SizeOfVar(v), TRUE, <<o.expr>>)>> \o Uses("n", TypeOfVar(v))) :
        v \in VariableNames, o \in Candidates}
    \cup {Try({}, <<VarDeclStmt("n", TypeOfVar(v), SizeOfVar(v), TRUE, <<>>)>> \o Uses("n", TypeOfVar(v))) :
              v \in VariableNames}
    \cup UNION {{Try(o.names, <<VarDeclStmt("n", Scalar(Unknown), -1, TRUE, <<o.expr>>), Show(e)>>) :
                     e \in UsesOf(NameExpr("n"))} : o \in Candidates}

\* The array assignments that the analyzer accepts and the language does not:
\* of an array with other elements or another size.
OtherArray(v, e) ==
    /\ TypeOfVar(v).type = "array"
    /\ \/ e.kind = "arrayLiteral"
       \/ e.kind = "variable" /\ TypeOfVar(e.name) # TypeOfVar(v)
       \/ e.kind = "variable" /\ SizeOfVar(e.name) # SizeOfVar(v)

AssignmentPrograms ==
    LET After(v, o, stmt) == Try({v} \cup o.names, <<stmt>> \o Uses(v, TypeOfVar(v)))
    IN  {After(v, o, AssignStmt(v, o.expr)) :
             <<v, o>> \in {vo \in VariableNames \X Candidates : ~OtherArray(vo[1], vo[2].expr)}}
        \cup {After(v, o, ArrayAssignStmt(v, <<>>, Num(0), o.expr)) : v \in VariableNames, o \in Candidates}
        \cup {After(v, o, ArrayAssignStmt(v, <<>>, o.expr, Num(1))) : v \in VariableNames, o \in Candidates}
        \cup {After(v, o, FieldAssignStmt(v, field, o.expr)) :
                  v \in VariableNames, o \in Candidates, field \in {"x", "s", "a"}}
        \cup {After(v, o, ArrayAssignStmt("", <<FieldAccessExpr(v, "a")>>, Num(1), o.expr)) :
                  v \in VariableNames, o \in Candidates}

\* A function of each type that returns each value.
ReturnPrograms ==
    {Program(<<Functions[1],
               Function("g", <<>>, <<>>, TypeOfVar(v),
                        SelectSeq(Variables, LAMBDA w : w.name \in o.names) \o Give(o.expr))>>,
             {}, <<VarDeclStmt("n", TypeOfVar(v), SizeOfVar(v), TRUE, <<Built("g", <<>>)>>)>>
                     \o Uses("n", TypeOfVar(v))) :
        v \in VariableNames, o \in Candidates}

\* Literals of P with a field too few, twice, unknown, or all of them.
LiteralPrograms ==
    LET Fields == {Value("x", Num(1)), Value("s", Text), Value("a", Pair), Value("y", Num(1))}
    IN  {Try({}, <<Var("n", P, -1, StructLiteralExpr("P", fs))>> \o Uses("n", P)) :
            fs \in UNION {[1 .. k -> Fields] : k \in 2 .. 4}}

\* Conditions, and variables in scopes.
ControlPrograms ==
    UNION {{Try(o.names, <<stmt, Show(Num(2))>>) :
               stmt \in {If(o.expr, Show(Num(1)), <<Show(Num(0))>>),
                         While(o.expr, Block(<<Show(Num(1)), BreakStmt>>)),
                         For(<<Var("n", Scalar("int"), -1, Num(0))>>, o.expr, <<AssignStmt("n", Num(1))>>,
                             Block(<<Var("n", Scalar("string"), -1, Text),
                                     Show(Raw("Add", NameExpr("n"), Text)), BreakStmt>>)),
                         Switch(o.expr, <<CaseOf(3, <<Show(Num(1)), BreakStmt>>)>>, <<Show(Num(0))>>)}} :
           o \in Operands}

\* Values of a type parameter in variables.
GenericPrograms ==
    {Program(<<Functions[1],
               Function("keep", <<"T">>, <<Parameter("x", T)>>, T,
                        <<Var("y", T, -1, X), VarDeclStmt("z", Scalar(Unknown), -1, TRUE, <<X>>),
                          AssignStmt("y", X), If(BoolLiteral(TRUE), Return(<<NameExpr("y")>>), <<>>)>>
                            \o Give(X))>>,
             {v, w}, <<AssignStmt(v, Built("keep", <<NameExpr(w)>>))>> \o Uses(v, TypeOfVar(v))) :
        v \in VariableNames, w \in VariableNames \ {"a", "c", "t", "r"}}

Sources ==
    ExpressionPrograms(SubSeq(Functions, 1, 1), Operations) \cup ExpressionPrograms(Functions, Calls)
        \cup DeclarationPrograms \cup AssignmentPrograms \cup ReturnPrograms \cup LiteralPrograms
        \cup ControlPrograms \cup GenericPrograms

\* The checked programs.
Accepted == UNION {ToSet(analyze(p)) : p \in Sources}
=============================================================================
