------------------------------- MODULE Typing -------------------------------
(***************************************************************************)
(* The types of a program in the semantic analyzer (src/semantic.cpp):     *)
(* which programs it accepts, and the checked tree it leaves behind, with  *)
(* the types, slots, indexes and conversions the generators read.          *)
(*                                                                         *)
(* An operator is a method.  Its state s is what the methods share: the    *)
(* declarations, the function under analysis and the members.  A method of *)
(* an expression returns its type, the name that goes with the type (of a  *)
(* struct, a type parameter, or the elements of an array), the size of an  *)
(* array, and the checked node; the type is unknown after a failure.  A    *)
(* method of a statement returns the state behind it with the checked node *)
(* in tree.  After a failure nothing but the verdict is of interest: what  *)
(* the analyzer goes on to do is in Scopes.  The loop over overloads is in *)
(* Overloads; here a call gets what that loop has been proved to find.     *)
(*                                                                         *)
(* The module is recursive and serves TLC only.                            *)
(***************************************************************************)
EXTENDS AST, SequencesExt, FiniteSets

S == INSTANCE Signatures

-----------------------------------------------------------------------------
(* The trees of the parser: the nodes of AST with unknown types, and those *)
(* that hold names where a checked node holds slots and indexes.           *)

Unknown == "unknown"

RawExpr(kind, name) == [kind |-> kind, type |-> Unknown, name |-> name]
NameExpr(name)      == RawExpr("variable", name)
CallExpr(callee, typeArguments, args) ==
    RawExpr("call", callee) @@ [typeArguments |-> typeArguments, args |-> args]
IndexExpr(name, array, index)   == RawExpr("index", name) @@ [array |-> array, index |-> index]
StructLiteralExpr(name, fields) == RawExpr("structLiteral", name) @@ [fields |-> fields]
FieldAccessExpr(name, field)    == RawExpr("field", name) @@ [field |-> field]

\* The type of `var x = e` is unknown; the size is that of an array, or -1.
VarDeclStmt(name, type, size, isMutable, init) ==
    [kind |-> "varDecl", name |-> name, type |-> type, size |-> size,
     isMutable |-> isMutable, init |-> init]
AssignStmt(name, value) == [kind |-> "assign", name |-> name, value |-> value]
ArrayAssignStmt(name, array, index, value) ==
    [kind |-> "arrayAssign", name |-> name, array |-> array, index |-> index, value |-> value]
FieldAssignStmt(name, field, value) ==
    [kind |-> "fieldAssign", name |-> name, field |-> field, value |-> value]

-----------------------------------------------------------------------------
(* Types.                                                                  *)

Scalars  == {"int", "uint", "float", "bool", "string"}
Integral == {"int", "uint"}

TypeOf(type, name) == [type |-> type, name |-> name]
Scalar(type)       == TypeOf(type, "")

\* arrayElementTypeFromEncodedName: the name of an array type is that of its
\* elements, a scalar's, a struct's, or unknown.
ElementType(name) ==
    CASE name = ""         -> Scalar("int")
      [] name \in Scalars  -> Scalar(name)
      [] name = Unknown   -> Scalar(Unknown)
      [] OTHER            -> TypeOf("struct", name)
\* encodeArrayElementTypeNameSemantic.
ElementName(t) ==
    CASE t.type \in Scalars -> t.type
      [] t.type = "struct"  -> t.name
      [] OTHER              -> Unknown

\* What is known of an expression.
Typed(t, size, node) == [type |-> t.type, name |-> t.name, size |-> size, node |-> node]
TypedAs(type, node)  == Typed(Scalar(type), -1, node)
Failed               == TypedAs(Unknown, BreakStmt)
OrFails(condition, e) == IF condition THEN e ELSE Failed
TypeOfExpr(e) == TypeOf(e.type, e.name)
Nodes(es)     == [i \in DOMAIN es |-> es[i].node]

\* An int literal n that is not negative is a uint where one is expected.
Expecting(type, n, e) ==
    IF type = "uint" /\ e.type = "int" /\ n.kind = "literal" /\ n.value >= 0
    THEN TypedAs("uint", [e.node EXCEPT !.type = "uint"]) ELSE e

-----------------------------------------------------------------------------
(* Operators.                                                              *)

\* A mutant: the remainder of floats is forgotten in the list of refusals.
OperandTypesModOfFloats(op) ==
    CASE op = "Add" -> Integral \cup {"float", "string"}
      [] op \in {"Sub", "Mul", "Div", "Mod", "Less", "Greater", "LessEqual", "GreaterEqual"} ->
            Integral \cup {"float"}
      [] op \in {"BitAnd", "BitOr", "BitXor"} -> Integral
      [] op \in {"Equal", "NotEqual"} -> Scalars
      [] op \in ShortCircuitOps       -> {"bool"}

\* The types both operands may have.
OperandTypes(op) ==
    CASE op = "Add" -> Integral \cup {"float", "string"}
      [] op \in {"Sub", "Mul", "Div", "Less", "Greater", "LessEqual", "GreaterEqual"} ->
            Integral \cup {"float"}
      [] op \in {"Mod", "BitAnd", "BitOr", "BitXor"} -> Integral
      [] op \in {"Equal", "NotEqual"} -> Scalars
      [] op \in ShortCircuitOps       -> {"bool"}

Operates(op, l, r) ==
    IF op \in {"ShiftLeft", "ShiftRight"} THEN {l.type, r.type} \subseteq Integral
    ELSE /\ l.type = r.type
         /\ \/ l.type \in OperandTypes(op)
            \/ op \in {"Equal", "NotEqual"} /\ l.type = "array" /\ l.size = r.size
            \/ op \in {"Equal", "NotEqual"} /\ l.type = "struct" /\ l.name = r.name

Truths == {"Less", "Greater", "LessEqual", "GreaterEqual", "Equal", "NotEqual"} \cup ShortCircuitOps

analyzeBinaryExpr(n, left, right) ==
    LET l == Expecting(right.type, n.left, left)
        r == Expecting(left.type, n.right, right)
        type == IF n.op \in Truths THEN "bool" ELSE l.type
    IN  OrFails(Operates(n.op, l, r),
                TypedAs(type, [n EXCEPT !.type = type, !.left = l.node, !.right = r.node]))

analyzeUnaryExpr(n, e) ==
    OrFails(e.type \in CASE n.op = "BitNot" -> Integral
                         [] n.op = "Neg"    -> {"int", "float"}
                         [] n.op = "Not"    -> {"bool"},
            TypedAs(e.type, Unary(n.op, e.node)))

analyzeCastExpr(n, e) ==
    OrFails({n.type, e.type} \subseteq CastTypes, TypedAs(n.type, CastTo(n.type, e.node)))

-----------------------------------------------------------------------------
(* Variables, arrays and structs.                                          *)

\* Symbol.  An unknown type stands for the null pointer of findVariable.
Symbol(t, size, slot, isMutable) ==
    [type |-> t.type, name |-> t.name, size |-> size, slot |-> slot, isMutable |-> isMutable]
NoSymbol == Symbol(Scalar(Unknown), -1, -1, FALSE)

findVariable(name, s) ==
    LET where == {k \in DOMAIN s.scopes : name \in DOMAIN s.scopes[k]}
    IN  IF where = {} THEN NoSymbol ELSE s.scopes[Max(where)][name]

analyzeVariableExpr(n, s) ==
    LET v == findVariable(n.name, s)
    IN  Typed(TypeOfExpr(v), v.size, Variable(v.type, v.slot))

IsStruct(name, s)     == \E d \in ToSet(s.program.structs) : d.name = name
StructNamed(name, s)  == CHOOSE d \in ToSet(s.program.structs) : d.name = name
IsField(name, d)      == \E f \in ToSet(d.fields) : f.name = name
\* Indexes count from 0.
FieldIndex(name, d)   == CHOOSE i \in 0 .. Len(d.fields) - 1 : d.fields[i + 1].name = name

\* The field of a struct variable, or NoField.
NoField == [type |-> Scalar(Unknown), size |-> -1, index |-> -1]
FieldNamed(name, v, s) ==
    IF v.type = "struct" /\ IsStruct(v.name, s) /\ IsField(name, StructNamed(v.name, s))
    THEN LET d == StructNamed(v.name, s)
             i == FieldIndex(name, d)
         IN  [type |-> d.fields[i + 1].type, size |-> d.fields[i + 1].size, index |-> i]
    ELSE NoField

analyzeFieldAccessExpr(n, s) ==
    LET v == findVariable(n.name, s)
        f == FieldNamed(n.field, v, s)
    IN  Typed(f.type, f.size, FieldOf(f.type.type, v.slot, f.index))

\* An array literal is what its first element makes it.
analyzeArrayLiteralExpr(n, elems) ==
    OrFails(/\ elems # <<>>
            /\ elems[1].type \notin {"void", Unknown, "array"}
            /\ \A i \in DOMAIN elems :
                   S!sameConcreteType(TypeOfExpr(elems[1]), TypeOfExpr(elems[i])),
            Typed(TypeOf("array", ElementName(TypeOfExpr(elems[1]))), Len(elems),
                  ArrayLiteral(Nodes(elems))))

RECURSIVE analyzeExpr(_, _)
analyzeAll(ns, s) == [i \in DOMAIN ns |-> analyzeExpr(ns[i], s)]

\* An array literal where an array with that element type and size is expected.
ArrayLiteralFor(name, size, elems, s) ==
    LET fitted == [i \in DOMAIN elems |->
                      Expecting(ElementType(name).type, elems[i], analyzeExpr(elems[i], s))]
    IN  OrFails(/\ Len(elems) = size
                /\ ElementType(name).type # Unknown
                /\ \A i \in DOMAIN fitted :
                       S!sameConcreteType(ElementType(name), TypeOfExpr(fitted[i])),
                Typed(TypeOf("array", name), size, ArrayLiteral(Nodes(fitted))))

\* A value for a field, in a struct literal or an assignment.
FieldValue(type, size, n, s) ==
    LET e == analyzeExpr(n, s)
    IN  IF type.type = "array" /\ n.kind = "arrayLiteral"
        THEN ArrayLiteralFor(type.name, size, n.elems, s)
        ELSE OrFails(/\ e.type = type.type
                     /\ type.type \in {"struct", "array"} => e.name = type.name
                     /\ type.type = "array" => e.size = size, e)

\* The checked fields are in the order of the declaration, which is that of
\* the literals' field indexes.
analyzeStructLiteralExpr(n, s) ==
    LET d == StructNamed(n.name, s)
        Given(f)  == CHOOSE g \in ToSet(n.fields) : g.name = f.name
        values    == [i \in DOMAIN d.fields |->
                         FieldValue(d.fields[i].type, d.fields[i].size, Given(d.fields[i]).value, s)]
    IN  OrFails(/\ IsStruct(n.name, s)
                /\ Len(n.fields) = Len(d.fields)
                /\ {f.name : f \in ToSet(n.fields)} = {f.name : f \in ToSet(d.fields)}
                /\ \A i \in DOMAIN values : values[i].type # Unknown,
                Typed(TypeOf("struct", n.name), -1, StructLiteral(d.text, Nodes(values))))

\* The array of an index expression or assignment: a variable or an expression.
ArrayOf(n, s) == IF n.array = <<>> THEN findVariable(n.name, s) ELSE analyzeExpr(n.array[1], s)
SlotOf(n, s)  == IF n.array = <<>> THEN findVariable(n.name, s).slot ELSE -1
ArrayNodes(n, s) == Nodes(analyzeAll(n.array, s))

analyzeIndexExpr(n, s) ==
    LET array   == ArrayOf(n, s)
        index   == analyzeExpr(n.index, s)
        element == ElementType(array.name)
    IN  OrFails(array.type = "array" /\ index.type = "int",
                Typed(element, array.size,
                      IndexOf(element.type, SlotOf(n, s), ArrayNodes(n, s), index.node)))

-----------------------------------------------------------------------------
(* Calls.                                                                  *)

\* metaSizeOf and metaTypeName of the generator: sizeof and typeid are the
\* constants it emits for the type of their argument, which is not evaluated.
\* The names of the scalar types are abbreviated, and those of type parameters
\* and of unknown elements are one.
elementSize(name) == CASE name = "bool" -> 1 [] name \in Integral -> 4 [] name = Unknown -> 0 [] OTHER -> 8
metaSizeOf(e) ==
    CASE e.type = "array" /\ e.size > 0 /\ elementSize(e.name) > 0 -> e.size * elementSize(e.name)
      [] e.type \in Integral \cup {"bool"} -> elementSize(e.type)
      [] OTHER -> 8

Initials == [int |-> <<105>>, uint |-> <<117>>, float |-> <<102>>, bool |-> <<98>>, string |-> <<115>>]
typeName(name, s) ==
    CASE name \in Scalars  -> Initials[name]
      [] IsStruct(name, s) -> StructNamed(name, s).text
      [] OTHER             -> <<63>>
metaTypeName(e, s) ==
    CASE e.type = "array"  -> typeName(e.name, s) \o <<91, 93>>
      [] e.type = "struct" -> typeName(e.name, s)
      [] OTHER             -> typeName(e.type, s)

\* The functions that are built in.  The message of an assertion is left out.
Builtins == {"toInt", "sizeof", "typeid", "typeof", "input", "assert", "len", "exit", "panic"}
analyzeBuiltin(n, args, s) ==
    LET a        == args[1]
        One(types) == Len(args) = 1 /\ a.type \in types
        valued   == (Scalars \cup {"array", "struct", "generic"})
    IN  CASE n.name = "toInt"  -> OrFails(One({"string"}), TypedAs("int", Builtin("ToInt", "int", a.node)))
          [] n.name = "sizeof" -> OrFails(One(valued), TypedAs("int", IntLiteral(metaSizeOf(a))))
          [] n.name \in {"typeid", "typeof"} ->
                OrFails(One(valued), TypedAs("string", StringLiteral(metaTypeName(a, s))))
          [] n.name = "input"  -> OrFails(args = <<>>, TypedAs("string", InputCall))
          [] n.name = "assert" ->
                OrFails(/\ Len(args) \in {1, 2}
                        /\ a.type = "bool"
                        /\ Len(args) = 2 => args[2].type = "string",
                        TypedAs("void", Builtin("Assert", "void", a.node)))
          [] n.name = "len"    ->
                OrFails(One({"string", "array"}), TypedAs("int", Builtin("Len", "int", a.node)))
          [] n.name = "exit"   -> OrFails(One({"int"}), TypedAs("void", Builtin("Exit", "void", a.node)))
          [] n.name = "panic"  ->
                OrFails(One({"string"}), TypedAs("void", Builtin("Panic", "void", a.node)))

\* The indexes of the overloads that fit, without a conversion if any does,
\* and of them the cheapest.
Fitting(c, s) ==
    LET declared == {k \in 0 .. Len(s.program.functions) - 1 : s.program.functions[k + 1].name = c.callee}
        With(implicit) == {k \in declared : S!tryCandidate(s.program.functions[k + 1], c, implicit)}
        able     == IF With(FALSE) # {} THEN With(FALSE) ELSE With(TRUE)
        Price(k) == S!score(s.program.functions[k + 1], c)
    IN  {k \in able : \A j \in able : Price(k) <= Price(j)}

analyzeCallExpr(n, args, s) ==
    LET c == [callee |-> n.name, typeArguments |-> n.typeArguments,
              arguments |-> [i \in DOMAIN args |-> TypeOfExpr(args[i])]]
        k == CHOOSE j \in Fitting(c, s) : TRUE
        f == s.program.functions[k + 1]
        targets == S!targetTypes(f, c)
    IN  OrFails(/\ \A i \in DOMAIN args : args[i].type # Unknown
                /\ Cardinality(Fitting(c, s)) = 1,
                Typed(S!returnType(f, c), -1,
                      CallOf(k, S!returnType(f, c).type, Nodes(args),
                             [i \in DOMAIN targets |-> targets[i].type])))

analyzeExpr(n, s) ==
    CASE n.kind = "literal"       -> TypedAs(n.type, n)
      [] n.kind = "variable"      -> analyzeVariableExpr(n, s)
      [] n.kind \in {"binary", "logic"} ->
            analyzeBinaryExpr(n, analyzeExpr(n.left, s), analyzeExpr(n.right, s))
      [] n.kind = "unary"         -> analyzeUnaryExpr(n, analyzeExpr(n.operand, s))
      [] n.kind = "cast"          -> analyzeCastExpr(n, analyzeExpr(n.operand, s))
      [] n.kind = "arrayLiteral"  -> analyzeArrayLiteralExpr(n, analyzeAll(n.elems, s))
      [] n.kind = "structLiteral" -> analyzeStructLiteralExpr(n, s)
      [] n.kind = "index"         -> analyzeIndexExpr(n, s)
      [] n.kind = "field"         -> analyzeFieldAccessExpr(n, s)
      [] n.kind = "call" ->
            IF n.name \in Builtins THEN analyzeBuiltin(n, analyzeAll(n.args, s), s)
            ELSE analyzeCallExpr(n, analyzeAll(n.args, s), s)

-----------------------------------------------------------------------------
(* Scopes.                                                                 *)

Refused(s)         == [s EXCEPT !.accepted = FALSE]
Require(holds, s)  == IF holds THEN s ELSE Refused(s)
Checked(s, node)   == [s EXCEPT !.tree = node]

NoSymbols     == [x \in {} |-> NoSymbol]
beginScope(s) == [s EXCEPT !.scopes = Append(@, NoSymbols)]
endScope(s)   == [s EXCEPT !.scopes = Front(@)]
currentScope(s) == Last(s.scopes)

\* declareVariable, with the slot that is next.
declareVariable(name, t, size, isMutable, s) ==
    [Require(name \notin DOMAIN currentScope(s), s) EXCEPT
        !.scopes[Len(s.scopes)] = (name :> Symbol(t, size, s.nextLocalIndex, isMutable)) @@ @,
        !.nextLocalIndex = @ + 1]

-----------------------------------------------------------------------------
(* Statements.                                                             *)

\* A value for a place of a type that is not a struct or the element of an array.
Storable(type, n, e) == Expecting(type, n, e).type = type

Declared(n, t, size, init, s) ==
    Checked(declareVariable(n.name, t, size, n.isMutable, s),
            VarDecl(s.nextLocalIndex, t.type,
                    CASE t.type = "array"  -> size
                      [] t.type = "struct" -> Len(StructNamed(t.name, s).fields)
                      [] OTHER             -> 0,
                    init))

\* The four kinds of declaration: of a struct, an array, a variable whose type
\* is that of its initializer, and of any other type.
StructDeclaration(n, e, s) ==
    IF IsStruct(n.type.name, s) /\ e # <<>> /\ TypeOfExpr(e[1]) = n.type
    THEN Declared(n, n.type, -1, Nodes(e), s) ELSE Refused(s)

\* Without an initializer the elements are ints.
ArrayDeclaration(n, s) ==
    LET e == IF n.init # <<>> /\ n.init[1].kind = "arrayLiteral"
             THEN ArrayLiteralFor(n.type.name, n.size, n.init[1].elems, s) ELSE Failed
    IN  IF n.size > 0 /\ IF n.init = <<>> THEN n.type.name = "int" ELSE e.type # Unknown
        THEN Declared(n, n.type, n.size, IF n.init = <<>> THEN <<>> ELSE <<e.node>>, s) ELSE Refused(s)

InferredDeclaration(n, e, s) ==
    IF e = <<>> \/ e[1].type \in {"void", Unknown} THEN Refused(s)
    ELSE LET t == IF e[1].type \in {"array", "struct"} THEN TypeOfExpr(e[1]) ELSE Scalar(e[1].type)
         IN  Declared(n, t, IF t.type = "array" THEN e[1].size ELSE n.size, Nodes(e), s)

OtherDeclaration(n, e, s) ==
    IF \A i \in DOMAIN e : Storable(n.type.type, n.init[i], e[i])
    THEN Declared(n, n.type, n.size, [i \in DOMAIN e |-> Expecting(n.type.type, n.init[i], e[i]).node], s)
    ELSE Refused(s)

analyzeVarDeclStmt(n, s) ==
    LET e == analyzeAll(n.init, s)
    IN  CASE n.type.type = "void" \/ n.name \in DOMAIN currentScope(s) -> Refused(s)
          [] n.type.type = "struct" -> StructDeclaration(n, e, s)
          [] n.type.type = "array"  -> ArrayDeclaration(n, s)
          [] n.type.type = Unknown  -> InferredDeclaration(n, e, s)
          [] OTHER                  -> OtherDeclaration(n, e, s)

\* Arrays are told apart neither by their elements nor by their size.
analyzeAssignStmt(n, s) ==
    LET v == findVariable(n.name, s)
        e == analyzeExpr(n.value, s)
    IN  Checked(Require(/\ v.type # Unknown
                        /\ v.isMutable
                        /\ IF v.type = "struct" THEN TypeOfExpr(e) = TypeOfExpr(v)
                           ELSE Storable(v.type, n.value, e), s),
                Assign(v.slot, Expecting(v.type, n.value, e).node))

\* The variable that is changed: the array, or the struct with the array.
OwnerIsMutable(n, s) ==
    IF n.array = <<>> THEN findVariable(n.name, s).isMutable
    ELSE n.array[1].kind = "field" => findVariable(n.array[1].name, s).isMutable

analyzeArrayAssignStmt(n, s) ==
    LET array   == ArrayOf(n, s)
        index   == analyzeExpr(n.index, s)
        element == ElementType(array.name)
        e       == Expecting(element.type, n.value, analyzeExpr(n.value, s))
    IN  Checked(Require(/\ array.type = "array"
                        /\ OwnerIsMutable(n, s)
                        /\ index.type = "int"
                        /\ e.type # Unknown
                        /\ S!sameConcreteType(element, TypeOfExpr(e)), s),
                ArrayAssign(SlotOf(n, s), ArrayNodes(n, s), index.node, e.node))

analyzeFieldAssignStmt(n, s) ==
    LET v == findVariable(n.name, s)
        f == FieldNamed(n.field, v, s)
        e == FieldValue(f.type, f.size, n.value, s)
    IN  Checked(Require(v.isMutable /\ f # NoField /\ e.type # Unknown, s),
                FieldAssign(v.slot, f.index, e.node))

analyzeReturnStmt(n, s) ==
    LET t == s.function.returnType
        e == Expecting(t.type, n.value[1], analyzeExpr(n.value[1], s))
        fits == IF t.type = "void" THEN n.value = <<>>
                ELSE /\ n.value # <<>>
                     /\ e.type = t.type
                     /\ t.type \in {"generic", "struct"} => e.name = t.name
    IN  [Checked(Require(fits, s), Return(IF n.value = <<>> THEN <<>> ELSE <<e.node>>))
            EXCEPT !.hasReturn = @ \/ fits]

Printable == Scalars \cup {"array", "struct"}
analyzePrintStmt(n, s) ==
    LET args == analyzeAll(n.args, s)
    IN  Checked(Require(\A i \in DOMAIN args : args[i].type \in Printable, s),
                WriteStmt(Nodes(args)))

\* The empty statement is an empty block.
RECURSIVE analyzeStmt(_, _)
\* Statements one after the other; their nodes are in tree.
Statements(ns, s) ==
    FoldLeft(LAMBDA t, n : LET r == analyzeStmt(n, t)
                           IN  [r EXCEPT !.tree = Append(t.tree, r.tree)],
             [s EXCEPT !.tree = <<>>], ns)

analyzeBlock(stmts, s) == endScope(Statements(stmts, beginScope(s)))

analyzeIfStmt(n, s) ==
    LET c == analyzeExpr(n.cond, s)
        b == Statements(<<n.then>> \o n.else, Require(c.type = "bool", s))
    IN  Checked(b, If(c.node, Head(b.tree), Tail(b.tree)))

InLoop(s)  == [s EXCEPT !.loopDepth = @ + 1]
OutLoop(s) == [s EXCEPT !.loopDepth = @ - 1]

analyzeWhileStmt(n, s) ==
    LET c == analyzeExpr(n.cond, s)
        b == analyzeStmt(n.body, InLoop(Require(c.type = "bool", s)))
    IN  Checked(OutLoop(b), While(c.node, b.tree))

\* The update is analyzed behind the body, in the scope of the initializer.
analyzeForStmt(n, s) ==
    LET i == Statements(n.init, beginScope(s))
        c == analyzeExpr(n.cond, i)
        b == analyzeStmt(n.body, InLoop(Require(c.type = "bool", i)))
        u == Statements(n.update, b)
    IN  Checked(endScope(OutLoop(u)), For(i.tree, c.node, u.tree, b.tree))

\* One scope for all cases.
analyzeSwitchStmt(n, s) ==
    LET e     == analyzeExpr(n.expr, s)
        inner == beginScope([Require(e.type = "int", s) EXCEPT !.switchDepth = @ + 1, !.tree = <<>>])
        cases == FoldLeft(LAMBDA t, c : LET r == Statements(c.stmts, t)
                                        IN  [r EXCEPT !.tree = Append(t.tree, CaseOf(c.value, r.tree))],
                          inner, n.cases)
        all   == Statements(n.default, cases)
    IN  Checked(endScope([all EXCEPT !.switchDepth = @ - 1]), Switch(e.node, cases.tree, all.tree))

analyzeStmt(n, s) ==
    CASE ~s.accepted -> s
      [] n.kind = "block"       -> LET b == analyzeBlock(n.stmts, s) IN Checked(b, Block(b.tree))
      [] n.kind = "exprStmt"    ->
            LET e == analyzeExpr(n.expr, s) IN Checked(Require(e.type # Unknown, s), ExprStmt(e.node))
      [] n.kind = "varDecl"     -> analyzeVarDeclStmt(n, s)
      [] n.kind = "assign"      -> analyzeAssignStmt(n, s)
      [] n.kind = "arrayAssign" -> analyzeArrayAssignStmt(n, s)
      [] n.kind = "fieldAssign" -> analyzeFieldAssignStmt(n, s)
      [] n.kind = "if"          -> analyzeIfStmt(n, s)
      [] n.kind = "while"       -> analyzeWhileStmt(n, s)
      [] n.kind = "for"         -> analyzeForStmt(n, s)
      [] n.kind = "switch"      -> analyzeSwitchStmt(n, s)
      [] n.kind = "return"      -> analyzeReturnStmt(n, s)
      [] n.kind = "break"       -> Checked(Require(s.loopDepth + s.switchDepth > 0, s), n)
      [] n.kind = "continue"    -> Checked(Require(s.loopDepth > 0, s), n)
      [] n.kind = "print"       -> analyzePrintStmt(n, s)

-----------------------------------------------------------------------------
(* Declarations and programs.                                              *)

\* collectStructDeclarations: a struct may hold structs declared before it,
\* and itself.
StructsFit(structs) ==
    \A i \in DOMAIN structs :
        LET d        == structs[i]
            declared == {structs[j].name : j \in 1 .. i}
        IN  /\ \A j \in 1 .. i - 1 : structs[j].name # d.name
            /\ \A j, k \in DOMAIN d.fields : d.fields[j].name = d.fields[k].name => j = k
            /\ \A f \in ToSet(d.fields) :
                   LET t == IF f.type.type = "array" THEN ElementType(f.type.name) ELSE f.type
                   IN  /\ t.type \notin {"void", Unknown}
                       /\ t.type = "struct" => t.name \in declared
                       /\ f.type.type = "array" => f.size > 0

\* collectFunctionDeclarations, and the conditions on main.
FunctionsFit(functions) ==
    /\ \A i \in DOMAIN functions : S!WellFormed(functions[i])
    /\ \A i, j \in DOMAIN functions :
           functions[i].name = functions[j].name /\ S!sameSignature(functions[i], functions[j]) => i = j
    /\ LET mains == {i \in DOMAIN functions : functions[i].name = "main"}
       IN  /\ Cardinality(mains) = 1
           /\ \A i \in mains : functions[i].returnType.type = "int" /\ functions[i].parameters = <<>>

analyzeFunction(f, program) ==
    LET start == [program |-> program, function |-> f, scopes |-> <<NoSymbols>>,
                  nextLocalIndex |-> 0, loopDepth |-> 0, switchDepth |-> 0, hasReturn |-> FALSE,
                  accepted |-> TRUE, tree |-> <<>>]
        entered == FoldLeft(LAMBDA s, i : declareVariable(f.names[i], f.parameters[i], -1, TRUE, s),
                            start, [i \in DOMAIN f.parameters |-> i])
        done    == analyzeBlock(f.body, entered)
    IN  [accepted |-> done.accepted /\ (f.returnType.type # "void" => done.hasReturn),
         tree     |-> FunctionDecl(IF f.name = "main" THEN "main" ELSE "helper", f.returnType.type,
                                   Len(f.parameters), done.nextLocalIndex, done.tree)]

\* The checked program, or none: a sequence of at most one.
analyze(program) ==
    LET functions == [i \in DOMAIN program.functions |->
                         analyzeFunction(program.functions[i], program)]
    IN  IF /\ StructsFit(program.structs)
           /\ FunctionsFit(program.functions)
           /\ \A i \in DOMAIN functions : functions[i].accepted
        THEN <<[i \in DOMAIN functions |-> functions[i].tree]>>
        ELSE <<>>
=============================================================================
