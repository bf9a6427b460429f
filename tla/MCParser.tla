------------------------------- MODULE MCParser -------------------------------
(* Programs with every expression of two operators, with every form of      *)
(* statement, declaration and type, alone and inside one another; and the   *)
(* same with a token left out, with an error of the lexer, or cut off.      *)
EXTENDS Grammar

MCLexemes == {"a", "b", "c", "x", "y", "f", "g", "h", "main", "N", "M", "P", "A", "T", "U", "0", "1", "2"}

Var(n) == [kind |-> "variable", name |-> n]
Lit(n) == [kind |-> "int", text |-> n]
Bin(o, l, r) == [kind |-> "binary", op |-> o, left |-> l, right |-> r]
Un(o, e) == [kind |-> "unary", op |-> o, operand |-> e]
Call(path, types, args) == [kind |-> "call", path |-> path, types |-> types, args |-> args]
Field(o, n) == [kind |-> "field", of |-> o, field |-> n]
Index(a, i) == [kind |-> "index", array |-> a, index |-> i]

a == Var("a")
b == Var("b")
c == Var("c")

Keyword(k, name) == [text |-> K(k), tree |-> <<Type(name)>>]
IntT == Keyword("int", "int")
Of(name, node) == [text |-> Id(name), tree |-> <<Named(node, name)>>]
ArrayOf(t, n) ==
    [text |-> t.text \o K("[") \o Digits(n) \o K("]"),
     tree |-> t.tree \o <<Named("int", n), N("array")>>]
AliasOf(name, t) == [text |-> Id(name), tree |-> t.tree]

Block(body) == [kind |-> "block", body |-> body]
Return(e) == [kind |-> "return", value |-> e]
Function(type_, name, types, parameters, body) ==
    [kind |-> "function", type |-> type_, name |-> name, typeParameters |-> types,
     parameters |-> parameters, body |-> Block(body)]
V(t, n) == [type |-> t, name |-> n]
Main(body) == <<Function(IntT, "main", <<>>, <<>>, body)>>

-----------------------------------------------------------------------------
(* Expressions.                                                            *)

Ops == {"||", "&&", "|", "^", "&", "==", "<", "<<", "+", "*"}
Rest == {"!=", "<=", ">", ">=", ">>", "-", "/", "%"}

\* The code takes an operand of "&&" on the right from behind "|", "^", "&".
AndOperand(e) == e.op = "&&" /\ e.right.kind = "binary" /\ e.right.op \in {"|", "^", "&"}

Binary ==
    {Bin(o, Bin(q, a, b), c) : o \in Ops, q \in Ops} \cup {Bin(o, a, Bin(q, b, c)) : o \in Ops, q \in Ops}
    \cup {Bin("-", Bin(o, a, b), Bin(o, b, c)) : o \in Rest}

Others ==
    {Un("!", Un("-", a)), Un("~", Bin("+", a, b)), Bin("*", Un("-", a), Un("!", b)),
     [kind |-> "cast", type |-> Keyword("float64", "float"), operand |-> Bin("+", a, b)],
     [kind |-> "cast", type |-> ArrayOf(IntT, "2"), operand |-> a],
     Call(<<"f">>, <<>>, <<>>), Call(<<"f">>, <<>>, <<a, Bin("<", b, c)>>),
     Call(<<"N", "M", "f">>, <<>>, <<Call(<<"g">>, <<>>, <<a>>)>>),
     Bin("+", Call(<<"f">>, <<IntT, Keyword("unit", "void")>>, <<a>>), b),
     Call(<<"N", "f">>, <<Keyword("string", "string")>>, <<Bin("<", a, b)>>),
     Bin("<", a, Call(<<"f">>, <<Of("T", "generic")>>, <<b>>)),
     Bin("==", Bin("<", a, b), Bin(">", Var("x"), Lit("1"))), Bin(">", Bin("<", a, b), c),
     [kind |-> "array", elems |-> <<>>],
     [kind |-> "array", elems |-> <<[kind |-> "array", elems |-> <<a>>], Lit("1")>>],
     Bin("+", Field("x", "y"), Index(Field("x", "y"), Bin("+", a, Lit("1")))),
     Index(a, Index(b, c)),
     [kind |-> "float", text |-> "1"], [kind |-> "string", text |-> "a"], [kind |-> "true"]}

ReturnOf(es) == {Main(<<Return(e)>>) : e \in es}

-----------------------------------------------------------------------------
(* Statements.                                                             *)

Set(n, e) == [kind |-> "assign", name |-> n, value |-> e]
Declare(fixed, t, n, e) == [kind |-> "declare", fixed |-> fixed, type |-> t, name |-> n, value |-> e]
None == [kind |-> "none"]

Simple ==
    {[kind |-> "empty"], [kind |-> "let", name |-> "x", value |-> a],
     Declare(FALSE, Keyword("var", "unknown"), "x", a), Declare(TRUE, Keyword("uint32", "uint"), "x", None),
     Declare(FALSE, ArrayOf(Keyword("bool", "bool"), "2"), "x", None), Declare(TRUE, Of("T", "generic"), "x", a),
     Set("x", a), [kind |-> "update", name |-> "x", op |-> "-=", value |-> Bin("+", a, b)],
     [kind |-> "count", name |-> "x", op |-> "++"],
     [kind |-> "setField", of |-> "x", name |-> "y", value |-> a],
     [kind |-> "setElement", of |-> "", name |-> "x", index |-> a, value |-> b],
     [kind |-> "setElement", of |-> "x", name |-> "y", index |-> a, value |-> b],
     [kind |-> "call", call |-> Call(<<"f">>, <<>>, <<a, b>>)],
     [kind |-> "call", call |-> Call(<<"N", "f">>, <<IntT>>, <<a>>)],
     [kind |-> "break"], [kind |-> "continue"], [kind |-> "returnVoid"],
     [kind |-> "print", args |-> <<>>], [kind |-> "print", args |-> <<a, Bin("<", b, c)>>]}

If(e, s) == [kind |-> "if", condition |-> e, then |-> s]
IfElse(e, s, t) == [kind |-> "ifElse", condition |-> e, then |-> s, else |-> t]
While(s) == [kind |-> "while", condition |-> a, body |-> s]
For(i, u, s) == [kind |-> "for", initializer |-> i, condition |-> Bin("<", a, b), update |-> u, body |-> s]
Switch(cases, default) == [kind |-> "switch", value |-> a, cases |-> cases, default |-> default]
Case(n, body) == [value |-> n, body |-> body]

\* Statements around others; an else behind two ifs belongs to the nearer one.
Around(s, t) ==
    {If(a, s), IfElse(a, s, t), If(a, IfElse(b, s, t)), IfElse(a, s, If(b, t)), While(If(a, s)),
     IfElse(a, While(IfElse(b, s, t)), t), Block(<<s, t>>), Block(<<Block(<<>>), s>>),
     For(None, None, s), For(Set("x", a), Set("x", b), s),
     For(Declare(FALSE, IntT, "x", a), [kind |-> "count", name |-> "x", op |-> "--"], Block(<<s>>)),
     For([kind |-> "let", name |-> "x", value |-> a], [kind |-> "update", name |-> "x", op |-> "+=", value |-> a], If(a, s)),
     Switch(<<>>, <<>>), Switch(<<Case("1", <<s, t>>), Case("2", <<>>)>>, <<>>),
     Switch(<<Case("1", <<Switch(<<Case("2", <<s>>)>>, <<<<t>>>>)>>)>>, <<<<s, t>>>>),
     Switch(<<>>, <<<<>>>>)}

Compound == Around(Set("x", a), [kind |-> "break"])

-----------------------------------------------------------------------------
(* Declarations.                                                           *)

P == Of("P", "struct")
Struct(n, fields) == [kind |-> "struct", name |-> n, fields |-> fields]
Alias(n, t) == [kind |-> "alias", name |-> n, type |-> t]
Namespace(n, ds) == [kind |-> "namespace", name |-> n, decls |-> ds]
A == AliasOf("A", ArrayOf(IntT, "2"))

\* Types are used behind their declaration, a name may become a type.
Programs ==
    {<<>>,
     <<Struct("P", <<V(IntT, "a"), V(ArrayOf(P, "2"), "b")>>), Alias("A", ArrayOf(IntT, "2")),
       Function(P, "f", <<>>, <<V(A, "x"), V(ArrayOf(P, "1"), "y")>>,
           <<Declare(FALSE, P, "x", [kind |-> "struct", name |-> "P", fields |-> <<[name |-> "a", value |-> Lit("1")], [name |-> "b", value |-> c]>>]),
             Declare(FALSE, A, "y", None),
             Return([kind |-> "struct", name |-> "P", fields |-> <<>>])>>)>>,
     <<Function(IntT, "f", <<>>, <<>>, <<Set("A", a)>>), Alias("A", IntT),
       Function(IntT, "f", <<>>, <<>>, <<Declare(FALSE, AliasOf("A", IntT), "a", None)>>)>>,
     <<Namespace("N", <<Namespace("M", <<Function(IntT, "f", <<"T", "U">>, <<V(Of("T", "generic"), "x")>>, <<>>)>>),
                        Function(Keyword("void", "void"), "g", <<>>, <<>>, <<>>)>>),
       Namespace("M", <<>>), Function(Keyword("float32", "float"), "h", <<>>, <<>>, <<>>)>>,
     <<Alias("A", Of("T", "generic")), Function(Of("U", "generic"), "f", <<"U">>, <<V(AliasOf("A", Of("T", "generic")), "x")>>, <<>>)>>}

MCSentences ==
    ReturnOf({e \in Binary : ~AndOperand(e)} \cup Others) \cup {Main(<<s>>) : s \in Simple \cup Compound} \cup Programs

-----------------------------------------------------------------------------
(* Errors.                                                                 *)

\* Sentences that have every bracket and separator.
Spoilt ==
    {ProgramText(p) : p \in Programs} \cup
    {ProgramText(Main(<<IfElse(a, Return(Call(<<"f">>, <<IntT>>, <<Index(a, b)>>)), For(Set("x", a), Set("x", b), Block(<<>>)))>>)),
     ProgramText(Main(<<Switch(<<Case("1", <<[kind |-> "let", name |-> "x", value |-> a]>>)>>, <<<<[kind |-> "break"]>>>>)>>)),
     ProgramText(Main(<<[kind |-> "call", call |-> Call(<<"N", "f">>, <<IntT>>, <<[kind |-> "array", elems |-> <<a>>]>>)]>>))}

Errors ==
    UNION {{RemoveAt(s, i), SubSeq(s, 1, i - 1), ReplaceAt(s, i, Token("error", ""))} :
              <<s, i>> \in UNION {{<<s, i>> : i \in DOMAIN s} : s \in Spoilt}}

\* What the code forbids beyond that.
Forbidden ==
    {ProgramText(p) : p \in
        {Main(<<Switch(<<>>, <<<<>>, <<>>>>)>>), <<Struct("P", <<>>), Struct("P", <<>>)>>,
         <<Alias("A", IntT), Alias("A", IntT)>>, <<Alias("A", Keyword("void", "void"))>>,
         <<Struct("P", <<V(Keyword("var", "unknown"), "a")>>)>>, <<Namespace("N", <<Struct("P", <<>>)>>)>>,
         <<Function(Keyword("var", "unknown"), "f", <<>>, <<>>, <<>>)>>,
         <<Function(IntT, "f", <<>>, <<V(Keyword("void", "void"), "x")>>, <<>>)>>,
         Main(<<Declare(FALSE, ArrayOf(IntT, "0"), "x", None)>>),
         Main(<<Declare(TRUE, ArrayOf(Of("T", "generic"), "1"), "x", None)>>),
         Main(<<Declare(FALSE, Of("T", "generic"), "x", None)>>)}}
    \cup {ProgramText(Main(<<Switch(<<>>, <<<<>>>>)>>)) \o ProgramText(Main(<<>>)),
          K("int") \o K("main") \o K("(") \o K(")") \o K("{") \o K("switch") \o K("(") \o Id("a") \o K(")") \o K("{")
            \o K("default") \o K(":") \o K("case") \o Digits("1") \o K(":") \o K("}") \o K("}")}

MCSources == {ProgramText(p) : p \in MCSentences} \cup Errors \cup Forbidden

\* The sentences that the parser and the grammar see differently.
AndSentences == ReturnOf({e \in Binary : e.op = "&&"})
AndSources == {ProgramText(p) : p \in AndSentences}
=============================================================================
