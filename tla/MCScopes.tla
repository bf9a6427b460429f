------------------------------ MODULE MCScopes ------------------------------
(* Functions that declare, hide, use and leave variables x and y in every  *)
(* kind of statement, rightly and wrongly, with a parameter x; and a main. *)
EXTENDS LexicalScoping

Lit(t)  == [kind |-> "literal", type |-> t]
V(n)    == [kind |-> "variable", name |-> n]
Op(ops, t) == [kind |-> "operation", operands |-> ops, type |-> t]
X == [name |-> "x", type |-> "int"]
Y == [name |-> "y", type |-> "int"]
Condition == Op(<<X>>, "bool")

Plain(k)   == [kind |-> k]
Block(ss)  == [kind |-> "block", body |-> ss]
Decl(t, n, values, mutable) ==
    [kind |-> "varDecl", type |-> t, name |-> n, values |-> values, isMutable |-> mutable]
Assign(n, e) == [kind |-> "assign", name |-> n, value |-> e]
Do(e)        == [kind |-> "exprStmt", value |-> e]
If(e, ss)    == [kind |-> "if", value |-> e, body |-> ss]
While(e, s)  == [kind |-> "while", value |-> e, body |-> s]
For(init, e, update, s) ==
    [kind |-> "for", initializer |-> init, value |-> e, update |-> update, body |-> s]
Switch(e, ss) == [kind |-> "switch", value |-> e, body |-> ss]
Return(values) == [kind |-> "return", values |-> values]
Write(values)  == [kind |-> "print", values |-> values]

IntX == Decl("int", "x", <<Lit("int")>>, TRUE)
LetX == Decl("unknown", "x", <<Lit("int")>>, FALSE)
Show == Write(<<V("x"), V("y")>>)

Declarations ==
    {IntX, LetX, Decl("uint", "x", <<Lit("int")>>, TRUE), Decl("bool", "y", <<>>, TRUE),
     Decl("int", "x", <<Op(<<X>>, "int")>>, TRUE), Decl("unknown", "y", <<V("x")>>, TRUE),
     Decl("int", "y", <<Lit("string")>>, TRUE)}
Oddities ==
    {Decl("void", "x", <<>>, TRUE), Decl("unknown", "x", <<>>, TRUE),
     Decl("unknown", "x", <<Op(<<>>, "void")>>, TRUE)}
Uses ==
    {Show, Assign("x", Lit("int")), Assign("y", V("x")), Do(Op(<<X, Y>>, "void")),
     Plain("break"), Plain("continue"), Plain("empty"), Return(<<V("x")>>), Return(<<>>)}
Leaves1 == Declarations \cup Uses

\* Statements that leave a region or a loop behind, around a simple one.
Around(s) ==
    {Block(<<s>>), Block(<<IntX, s>>), If(Condition, <<s>>), If(Condition, <<s, Show>>),
     While(Condition, s), While(Lit("bool"), Block(<<s, Plain("break")>>)),
     For(<<IntX>>, Condition, <<Assign("x", V("x"))>>, s),
     For(<<Decl("int", "y", <<V("x")>>, TRUE)>>, Op(<<Y>>, "bool"), <<>>, Block(<<s>>)),
     For(<<>>, Lit("int"), <<>>, s),
     Switch(V("x"), <<s, Plain("break"), Show>>), Switch(Lit("bool"), <<s>>)}
Deep(s) ==
    {While(Condition, Switch(V("x"), <<For(<<IntX>>, Condition, <<>>, s), Plain("continue")>>)),
     For(<<IntX>>, Condition, <<s>>, Block(<<LetX, Plain("continue")>>)),
     Block(<<IntX, Block(<<LetX, If(Condition, <<Block(<<s>>)>>)>>), s>>)}

Middles == Leaves1 \cup Oddities \cup UNION {Around(s) \cup Deep(s) : s \in Leaves1}

Firsts == {IntX, LetX, Decl("int", "y", <<V("x")>>, TRUE)}
Lasts  == {Show, Assign("x", V("y")), Plain("break"), IntX}
Bodies == {Block(<<d, m, u>>) : d \in Firsts, m \in Middles, u \in Lasts}

Children(s) ==
    CASE s.kind \in {"block", "if", "switch"} -> {s.body[i] : i \in DOMAIN s.body}
      [] s.kind \in {"while", "for"} ->
            {s.body} \cup IF s.kind = "for"
                          THEN {s.initializer[i] : i \in DOMAIN s.initializer}
                                 \cup {s.update[i] : i \in DOMAIN s.update}
                          ELSE {}
      [] OTHER -> {}
RECURSIVE Below(_)
Below(s) == {s} \cup UNION {Below(c) : c \in Children(s)}

Main == [parameters |-> <<>>, returnType |-> "int", body |-> Block(<<IntX, Return(<<V("x")>>)>>)]
F(parameters, returnType, body) ==
    [parameters |-> parameters, returnType |-> returnType, body |-> body]

MCNames == {"x", "y"}
Wrapped == {Block(<<IntX, s>>) : s \in Leaves1}
Returning == {Block(<<b, Return(<<V("x")>>)>>) : b \in Wrapped}
Single  == {Block(<<s>>) : s \in Leaves1}

Functions ==
    {F(<<X>>, "void", b) : b \in Bodies}
    \cup {F(ps, "int", b) : ps \in {<<>>, <<X, X>>, <<Y, X>>}, b \in Returning}
    \cup {F(<<X>>, "int", b) : b \in Single}

Texts      == {<<f, Main>> : f \in Functions}
Statements == {s : s \in Bodies \cup Wrapped \cup Returning \cup Single
                         \cup UNION {Below(s) : s \in Middles \cup Firsts \cup Lasts \cup {Main.body}}}

\* An alias is evaluated once; the constant would be at every use.
MCPrograms == Texts
MCStmts    == Statements
=============================================================================
