------------------------------ MODULE Grammar ------------------------------
(***************************************************************************)
(* The language of src/specs/grammar.md, as the texts of trees: the        *)
(* reference for Parser.  An expression has the fewest parentheses that    *)
(* its priorities allow.                                                   *)
(***************************************************************************)
EXTENDS Parser

CONSTANT Sentences   \* programs, as trees

K(t)  == <<Token(t, "")>>
Id(x) == <<Token("Identifier", x)>>
Digits(n) == <<Token("IntLiteral", n)>>

\* Between commas.
RECURSIVE Commas(_)
Commas(parts) ==
    IF Len(parts) <= 1 THEN FlattenSeq(parts) ELSE Head(parts) \o K(",") \o Commas(Tail(parts))

Each(op(_), xs) == [i \in DOMAIN xs |-> op(xs[i])]
All(op(_), xs)  == FlattenSeq(Each(op, xs))

-----------------------------------------------------------------------------
(* Expressions.                                                            *)

\* Section 34: from the lowest to the highest.
Priorities ==
    <<{"||"}, {"&&"}, {"|"}, {"^"}, {"&"}, {"==", "!="}, {"<", "<=", ">", ">="}, {"<<", ">>"},
      {"+", "-"}, {"*", "/", "%"}>>

Priority(e) ==
    CASE e.kind = "binary" -> CHOOSE p \in DOMAIN Priorities : e.op \in Priorities[p]
      [] e.kind = "unary"  -> 11
      [] OTHER             -> 12

\* The nodes of the prefix operators.
Prefix(op) == CASE op = "!" -> "not" [] op = "-" -> "negate" [] op = "~" -> "bitNot"

\* A place in front of "::" is part of a qualified name.
Path(names) == Id(Head(names)) \o All(LAMBDA n : K("::") \o Id(n), Tail(names))
PathNodes(names) ==
    <<Named("name", Head(names))>> \o All(LAMBDA n : <<Named("name", n), N("member")>>, Tail(names))

RECURSIVE Text(_)
Within(e, priority) ==
    IF Priority(e) < priority THEN K("(") \o Text(e) \o K(")") ELSE Text(e)
Text(e) ==
    CASE e.kind = "int"      -> Digits(e.text)
      [] e.kind = "float"    -> <<Token("FloatLiteral", e.text)>>
      [] e.kind = "string"   -> <<Token("StringLiteral", e.text)>>
      [] e.kind = "true"     -> K("true")
      [] e.kind = "variable" -> Id(e.name)
      [] e.kind = "binary"   ->
             Within(e.left, Priority(e)) \o K(e.op) \o Within(e.right, Priority(e) + 1)
      [] e.kind = "unary"    -> K(e.op) \o Within(e.operand, 11)
      [] e.kind = "cast"     ->
             K("cast") \o K("<") \o e.type.text \o K(">") \o K("(") \o Text(e.operand) \o K(")")
      [] e.kind = "call"     ->
             Path(e.path)
               \o (IF e.types = <<>> THEN <<>>
                   ELSE K("<") \o Commas(Each(LAMBDA t : t.text, e.types)) \o K(">"))
               \o K("(") \o Commas(Each(Text, e.args)) \o K(")")
      [] e.kind = "array"    -> K("[") \o Commas(Each(Text, e.elems)) \o K("]")
      [] e.kind = "struct"   ->
             Id(e.name) \o K("{")
               \o Commas(Each(LAMBDA f : Id(f.name) \o K(":") \o Text(f.value), e.fields)) \o K("}")
      [] e.kind = "field"    -> Id(e.of) \o K(".") \o Id(e.field)
      [] e.kind = "index"    -> Text(e.array) \o K("[") \o Text(e.index) \o K("]")

\* The name of what is indexed stands alone in the tree, a field does not.
RECURSIVE Tree(_)
Base(e) == IF e.kind = "variable" THEN <<Named("name", e.name)>> ELSE Tree(e)
Tree(e) ==
    CASE e.kind \in {"int", "float", "string"} -> <<Named(e.kind, e.text)>>
      [] e.kind = "true"     -> <<N("true")>>
      [] e.kind = "variable" -> <<Named("name", e.name), N("variable")>>
      [] e.kind = "binary"   -> Tree(e.left) \o Tree(e.right) \o <<N(e.op)>>
      [] e.kind = "unary"    -> Tree(e.operand) \o <<N(Prefix(e.op))>>
      [] e.kind = "cast"     -> e.type.tree \o Tree(e.operand) \o <<N("cast")>>
      [] e.kind = "call"     ->
             PathNodes(e.path) \o <<N("list")>> \o All(LAMBDA t : t.tree, e.types)
               \o <<N("list")>> \o All(Tree, e.args) \o <<N("call")>>
      [] e.kind = "array"    -> <<N("list")>> \o All(Tree, e.elems) \o <<N("arrayLiteral")>>
      [] e.kind = "struct"   ->
             <<Named("name", e.name), N("list")>>
               \o All(LAMBDA f : <<Named("name", f.name)>> \o Tree(f.value), e.fields)
               \o <<N("structLiteral")>>
      [] e.kind = "field"    -> <<Named("name", e.of), Named("name", e.field), N("fieldAccess")>>
      [] e.kind = "index"    -> Base(e.array) \o Tree(e.index) \o <<N("index")>>

-----------------------------------------------------------------------------
(* Statements.  A declaration, an assignment or a call stands alone or in   *)
(* the head of a for; "none" stands for a part that is not there.           *)

Target(s) == IF s.of = "" THEN Id(s.name) ELSE Id(s.of) \o K(".") \o Id(s.name)
TargetNodes(s) ==
    IF s.of = "" THEN <<Named("name", s.name)>>
    ELSE <<Named("name", s.of), Named("name", s.name)>>

\* The operator in x += e and in x++.
Short(op) == CASE op \in {"+=", "++"} -> "+" [] op \in {"-=", "--"} -> "-"

SimpleText(s) ==
    CASE s.kind = "none"     -> <<>>
      [] s.kind = "let"      -> K("let") \o Id(s.name) \o K("=") \o Text(s.value)
      [] s.kind = "declare"  ->
             (IF s.fixed THEN K("let") ELSE <<>>) \o s.type.text \o Id(s.name)
               \o (IF s.value.kind = "none" THEN <<>> ELSE K("=") \o Text(s.value))
      [] s.kind = "assign"   -> Id(s.name) \o K("=") \o Text(s.value)
      [] s.kind = "update"   -> Id(s.name) \o K(s.op) \o Text(s.value)
      [] s.kind = "count"    -> Id(s.name) \o K(s.op)
      [] s.kind = "setField" -> Target(s) \o K("=") \o Text(s.value)
      [] s.kind = "setElement" ->
             Target(s) \o K("[") \o Text(s.index) \o K("]") \o K("=") \o Text(s.value)
      [] s.kind = "call"     -> Text(s.call)
      [] s.kind \in {"break", "continue"} -> K(s.kind)
      [] s.kind = "return"   -> K("return") \o Text(s.value)
      [] s.kind = "returnVoid" -> K("return")
      [] s.kind = "print"    -> K("print") \o K("(") \o Commas(Each(Text, s.args)) \o K(")")
      [] s.kind = "empty"    -> <<>>

SimpleTree(s) ==
    CASE s.kind = "let"      -> <<Named("name", s.name)>> \o Tree(s.value) \o <<N("let")>>
      [] s.kind = "declare"  ->
             LET access == IF s.fixed THEN "let" ELSE "mutable"
             IN  s.type.tree \o <<Named("name", s.name)>>
                   \o (IF s.value.kind = "none" THEN <<Named("declare", access)>>
                       ELSE Tree(s.value) \o <<Named("initialize", access)>>)
      [] s.kind = "assign"   -> <<Named("name", s.name)>> \o Tree(s.value) \o <<N("assign")>>
      [] s.kind = "update"   ->
             <<Named("name", s.name), Named("name", s.name), N("variable")>> \o Tree(s.value)
               \o <<N(Short(s.op)), N("assign")>>
      [] s.kind = "count"    ->
             <<Named("name", s.name), Named("name", s.name), N("variable"), Named("int", "1"),
               N(Short(s.op)), N("assign")>>
      [] s.kind = "setField" -> TargetNodes(s) \o Tree(s.value) \o <<N("fieldAssign")>>
      [] s.kind = "setElement" ->
             TargetNodes(s) \o (IF s.of = "" THEN <<>> ELSE <<N("fieldAccess")>>)
               \o Tree(s.index) \o Tree(s.value) \o <<N("arrayAssign")>>
      [] s.kind = "call"     -> Tree(s.call) \o <<N("exprStmt")>>
      [] s.kind = "return"   -> Tree(s.value) \o <<N("return")>>
      [] s.kind = "print"    -> <<N("list")>> \o All(Tree, s.args) \o <<N("print")>>
      [] OTHER               -> <<N(s.kind)>>

RECURSIVE StmtText(_)
StmtText(s) ==
    LET Opening(word, e) == K(word) \o K("(") \o Text(e) \o K(")")
    IN  CASE s.kind = "block"  -> K("{") \o All(StmtText, s.body) \o K("}")
          [] s.kind = "if"     -> Opening("if", s.condition) \o StmtText(s.then)
          [] s.kind = "ifElse" ->
                 Opening("if", s.condition) \o StmtText(s.then) \o K("else") \o StmtText(s.else)
          [] s.kind = "while"  -> Opening("while", s.condition) \o StmtText(s.body)
          [] s.kind = "for"    ->
                 K("for") \o K("(") \o SimpleText(s.initializer) \o K(";") \o Text(s.condition)
                   \o K(";") \o SimpleText(s.update) \o K(")") \o StmtText(s.body)
          [] s.kind = "switch" ->
                 Opening("switch", s.value) \o K("{")
                   \o All(LAMBDA c : K("case") \o Digits(c.value) \o K(":") \o All(StmtText, c.body),
                          s.cases)
                   \o All(LAMBDA d : K("default") \o K(":") \o All(StmtText, d), s.default)
                   \o K("}")
          [] OTHER             -> SimpleText(s) \o K(";")

RECURSIVE StmtTree(_)
StmtTree(s) ==
    CASE s.kind = "block"  -> <<N("list")>> \o All(StmtTree, s.body) \o <<N("block")>>
      [] s.kind = "if"     -> Tree(s.condition) \o StmtTree(s.then) \o <<N("if")>>
      [] s.kind = "ifElse" ->
             Tree(s.condition) \o StmtTree(s.then) \o StmtTree(s.else) \o <<N("ifElse")>>
      [] s.kind = "while"  -> Tree(s.condition) \o StmtTree(s.body) \o <<N("while")>>
      [] s.kind = "for"    ->
             SimpleTree(s.initializer) \o Tree(s.condition) \o SimpleTree(s.update)
               \o StmtTree(s.body) \o <<N("for")>>
      [] s.kind = "switch" ->
             Tree(s.value) \o <<N("list")>>
               \o All(LAMBDA c : <<Named("int", c.value), N("list")>> \o All(StmtTree, c.body)
                                    \o <<N("case")>>, s.cases)
               \o All(LAMBDA d : <<N("list")>> \o All(StmtTree, d) \o <<N("default")>>, s.default)
               \o <<N("switch")>>
      [] OTHER             -> SimpleTree(s)

-----------------------------------------------------------------------------
(* Declarations, inside the namespaces of a path.                           *)

TypedText(v) == v.type.text \o Id(v.name)
TypedTree(v) == v.type.tree \o <<Named("name", v.name)>>

RECURSIVE DeclText(_)
DeclText(d) ==
    CASE d.kind = "function" ->
             d.type.text \o (IF d.name = "main" THEN K("main") ELSE Id(d.name))
               \o (IF d.typeParameters = <<>> THEN <<>>
                   ELSE K("<") \o Commas(Each(Id, d.typeParameters)) \o K(">"))
               \o K("(") \o Commas(Each(TypedText, d.parameters)) \o K(")") \o StmtText(d.body)
      [] d.kind = "struct" ->
             K("struct") \o Id(d.name) \o K("{")
               \o All(LAMBDA f : TypedText(f) \o K(";"), d.fields) \o K("}")
      [] d.kind = "alias" -> K("type") \o Id(d.name) \o K("=") \o d.type.text \o K(";")
      [] d.kind = "namespace" ->
             K("namespace") \o Id(d.name) \o K("{") \o All(DeclText, d.decls) \o K("}")

RECURSIVE DeclTree(_, _)
DeclTree(path, d) ==
    CASE d.kind = "function" ->
             d.type.tree \o <<[node |-> "name", text |-> Append(path, d.name)], N("list")>>
               \o All(LAMBDA t : <<Named("name", t)>>, d.typeParameters)
               \o <<N("list")>> \o All(TypedTree, d.parameters)
               \o StmtTree(d.body) \o <<N("function")>>
      [] d.kind = "struct" ->
             <<Named("name", d.name), N("list")>>
               \o All(LAMBDA f : TypedTree(f) \o <<N("field")>>, d.fields) \o <<N("structDecl")>>
      [] d.kind = "alias" ->
             <<Named("name", d.name)>> \o d.type.tree \o <<N("aliasDecl")>>
      [] d.kind = "namespace" -> All(LAMBDA e : DeclTree(Append(path, d.name), e), d.decls)

ProgramText(p) == All(DeclText, p)
ProgramTree(p) == All(LAMBDA d : DeclTree(<<>>, d), p) \o <<N("program")>>

\* The trees of a text.
Readings ==
    LET pairs == {<<ProgramText(p), ProgramTree(p)>> : p \in Sentences}
    IN  [s \in {q[1] : q \in pairs} |-> {q[2] : q \in {r \in pairs : r[1] = s}}]

\* The text of a tree is accepted, and the parser builds that tree from it:
\* the priorities and their direction, the nearest if of an else, the statements
\* of a case, qualified names and the places of types are those of the grammar.
TreesRecovered ==
    work = <<>> /\ source \in DOMAIN Readings => ~failed /\ Readings[source] = {tree}
=============================================================================
