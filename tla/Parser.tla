------------------------------- MODULE Parser -------------------------------
(***************************************************************************)
(* The parser (src/parser.cpp): a recursive descent over the tokens that   *)
(* the lexer delivers on request, with a buffer for the tokens it looks at *)
(* ahead of time.                                                          *)
(*                                                                         *)
(* The methods call each other and themselves; work is the C++ call stack. *)
(* The tree is written down in postorder while it is built: a node behind  *)
(* its children, with a node "list" in front of children that may be any   *)
(* number.  Names and literals that a method keeps in a local variable are *)
(* nodes at the place where they are read.                                 *)
(***************************************************************************)
EXTENDS CallStack

CONSTANTS
    Lexemes,     \* the texts of identifiers and literals
    Sources      \* the sources, as sequences of tokens

\* The types of tokens that have a text, and all others, named by it.
Texted == {"Identifier", "IntLiteral", "FloatLiteral", "StringLiteral"}
TypeKeywords == {"int", "int32", "uint", "uint32", "float32", "float64", "bool", "string",
                 "void", "unit", "var"}
Keywords == TypeKeywords \cup
    {"let", "type", "struct", "namespace", "if", "else", "while", "for", "switch", "case",
     "default", "return", "break", "continue", "cast", "print", "true", "false", "main"}
Operators == {"+", "-", "*", "/", "%", "++", "--", "+=", "-=", "=", "==", "!=", "<", "<=", ">",
              ">=", "&&", "||", "&", "|", "^", "<<", ">>", "!", "~"}
Marks == {"(", ")", "{", "}", "[", "]", ",", ";", ":", "::", "."}

\* A lexical error stands where the lexer finds it.
Tokens ==
    [type : Texted, lexeme : Lexemes]
        \cup [type : Keywords \cup Operators \cup Marks \cup {"error"}, lexeme : {""}]

Token(type, lexeme) == [type |-> type, lexeme |-> lexeme]
EndOfFile == Token("EndOfFile", "")

ASSUME SourcesAssumption == Sources \subseteq Seq(Tokens)

VARIABLES
    source,            \* the tokens of the file
    delivered,         \* how many of them the lexer has delivered, the end once
    current,           \* current_
    bufferedTokens,    \* bufferedTokens_
    diagnostic,        \* diagnostic_: "none", "lexical" or "syntax"
    typeAliases,       \* typeAliases_: the types by name
    structTypeNames,   \* structTypeNames_
    currentNamespace,  \* currentNamespace_
    work,              \* the open activations, the innermost last
    tree               \* the nodes built

tokenVars == <<source, delivered, current, bufferedTokens, diagnostic>>
nameVars  == <<typeAliases, structTypeNames, currentNamespace>>
vars == <<tokenVars, nameVars, work, tree>>

-----------------------------------------------------------------------------
(* Tokens.                                                                 *)

failed == diagnostic # "none"

\* What nextTokenExpected of the lexer delivers next.
Lexed == IF delivered < Len(source) THEN source[delivered + 1] ELSE EndOfFile
Deliver == delivered' = IF delivered <= Len(source) THEN delivered + 1 ELSE delivered

check(type) == current.type = type
checkAny(types) == current.type \in types

\* A mutant: the end of the file keeps the text of the token.
setDiagnosticOnToken(message) ==
    /\ diagnostic' = IF failed THEN diagnostic ELSE message
    /\ current' = IF failed THEN current ELSE Token("EndOfFile", current.lexeme)
    /\ UNCHANGED <<source, delivered, bufferedTokens>>

\* The first message stays, and the parser sees the end of the file.
setDiagnostic(message) ==
    /\ diagnostic' = IF failed THEN diagnostic ELSE message
    /\ current' = IF failed THEN current ELSE EndOfFile
    /\ UNCHANGED <<source, delivered, bufferedTokens>>

\* A mutant: the buffer is a stack.
advanceToLast ==
    IF failed THEN UNCHANGED tokenVars
    ELSE IF bufferedTokens # <<>>
    THEN /\ current' = Last(bufferedTokens)
         /\ bufferedTokens' = Front(bufferedTokens)
         /\ UNCHANGED <<source, delivered, diagnostic>>
    ELSE IF Lexed.type = "error" THEN setDiagnostic("lexical")
    ELSE /\ current' = Lexed
         /\ Deliver
         /\ UNCHANGED <<source, bufferedTokens, diagnostic>>

advance ==
    IF failed THEN UNCHANGED tokenVars
    ELSE IF bufferedTokens # <<>>
    THEN /\ current' = Head(bufferedTokens)
         /\ bufferedTokens' = Tail(bufferedTokens)
         /\ UNCHANGED <<source, delivered, diagnostic>>
    ELSE IF Lexed.type = "error" THEN setDiagnostic("lexical")
    ELSE /\ current' = Lexed
         /\ Deliver
         /\ UNCHANGED <<source, bufferedTokens, diagnostic>>

\* peekToken(offset) has the tokens it needs, or fails.
Peeked(offset) == failed \/ Len(bufferedTokens) >= offset

\* One trip through its loop.
peekToken ==
    IF Lexed.type = "error" THEN setDiagnostic("lexical")
    ELSE /\ bufferedTokens' = Append(bufferedTokens, Lexed)
         /\ Deliver
         /\ UNCHANGED <<source, current, diagnostic>>

\* What it returns, also when it fails.
PeekedType(offset) ==
    IF bufferedTokens = <<>> THEN current.type
    ELSE IF offset > Len(bufferedTokens) THEN Last(bufferedTokens).type
    ELSE bufferedTokens[offset].type

-----------------------------------------------------------------------------
(* The tree.                                                               *)

\* A node and the names or texts that belong to it.
N(kind)           == [node |-> kind, text |-> <<>>]
Named(kind, name) == [node |-> kind, text |-> <<name>>]

\* The text of the node written last.
LastName == IF tree = <<>> \/ Last(tree).text = <<>> THEN "" ELSE Last(Last(tree).text)

TypeOf ==
    [k \in TypeKeywords |->
        CASE k \in {"int", "int32"}       -> "int"
          [] k \in {"uint", "uint32"}     -> "uint"
          [] k \in {"float32", "float64"} -> "float"
          [] k = "bool"                   -> "bool"
          [] k = "string"                 -> "string"
          [] k \in {"void", "unit"}       -> "void"
          [] k = "var"                    -> "unknown"]

Type(name) == Named("type", name)

-----------------------------------------------------------------------------
(* Activations.                                                            *)

Item(task, text, names, start) ==
    [task |-> task, text |-> text, names |-> names, start |-> start]

Go(task)           == Item(task, "", <<>>, 0)
GoWith(task, text) == Item(task, text, <<>>, 0)
expect(type)       == GoWith("expect", type)
Build(kind)        == GoWith("build", kind)

Top == work[Len(work)]
Then(items) == work' = Replaced(work, items)
Running(task) == work # <<>> /\ Top.task = task

\* The current token is passed or not, nodes are written, and these
\* activations take the place of the top one.
Step(nodes, items) ==
    /\ tree' = tree \o nodes
    /\ Then(items)
    /\ UNCHANGED <<tokenVars, nameVars>>
Pass(nodes, items) ==
    /\ advance
    /\ tree' = tree \o nodes
    /\ Then(items)
    /\ UNCHANGED nameVars

\* fail: the method returns, or goes on with these.
FailAnd(items) ==
    /\ setDiagnostic("syntax")
    /\ Then(items)
    /\ UNCHANGED <<nameVars, tree>>
Fail == FailAnd(<<>>)

\* expect keeps the text of a token that has one.
NodeOf(token) ==
    CASE token.type = "Identifier" -> <<Named("name", token.lexeme)>>
      [] token.type = "IntLiteral" -> <<Named("int", token.lexeme)>>
      [] OTHER                     -> <<>>

Expected ==
    /\ Running("expect")
    /\ check(Top.text)
    /\ Pass(NodeOf(current), <<>>)

NotExpected ==
    /\ Running("expect")
    /\ ~check(Top.text)
    /\ Fail

\* A node behind its children.
Built ==
    /\ Running("build")
    /\ Step(<<N(Top.text)>>, <<>>)

\* The rest of a list that commas part, each element parsed by these.
MoreOf(task, items) ==
    /\ Running(task)
    /\ IF check(",") THEN Pass(<<>>, items) ELSE Step(<<>>, <<>>)

-----------------------------------------------------------------------------
(* Types.                                                                  *)

type == Go("type")

isTypeToken ==
    \/ checkAny(TypeKeywords)
    \/ check("Identifier") /\ current.lexeme \in DOMAIN typeAliases \cup structTypeNames

\* fail, where a type is to be returned.
FailType ==
    /\ setDiagnostic("syntax")
    /\ tree' = Append(tree, Type("unknown"))
    /\ Then(<<>>)
    /\ UNCHANGED nameVars

parseType ==
    /\ Running("type")
    /\ CASE checkAny(TypeKeywords) ->
              Pass(<<Type(TypeOf[current.type])>>, <<GoWith("arrayType", TypeOf[current.type])>>)
         [] check("Identifier") ->
              LET name == current.lexeme
              IN  IF name \in DOMAIN typeAliases
                  THEN Pass(typeAliases[name], <<>>)
                  ELSE IF name \in structTypeNames
                  THEN Pass(<<Named("struct", name)>>, <<GoWith("arrayType", "struct")>>)
                  ELSE Pass(<<Named("generic", name)>>, <<GoWith("arrayType", "generic")>>)
         [] OTHER -> FailType

ArrayType ==
    /\ Running("arrayType")
    /\ IF ~check("[") THEN Step(<<>>, <<>>)
       ELSE IF Top.text \in {"void", "unknown", "generic"}
       THEN Pass(<<>>, <<Go("failType")>>)
       ELSE Pass(<<>>, <<expect("IntLiteral"), expect("]"), Go("arraySize")>>)

\* The size, which is read before the bracket is, must be positive.
ArraySize ==
    /\ Running("arraySize")
    /\ IF LastName = "0" THEN FailType ELSE Step(<<N("array")>>, <<>>)

\* fail behind a token that has been passed.
Fails ==
    \/ Running("fail") /\ Fail
    \/ Running("failType") /\ FailType

\* The type that has just been parsed is one of these.
Parsed(names) == tree # <<>> /\ Last(tree) \in {Type(t) : t \in names}
-----------------------------------------------------------------------------
(* Declarations.                                                           *)

parseProgram ==
    /\ Running("program")
    /\ CASE check("EndOfFile") -> Step(<<N("program")>>, <<>>)
         [] check("namespace") -> Step(<<>>, <<expect("namespace"), Go("namespaceName"), Top>>)
         [] check("struct")    -> Step(<<>>, <<expect("struct"), expect("Identifier"), Go("struct"), Top>>)
         [] check("type")      -> Step(<<>>, <<expect("type"), expect("Identifier"), Go("alias"), Top>>)
         [] OTHER              -> Step(<<>>, <<type, Go("functionName"), Top>>)

\* The name of the namespace, behind those it is in.
NamespaceName ==
    /\ Running("namespaceName")
    /\ IF check("Identifier") THEN advance ELSE setDiagnostic("syntax")
    /\ currentNamespace' = Append(currentNamespace, IF check("Identifier") THEN current.lexeme ELSE "")
    /\ Then(<<expect("{"), Item("namespaceBody", "", currentNamespace, 0)>>)
    /\ UNCHANGED <<typeAliases, structTypeNames, tree>>

\* A mutant: the end of the file closes the namespace.
NamespaceBodyUnclosed ==
    /\ Running("namespaceBody")
    /\ CASE checkAny({"}", "EndOfFile"}) ->
              /\ IF check("}") THEN advance ELSE UNCHANGED tokenVars
              /\ currentNamespace' = Top.names
              /\ Then(<<>>)
              /\ UNCHANGED <<typeAliases, structTypeNames, tree>>
         [] check("namespace")         -> Step(<<>>, <<expect("namespace"), Go("namespaceName"), Top>>)
         [] checkAny({"struct", "type"}) -> Fail
         [] OTHER                      -> Step(<<>>, <<type, Go("functionName"), Top>>)

NamespaceBody ==
    /\ Running("namespaceBody")
    /\ CASE checkAny({"}", "EndOfFile"}) ->
              /\ IF check("}") THEN advance ELSE setDiagnostic("syntax")
              /\ currentNamespace' = Top.names
              /\ Then(<<>>)
              /\ UNCHANGED <<typeAliases, structTypeNames, tree>>
         [] check("namespace")         -> Step(<<>>, <<expect("namespace"), Go("namespaceName"), Top>>)
         [] checkAny({"struct", "type"}) -> Fail
         [] OTHER                      -> Step(<<>>, <<type, Go("functionName"), Top>>)

\* From here on the name is a type, in its own fields too.
parseStructDecl ==
    /\ Running("struct")
    /\ IF LastName \in structTypeNames THEN Fail
       ELSE /\ structTypeNames' = structTypeNames \cup {LastName}
            /\ tree' = Append(tree, N("list"))
            /\ Then(<<expect("{"), Go("structField"), expect("}"), Build("structDecl")>>)
            /\ UNCHANGED <<tokenVars, typeAliases, currentNamespace>>

parseStructFields ==
    /\ Running("structField")
    /\ IF checkAny({"}", "EndOfFile"}) THEN Step(<<>>, <<>>) ELSE Step(<<>>, <<type, Go("fieldName")>>)

FieldName ==
    /\ Running("fieldName")
    /\ IF Parsed({"void", "unknown"}) THEN Fail
       ELSE Step(<<>>, <<expect("Identifier"), expect(";"), Build("field"), Go("structField")>>)

\* start is where the type will stand in the tree.
parseTypeAliasDecl ==
    /\ Running("alias")
    /\ IF LastName \in DOMAIN typeAliases THEN Fail
       ELSE Step(<<>>, <<expect("="), type, Item("aliasTarget", LastName, <<>>, Len(tree) + 1)>>)

AliasTarget ==
    /\ Running("aliasTarget")
    /\ IF Parsed({"void", "unknown"}) THEN Fail
       ELSE Step(<<>>, <<expect(";"), [Top EXCEPT !.task = "aliasEnd"]>>)

AliasEnd ==
    /\ Running("aliasEnd")
    /\ typeAliases' = [a \in DOMAIN typeAliases \cup {Top.text} |->
           IF a = Top.text THEN SubSeq(tree, Top.start, Len(tree)) ELSE typeAliases[a]]
    /\ tree' = Append(tree, N("aliasDecl"))
    /\ Then(<<>>)
    /\ UNCHANGED <<tokenVars, structTypeNames, currentNamespace>>

functionRest ==
    <<Go("typeParameters"), expect("("), Go("parameters"), expect(")"), Go("block"), Build("function")>>

\* A function inside a namespace has its qualified name.
parseFunctionDecl ==
    /\ Running("functionName")
    /\ IF Parsed({"unknown"}) THEN Fail
       ELSE IF ~checkAny({"Identifier", "main"}) THEN FailAnd(functionRest)
       ELSE Pass(<<[node |-> "name", text |-> Append(currentNamespace,
                        IF check("main") THEN "main" ELSE current.lexeme)], N("list")>>,
                 functionRest)

TypeParameters ==
    /\ Running("typeParameters")
    /\ IF check("<") THEN Pass(<<>>, <<expect("Identifier"), Go("moreTypeParameters"), expect(">")>>)
       ELSE Step(<<>>, <<>>)

MoreTypeParameters == MoreOf("moreTypeParameters", <<expect("Identifier"), Top>>)

parseParameters ==
    /\ Running("parameters")
    /\ IF check(")") THEN Step(<<N("list")>>, <<>>)
       ELSE Step(<<N("list")>>, <<type, Go("parameterName")>>)

ParameterName ==
    /\ Running("parameterName")
    /\ IF Parsed({"void", "unknown"}) THEN Fail
       ELSE Step(<<>>, <<expect("Identifier"), Go("moreParameters")>>)

MoreParameters == MoreOf("moreParameters", <<type, Go("parameterName")>>)
-----------------------------------------------------------------------------
(* Statements.                                                             *)

statement  == Go("statement")
expression == Go("expression")

\* One of these where it stands, up to where a list of statements ends.
parseBlock ==
    /\ Running("block")
    /\ Step(<<N("list")>>, <<expect("{"), GoWith("statements", "block"), expect("}"), Build("block")>>)

\* A mutant: the end of the file ends no list.
EndsListAtBrace(list) ==
    \/ check("}")
    \/ list = "case" /\ checkAny({"case", "default"})

EndsList(list) ==
    \/ checkAny({"}", "EndOfFile"})
    \/ list = "case" /\ checkAny({"case", "default"})

Statements ==
    /\ Running("statements")
    /\ IF EndsList(Top.text) THEN Step(<<>>, <<>>) ELSE Step(<<>>, <<statement, Top>>)

parseIfStatement ==
    <<expect("if"), expect("("), expression, expect(")"), statement, Go("else")>>
parseWhileStatement ==
    <<expect("while"), expect("("), expression, expect(")"), statement, Build("while")>>
parseForStatement ==
    <<expect("for"), expect("("), Go("forInitializer"), expect(";"), expression, expect(";"),
      Go("forUpdate"), expect(")"), statement, Build("for")>>
parseSwitchStatement ==
    <<expect("switch"), expect("("), expression, expect(")"), expect("{"), Build("list"), Go("cases")>>
parsePrintStatement ==
    <<expect("print"), expect("("), GoWith("arguments", ")"), expect(")"), Build("print")>>
parseIdentifierStatement == <<expect("Identifier"), Go("afterName")>>
parseAssignmentStatement == <<expect("Identifier"), Go("assignment")>>

parseStatement ==
    /\ Running("statement")
    /\ CASE check(";") -> Pass(<<N("empty")>>, <<>>)
         [] check("let") \/ isTypeToken -> Step(<<>>, <<Go("varDecl"), expect(";")>>)
         [] check("Identifier") /\ ~isTypeToken ->
                Step(<<>>, parseIdentifierStatement \o <<expect(";")>>)
         [] check("if")       -> Step(<<>>, parseIfStatement)
         [] check("while")    -> Step(<<>>, parseWhileStatement)
         [] check("for")      -> Step(<<>>, parseForStatement)
         [] check("switch")   -> Step(<<>>, parseSwitchStatement)
         [] check("return")   -> Step(<<>>, <<expect("return"), Go("returnValue"), expect(";")>>)
         [] check("break")    -> Step(<<>>, <<expect("break"), Build("break"), expect(";")>>)
         [] check("continue") -> Step(<<>>, <<expect("continue"), Build("continue"), expect(";")>>)
         [] check("print")    -> Step(<<>>, parsePrintStatement \o <<expect(";")>>)
         [] check("{")        -> Step(<<>>, <<Go("block")>>)
         [] OTHER             -> Fail

\* A let that stands in front of the name and "=" has no type.
parseVarDeclStatement ==
    /\ Running("varDecl")
    /\ IF check("let") THEN Pass(<<>>, <<GoWith("letName", "let")>>)
       ELSE Step(<<>>, <<type, expect("Identifier"), GoWith("initializer", "mutable")>>)

LookBehindLet ==
    /\ Running("letName")
    /\ check("Identifier")
    /\ ~Peeked(1)
    /\ peekToken
    /\ UNCHANGED <<nameVars, work, tree>>

LetName ==
    /\ Running("letName")
    /\ check("Identifier") => Peeked(1)
    /\ IF check("Identifier") /\ PeekedType(1) = "="
       THEN Step(<<>>, <<expect("Identifier"), expect("="), expression, Build("let")>>)
       ELSE Step(<<>>, <<type, expect("Identifier"), GoWith("initializer", "let")>>)

Initializer ==
    /\ Running("initializer")
    /\ IF check("=") THEN Pass(<<>>, <<expression, GoWith("initialized", Top.text)>>)
       ELSE Step(<<Named("declare", Top.text)>>, <<>>)

Initialized ==
    /\ Running("initialized")
    /\ Step(<<Named("initialize", Top.text)>>, <<>>)

\* parseIdentifierStatement behind the name.
AfterName ==
    /\ Running("afterName")
    /\ CASE check("::") -> Step(<<>>, <<Go("qualified"), Build("exprStmt")>>)
         [] check("(")  -> Step(<<>>, <<Go("call"), Build("exprStmt")>>)
         [] check("[")  -> Pass(<<>>, <<expression, expect("]"), expect("="), expression,
                                        Build("arrayAssign")>>)
         [] check(".")  -> Pass(<<>>, <<expect("Identifier"), Go("afterField")>>)
         [] OTHER       -> Step(<<>>, <<Go("assignment")>>)

AfterField ==
    /\ Running("afterField")
    /\ IF check("[")
       THEN Pass(<<N("fieldAccess")>>, <<expression, expect("]"), expect("="), expression,
                                         Build("arrayAssign")>>)
       ELSE Step(<<>>, <<expect("="), expression, Build("fieldAssign")>>)

\* The operator that an assignment is short for.
OperatorOf == [t \in {"+=", "++", "-=", "--"} |-> IF t \in {"+=", "++"} THEN "+" ELSE "-"]

Assignment ==
    /\ Running("assignment")
    /\ CASE check("=") -> Pass(<<>>, <<expression, Build("assign")>>)
         [] checkAny({"+=", "-="}) ->
              Pass(<<Named("name", LastName), N("variable")>>,
                   <<expression, Build(OperatorOf[current.type]), Build("assign")>>)
         [] checkAny({"++", "--"}) ->
              Pass(<<Named("name", LastName), N("variable"), Named("int", "1"),
                     N(OperatorOf[current.type]), N("assign")>>, <<>>)
         [] OTHER -> Fail
Else ==
    /\ Running("else")
    /\ IF check("else") THEN Pass(<<>>, <<statement, Build("ifElse")>>) ELSE Step(<<N("if")>>, <<>>)

parseForInitializer ==
    /\ Running("forInitializer")
    /\ CASE check(";")                -> Step(<<N("none")>>, <<>>)
         [] check("let") \/ isTypeToken -> Step(<<>>, <<Go("varDecl")>>)
         [] check("Identifier") /\ ~isTypeToken -> Step(<<>>, parseAssignmentStatement)
         [] OTHER                     -> Fail

parseForUpdate ==
    /\ Running("forUpdate")
    /\ CASE check(")")          -> Step(<<N("none")>>, <<>>)
         [] check("Identifier") -> Step(<<>>, parseAssignmentStatement)
         [] OTHER               -> Fail

\* text tells whether a default has been met.
Cases ==
    /\ Running("cases")
    /\ CASE checkAny({"}", "EndOfFile"}) -> Step(<<>>, <<expect("}"), Build("switch")>>)
         [] check("case") ->
              Pass(<<>>, <<expect("IntLiteral"), expect(":"), Build("list"), GoWith("statements", "case"),
                           Build("case"), Top>>)
         [] check("default") /\ Top.text = "" ->
              Pass(<<>>, <<expect(":"), Build("list"), GoWith("statements", "case"), Build("default"),
                           Go("afterDefault")>>)
         [] check("default") /\ Top.text # "" -> Pass(<<>>, <<Go("fail")>>)
         [] OTHER -> Fail

AfterDefault ==
    /\ Running("afterDefault")
    /\ IF check("case") THEN Fail ELSE Step(<<>>, <<GoWith("cases", "default")>>)

ReturnValue ==
    /\ Running("returnValue")
    /\ IF check(";") THEN Step(<<N("returnVoid")>>, <<>>) ELSE Step(<<>>, <<expression, Build("return")>>)

\* Expressions between commas, if there is one before what closes them.
Arguments ==
    /\ Running("arguments")
    /\ IF check(Top.text) THEN Step(<<N("list")>>, <<>>)
       ELSE Step(<<N("list")>>, <<expression, Go("moreArguments")>>)

MoreArguments == MoreOf("moreArguments", <<expression, Top>>)

-----------------------------------------------------------------------------
(* Expressions.                                                            *)

\* The levels from parseLogicOr to parseFactor, each with its operators and
\* the level that its method calls for the operand on the right.
Levels ==
    << [operators |-> {"||"},                 operand |-> 2],
       [operators |-> {"&&"},                 operand |-> 6],
       [operators |-> {"|"},                  operand |-> 4],
       [operators |-> {"^"},                  operand |-> 5],
       [operators |-> {"&"},                  operand |-> 6],
       [operators |-> {"==", "!="},           operand |-> 7],
       [operators |-> {"<", ">", "<=", ">="}, operand |-> 8],
       [operators |-> {"<<", ">>"},           operand |-> 9],
       [operators |-> {"+", "-"},             operand |-> 10],
       [operators |-> {"*", "/", "%"},        operand |-> 11] >>
Unary == Len(Levels) + 1

\* A level calls the one behind it first: down to parseUnary, and the loops of
\* all levels on the way back.
Level(k) == <<Go("unary")>> \o [i \in 1 .. Unary - k |-> Item("level", "", <<>>, Unary - i)]

parseExpression == Running("expression") /\ Step(<<>>, Level(1))

\* One trip through the loop of a level.
BinaryLevel ==
    /\ Running("level")
    /\ LET level == Levels[Top.start]
       IN  IF checkAny(level.operators)
           THEN Pass(<<>>, Level(level.operand) \o <<Build(current.type), Top>>)
           ELSE Step(<<>>, <<>>)

PrefixOperator == [t \in {"!", "-", "~"} |-> CASE t = "!" -> "not" [] t = "-" -> "negate" [] t = "~" -> "bitNot"]

parseUnary ==
    /\ Running("unary")
    /\ CASE check("cast") ->
              Step(<<>>, <<expect("cast"), expect("<"), type, expect(">"), expect("("), expression,
                           expect(")"), Build("cast")>>)
         [] checkAny(DOMAIN PrefixOperator) -> Pass(<<>>, <<Go("unary"), Build(PrefixOperator[current.type])>>)
         [] OTHER -> Step(<<>>, <<Go("primary")>>)

parsePrimary ==
    /\ Running("primary")
    /\ CASE check("[") -> Pass(<<>>, <<GoWith("arguments", "]"), expect("]"), Build("arrayLiteral")>>)
         [] check("IntLiteral")        -> Pass(<<Named("int", current.lexeme)>>, <<>>)
         [] check("FloatLiteral")      -> Pass(<<Named("float", current.lexeme)>>, <<>>)
         [] check("StringLiteral")     -> Pass(<<Named("string", current.lexeme)>>, <<>>)
         [] checkAny({"true", "false"}) -> Pass(<<N(current.type)>>, <<>>)
         [] check("Identifier") ->
              Pass(<<Named("name", current.lexeme)>>, <<GoWith("primaryName", current.lexeme)>>)
         [] check("(")                 -> Pass(<<>>, <<expression, expect(")")>>)
         [] OTHER                      -> Fail

\* What follows the name decides; a "<" needs a look ahead.
PrimaryName ==
    /\ Running("primaryName")
    /\ CASE check("{") /\ Top.text \in structTypeNames -> Step(<<N("list")>>, <<Go("structLiteral")>>)
         [] check("::") -> Step(<<>>, <<Go("qualified")>>)
         [] check("<")  -> Step(<<>>, <<GoWith("genericCall", "primary")>>)
         [] check("(")  -> Step(<<>>, <<Go("call")>>)
         [] check("[")  -> Pass(<<>>, <<expression, expect("]"), Build("index")>>)
         [] check(".")  -> Pass(<<>>, <<expect("Identifier"), Go("fieldRead")>>)
         [] OTHER       -> Step(<<N("variable")>>, <<>>)

FieldRead ==
    /\ Running("fieldRead")
    /\ IF check("[") THEN Pass(<<N("fieldAccess")>>, <<expression, expect("]"), Build("index")>>)
       ELSE Step(<<N("fieldAccess")>>, <<>>)
parseStructLiteral ==
    /\ Running("structLiteral")
    /\ Step(<<>>, <<expect("{"), Go("fields"), expect("}"), Build("structLiteral")>>)

fieldValue == <<expect("Identifier"), expect(":"), expression, Go("moreFields")>>

Fields ==
    /\ Running("fields")
    /\ IF check("}") THEN Step(<<>>, <<>>) ELSE Step(<<>>, fieldValue)

MoreFields == MoreOf("moreFields", fieldValue)

\* The names behind "::", then a call.
parseQualifiedCallExpression ==
    /\ Running("qualified")
    /\ CASE check("::") -> Pass(<<>>, <<expect("Identifier"), Build("member"), Top>>)
         [] check("<")  -> Step(<<>>, <<GoWith("genericCall", "qualified")>>)
         [] check("(")  -> Step(<<>>, <<Go("call")>>)
         [] OTHER       -> Fail

\* looksLikeExplicitGenericCall: types parted by commas, then ">" and "(".
\* start counts the tokens seen, names says what comes next.
TypeTokens == (TypeKeywords \ {"var"}) \cup {"Identifier"}

LookAhead ==
    /\ Running("genericCall")
    /\ ~Peeked(Top.start + 1)
    /\ peekToken
    /\ UNCHANGED <<nameVars, work, tree>>

\* A mutant: it is enough that the types are closed.
LooksGenericWithoutCall ==
    /\ Running("genericCall")
    /\ Peeked(Top.start + 1)
    /\ LET seen == PeekedType(Top.start + 1)
           On(next) == Step(<<>>, <<[Top EXCEPT !.start = @ + 1, !.names = next]>>)
       IN  CASE ~failed /\ Top.names = <<>> /\ seen \in TypeTokens     -> On(<<"separator">>)
             [] ~failed /\ Top.names = <<"separator">> /\ seen = ","   -> On(<<>>)
             [] ~failed /\ Top.names = <<"separator">> /\ seen = ">"   -> Step(<<>>, <<Go("call")>>)
             [] OTHER -> IF Top.text = "primary" THEN Step(<<N("variable")>>, <<>>) ELSE Fail

LooksGeneric ==
    /\ Running("genericCall")
    /\ Peeked(Top.start + 1)
    /\ LET seen == PeekedType(Top.start + 1)
           On(next) == Step(<<>>, <<[Top EXCEPT !.start = @ + 1, !.names = next]>>)
       IN  CASE ~failed /\ Top.names = <<>> /\ seen \in TypeTokens     -> On(<<"separator">>)
             [] ~failed /\ Top.names = <<"separator">> /\ seen = ","   -> On(<<>>)
             [] ~failed /\ Top.names = <<"separator">> /\ seen = ">"   -> On(<<"call">>)
             [] ~failed /\ Top.names = <<"call">> /\ seen = "("        -> Step(<<>>, <<Go("call")>>)
             [] OTHER -> IF Top.text = "primary" THEN Step(<<N("variable")>>, <<>>) ELSE Fail

parseCallExpression ==
    /\ Running("call")
    /\ LET rest == <<expect("("), GoWith("arguments", ")"), expect(")"), Build("call")>>
       IN  IF check("<") THEN Pass(<<N("list")>>, <<type, Go("moreTypes"), expect(">")>> \o rest)
           ELSE Step(<<N("list")>>, rest)

MoreTypes == MoreOf("moreTypes", <<type, Top>>)

-----------------------------------------------------------------------------
\* The constructor reads the first token.
Start == Running("start") /\ Pass(<<>>, <<Go("program")>>)

Init ==
    /\ source \in Sources
    /\ delivered = 0
    /\ current = EndOfFile
    /\ bufferedTokens = <<>>
    /\ diagnostic = "none"
    /\ typeAliases = [a \in {} |-> <<>>]
    /\ structTypeNames = {}
    /\ currentNamespace = <<>>
    /\ work = <<Go("start")>>
    /\ tree = <<>>

Declarations ==
    \/ parseProgram \/ NamespaceName \/ NamespaceBody
    \/ parseStructDecl \/ parseStructFields \/ FieldName
    \/ parseTypeAliasDecl \/ AliasTarget \/ AliasEnd
    \/ parseFunctionDecl \/ TypeParameters \/ MoreTypeParameters
    \/ parseParameters \/ ParameterName \/ MoreParameters

StatementSteps ==
    \/ parseBlock \/ Statements \/ parseStatement
    \/ parseVarDeclStatement \/ LookBehindLet \/ LetName \/ Initializer \/ Initialized
    \/ AfterName \/ AfterField \/ Assignment
    \/ Else \/ parseForInitializer \/ parseForUpdate
    \/ Cases \/ AfterDefault \/ ReturnValue \/ Arguments \/ MoreArguments

ExpressionSteps ==
    \/ parseExpression \/ BinaryLevel \/ parseUnary \/ parsePrimary \/ PrimaryName \/ FieldRead
    \/ parseStructLiteral \/ Fields \/ MoreFields
    \/ parseQualifiedCallExpression \/ LookAhead \/ LooksGeneric \/ parseCallExpression \/ MoreTypes

Next ==
    \/ Start \/ Expected \/ NotExpected \/ Built \/ Fails
    \/ parseType \/ ArrayType \/ ArraySize
    \/ Declarations \/ StatementSteps \/ ExpressionSteps

Spec == Init /\ [][Next]_vars
FairSpec == Spec /\ WF_vars(Next)
-----------------------------------------------------------------------------
(* Properties.                                                             *)

NodeKinds ==
    {"program", "structDecl", "field", "aliasDecl", "function", "list", "block",
     "name", "member", "int", "float", "string", "true", "false", "variable",
     "type", "struct", "generic", "array", "empty", "none", "declare", "initialize", "let",
     "assign", "arrayAssign", "fieldAssign", "exprStmt", "if", "ifElse", "while", "for", "switch",
     "case", "default", "returnVoid", "return", "break", "continue", "print",
     "cast", "not", "negate", "bitNot", "arrayLiteral", "structLiteral", "index", "fieldAccess",
     "call"} \cup Operators
Names == Lexemes \cup {""}
Texts == Names \cup {TypeOf[k] : k \in TypeKeywords} \cup {"main", "1", "let", "mutable"}
Nodes == [node : NodeKinds, text : Seq(Texts)]

\* The methods by what they have still to do; those of SimpleTasks have no
\* local variables they need for it.
SimpleTasks ==
    {"type", "failType", "arraySize", "fail",
     "namespaceName", "struct", "structField", "fieldName", "alias",
     "functionName", "typeParameters", "moreTypeParameters", "parameters", "parameterName",
     "moreParameters", "block", "statement", "varDecl", "afterName", "afterField", "assignment",
     "else", "forInitializer", "forUpdate", "cases", "afterDefault", "returnValue",
     "moreArguments", "expression", "unary", "primary", "fieldRead", "structLiteral", "fields",
     "moreFields", "qualified", "call", "moreTypes"}
Tasks == SimpleTasks \cup
    {"start", "program", "expect", "build", "arrayType", "namespaceBody", "aliasTarget", "aliasEnd",
     "statements", "letName", "initializer", "initialized", "arguments", "level", "primaryName",
     "genericCall"}
TokenTypes == Texted \cup Keywords \cup Operators \cup Marks
Remembered ==
    Texts \cup NodeKinds \cup TokenTypes \cup {"primary", "qualified"}
Activations ==
    {it \in [task : Tasks, text : Remembered, names : Seq(Names \cup {"separator", "call"}), start : Nat] :
        /\ it.task = "build" => it.text \in NodeKinds
        /\ it.task \in {"initializer", "initialized", "aliasTarget", "aliasEnd"} => it.text \in Texts
        /\ it.task \in {"aliasTarget", "aliasEnd"} => it.start > 0
        /\ it.task = "level" => it.start \in DOMAIN Levels
        /\ it.task = "namespaceBody" => it.names \in Seq(Names)}

TypeOK ==
    /\ source \in Seq(Tokens)
    /\ delivered \in 0 .. Len(source) + 1
    /\ current \in Tokens \cup {EndOfFile}
    /\ bufferedTokens \in Seq(Tokens \cup {EndOfFile})
    /\ diagnostic \in {"none", "lexical", "syntax"}
    /\ structTypeNames \subseteq Texts
    /\ \A a \in DOMAIN typeAliases : a \in Texts /\ typeAliases[a] \in Seq(Nodes)
    /\ currentNamespace \in Seq(Names)
    /\ work \in Seq(Activations)
    /\ tree \in Seq(Nodes)

\* Looking ahead never loses, repeats or reorders a token: what advance makes
\* current is the sequence of the source, whatever is in the buffer.
Stream == INSTANCE TokenStream WITH
    position <- delivered - Len(bufferedTokens),
    givenUp  <- failed
TokensInOrder == Stream!Spec

Accepted == work = <<>> /\ ~failed

\* The brackets that wait for their partner; a last "bad" if one has a wrong one.
Opposite == [t \in {")", "]", "}"} |-> CASE t = ")" -> "(" [] t = "]" -> "[" [] t = "}" -> "{"]
OpenAfter(open, token) ==
    CASE token.type \in {"(", "[", "{"} -> Append(open, token.type)
      [] token.type \in DOMAIN Opposite ->
             IF open # <<>> /\ Last(open) = Opposite[token.type] THEN Front(open) ELSE <<"bad">>
      [] OTHER -> open

\* Those that wait behind the whole source.
StillOpen ==
    LET open[i \in 0 .. Len(source)] ==
            IF i = 0 THEN <<>> ELSE OpenAfter(open[i - 1], source[i])
    IN  open[Len(source)]

\* A source that is accepted has been read to its end, and every bracket in it
\* has its partner: no loop of a list has stopped at the end of the file, and no
\* method has returned before its bracket.
AcceptedIsComplete ==
    Accepted => /\ delivered = Len(source) + 1
                /\ bufferedTokens = <<>>
                /\ StillOpen = <<>>

\* The parser stops on every source: each trip through a loop takes a token,
\* or fails and then finds the end of the file.
Stops == <>(work = <<>>)
=============================================================================
