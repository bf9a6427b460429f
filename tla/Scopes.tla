------------------------------- MODULE Scopes -------------------------------
(***************************************************************************)
(* Names, slots and control flow in the semantic analyzer                  *)
(* (src/semantic.cpp): analyzeFunction and the methods of the statements,  *)
(* which declare variables in a stack of scopes and give each a slot.      *)
(*                                                                         *)
(* The methods call each other over the tree; work is the C++ call stack.  *)
(* An expression is a literal, a variable, or an operation on variables of *)
(* certain types; the variables are scalars.  The statements of a switch   *)
(* stand in one sequence: which case one belongs to plays no part here.    *)
(***************************************************************************)
EXTENDS CallStack

CONSTANTS
    Names,      \* the names of variables
    Stmts,      \* the statements
    Programs    \* the programs: sequences of functions

Types == {"int", "uint", "bool", "string", "void", "unknown"}
ValueTypes == Types \ {"void", "unknown"}

Exprs ==
    [kind : {"literal"}, type : {"int", "bool", "string"}]
    \cup [kind : {"variable"}, name : Names]
    \cup [kind : {"operation"}, operands : Seq([name : Names, type : ValueTypes]),
          type : Types \ {"unknown"}]

\* What is optional is a sequence of at most one.
StmtClosed(s) ==
    /\ s.kind \in {"empty", "exprStmt", "block", "varDecl", "assign", "if", "while", "for", "switch",
                   "return", "break", "continue", "print"}
    /\ s.kind \in {"exprStmt", "assign", "if", "while", "for", "switch"} => s.value \in Exprs
    /\ s.kind \in {"varDecl", "return", "print"} => s.values \in Seq(Exprs)
    /\ s.kind \in {"varDecl", "assign"} => s.name \in Names
    /\ s.kind = "varDecl" => s.type \in Types /\ s.isMutable \in BOOLEAN
    /\ s.kind \in {"block", "if", "switch"} => s.body \in Seq(Stmts)
    /\ s.kind \in {"while", "for"} => s.body \in Stmts
    /\ s.kind = "for" => s.initializer \in Seq(Stmts) /\ s.update \in Seq(Stmts)

Parameters == [name : Names, type : ValueTypes]

ASSUME StmtsAssumption    == \A s \in Stmts : StmtClosed(s)
ASSUME ProgramsAssumption ==
    Programs \subseteq
        Seq([parameters : Seq(Parameters), returnType : Types \ {"unknown"},
             body : {s \in Stmts : s.kind = "block"}])

VARIABLES
    program,         \* program.functions
    analyzed,        \* what has been written into the trees of the functions done
    work,            \* the open activations, the innermost last
    scopes,          \* scopes_: for each scope its symbols by name
    nextLocalIndex,  \* nextLocalIndex_
    loopDepth,       \* loopDepth_
    switchDepth,     \* switchDepth_
    hasReturn,       \* currentFunctionHasReturn_
    diagnostic,      \* diagnostic_: the first message
    slots            \* the slots written into its accepted statements, in order

tableVars == <<scopes, nextLocalIndex>>
depthVars == <<loopDepth, switchDepth>>
vars == <<program, analyzed, work, tableVars, depthVars, hasReturn, diagnostic, slots>>

-----------------------------------------------------------------------------
(* Activations.                                                            *)

Item(task, node) == [task |-> task, node |-> node, index |-> 1]
Analyze(node)    == Item("analyzeStmt", node)
AnalyzeAll(nodes) == [i \in DOMAIN nodes |-> Analyze(nodes[i])]
NoNode == [kind |-> "none"]

Top  == work[Len(work)]
Node == Top.node
Then(items) == work' = Replaced(work, items)
Running(task) == work # <<>> /\ Top.task = task

Function == program[Len(analyzed) + 1]

NoMessage == "none"

\* setDiagnostic keeps the first message.
Fail(message) == diagnostic' = IF diagnostic = NoMessage THEN message ELSE diagnostic

-----------------------------------------------------------------------------
(* Scopes.                                                                 *)

Symbol(type, localIndex, isMutable) ==
    [type |-> type, localIndex |-> localIndex, isMutable |-> isMutable]

currentScope == scopes[Len(scopes)]

Visible(name) == \E i \in DOMAIN scopes : name \in DOMAIN scopes[i]

\* A mutant: the search begins at the outermost scope.
findVariableOutside(name) ==
    scopes[CHOOSE i \in DOMAIN scopes :
               /\ name \in DOMAIN scopes[i]
               /\ \A j \in 1 .. i - 1 : name \notin DOMAIN scopes[j]][name]

\* The symbol in the innermost scope that has the name.
findVariable(name) ==
    scopes[CHOOSE i \in DOMAIN scopes :
               /\ name \in DOMAIN scopes[i]
               /\ \A j \in i + 1 .. Len(scopes) : name \notin DOMAIN scopes[j]][name]

beginScope == scopes' = Append(scopes, [n \in {} |-> 0])
endScope   == scopes' = SubSeq(scopes, 1, Len(scopes) - 1)

\* A mutant: slots are counted in each scope.
declareVariableByScope(name, type, isMutable) ==
    /\ scopes' = [scopes EXCEPT ![Len(scopes)] =
           [n \in DOMAIN @ \cup {name} |->
                IF n = name THEN Symbol(type, Cardinality(DOMAIN currentScope), isMutable) ELSE @[n]]]
    /\ nextLocalIndex' = nextLocalIndex + 1

\* A mutant: the slot stays free.
declareVariableForFree(name, type, isMutable) ==
    /\ scopes' = [scopes EXCEPT ![Len(scopes)] =
           [n \in DOMAIN @ \cup {name} |->
                IF n = name THEN Symbol(type, nextLocalIndex, isMutable) ELSE @[n]]]
    /\ UNCHANGED nextLocalIndex

\* A new name in the current scope, with the next slot.
declareVariable(name, type, isMutable) ==
    /\ scopes' = [scopes EXCEPT ![Len(scopes)] =
           [n \in DOMAIN @ \cup {name} |->
                IF n = name THEN Symbol(type, nextLocalIndex, isMutable) ELSE @[n]]]
    /\ nextLocalIndex' = nextLocalIndex + 1

-----------------------------------------------------------------------------
(* Expressions.                                                            *)

\* The type of an expression; one that has been refused has none.
analyzeExpr(e) ==
    CASE e.kind = "literal"   -> e.type
      [] e.kind = "variable"  -> IF Visible(e.name) THEN findVariable(e.name).type ELSE "unknown"
      [] e.kind = "operation" ->
             IF \A i \in DOMAIN e.operands :
                    /\ Visible(e.operands[i].name)
                    /\ findVariable(e.operands[i].name).type = e.operands[i].type
             THEN e.type ELSE "unknown"

\* The slots written into an accepted expression.
SlotsOf(e) ==
    CASE e.kind = "literal"   -> <<>>
      [] e.kind = "variable"  -> <<findVariable(e.name).localIndex>>
      [] e.kind = "operation" ->
             [i \in DOMAIN e.operands |-> findVariable(e.operands[i].name).localIndex]

SlotsOfAll(values) == IF values = <<>> THEN <<>> ELSE SlotsOf(values[1])

\* An int literal is taken for a uint.
Fits(e, type) ==
    \/ analyzeExpr(e) = type
    \/ type = "uint" /\ e.kind = "literal" /\ e.type = "int"

-----------------------------------------------------------------------------
(* analyzeFunction.                                                        *)

\* Of two parameters with the same name the second is refused.
ParameterScope(parameters) ==
    [n \in {parameters[i].name : i \in DOMAIN parameters} |->
        LET i == CHOOSE i \in DOMAIN parameters :
                     parameters[i].name = n /\ \A j \in 1 .. i - 1 : parameters[j].name # n
        IN  Symbol(parameters[i].type, i - 1, TRUE)]

Distinct(parameters) ==
    \A i, j \in DOMAIN parameters : parameters[i].name = parameters[j].name => i = j

analyzeFunction ==
    /\ work = <<>>
    /\ Len(analyzed) < Len(program)
    /\ scopes' = <<ParameterScope(Function.parameters)>>
    /\ nextLocalIndex' = Len(Function.parameters)
    /\ loopDepth' = 0
    /\ switchDepth' = 0
    /\ hasReturn' = FALSE
    /\ slots' = <<>>
    /\ IF Distinct(Function.parameters) THEN UNCHANGED diagnostic ELSE Fail("redeclared")
    /\ work' = <<Item("endFunction", NoNode), Analyze(Function.body)>>
    /\ UNCHANGED <<program, analyzed>>

\* A mutant: only the parameters get slots.
EndFunctionWithoutLocals ==
    /\ Running("endFunction")
    /\ endScope
    /\ LET returns == Function.returnType = "void" \/ hasReturn
       IN  /\ analyzed' = Append(analyzed, [localCount |-> IF returns THEN Len(Function.parameters) ELSE 0,
                                            slots |-> slots])
           /\ IF returns THEN UNCHANGED diagnostic ELSE Fail("noReturn")
    /\ Then(<<>>)
    /\ UNCHANGED <<program, nextLocalIndex, depthVars, hasReturn, slots>>

\* A function that returns a value contains a return.
EndFunction ==
    /\ Running("endFunction")
    /\ endScope
    /\ LET returns == Function.returnType = "void" \/ hasReturn
       IN  /\ analyzed' = Append(analyzed, [localCount |-> IF returns THEN nextLocalIndex ELSE 0,
                                            slots |-> slots])
           /\ IF returns THEN UNCHANGED diagnostic ELSE Fail("noReturn")
    /\ Then(<<>>)
    /\ UNCHANGED <<program, nextLocalIndex, depthVars, hasReturn, slots>>

-----------------------------------------------------------------------------
(* Statements.                                                             *)

DeclaredType(n) == IF n.type = "unknown" THEN analyzeExpr(n.values[1]) ELSE n.type

Declares(n) ==
    /\ n.type # "void"
    /\ n.name \notin DOMAIN currentScope
    /\ IF n.type = "unknown"
       THEN n.values # <<>> /\ analyzeExpr(n.values[1]) \notin {"unknown", "void"}
       ELSE n.values # <<>> => Fits(n.values[1], n.type)

Assigns(n) ==
    /\ Visible(n.name)
    /\ findVariable(n.name).isMutable
    /\ Fits(n.value, findVariable(n.name).type)

Returns(n) ==
    IF Function.returnType = "void" THEN n.values = <<>>
    ELSE n.values # <<>> /\ Fits(n.values[1], Function.returnType)

\* What the method of the statement checks before it goes on.
Accepted(n) ==
    /\ n.kind = "exprStmt" => analyzeExpr(n.value) # "unknown"
    /\ n.kind = "varDecl" => Declares(n)
    /\ n.kind = "assign" => Assigns(n)
    /\ n.kind \in {"if", "while"} => analyzeExpr(n.value) = "bool"
    /\ n.kind = "switch" => analyzeExpr(n.value) = "int"
    /\ n.kind = "return" => Returns(n)
    /\ n.kind = "break" => loopDepth > 0 \/ switchDepth > 0
    /\ n.kind = "continue" => loopDepth > 0

Analyzing(kind) == Running("analyzeStmt") /\ Node.kind = kind /\ Accepted(Node)

\* Otherwise it returns, and the analysis goes on behind the statement.
Refuse ==
    /\ Running("analyzeStmt")
    /\ ~Accepted(Node)
    /\ Fail(Node.kind)
    /\ Then(<<>>)
    /\ UNCHANGED <<program, analyzed, tableVars, depthVars, hasReturn, slots>>

\* An empty statement, and a break or continue in its place.
Nothing ==
    /\ Analyzing("empty") \/ Analyzing("break") \/ Analyzing("continue")
    /\ Then(<<>>)
    /\ UNCHANGED <<program, analyzed, tableVars, depthVars, hasReturn, diagnostic, slots>>

analyzeExprStmt ==
    /\ Analyzing("exprStmt")
    /\ slots' = slots \o SlotsOf(Node.value)
    /\ Then(<<>>)
    /\ UNCHANGED <<program, analyzed, tableVars, depthVars, hasReturn, diagnostic>>

analyzeBlock ==
    /\ Analyzing("block")
    /\ beginScope
    /\ Then(AnalyzeAll(Node.body) \o <<Item("endBlock", Node)>>)
    /\ UNCHANGED <<program, analyzed, nextLocalIndex, depthVars, hasReturn, diagnostic, slots>>

EndBlock ==
    /\ Running("endBlock")
    /\ endScope
    /\ Then(<<>>)
    /\ UNCHANGED <<program, analyzed, nextLocalIndex, depthVars, hasReturn, diagnostic, slots>>

\* The initializer is analyzed before the name is declared.
analyzeVarDeclStmt ==
    /\ Analyzing("varDecl")
    /\ declareVariable(Node.name, DeclaredType(Node), Node.isMutable)
    /\ slots' = slots \o SlotsOfAll(Node.values) \o <<nextLocalIndex>>
    /\ Then(<<>>)
    /\ UNCHANGED <<program, analyzed, depthVars, hasReturn, diagnostic>>

analyzeAssignStmt ==
    /\ Analyzing("assign")
    /\ slots' = slots \o SlotsOf(Node.value) \o <<findVariable(Node.name).localIndex>>
    /\ Then(<<>>)
    /\ UNCHANGED <<program, analyzed, tableVars, depthVars, hasReturn, diagnostic>>

\* The branches, none of which opens a scope by itself.
analyzeIfStmt ==
    /\ Analyzing("if")
    /\ slots' = slots \o SlotsOf(Node.value)
    /\ Then(AnalyzeAll(Node.body))
    /\ UNCHANGED <<program, analyzed, tableVars, depthVars, hasReturn, diagnostic>>

analyzeWhileStmt ==
    /\ Analyzing("while")
    /\ slots' = slots \o SlotsOf(Node.value)
    /\ loopDepth' = loopDepth + 1
    /\ Then(<<Analyze(Node.body), Item("endWhile", Node)>>)
    /\ UNCHANGED <<program, analyzed, tableVars, switchDepth, hasReturn, diagnostic>>

EndWhile ==
    /\ Running("endWhile")
    /\ loopDepth' = loopDepth - 1
    /\ Then(<<>>)
    /\ UNCHANGED <<program, analyzed, tableVars, switchDepth, hasReturn, diagnostic, slots>>

analyzeForStmt ==
    /\ Analyzing("for")
    /\ beginScope
    /\ Then(AnalyzeAll(Node.initializer) \o <<Item("forCondition", Node)>>)
    /\ UNCHANGED <<program, analyzed, nextLocalIndex, depthVars, hasReturn, diagnostic, slots>>

ForCondition ==
    /\ Running("forCondition")
    /\ analyzeExpr(Node.value) = "bool"
    /\ slots' = slots \o SlotsOf(Node.value)
    /\ loopDepth' = loopDepth + 1
    /\ Then(<<Analyze(Node.body)>> \o AnalyzeAll(Node.update) \o <<Item("endFor", Node)>>)
    /\ UNCHANGED <<program, analyzed, tableVars, switchDepth, hasReturn, diagnostic>>

\* The scope of the loop is left open.
ForConditionFails ==
    /\ Running("forCondition")
    /\ analyzeExpr(Node.value) # "bool"
    /\ Fail("for")
    /\ Then(<<>>)
    /\ UNCHANGED <<program, analyzed, tableVars, depthVars, hasReturn, slots>>

\* A mutant: the loop stays open.
EndForKeepsLoop ==
    /\ Running("endFor")
    /\ endScope
    /\ Then(<<>>)
    /\ UNCHANGED <<program, analyzed, nextLocalIndex, depthVars, hasReturn, diagnostic, slots>>

EndFor ==
    /\ Running("endFor")
    /\ loopDepth' = loopDepth - 1
    /\ endScope
    /\ Then(<<>>)
    /\ UNCHANGED <<program, analyzed, nextLocalIndex, switchDepth, hasReturn, diagnostic, slots>>

\* The cases share one scope.
analyzeSwitchStmt ==
    /\ Analyzing("switch")
    /\ slots' = slots \o SlotsOf(Node.value)
    /\ beginScope
    /\ switchDepth' = switchDepth + 1
    /\ Then(AnalyzeAll(Node.body) \o <<Item("endSwitch", Node)>>)
    /\ UNCHANGED <<program, analyzed, nextLocalIndex, loopDepth, hasReturn, diagnostic>>

EndSwitch ==
    /\ Running("endSwitch")
    /\ switchDepth' = switchDepth - 1
    /\ endScope
    /\ Then(<<>>)
    /\ UNCHANGED <<program, analyzed, nextLocalIndex, loopDepth, hasReturn, diagnostic, slots>>

analyzeReturnStmt ==
    /\ Analyzing("return")
    /\ slots' = slots \o SlotsOfAll(Node.values)
    /\ hasReturn' = TRUE
    /\ Then(<<>>)
    /\ UNCHANGED <<program, analyzed, tableVars, depthVars, diagnostic>>

analyzePrintStmt ==
    /\ Analyzing("print")
    /\ Then(<<Item("printArgument", Node)>>)
    /\ UNCHANGED <<program, analyzed, tableVars, depthVars, hasReturn, diagnostic, slots>>

Printing == Running("printArgument") /\ Top.index <= Len(Node.values)
Argument == Node.values[Top.index]

PrintArgument ==
    /\ Printing
    /\ analyzeExpr(Argument) \in ValueTypes
    /\ slots' = slots \o SlotsOf(Argument)
    /\ Then(<<[Top EXCEPT !.index = @ + 1]>>)
    /\ UNCHANGED <<program, analyzed, tableVars, depthVars, hasReturn, diagnostic>>

\* The arguments behind one that cannot be printed are not looked at.
PrintArgumentFails ==
    /\ Printing
    /\ analyzeExpr(Argument) \notin ValueTypes
    /\ Fail("print")
    /\ Then(<<>>)
    /\ UNCHANGED <<program, analyzed, tableVars, depthVars, hasReturn, slots>>

Printed ==
    /\ Running("printArgument")
    /\ Top.index > Len(Node.values)
    /\ Then(<<>>)
    /\ UNCHANGED <<program, analyzed, tableVars, depthVars, hasReturn, diagnostic, slots>>

-----------------------------------------------------------------------------
Init ==
    /\ program \in Programs
    /\ analyzed = <<>>
    /\ work = <<>>
    /\ scopes = <<>>
    /\ nextLocalIndex = 0
    /\ loopDepth = 0
    /\ switchDepth = 0
    /\ hasReturn = FALSE
    /\ diagnostic = NoMessage
    /\ slots = <<>>

Next ==
    \/ analyzeFunction \/ EndFunction \/ Refuse \/ Nothing
    \/ analyzeExprStmt \/ analyzeBlock \/ EndBlock
    \/ analyzeVarDeclStmt \/ analyzeAssignStmt \/ analyzeIfStmt
    \/ analyzeWhileStmt \/ EndWhile
    \/ analyzeForStmt \/ ForCondition \/ ForConditionFails \/ EndFor
    \/ analyzeSwitchStmt \/ EndSwitch
    \/ analyzeReturnStmt
    \/ analyzePrintStmt \/ PrintArgument \/ PrintArgumentFails \/ Printed

Spec == Init /\ [][Next]_vars

-----------------------------------------------------------------------------
(* Properties.                                                             *)

ScopesBelow(n) ==
    UNION {[D -> [type : ValueTypes, localIndex : 0 .. n - 1, isMutable : BOOLEAN]] :
               D \in SUBSET Names}

ItemOK(it) ==
    /\ it.task \in {"analyzeStmt", "endBlock", "endWhile", "forCondition", "endFor", "endSwitch",
                    "printArgument"} => it.node \in Stmts
    /\ it.task \in {"forCondition", "endFor"} => it.node.kind = "for"
    /\ it.task = "printArgument" => it.node.kind = "print"

Tasks == {"analyzeStmt", "endBlock", "endWhile", "forCondition", "endFor", "endSwitch",
          "printArgument", "endFunction"}
Items == {it \in [task : Tasks, node : Stmts \cup {NoNode}, index : Nat \ {0}] : ItemOK(it)}

\* Symbols have slots below nextLocalIndex, and so have the slots written.
TypeOK ==
    /\ program \in Programs
    /\ analyzed \in Seq([localCount : Nat, slots : Seq(Nat)])
    /\ Len(analyzed) <= Len(program)
    /\ work \in Seq(Items)
    /\ nextLocalIndex \in Nat
    /\ scopes \in Seq(ScopesBelow(nextLocalIndex))
    /\ slots \in Seq(0 .. nextLocalIndex - 1)
    /\ loopDepth \in Nat
    /\ switchDepth \in Nat
    /\ hasReturn \in BOOLEAN

LoopEnds   == {"endWhile", "endFor"}
SwitchEnds == {"endSwitch"}
ScopeEnds  == {"endFunction", "endBlock", "forCondition", "endFor", "endSwitch"}

\* A loop or switch counts exactly as long as it is open, and every activation
\* that is to end a scope finds one: none too few, whatever went wrong, and
\* none too many in a program without a mistake.
ContextsMatched ==
    /\ loopDepth = Cardinality(Pending(work, LoopEnds))
    /\ switchDepth = Cardinality(Pending(work, SwitchEnds))
    /\ Len(scopes) >= Cardinality(Pending(work, ScopeEnds))
    /\ diagnostic = NoMessage => Len(scopes) = Cardinality(Pending(work, ScopeEnds))

\* Two variables that are visible, or hidden by one that is, never share a slot.
SlotsApart ==
    \A i, j \in DOMAIN scopes : \A m \in DOMAIN scopes[i], n \in DOMAIN scopes[j] :
        scopes[i][m].localIndex = scopes[j][n].localIndex => i = j /\ m = n

\* The frame of an accepted function has room for its parameters and for every
\* slot that the machine will load or store in it.
SlotsExist ==
    diagnostic = NoMessage =>
        \A k \in DOMAIN analyzed :
            /\ Len(program[k].parameters) <= analyzed[k].localCount
            /\ \A i \in DOMAIN analyzed[k].slots : analyzed[k].slots[i] < analyzed[k].localCount
=============================================================================
