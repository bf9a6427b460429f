------------------------------ MODULE Codegen ------------------------------
(***************************************************************************)
(* The bytecode generator (src/codegen.cpp, class BytecodeGenerator).      *)
(*                                                                         *)
(* The generator is a set of mutually recursive methods.  Here the C++     *)
(* call stack is the variable work: its last item is what runs next, the   *)
(* items below it are what the open activations have still to do, with the *)
(* local variables they need for it (jumps: indexes of emitted jumps that  *)
(* wait for their target; target: a remembered address; index: a loop      *)
(* counter).  An action is a piece of a method between two recursive       *)
(* calls.  Addresses count from 0; code[a + 1] is the instruction at a.    *)
(***************************************************************************)
EXTENDS AST, CallStack

CONSTANTS
    Exprs,      \* the expression nodes
    Stmts,      \* the statement nodes
    Programs    \* the programs to compile: sequences of function declarations

ASSUME ExprsAssumption    == ExprClosed(Exprs)
ASSUME StmtsAssumption    == StmtClosed(Stmts, Exprs)
ASSUME ProgramsAssumption == \A p \in Programs : IsProgram(p, Stmts)

VARIABLES
    program,           \* the program being compiled
    code,              \* bytecode_.code
    functions,         \* bytecode_.functions
    entry,             \* bytecode_.entryFunction
    next,              \* how many functions have been started
    work,              \* the open activations, the innermost last
    loopStack,         \* loopStack_
    switchBreakStack,  \* switchBreakStack_
    diagnostic         \* diagnostic_: the first message, or ""

vars == <<program, code, functions, entry, next, work, loopStack, switchBreakStack, diagnostic>>

bytecode == [code |-> code, functions |-> functions, entry |-> entry]

currentAddress == Len(code)

-----------------------------------------------------------------------------
(* Instructions.                                                           *)

Instruction(op, arg, arg2, text) == [op |-> op, arg |-> arg, arg2 |-> arg2, text |-> text]
Plain(op)     == Instruction(op, 0, 0, <<>>)
With(op, arg) == Instruction(op, arg, 0, <<>>)

\* emitJump: the target is not known yet.
Unpatched == -1
JumpTo(op) == With(op, Unpatched)

JumpOps == {"Jump", "JumpIfFalse", "JumpIfTrue"}
IsJump(ins) == ins.op \in JumpOps

\* patchJump on each of a set of indexes.
Patch(c, jumps, target) ==
    [i \in DOMAIN c |-> IF i - 1 \in jumps THEN [c[i] EXCEPT !.arg = target] ELSE c[i]]

PushLiteral(e) ==
    CASE e.type = "int"    -> With("PushInt", e.value)
      [] e.type = "uint"   -> With("PushUInt", e.value)
      [] e.type = "float"  -> With("PushFloat", e.value)
      [] e.type = "bool"   -> With("PushBool", e.value)
      [] e.type = "string" -> Instruction("PushString", 0, 0, e.text)

CastOp(type) ==
    CASE type = "int"   -> "CastInt"
      [] type = "uint"  -> "CastUInt"
      [] type = "float" -> "CastFloat"
      [] type = "bool"  -> "CastBool"

\* emitDefaultValue for every type but an array.
DefaultValue(type) ==
    CASE type = "int"    -> With("PushInt", 0)
      [] type = "uint"   -> With("PushUInt", 0)
      [] type = "float"  -> With("PushFloat", 0)
      [] type = "bool"   -> With("PushBool", 0)
      [] type = "string" -> Plain("PushString")
      [] OTHER           -> Plain("PushVoid")

-----------------------------------------------------------------------------
(* Activations.                                                            *)

Item(task, node, jumps, target, index) ==
    [task |-> task, node |-> node, jumps |-> jumps, target |-> target, index |-> index]

\* Generate a node; emit an instruction; go on with a node's method.
Gen(node)    == Item("generate", node, <<>>, 0, 0)
Emit(ins)    == Item("emit", ins, <<>>, 0, 0)
\* emitDefaultValue; an array whose size is unknown has none.
Default(type, size) ==
    CASE type # "array" -> <<Emit(DefaultValue(type))>>
      [] type = "array" /\ size > 0 ->
            [i \in 1 .. size |-> Emit(With("PushInt", 0))] \o <<Emit(With("MakeArray", size))>>
      [] OTHER -> <<Item("noDefault", [type |-> type], <<>>, 0, 0)>>

GenAll(nodes) == [i \in DOMAIN nodes |-> Gen(nodes[i])]

Top == work[Len(work)]
Node == Top.node

\* The top activation is replaced by these, the first of which runs next.
Then(items) == work' = Replaced(work, items)

Running(task) == work # <<>> /\ Top.task = task
Generating(kinds) == Running("generate") /\ Node.kind \in kinds

\* An expression and its conversion, if it is not of the type already.
Converted(e, type) ==
    IF e.type = type THEN <<Gen(e)>> ELSE <<Gen(e), Emit(Plain(CastOp(type)))>>

\* The methods without a jump of their own: their children, in the order of
\* the calls, and the instructions they emit between and after them.
StraightLine == {"literal", "variable", "binary", "unary", "cast", "call", "builtin", "input",
                 "arrayLiteral", "index", "structLiteral", "field",
                 "block", "exprStmt", "varDecl", "assign", "arrayAssign", "fieldAssign",
                 "return", "print"}

\* The methods by the names they have in the code.
generateVariableExpr(n)    == <<Emit(With("Load", n.slot))>>
generateBinaryExpr(n)      == <<Gen(n.left), Gen(n.right), Emit(Plain(n.op))>>
generateUnaryExpr(n)       == <<Gen(n.operand), Emit(Plain(n.op))>>
generateCastExpr(n)        == Converted(n.operand, n.type)
generateArrayLiteralExpr(n) == GenAll(n.elems) \o <<Emit(With("MakeArray", Len(n.elems)))>>
generateStructLiteralExpr(n) ==
    GenAll(n.fields) \o <<Emit(Instruction("MakeStruct", Len(n.fields), 0, n.name))>>
generateFieldAccessExpr(n) == <<Emit(Instruction("LoadField", n.slot, n.field, <<>>))>>
generateIndexExpr(n) ==
    GenAll(n.array) \o <<Gen(n.index),
        Emit(With("LoadIndex", IF n.array = <<>> THEN n.slot ELSE -1))>>

\* generateCallExpr: a function, or one of the functions built in.
generateCallExpr(n) ==
    [i \in DOMAIN n.args |-> Item("argument", n, <<>>, 0, i)]
        \o <<Emit(With("Call", n.function))>>
generateBuiltin(n) == <<Gen(n.operand), Emit(Plain(n.op))>>
generateInput      == <<Emit(Plain("Input"))>>

generateExprStmt(n) ==
    IF n.expr.type # "void" THEN <<Gen(n.expr), Emit(Plain("Pop"))>> ELSE <<Gen(n.expr)>>
generateVarDeclStmt(n) ==
    (IF n.init # <<>> THEN GenAll(n.init) ELSE Default(n.type, n.size))
        \o <<Emit(With("Store", n.slot))>>
generateAssignStmt(n) == <<Gen(n.value), Emit(With("Store", n.slot))>>
generateArrayAssignStmt(n) ==
    GenAll(n.array) \o <<Gen(n.index), Gen(n.value),
        Emit(With("StoreIndex", IF n.array = <<>> THEN n.slot ELSE -1))>>
generateFieldAssignStmt(n) ==
    <<Gen(n.value), Emit(Instruction("StoreField", n.slot, n.field, <<>>))>>
generateReturnStmt(n) ==
    (IF n.value # <<>> THEN GenAll(n.value) ELSE <<Emit(Plain("PushVoid"))>>)
        \o <<Emit(Plain("Ret"))>>
generatePrintStmt(n) == GenAll(n.args) \o <<Emit(With("Print", Len(n.args)))>>

\* generateExpr and generateStmt choose the method by the class of the node.
Parts(n) ==
    CASE n.kind = "literal"       -> <<Emit(PushLiteral(n))>>
      [] n.kind = "variable"      -> generateVariableExpr(n)
      [] n.kind = "binary"        -> generateBinaryExpr(n)
      [] n.kind = "unary"         -> generateUnaryExpr(n)
      [] n.kind = "cast"          -> generateCastExpr(n)
      [] n.kind = "builtin"       -> generateBuiltin(n)
      [] n.kind = "input"         -> generateInput
      [] n.kind = "call"          -> generateCallExpr(n)
      [] n.kind = "arrayLiteral"  -> generateArrayLiteralExpr(n)
      [] n.kind = "index"         -> generateIndexExpr(n)
      [] n.kind = "structLiteral" -> generateStructLiteralExpr(n)
      [] n.kind = "field"         -> generateFieldAccessExpr(n)
      [] n.kind = "block"         -> GenAll(n.stmts)
      [] n.kind = "exprStmt"      -> generateExprStmt(n)
      [] n.kind = "varDecl"       -> generateVarDeclStmt(n)
      [] n.kind = "assign"        -> generateAssignStmt(n)
      [] n.kind = "arrayAssign"   -> generateArrayAssignStmt(n)
      [] n.kind = "fieldAssign"   -> generateFieldAssignStmt(n)
      [] n.kind = "return"        -> generateReturnStmt(n)
      [] n.kind = "print"         -> generatePrintStmt(n)

Straight ==
    /\ Generating(StraightLine)
    /\ Then(Parts(Node))
    /\ UNCHANGED <<program, code, functions, entry, next, loopStack, switchBreakStack, diagnostic>>

\* The round of generateCallExpr for one argument, with the implicit
\* conversion the analyzer chose for it.
Argument ==
    /\ Running("argument")
    /\ Then(Converted(Node.args[Top.index], Node.targets[Top.index]))
    /\ UNCHANGED <<program, code, functions, entry, next, loopStack, switchBreakStack, diagnostic>>

EmitInstruction ==
    /\ Running("emit")
    /\ code' = Append(code, Node)
    /\ Then(<<>>)
    /\ UNCHANGED <<program, functions, entry, next, loopStack, switchBreakStack, diagnostic>>

-----------------------------------------------------------------------------
(* generateBinaryExpr for && and ||: the right operand is skipped when the *)
(* left one decides.                                                       *)

ShortCircuit ==
    /\ Generating({"logic"})
    /\ Then(<<Gen(Node.left), Item("logicRight", Node, <<>>, 0, 0)>>)
    /\ UNCHANGED <<program, code, functions, entry, next, loopStack, switchBreakStack, diagnostic>>

LogicRight ==
    /\ Running("logicRight")
    /\ code' = Append(code, JumpTo(IF Node.op = "And" THEN "JumpIfFalse" ELSE "JumpIfTrue"))
    /\ Then(<<Gen(Node.right), Item("logicEnd", Node, <<currentAddress>>, 0, 0)>>)
    /\ UNCHANGED <<program, functions, entry, next, loopStack, switchBreakStack, diagnostic>>

\* A mutant: the value pushed when the left operand decides is the wrong one.
LogicEndSwapped ==
    /\ Running("logicEnd")
    /\ LET jumpToEnd == currentAddress
           decided   == currentAddress + 1
           value     == With("PushBool", IF Node.op = "And" THEN 1 ELSE 0)
       IN  code' = Patch(code \o <<With("Jump", jumpToEnd + 2), value>>, {Top.jumps[1]}, decided)
    /\ Then(<<>>)
    /\ UNCHANGED <<program, functions, entry, next, loopStack, switchBreakStack, diagnostic>>

\* The jump over the decided value, that value, and the end of both.
LogicEnd ==
    /\ Running("logicEnd")
    /\ LET jumpToEnd == currentAddress
           decided   == currentAddress + 1
           value     == With("PushBool", IF Node.op = "And" THEN 0 ELSE 1)
       IN  code' = Patch(code \o <<With("Jump", jumpToEnd + 2), value>>, {Top.jumps[1]}, decided)
    /\ Then(<<>>)
    /\ UNCHANGED <<program, functions, entry, next, loopStack, switchBreakStack, diagnostic>>

-----------------------------------------------------------------------------
(* generateIfStmt.                                                         *)

If1 ==
    /\ Generating({"if"})
    /\ Then(<<Gen(Node.cond), Item("then", Node, <<>>, 0, 0)>>)
    /\ UNCHANGED <<program, code, functions, entry, next, loopStack, switchBreakStack, diagnostic>>

ThenBranch ==
    /\ Running("then")
    /\ code' = Append(code, JumpTo("JumpIfFalse"))
    /\ Then(<<Gen(Node.then),
              Item(IF Node.else # <<>> THEN "else" ELSE "endIf", Node, <<currentAddress>>, 0, 0)>>)
    /\ UNCHANGED <<program, functions, entry, next, loopStack, switchBreakStack, diagnostic>>

ElseBranch ==
    /\ Running("else")
    /\ code' = Patch(Append(code, JumpTo("Jump")), {Top.jumps[1]}, currentAddress + 1)
    /\ Then(<<Gen(Node.else[1]), Item("endIf", Node, <<currentAddress>>, 0, 0)>>)
    /\ UNCHANGED <<program, functions, entry, next, loopStack, switchBreakStack, diagnostic>>

\* A mutant: the jump leads one instruction too far.
EndIfBehind ==
    /\ Running("endIf")
    /\ code' = Patch(code, {Top.jumps[1]}, currentAddress + 1)
    /\ Then(<<>>)
    /\ UNCHANGED <<program, functions, entry, next, loopStack, switchBreakStack, diagnostic>>

EndIf ==
    /\ Running("endIf")
    /\ code' = Patch(code, {Top.jumps[1]}, currentAddress)
    /\ Then(<<>>)
    /\ UNCHANGED <<program, functions, entry, next, loopStack, switchBreakStack, diagnostic>>

-----------------------------------------------------------------------------
(* generateWhileStmt and generateForStmt.                                  *)

LoopContext(target) == [continueTarget |-> target, breakJumps |-> {}, continueJumps |-> {}]
Loop == loopStack[Len(loopStack)]

While1 ==
    /\ Generating({"while"})
    /\ Then(<<Gen(Node.cond), Item("whileBody", Node, <<>>, currentAddress, 0)>>)
    /\ UNCHANGED <<program, code, functions, entry, next, loopStack, switchBreakStack, diagnostic>>

WhileBody ==
    /\ Running("whileBody")
    /\ code' = Append(code, JumpTo("JumpIfFalse"))
    /\ loopStack' = Append(loopStack, LoopContext(Top.target))
    /\ Then(<<Gen(Node.body), Item("whileEnd", Node, <<currentAddress>>, Top.target, 0)>>)
    /\ UNCHANGED <<program, functions, entry, next, switchBreakStack, diagnostic>>

\* A mutant: loopStack_.pop_back() is missing.
WhileEndLeftOpen ==
    /\ Running("whileEnd")
    /\ LET end    == currentAddress + 1
           closed == Append(code, With("Jump", Top.target))
       IN  code' = Patch(Patch(closed, {Top.jumps[1]} \cup Loop.breakJumps, end),
                         Loop.continueJumps, Loop.continueTarget)
    /\ Then(<<>>)
    /\ UNCHANGED <<program, functions, entry, next, loopStack, switchBreakStack, diagnostic>>

WhileEnd ==
    /\ Running("whileEnd")
    /\ LET end    == currentAddress + 1
           closed == Append(code, With("Jump", Top.target))
       IN  code' = Patch(Patch(closed, {Top.jumps[1]} \cup Loop.breakJumps, end),
                         Loop.continueJumps, Loop.continueTarget)
    /\ loopStack' = SubSeq(loopStack, 1, Len(loopStack) - 1)
    /\ Then(<<>>)
    /\ UNCHANGED <<program, functions, entry, next, switchBreakStack, diagnostic>>

For1 ==
    /\ Generating({"for"})
    /\ Then(GenAll(Node.init) \o <<Item("forCond", Node, <<>>, 0, 0)>>)
    /\ UNCHANGED <<program, code, functions, entry, next, loopStack, switchBreakStack, diagnostic>>

ForCond ==
    /\ Running("forCond")
    /\ Then(<<Gen(Node.cond), Item("forBody", Node, <<>>, currentAddress, 0)>>)
    /\ UNCHANGED <<program, code, functions, entry, next, loopStack, switchBreakStack, diagnostic>>

ForBody ==
    /\ Running("forBody")
    /\ code' = Append(code, JumpTo("JumpIfFalse"))
    /\ loopStack' = Append(loopStack, LoopContext(Unpatched))
    /\ Then(<<Gen(Node.body), Item("forUpdate", Node, <<currentAddress>>, Top.target, 0)>>)
    /\ UNCHANGED <<program, functions, entry, next, switchBreakStack, diagnostic>>

\* The continue jumps of a for loop lead to its update.
ForUpdate ==
    /\ Running("forUpdate")
    /\ code' = Patch(code, Loop.continueJumps, currentAddress)
    /\ Then(GenAll(Node.update) \o <<Item("forEnd", Node, Top.jumps, Top.target, 0)>>)
    /\ UNCHANGED <<program, functions, entry, next, loopStack, switchBreakStack, diagnostic>>

\* A mutant: only the jump of the condition is patched.
ForEndForgetsBreaks ==
    /\ Running("forEnd")
    /\ LET end == currentAddress + 1
       IN  code' = Patch(Append(code, With("Jump", Top.target)), {Top.jumps[1]}, end)
    /\ loopStack' = SubSeq(loopStack, 1, Len(loopStack) - 1)
    /\ Then(<<>>)
    /\ UNCHANGED <<program, functions, entry, next, switchBreakStack, diagnostic>>

\* A mutant: the continue jumps are patched once more, to the end.
ForEndPatchesContinues ==
    /\ Running("forEnd")
    /\ LET end == currentAddress + 1
       IN  code' = Patch(Append(code, With("Jump", Top.target)),
                         {Top.jumps[1]} \cup Loop.breakJumps \cup Loop.continueJumps, end)
    /\ loopStack' = SubSeq(loopStack, 1, Len(loopStack) - 1)
    /\ Then(<<>>)
    /\ UNCHANGED <<program, functions, entry, next, switchBreakStack, diagnostic>>

ForEnd ==
    /\ Running("forEnd")
    /\ LET end == currentAddress + 1
       IN  code' = Patch(Append(code, With("Jump", Top.target)),
                         {Top.jumps[1]} \cup Loop.breakJumps, end)
    /\ loopStack' = SubSeq(loopStack, 1, Len(loopStack) - 1)
    /\ Then(<<>>)
    /\ UNCHANGED <<program, functions, entry, next, switchBreakStack, diagnostic>>

-----------------------------------------------------------------------------
(* generateSwitchStmt.  The jumps of an item are jumpToCase, and after the *)
(* tests jumpToDefaultOrEnd as their last; index counts the cases.         *)

Switch1 ==
    /\ Generating({"switch"})
    /\ Then(<<Item("caseTest", Node, <<>>, 0, 1)>>)
    /\ UNCHANGED <<program, code, functions, entry, next, loopStack, switchBreakStack, diagnostic>>

\* The expression is generated again for every case.
CaseTest ==
    /\ Running("caseTest")
    /\ Top.index <= Len(Node.cases)
    /\ Then(<<Gen(Node.expr), Item("caseJump", Node, Top.jumps, 0, Top.index)>>)
    /\ UNCHANGED <<program, code, functions, entry, next, loopStack, switchBreakStack, diagnostic>>

CaseJump ==
    /\ Running("caseJump")
    /\ code' = code \o <<With("PushInt", Node.cases[Top.index].value), Plain("Equal"),
                         JumpTo("JumpIfTrue")>>
    /\ Then(<<Item("caseTest", Node, Append(Top.jumps, currentAddress + 2), 0, Top.index + 1)>>)
    /\ UNCHANGED <<program, functions, entry, next, loopStack, switchBreakStack, diagnostic>>

TestsEnd ==
    /\ Running("caseTest")
    /\ Top.index > Len(Node.cases)
    /\ code' = Append(code, JumpTo("Jump"))
    /\ switchBreakStack' = Append(switchBreakStack, {})
    /\ Then(<<Item("caseBody", Node, Append(Top.jumps, currentAddress), 0, 1)>>)
    /\ UNCHANGED <<program, functions, entry, next, loopStack, diagnostic>>

CaseBody ==
    /\ Running("caseBody")
    /\ Top.index <= Len(Node.cases)
    /\ code' = Patch(code, {Top.jumps[1]}, currentAddress)
    /\ Then(GenAll(Node.cases[Top.index].stmts)
              \o <<Item("caseBody", Node, Tail(Top.jumps), 0, Top.index + 1)>>)
    /\ UNCHANGED <<program, functions, entry, next, loopStack, switchBreakStack, diagnostic>>

DefaultBody ==
    /\ Running("caseBody")
    /\ Top.index > Len(Node.cases)
    /\ code' = Patch(code, {Top.jumps[1]}, currentAddress)
    /\ Then(GenAll(Node.default) \o <<Item("switchEnd", Node, <<>>, 0, 0)>>)
    /\ UNCHANGED <<program, functions, entry, next, loopStack, switchBreakStack, diagnostic>>

SwitchEnd ==
    /\ Running("switchEnd")
    /\ code' = Patch(code, switchBreakStack[Len(switchBreakStack)], currentAddress)
    /\ switchBreakStack' = SubSeq(switchBreakStack, 1, Len(switchBreakStack) - 1)
    /\ Then(<<>>)
    /\ UNCHANGED <<program, functions, entry, next, loopStack, diagnostic>>

-----------------------------------------------------------------------------
(* generateBreakStmt and generateContinueStmt.  A break belongs to the     *)
(* innermost open switch whenever there is one, else to the innermost loop. *)

BreakOutOfSwitch ==
    /\ Generating({"break"})
    /\ switchBreakStack # <<>>
    /\ code' = Append(code, JumpTo("Jump"))
    /\ switchBreakStack' = [switchBreakStack EXCEPT ![Len(switchBreakStack)]
                               = @ \cup {currentAddress}]
    /\ Then(<<>>)
    /\ UNCHANGED <<program, functions, entry, next, loopStack, diagnostic>>

\* A mutant: the index of the jump is taken after it has been emitted.
BreakOutOfLoopLate ==
    /\ Generating({"break"})
    /\ switchBreakStack = <<>>
    /\ loopStack # <<>>
    /\ code' = Append(code, JumpTo("Jump"))
    /\ loopStack' = [loopStack EXCEPT ![Len(loopStack)].breakJumps = @ \cup {Len(code')}]
    /\ Then(<<>>)
    /\ UNCHANGED <<program, functions, entry, next, switchBreakStack, diagnostic>>

BreakOutOfLoop ==
    /\ Generating({"break"})
    /\ switchBreakStack = <<>>
    /\ loopStack # <<>>
    /\ code' = Append(code, JumpTo("Jump"))
    /\ loopStack' = [loopStack EXCEPT ![Len(loopStack)].breakJumps = @ \cup {currentAddress}]
    /\ Then(<<>>)
    /\ UNCHANGED <<program, functions, entry, next, switchBreakStack, diagnostic>>

Continue ==
    /\ Generating({"continue"})
    /\ loopStack # <<>>
    /\ code' = Append(code, JumpTo("Jump"))
    /\ loopStack' = [loopStack EXCEPT ![Len(loopStack)].continueJumps = @ \cup {currentAddress}]
    /\ Then(<<>>)
    /\ UNCHANGED <<program, functions, entry, next, switchBreakStack, diagnostic>>

\* The checks of the two methods, which the analyzer has made already.
Misplaced ==
    /\ Generating({"break", "continue"})
    /\ loopStack = <<>>
    /\ Node.kind = "break" => switchBreakStack = <<>>

\* A mutant: the method that fails does not return.
FailWithoutReturn ==
    /\ Running("noDefault") \/ Misplaced
    /\ diagnostic' = CASE diagnostic # ""      -> diagnostic
                       [] Running("noDefault") -> "invalid array size for default value"
                       [] OTHER                -> "internal error: jump outside loop"
    /\ UNCHANGED <<program, code, functions, entry, next, work, loopStack, switchBreakStack>>

\* failVoid: a misplaced jump, or the default value of an array.  Only the
\* first message is kept, nothing is emitted, and generation goes on.
Fail ==
    /\ Running("noDefault") \/ Misplaced
    /\ diagnostic' = CASE diagnostic # ""      -> diagnostic
                       [] Running("noDefault") -> "invalid array size for default value"
                       [] OTHER                -> "internal error: jump outside loop"
    /\ Then(<<>>)
    /\ UNCHANGED <<program, code, functions, entry, next, loopStack, switchBreakStack>>

-----------------------------------------------------------------------------
(* generate: the function table, then one function after the other.        *)

FunctionInfo(f) ==
    [address |-> -1, params |-> f.params, locals |-> f.localCount, returnType |-> f.returnType]

\* prepareFunctionTable: the last function called main is the entry.
EntryOf(p) == LET mains == {i \in DOMAIN p : p[i].name = "main"}
              IN  IF mains = {} THEN -1 ELSE Max(mains) - 1

Init ==
    /\ program \in Programs
    /\ code = <<>>
    /\ functions = [i \in DOMAIN program |-> FunctionInfo(program[i])]
    /\ entry = EntryOf(program)
    /\ next = 0
    /\ work = <<>>
    /\ loopStack = <<>>
    /\ switchBreakStack = <<>>
    /\ diagnostic = ""

\* A mutant: no RET behind a body that ends in a return statement.
generateFunctionTrustsReturn ==
    /\ work = <<>>
    /\ next < Len(program)
    /\ functions' = [functions EXCEPT ![next + 1].address = currentAddress]
    /\ LET body == program[next + 1].body
       IN  work' = Reverse(GenAll(body)
                             \o IF body # <<>> /\ body[Len(body)].kind = "return" THEN <<>>
                                ELSE Default(program[next + 1].returnType, -1) \o <<Emit(Plain("Ret"))>>)
    /\ next' = next + 1
    /\ UNCHANGED <<program, code, entry, loopStack, switchBreakStack, diagnostic>>

\* A mutant: a procedure gets no RET.
generateFunctionWithoutRet ==
    /\ work = <<>>
    /\ next < Len(program)
    /\ functions' = [functions EXCEPT ![next + 1].address = currentAddress]
    /\ LET type == program[next + 1].returnType
       IN  work' = Reverse(GenAll(program[next + 1].body)
                             \o IF type = "void" THEN <<>>
                                ELSE Default(type, -1) \o <<Emit(Plain("Ret"))>>)
    /\ next' = next + 1
    /\ UNCHANGED <<program, code, entry, loopStack, switchBreakStack, diagnostic>>

\* generateFunction: the body, then the value of a path that falls off it.
generateFunction ==
    /\ work = <<>>
    /\ next < Len(program)
    /\ functions' = [functions EXCEPT ![next + 1].address = currentAddress]
    /\ work' = Reverse(GenAll(program[next + 1].body)
                         \o Default(program[next + 1].returnType, -1) \o <<Emit(Plain("Ret"))>>)
    /\ next' = next + 1
    /\ UNCHANGED <<program, code, entry, loopStack, switchBreakStack, diagnostic>>

Next ==
    \/ Straight \/ Argument \/ EmitInstruction
    \/ ShortCircuit \/ LogicRight \/ LogicEnd
    \/ If1 \/ ThenBranch \/ ElseBranch \/ EndIf
    \/ While1 \/ WhileBody \/ WhileEnd
    \/ For1 \/ ForCond \/ ForBody \/ ForUpdate \/ ForEnd
    \/ Switch1 \/ CaseTest \/ CaseJump \/ TestsEnd \/ CaseBody \/ DefaultBody \/ SwitchEnd
    \/ BreakOutOfSwitch \/ BreakOutOfLoop \/ Continue \/ Fail
    \/ generateFunction

Spec == Init /\ [][Next]_vars

\* generateExpected hands out the bytecode: everything has been generated.
Generated == work = <<>> /\ next = Len(program)
Accepted  == Generated /\ diagnostic = "" /\ entry >= 0

FairSpec == Spec /\ WF_vars(Next)

-----------------------------------------------------------------------------
(* Properties.                                                             *)

Opcodes ==
    ArithmeticOps \cup UnaryOps \cup UnaryBuiltins \cup JumpOps
    \cup {"PushInt", "PushUInt", "PushFloat", "PushBool", "PushString", "PushVoid",
          "CastInt", "CastUInt", "CastFloat", "CastBool", "Load", "Store", "Pop",
          "LoadIndex", "StoreIndex", "LoadField", "StoreField", "MakeArray", "MakeStruct",
          "Call", "Ret", "Input", "Print"}
Instructions ==
    [op : Opcodes, arg : Int, arg2 : Int, text : Seq(Nat)]
\* The code of the k-th function so far, and whether the function is done.
Start(k)  == functions[k].address
End(k)    == IF k < next THEN functions[k + 1].address ELSE Len(code)
Closed(k) == k < next \/ work = <<>>
\* Where the function that is being generated begins.
Begin     == IF next = 0 THEN 0 ELSE Start(next)

\* What an activation remembers about the code between two addresses: its
\* jumps are indexes of emitted instructions, its target is an address.
ItemOK(it, from, to) ==
    /\ it.jumps \in Seq(from .. to - 1)
    /\ it.task \in {"whileBody", "whileEnd", "forBody", "forUpdate", "forEnd"} => it.target \in from .. to
    /\ it.task = "generate" => it.node \in Exprs \cup Stmts
    /\ it.task = "emit" => it.node \in Instructions /\ ~IsJump(it.node)
    /\ it.task = "argument" =>
           it.node \in Exprs /\ it.node.kind = "call" /\ it.index \in DOMAIN it.node.args
    /\ it.task \in {"logicRight", "logicEnd"} => it.node \in Exprs /\ it.node.kind = "logic"
    /\ it.task \in {"then", "else", "endIf"} => it.node \in Stmts /\ it.node.kind = "if"
    /\ it.task \in {"whileBody", "whileEnd"} => it.node \in Stmts /\ it.node.kind = "while"
    /\ it.task \in {"forCond", "forBody", "forUpdate", "forEnd"} =>
           it.node \in Stmts /\ it.node.kind = "for"
    /\ it.task \in {"caseTest", "caseJump", "caseBody", "switchEnd"} =>
           it.node \in Stmts /\ it.node.kind = "switch"
    /\ it.task = "else" => it.node.else # <<>>
    /\ it.task \in {"logicEnd", "else", "endIf", "whileEnd", "forUpdate", "forEnd"} => Len(it.jumps) = 1
    /\ it.task = "caseTest" =>
           it.index \in 1 .. Len(it.node.cases) + 1 /\ Len(it.jumps) = it.index - 1
    /\ it.task = "caseJump" =>
           it.index \in 1 .. Len(it.node.cases) /\ Len(it.jumps) = it.index - 1
    /\ it.task = "caseBody" =>
           /\ it.index \in 1 .. Len(it.node.cases) + 1
           /\ Len(it.jumps) = Len(it.node.cases) + 2 - it.index

Tasks == {"generate", "emit", "argument", "noDefault", "logicRight", "logicEnd",
          "then", "else", "endIf", "whileBody", "whileEnd", "forCond", "forBody",
          "forUpdate", "forEnd", "caseTest", "caseJump", "caseBody", "switchEnd"}
Nodes == Exprs \cup Stmts \cup Instructions \cup [type : Types]
Activations == [task : Tasks, node : Nodes, jumps : Seq(Nat), target : Nat, index : Nat]
Items(from, to) == {it \in Activations : ItemOK(it, from, to)}
Contexts(from, to) ==
    [continueTarget : (from .. to) \cup {Unpatched},
     breakJumps : SUBSET (from .. to - 1), continueJumps : SUBSET (from .. to - 1)]

Messages == {"", "invalid array size for default value", "internal error: jump outside loop"}

\* Everything the generator remembers of emitted code lies in the function that
\* is being generated.
TypeOK ==
    /\ program \in Programs
    /\ code \in Seq(Instructions)
    /\ functions \in Seq([address : Nat \cup {-1}, params : Nat, locals : Nat, returnType : Types])
    /\ Len(functions) = Len(program)
    /\ entry \in -1 .. Len(program) - 1
    /\ next \in 0 .. Len(program)
    /\ Begin \in 0 .. Len(code)
    /\ work \in Seq(Items(Begin, Len(code)))
    /\ loopStack \in Seq(Contexts(Begin, Len(code)))
    /\ switchBreakStack \in Seq(SUBSET (Begin .. Len(code) - 1))
    /\ diagnostic \in Messages

\* Every jump whose target is known stays inside the function it was emitted
\* for.  It may lead to the next address to be emitted only while the function
\* is still open: a finished one ends in a RET that no jump passes, so control
\* cannot fall from one function into the code of another.
SelfContained ==
    \A k \in 1 .. next :
        /\ Start(k) \in 0 .. End(k)
        /\ \A i \in Start(k) + 1 .. End(k) :
               IsJump(code[i]) /\ code[i].arg # Unpatched =>
                   code[i].arg \in Start(k) .. (IF Closed(k) THEN End(k) - 1 ELSE End(k))
        /\ Closed(k) => End(k) > Start(k) /\ code[End(k)].op = "Ret"

\* The jumps some open activation, loop or switch still has to patch.
Awaited ==
    (UNION {{work[i].jumps[j] : j \in DOMAIN work[i].jumps} : i \in DOMAIN work})
    \cup (UNION {loopStack[i].breakJumps \cup loopStack[i].continueJumps : i \in DOMAIN loopStack})
    \cup (UNION {switchBreakStack[i] : i \in DOMAIN switchBreakStack})

\* No emitted jump is ever forgotten: while its target is unknown, somebody
\* who is not finished remembers its index.
NoForgottenJump ==
    \A i \in DOMAIN code :
        IsJump(code[i]) /\ code[i].arg = Unpatched => i - 1 \in Awaited

\* Every open loop and every open switch belongs to exactly one activation that
\* will close it.  So none is left open when a function is done, and a break of
\* the next one cannot be recorded in it.
LoopEnds   == {"whileEnd", "forUpdate", "forEnd"}
SwitchEnds == {"caseBody", "switchEnd"}

ContextsMatched ==
    /\ Cardinality(Pending(work, LoopEnds)) = Len(loopStack)
    /\ Cardinality(Pending(work, SwitchEnds)) = Len(switchBreakStack)

\* The last thing a function emits is its RET.
RetComesLast == work # <<>> => next > 0 /\ work[1] = Emit(Plain("Ret"))

\* What is emitted stays as it is, but for a jump that waits for its target,
\* which gets it once.
PatchedOnce ==
    [][ /\ Len(code') >= Len(code)
        /\ \A i \in DOMAIN code :
               \/ code'[i] = code[i]
               \/ /\ IsJump(code[i])
                  /\ code[i].arg = Unpatched
                  /\ \E target \in 0 .. Len(code') : code'[i] = [code[i] EXCEPT !.arg = target]
      ]_vars

\* Every activation comes to its end, whatever the program.
Terminates == <>Generated
=============================================================================
