----------------------------- MODULE AsmCodegen -----------------------------
(***************************************************************************)
(* The x86-64 generator (src/asm_codegen.cpp, class AsmGenerator), which   *)
(* writes NASM assembly for a part of the language and refuses the rest.   *)
(*                                                                         *)
(* As in Codegen the C++ call stack is the variable work, and an action is *)
(* a piece of a method between two recursive calls.  The file is the       *)
(* sequence code of its text section, where a label is a line of its own,  *)
(* and the sequence data.  A diagnostic does not stop the generation: the  *)
(* method that sets it returns and its callers go on.                      *)
(***************************************************************************)
EXTENDS AST, CallStack, Assembly

CONSTANTS
    Programs,   \* the checked programs: sequences of TypedFunctions
    IntWidth    \* the bound of a shift (32 in the code)

VARIABLES
    \* Those of Assembly, and
    labelCounter, \* labelCounter_
    areas,        \* arrayBaseOffsets_ and structBaseOffsets_, with the sizes
    stackSize,    \* rawStackSize while the areas are laid out, then stackSize_
    endLabel,     \* currentEndLabel_
    loopStack     \* loopStack_

frameVars == <<areas, stackSize, endLabel>>
vars == <<program, code, data, labelCounter, frameVars, loopStack, next, work, diagnostic>>

-----------------------------------------------------------------------------
(* Registers and labels.                                                   *)

gpArgRegs == <<"rdi", "rsi", "rdx", "rcx", "r8", "r9">>
fpArgRegs == <<"xmm0", "xmm1", "xmm2", "xmm3", "xmm4", "xmm5", "xmm6", "xmm7">>

\* Where an expression of this type leaves its value.
Result(type) == IF type = "float" THEN xmm0 ELSE rax

\* The truth of a comparison as 0 or 1 in rax; set is one of sete, setne, setl...
Truth(set) == <<Do1(set, rax), Do("movzx")>>

\* A mutant: two constructs of one kind share their labels.
makeLabelsUnnumbered(bases) == [i \in DOMAIN bases |-> Label(bases[i], 0)]

\* makeLabel for each of these bases, in order.
makeLabels(bases) == [i \in DOMAIN bases |-> Label(bases[i], labelCounter + i - 1)]

-----------------------------------------------------------------------------
(* The frame: a word for each local, then the areas of the arrays and      *)
(* structs, each of which grows downwards from its base.                   *)

localOffset(slot) == (slot + 1) * 8

\* A mutant: the frame keeps whatever size the locals need.
RoundedNever(size) == size

Rounded(size) == size + ((16 - (size % 16)) % 16)

\* A mutant: a negative index is not looked for.
BoundsCheckFromAbove(index, size) ==
    <<Ins("cmp", index, Imm(size)), Do1("jge", BoundsError)>>

emitArrayBoundsCheck(index, size) ==
    <<Ins("cmp", index, Imm(0)), Do1("jl", BoundsError),
      Ins("cmp", index, Imm(size)), Do1("jge", BoundsError)>>

\* The address of the element whose index is in rbx.
ElementAddress(base) ==
    <<Mov(rcx, rbx), Ins("imul", rcx, Imm(8)), Ins("lea", rdx, Frame(base)), Ins("sub", rdx, rcx)>>

-----------------------------------------------------------------------------
(* Activations.                                                            *)

Item(task, node) == [task |-> task, node |-> node]

Gen(node)      == Item("generate", node)
Emit(lines)    == Item("emit", lines)
Refuse(what)   == Item("refuse", what)
Collect(stmt)  == Item("collect", stmt)
GenAll(nodes)     == [i \in DOMAIN nodes |-> Gen(nodes[i])]
CollectAll(stmts) == [i \in DOMAIN stmts |-> Collect(stmts[i])]

Top  == work[Len(work)]
Node == Top.node
Then(items) == work' = Replaced(work, items)
Running(task) == work # <<>> /\ Top.task = task
Generating(kinds) == Running("generate") /\ Node.kind \in kinds

Scalars == {"int", "uint", "bool", "string", "float"}

\* Which of these types are passed in which registers: the i-th in the order
\* of its class.
fpIndex(types, i) == Cardinality({j \in 1 .. i : types[j] = "float"})
gpIndex(types, i) == i - fpIndex(types, i)
RegisterFor(types, i) ==
    Reg(IF types[i] = "float" THEN fpArgRegs[fpIndex(types, i)] ELSE gpArgRegs[gpIndex(types, i)])
\* No register is left for one of them, or its type is not passed at all.
NotPassed(types) ==
    \E i \in DOMAIN types :
        \/ types[i] \notin Scalars
        \/ fpIndex(types, i) > Len(fpArgRegs)
        \/ gpIndex(types, i) > Len(gpArgRegs)

TypesOf(nodes) == [i \in DOMAIN nodes |-> nodes[i].type]

-----------------------------------------------------------------------------
(* Expressions.  l holds the labels the method has made, in order.         *)

emitIntLiteralExpr(n)   == <<Emit(<<Mov(rax, Imm(n.value))>>)>>
emitBoolLiteralExpr(n)  == <<Emit(<<Mov(rax, Imm(n.value))>>)>>
emitFloatLiteralExpr(n, l)  == <<Emit(<<Ins("load", xmm0, l[1])>>)>>
emitStringLiteralExpr(n, l) == <<Emit(<<Ins("lea", rax, l[1])>>)>>

emitVariableExpr(n) ==
    IF n.slot < 0 THEN <<Refuse("variable without local index")>>
    ELSE <<Emit(<<Mov(Result(n.type), Frame(localOffset(n.slot)))>>)>>

HasArea(slot) == slot \in DOMAIN areas

emitIndexExpr(n) ==
    IF ~HasArea(n.slot) THEN <<Refuse("array index expression without local index")>>
    ELSE <<Gen(n.index),
           Emit(<<Mov(rbx, rax)>> \o emitArrayBoundsCheck(rbx, areas[n.slot].size)
                    \o ElementAddress(areas[n.slot].base) \o <<Mov(rax, At("rdx"))>>)>>

emitFieldAccessExpr(n) ==
    IF ~HasArea(n.slot) THEN <<Refuse("field access without semantic indexes")>>
    ELSE <<Emit(<<Mov(rax, Frame(areas[n.slot].base + n.field * 8))>>)>>

\* The arguments wait on the stack until all are evaluated.
Passed(args, label) ==
    LET types == TypesOf(args)
        place(i) == Len(args) + 1 - i
    IN  IF NotPassed(types) THEN <<Refuse("function argument")>>
        ELSE FlattenSeq([i \in DOMAIN args |->
                            <<Gen(args[i]), Emit(<<Do1("push", Result(args[i].type))>>)>>])
             \o <<Emit([i \in DOMAIN args |-> Do1("pop", RegisterFor(types, place(i)))]
                           \o <<Do1("call", label)>>)>>
emitCallExpr(n) == Passed(n.args, FunctionLabel(program[n.function + 1].path))

emitAssert(n, l) ==
    <<Gen(n.operand),
      Emit(<<Ins("cmp", rax, Imm(0)), Do1("je", l[1]), Do1("jmp", l[2]), Do1("label", l[1]),
             Ins("lea", rsi, l[3]), printf("str"), printf("nl"), Do1("exit", Imm(1)),
             Do1("label", l[2])>>)>>

\* The functions built in.  toInt is not among those the method knows: it is
\* called like a function of the program.
emitBuiltin(n, l) ==
    CASE n.op = "Len" ->
            IF n.operand.kind = "variable" /\ n.operand.type = "array" /\ HasArea(n.operand.slot)
            THEN <<Emit(<<Mov(rax, Imm(areas[n.operand.slot].size))>>)>>
            ELSE <<Refuse("len for non-array value")>>
      [] n.op = "Assert" ->
            IF n.operand.type = "bool" THEN emitAssert(n, l)
            ELSE <<Refuse("assert condition that is not bool")>>
      [] n.op \in {"Exit", "Panic"} -> <<Refuse("built-in function")>>
      [] n.op = "ToInt" -> Passed(<<n.operand>>, FunctionLabel(<<"toInt">>))

\* The operation on the left operand in rbx and the right one in rax.
OnRbx(op)    == <<Ins(op, rbx, rax), Mov(rax, rbx)>>
Compared(set) == <<Ins("cmp", rbx, rax)>> \o Truth(set)
Shifted(op)  ==
    <<Ins("cmp", rax, Imm(0)), Do1("jl", ShiftError),
      Ins("cmp", rax, Imm(IntWidth)), Do1("jge", ShiftError),
      Mov(rcx, rax), Mov(rax, rbx), Do(op)>>
SignedDivision   == <<Mov(rcx, rax), Mov(rax, rbx), Do("cqo"), Do1("idiv", rcx)>>
UnsignedDivision == <<Mov(rcx, rax), Mov(rax, rbx), Mov(rdx, Imm(0)), Do1("div", rcx)>>
Logic(op) ==
    <<Ins("cmp", rbx, Imm(0)), Do1("setne", rbx), Ins("cmp", rax, Imm(0)), Do1("setne", rax),
      Ins(op, rax, rbx), Do("movzx")>>

Operate(op, signed) ==
    CASE op = "BitAnd" -> OnRbx("and")
      [] op = "BitOr"  -> OnRbx("or")
      [] op = "BitXor" -> OnRbx("xor")
      [] op = "Sub"    -> OnRbx("sub")
      [] op = "Add"    -> <<Ins("add", rax, rbx)>>
      [] op = "Mul"    -> <<Ins("imul", rax, rbx)>>
      [] op = "Div"    -> IF signed THEN SignedDivision ELSE UnsignedDivision
      [] op = "Mod"    -> (IF signed THEN SignedDivision ELSE UnsignedDivision) \o <<Mov(rax, rdx)>>
      [] op = "ShiftLeft"    -> Shifted("shl")
      [] op = "ShiftRight"   -> Shifted(IF signed THEN "sar" ELSE "shr")
      [] op = "Less"         -> Compared(IF signed THEN "setl" ELSE "setb")
      [] op = "Greater"      -> Compared(IF signed THEN "setg" ELSE "seta")
      [] op = "LessEqual"    -> Compared(IF signed THEN "setle" ELSE "setbe")
      [] op = "GreaterEqual" -> Compared(IF signed THEN "setge" ELSE "setae")
      [] op = "Equal"        -> Compared("sete")
      [] op = "NotEqual"     -> Compared("setne")

FloatOps == [Add |-> "addsd", Sub |-> "subsd", Mul |-> "mulsd", Div |-> "divsd"]
FloatConditions == [Less |-> "setb", Greater |-> "seta", LessEqual |-> "setbe",
                    GreaterEqual |-> "setae", Equal |-> "sete", NotEqual |-> "setne"]
OperateFloat(op) ==
    CASE op \in DOMAIN FloatOps -> <<Emit(<<Ins(FloatOps[op], xmm0, xmm1)>>)>>
      [] op \in DOMAIN FloatConditions ->
            <<Emit(<<Ins("ucomisd", xmm0, xmm1)>> \o Truth(FloatConditions[op]))>>
      [] OTHER -> <<Refuse("float64 binary operator")>>

\* A mutant: the right operand is evaluated first.
OperandsSwapped(n, between, after) ==
    <<Gen(n.right), Emit(between), Gen(n.left), Emit(after)>>

\* The left operand waits on the stack while the right one is evaluated.
Operands(n, between, after) == <<Gen(n.left), Emit(between), Gen(n.right), Emit(after)>>

emitBinaryExpr(n) ==
    LET l == n.left.type
        r == n.right.type
        PushRax == <<Do1("push", rax)>>
        PopRbx  == <<Do1("pop", rbx)>>
    IN  CASE "string" \in {l, r} -> <<Refuse("string binary operators")>>
          [] "float" \in {l, r} ->
                IF l # r THEN <<Refuse("mixed int/float binary expression")>>
                ELSE Operands(n, <<Do1("push", xmm0)>>, <<Mov(xmm1, xmm0), Do1("pop", xmm0)>>)
                         \o OperateFloat(n.op)
          [] "uint" \in {l, r} /\ "float" \notin {l, r} ->
                IF l # r THEN <<Refuse("mixed int/uint binary expression")>>
                ELSE Operands(n, PushRax, PopRbx \o Operate(n.op, FALSE))
          [] {l, r} \subseteq {"int", "bool"} ->
                Operands(n, PushRax, PopRbx \o IF n.op \in ShortCircuitOps
                                               THEN Logic(IF n.op = "And" THEN "and" ELSE "or")
                                               ELSE Operate(n.op, TRUE))
          [] OTHER -> <<Refuse("non-int32/bool binary expression")>>

emitUnaryExpr(n) ==
    LET type == n.operand.type
    IN  <<Gen(n.operand)>> \o
        CASE n.op = "BitNot" ->
                IF type \in {"int", "uint"} THEN <<Emit(<<Do1("not", rax)>>)>>
                ELSE <<Refuse("bitwise not for non-int/uint")>>
          [] n.op = "Neg" ->
                <<Emit(IF type = "float"
                       THEN <<Mov(xmm1, Imm(0)), Ins("subsd", xmm1, xmm0), Mov(xmm0, xmm1)>>
                       ELSE <<Do1("neg", rax)>>)>>
          [] n.op = "Not" -> <<Emit(<<Ins("cmp", rax, Imm(0))>> \o Truth("sete"))>>

Converted(source, target) ==
    CASE source = target   -> <<>>
      [] target = "float" /\ source # "float"  -> <<Ins("cvtsi2sd", xmm0, rax)>>
      [] target \in {"int", "uint"} /\ source = "float" -> <<Ins("cvttsd2si", rax, xmm0)>>
      [] target = "bool" /\ source = "float" ->
            <<Mov(xmm1, Imm(0)), Ins("ucomisd", xmm0, xmm1)>> \o Truth("setne")
      [] target = "bool" /\ source \in {"int", "uint"} ->
            <<Ins("cmp", rax, Imm(0))>> \o Truth("setne")
      [] OTHER -> <<>>
emitCastExpr(n) ==
    IF n.type \in CastTypes /\ n.operand.type \in CastTypes
    THEN <<Gen(n.operand), Emit(Converted(n.operand.type, n.type))>>
    ELSE <<Refuse("cast type")>>

-----------------------------------------------------------------------------
(* Statements.                                                             *)

\* The items up to the first refused one; the method returns there.
UntilRefused(items) ==
    LET refused == {i \in DOMAIN items : items[i].task = "refuse"}
    IN  IF refused = {} THEN items
        ELSE SubSeq(items, 1, CHOOSE i \in refused : \A j \in refused : i <= j)

\* The values of an area, one after the other, each stored at its place.
Filled(nodes, base, types, what) ==
    UntilRefused(FlattenSeq([i \in DOMAIN nodes |->
        IF nodes[i].type \notin types THEN <<Refuse(what)>>
        ELSE <<Gen(nodes[i]), Emit(<<Mov(Frame(base + (i - 1) * 8), rax)>>)>>]))
Cleared(base, size) == <<Emit([i \in 1 .. size |-> Mov(Frame(base + (i - 1) * 8), Imm(0))])>>
Refused(items) == items # <<>> /\ items[Len(items)].task = "refuse"

\* The local of an area holds its address.
AreaAddress(slot) ==
    <<Emit(<<Ins("lea", rax, Frame(areas[slot].base)), Mov(Frame(localOffset(slot)), rax)>>)>>

emitStructLiteralToMemory(literal, base) ==
    Filled(literal.fields, base, {"int", "uint", "bool", "string"}, "struct field type")

DeclareStruct(n) ==
    LET area == areas[n.slot]
    IN  CASE n.init = <<>> -> Cleared(area.base, area.size) \o AreaAddress(n.slot)
          [] n.init # <<>> /\ n.init[1].kind # "structLiteral" ->
                <<Refuse("non-literal struct initializer")>>
          [] OTHER -> emitStructLiteralToMemory(n.init[1], area.base) \o AreaAddress(n.slot)

DeclareArray(n) ==
    LET area   == areas[n.slot]
        values == Filled(n.init[1].elems, area.base, {"int", "bool"}, "array element type")
    IN  CASE n.init = <<>> -> Cleared(area.base, area.size) \o AreaAddress(n.slot)
          [] n.init # <<>> /\ n.init[1].kind # "arrayLiteral" ->
                <<Refuse("non-literal array initializer")>>
          [] n.init # <<>> /\ n.init[1].kind = "arrayLiteral" ->
                CASE Len(n.init[1].elems) # area.size -> <<Refuse("array initializer size mismatch")>>
                  [] Len(n.init[1].elems) = area.size /\ Refused(values) -> values
                  [] OTHER -> values \o AreaAddress(n.slot)

DefaultValue(type, l) ==
    CASE type = "string" -> Ins("lea", rax, l[1])
      [] type = "float"  -> Mov(xmm0, Imm(0))
      [] OTHER           -> Mov(rax, Imm(0))

emitVarDeclStmt(n, l) ==
    CASE n.type \in {"struct", "array"} /\ ~HasArea(n.slot) -> <<Refuse("no stack offset")>>
      [] n.type = "struct" /\ HasArea(n.slot) -> DeclareStruct(n)
      [] n.type = "array" /\ HasArea(n.slot)  -> DeclareArray(n)
      [] n.type \notin Scalars \cup {"struct", "array"} -> <<Refuse("local variable type")>>
      [] OTHER ->
            (IF n.init # <<>> THEN GenAll(n.init) ELSE <<Emit(<<DefaultValue(n.type, l)>>)>>)
                \o <<Emit(<<Mov(Frame(localOffset(n.slot)), Result(n.type))>>)>>

emitAssignStmt(n) ==
    IF n.slot < 0 THEN <<Refuse("assignment without local index")>>
    ELSE <<Gen(n.value), Emit(<<Mov(Frame(localOffset(n.slot)), Result(n.value.type))>>)>>

\* The checked index stays in rbx while the value is evaluated.
emitArrayAssignStmt(n) ==
    IF ~HasArea(n.slot) THEN <<Refuse("array assignment without local index")>>
    ELSE <<Gen(n.index),
           Emit(<<Mov(rbx, rax)>> \o emitArrayBoundsCheck(rbx, areas[n.slot].size)),
           Gen(n.value),
           Emit(ElementAddress(areas[n.slot].base) \o <<Mov(At("rdx"), rax)>>)>>

emitFieldAssignStmt(n) ==
    IF ~HasArea(n.slot) THEN <<Refuse("field assignment without semantic indexes")>>
    ELSE <<Gen(n.value), Emit(<<Mov(Frame(areas[n.slot].base + n.field * 8), rax)>>)>>

\* l: the label of the else branch and of the end.
emitIfStmt(n, l) ==
    <<Gen(n.cond), Emit(<<Ins("cmp", rax, Imm(0)), Do1("je", l[1])>>), Gen(n.then),
      Emit(<<Do1("jmp", l[2]), Do1("label", l[1])>>)>>
        \o GenAll(n.else) \o <<Emit(<<Do1("label", l[2])>>)>>

\* The condition, the exit and the body of a loop, whose context is open
\* around the body only.
LoopBody(n, start, continueLabel, end) ==
    <<Emit(<<Do1("label", start)>>), Gen(n.cond),
      Emit(<<Ins("cmp", rax, Imm(0)), Do1("je", end)>>),
      Item("enterLoop", [breakLabel |-> end, continueLabel |-> continueLabel, body |-> n.body])>>
BackTo(start, end) == <<Emit(<<Do1("jmp", start), Do1("label", end)>>)>>

\* l: the start and the end.
emitWhileStmt(n, l) == LoopBody(n, l[1], l[1], l[2]) \o BackTo(l[1], l[2])

\* The part of emitForStmt behind the initializer.  l: the start, the update
\* and the end.
emitForRounds(n, l) ==
    LoopBody(n, l[1], l[2], l[3]) \o <<Emit(<<Do1("label", l[2])>>)>> \o GenAll(n.update)
        \o BackTo(l[1], l[3])
emitForStmt(n) == GenAll(n.init) \o <<Item("rounds", n)>>

emitReturnStmt(n) ==
    (IF n.value # <<>> THEN GenAll(n.value) ELSE <<Emit(<<Mov(rax, Imm(0))>>)>>)
        \o <<Emit(<<Do1("jmp", endLabel)>>)>>

Formats == [int |-> "int", bool |-> "int", uint |-> "uint", string |-> "str", float |-> "float"]
emitPrintStmt(n) ==
    UntilRefused(FlattenSeq([i \in DOMAIN n.args |->
        LET type == n.args[i].type
        IN  IF type \notin DOMAIN Formats THEN <<Refuse("print of this value type")>>
            ELSE <<Gen(n.args[i]),
                   Emit((IF type = "float" THEN <<>> ELSE <<Mov(rsi, rax)>>)
                            \o <<printf(Formats[type])>>)>>]
        \o <<<<Emit(<<printf("nl")>>)>>>>))

-----------------------------------------------------------------------------
(* emitExpr and emitStmt choose the method by the class of the node.       *)

\* The labels the method for a node makes before it goes on.
Bases(n) ==
    CASE n.kind = "literal" /\ n.type = "string" -> << <<"str">> >>
      [] n.kind = "literal" /\ n.type = "float"  -> << <<"flt">> >>
      [] n.kind = "varDecl" /\ n.type = "string" /\ n.init = <<>> -> << <<"str">> >>
      [] n.kind = "builtin" /\ n.op = "Assert" /\ n.operand.type = "bool" ->
            << Compound("assert", "fail"), Compound("assert", "end"), <<"str">> >>
      [] n.kind = "if"     -> << Compound("if", "else"), Compound("if", "end") >>
      [] n.kind = "while"  -> << Compound("while", "start"), Compound("while", "end") >>
      [] OTHER -> <<>>

\* The message of an assertion that has none of its own.
AssertionFailed == <<0>>

\* emitStringLiteralData and emitFloatLiteralData: what the node adds to data.
Datum(label, text, number) == [label |-> label, text |-> text, number |-> number]
DataOf(n, l) ==
    CASE n.kind = "literal" /\ n.type \in {"string", "float"} -> <<Datum(l[1], n.text, n.value)>>
      [] n.kind = "varDecl" /\ l # <<>> -> <<Datum(l[1], <<>>, 0)>>
      [] n.kind = "builtin" /\ l # <<>> -> <<Datum(l[3], AssertionFailed, 0)>>
      [] OTHER -> <<>>

Simple == {"literal", "variable", "index", "field", "call", "builtin", "binary", "logic", "unary",
           "cast", "block", "varDecl", "assign", "arrayAssign", "fieldAssign", "if", "while",
           "for", "return", "print", "exprStmt"}

Parts(n, l) ==
    CASE n.kind = "literal" /\ n.type \in {"int", "uint"} -> emitIntLiteralExpr(n)
      [] n.kind = "literal" /\ n.type = "bool"   -> emitBoolLiteralExpr(n)
      [] n.kind = "literal" /\ n.type = "float"  -> emitFloatLiteralExpr(n, l)
      [] n.kind = "literal" /\ n.type = "string" -> emitStringLiteralExpr(n, l)
      [] n.kind = "variable"    -> emitVariableExpr(n)
      [] n.kind = "index"       -> emitIndexExpr(n)
      [] n.kind = "field"       -> emitFieldAccessExpr(n)
      [] n.kind = "call"        -> emitCallExpr(n)
      [] n.kind = "builtin"     -> emitBuiltin(n, l)
      [] n.kind \in {"binary", "logic"} -> emitBinaryExpr(n)
      [] n.kind = "unary"       -> emitUnaryExpr(n)
      [] n.kind = "cast"        -> emitCastExpr(n)
      [] n.kind = "block"       -> GenAll(n.stmts)
      [] n.kind = "varDecl"     -> emitVarDeclStmt(n, l)
      [] n.kind = "assign"      -> emitAssignStmt(n)
      [] n.kind = "arrayAssign" -> emitArrayAssignStmt(n)
      [] n.kind = "fieldAssign" -> emitFieldAssignStmt(n)
      [] n.kind = "if"          -> emitIfStmt(n, l)
      [] n.kind = "while"       -> emitWhileStmt(n, l)
      [] n.kind = "for"         -> emitForStmt(n)
      [] n.kind = "return"      -> emitReturnStmt(n)
      [] n.kind = "print"       -> emitPrintStmt(n)
      [] n.kind = "exprStmt"    -> <<Gen(n.expr)>>

Method ==
    /\ Generating(Simple)
    /\ LET l == makeLabels(Bases(Node))
       IN  /\ Then(Parts(Node, l))
           /\ labelCounter' = labelCounter + Len(l)
           /\ data' = data \o DataOf(Node, l)
    /\ UNCHANGED <<program, code, frameVars, loopStack, next, diagnostic>>

\* emitForStmt behind the initializer.
ForRounds ==
    /\ Running("rounds")
    /\ LET l == makeLabels(<< Compound("for", "start"), Compound("for", "update"), Compound("for", "end") >>)
       IN  /\ Then(emitForRounds(Node, l))
           /\ labelCounter' = labelCounter + Len(l)
    /\ UNCHANGED <<program, code, data, frameVars, loopStack, next, diagnostic>>

EmitLines ==
    /\ Running("emit")
    /\ code' = code \o Node
    /\ Then(<<>>)
    /\ UNCHANGED <<program, data, labelCounter, frameVars, loopStack, next, diagnostic>>

EnterLoop ==
    /\ Running("enterLoop")
    /\ loopStack' = Append(loopStack, [breakLabel |-> Node.breakLabel,
                                       continueLabel |-> Node.continueLabel])
    /\ Then(<<Gen(Node.body), Item("leaveLoop", Node.body)>>)
    /\ UNCHANGED <<program, code, data, labelCounter, frameVars, next, diagnostic>>

LeaveLoop ==
    /\ Running("leaveLoop")
    /\ loopStack' = Front(loopStack)
    /\ Then(<<>>)
    /\ UNCHANGED <<program, code, data, labelCounter, frameVars, next, diagnostic>>

\* emitBreakStmt and emitContinueStmt; the analyzer lets a break through that
\* leaves a switch, but a switch is refused before its cases are looked at.
LeaveOrRepeat ==
    /\ Generating({"break", "continue"})
    /\ Then(IF loopStack = <<>> THEN <<Refuse("break or continue outside loop")>>
            ELSE LET loop == Last(loopStack)
                 IN  <<Emit(<<Do1("jmp", IF Node.kind = "break" THEN loop.breakLabel
                                         ELSE loop.continueLabel)>>)>>)
    /\ UNCHANGED <<program, code, data, labelCounter, frameVars, loopStack, next, diagnostic>>

\* The classes neither emitStmt nor emitExpr has a method for.
Unknown ==
    /\ Generating({"switch", "input", "arrayLiteral", "structLiteral"})
    /\ Then(<<Refuse("this statement or expression")>>)
    /\ UNCHANGED <<program, code, data, labelCounter, frameVars, loopStack, next, diagnostic>>

\* setDiagnostic: the first message stays.
SetDiagnostic ==
    /\ Running("refuse")
    /\ diagnostic' = IF diagnostic = "" THEN Node ELSE diagnostic
    /\ Then(<<>>)
    /\ UNCHANGED <<program, code, data, labelCounter, frameVars, loopStack, next>>

-----------------------------------------------------------------------------
(* Functions.                                                              *)

NotReturned(f) == f.returnType \notin {"int", "uint", "float"}
Function == program[next + 1]

\* A function the generator does not support is left out of the file.
RefuseFunction ==
    /\ work = <<>>
    /\ next < Len(program)
    /\ NotReturned(Function) \/ NotPassed(Function.paramTypes)
    /\ next' = next + 1
    /\ Then(<<Refuse("function return or parameter type")>>)
    /\ UNCHANGED <<program, code, data, labelCounter, frameVars, loopStack, diagnostic>>

StartFunction ==
    /\ work = <<>>
    /\ next < Len(program)
    /\ ~NotReturned(Function) /\ ~NotPassed(Function.paramTypes)
    /\ areas' = <<>>
    /\ stackSize' = Function.localCount * 8
    /\ Then(CollectAll(Function.body) \o <<Item("prologue", Function)>> \o GenAll(Function.body)
                \o <<Item("epilogue", Function)>>)
    /\ next' = next + 1
    /\ UNCHANGED <<program, code, data, labelCounter, endLabel, loopStack, diagnostic>>

\* The statements inside a statement.
Inner(n) ==
    CASE n.kind = "block"  -> n.stmts
      [] n.kind = "if"     -> <<n.then>> \o n.else
      [] n.kind = "while"  -> <<n.body>>
      [] n.kind = "for"    -> n.init \o n.update \o <<n.body>>
      [] n.kind = "switch" -> FlattenSeq([i \in DOMAIN n.cases |-> n.cases[i].stmts]) \o n.default
      [] OTHER -> <<>>

DeclaresArea(n) == n.kind = "varDecl" /\ n.type \in {"array", "struct"}

CollectInner ==
    /\ Running("collect")
    /\ ~DeclaresArea(Node)
    /\ Then(CollectAll(Inner(Node)))
    /\ UNCHANGED <<program, code, data, labelCounter, frameVars, loopStack, next, diagnostic>>

\* collectArrayLocalsInStmt on the declaration of an array or a struct.
CollectArea ==
    /\ Running("collect")
    /\ DeclaresArea(Node)
    /\ IF Node.slot < 0 \/ (Node.type = "array" /\ Node.size <= 0)
       THEN /\ Then(<<Refuse("invalid local variable")>>)
            /\ UNCHANGED <<areas, stackSize>>
       ELSE /\ areas' = [s \in DOMAIN areas \cup {Node.slot} |->
                            IF s = Node.slot THEN [base |-> stackSize + 8, size |-> Node.size]
                            ELSE areas[s]]
            /\ stackSize' = stackSize + Node.size * 8
            /\ Then(<<>>)
    /\ UNCHANGED <<program, code, data, labelCounter, endLabel, loopStack, next, diagnostic>>

\* What the label of a function's end begins with.
EndBase(path) == mangleFunctionName(path) \o <<Underscore, "end">>

\* The parameters are the first locals.
Prologue ==
    /\ Running("prologue")
    /\ LET f == Node
           size == Rounded(stackSize)
       IN  /\ stackSize' = size
           /\ endLabel' = Label(EndBase(f.path), labelCounter)
           /\ code' = code
                \o <<Do1("label", FunctionLabel(f.path)), Do1("push", rbp), Mov(rbp, rsp)>>
                \o (IF size > 0 THEN <<Ins("sub", rsp, Imm(size))>> ELSE <<>>)
                \o [i \in DOMAIN f.paramTypes |->
                        Mov(Frame(localOffset(i - 1)), RegisterFor(f.paramTypes, i))]
    /\ labelCounter' = labelCounter + 1
    /\ Then(<<>>)
    /\ UNCHANGED <<program, data, areas, loopStack, next, diagnostic>>

Epilogue ==
    /\ Running("epilogue")
    /\ code' = code \o <<Mov(Result(Node.returnType), Imm(0)), Do1("label", endLabel),
                         Do("leave"), Do("ret")>>
    /\ Then(<<>>)
    /\ UNCHANGED <<program, data, labelCounter, frameVars, loopStack, next, diagnostic>>

-----------------------------------------------------------------------------
(* The whole generator.                                                    *)

\* generate writes the two handlers of run time errors first.
Handlers ==
    <<Do1("label", BoundsError), printf("bounds"), Do1("exit", Imm(1)),
      Do1("label", ShiftError), printf("shift"), Do1("exit", Imm(1))>>

Init ==
    /\ program \in Programs
    /\ code = Handlers
    /\ data = <<>>
    /\ labelCounter = 0
    /\ areas = <<>>
    /\ stackSize = 0
    /\ endLabel = Label(<<>>, Unnumbered)
    /\ loopStack = <<>>
    /\ next = 0
    /\ work = <<>>
    /\ diagnostic = ""

Next ==
    \/ Method \/ ForRounds \/ EmitLines \/ EnterLoop \/ LeaveLoop \/ LeaveOrRepeat \/ Unknown
    \/ SetDiagnostic \/ RefuseFunction \/ StartFunction \/ CollectInner \/ CollectArea \/ Prologue \/ Epilogue

Spec     == Init /\ [][Next]_vars
FairSpec == Spec /\ WF_vars(Next)

-----------------------------------------------------------------------------
(* The programs whose labels can be right.                                 *)

\* The programs for which labels can be right, over expressions E and statements
\* S: trees as the analyzer leaves them, names cut into symbols as the texts of labels
\* are, calls of functions of the program and not of toInt, and functions whose
\* mangled names differ from each other, from the handlers' and from every label
\* that can be made for the end of a function; the generator looks after none of
\* these names.
TreesOf(p, E, S) ==
    /\ ExprClosed(E)
    /\ StmtClosed(S, E)
    /\ \A e \in E : e.kind = "logic" => e.left.type = "bool" /\ e.right.type = "bool"
    /\ p \in Seq({p[i] : i \in DOMAIN p})
    /\ \A i \in DOMAIN p :
          /\ p[i].path \in Seq(STRING)
          /\ p[i].returnType \in Types
          /\ p[i].paramTypes \in Seq(Types)
          /\ p[i].localCount \in Nat
          /\ p[i].body \in Seq(S)

\* The text is the base, "_" and digits.
IsNumbered(text, base) ==
    /\ Len(text) > Len(base) + 1
    /\ SubSeq(text, 1, Len(base) + 1) = Append(base, Underscore)
    /\ \A i \in Len(base) + 2 .. Len(text) : text[i] \in Range(Digits)

Resolvable(p, E, S) ==
    /\ TreesOf(p, E, S)
    /\ \A e \in E :
          /\ e.kind = "call" => e.function + 1 \in DOMAIN p
          /\ e.kind = "builtin" => e.op # "ToInt"
    /\ \A i \in DOMAIN p :
          LET label == FunctionLabel(p[i].path)
          IN  /\ label \notin {BoundsError, ShiftError}
              /\ \A j \in DOMAIN p :
                    /\ FunctionLabel(p[j].path) = label => j = i
                    /\ ~IsNumbered(label.name, EndBase(p[j].path))
=============================================================================
