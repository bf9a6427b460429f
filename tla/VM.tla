--------------------------------- MODULE VM ---------------------------------
(***************************************************************************)
(* The stack machine of MiniLang (src/vm.cpp, class VM): an operand stack  *)
(* shared by all calls, a stack of call frames with their local slots, a   *)
(* heap of shared arrays and structs, and an instruction pointer.  Each    *)
(* action is one trip through the loop of VM::run for one kind of opcode;  *)
(* Throw is the trip on which a RuntimeError leaves that loop.             *)
(*                                                                         *)
(* Addresses and function indexes count from 0, as in the code, while TLA+ *)
(* sequences count from 1.                                                 *)
(***************************************************************************)
EXTENDS Values, Control

CONSTANTS
    Bytecodes,    \* what the generator may hand over
    InputLines,   \* lines the environment may type
    MaxInputs     \* after that many lines standard input is at its end

\* The generator hands out nothing else (HandsOutBytecode in CodegenProofs).
ASSUME BytecodesAssumption == \A b \in Bytecodes : IsBytecode(b)

ASSUME InputAssumption ==
    /\ InputLines \subseteq Seq(Nat)
    /\ MaxInputs \in Nat

VARIABLES
    stack,        \* stack_: the operands, the last one on top
    heap,         \* the objects behind the shared pointers
    returnCode,   \* returnCode_
    input,        \* the lines read so far from std::cin
    output,       \* the lines written so far to std::cout
    bases         \* history: the operand height at which each open call began

vars == <<bytecode, stack, frames, heap, ip, running, returnCode, error,
          input, output, bases>>

code      == bytecode.code
functions == bytecode.functions

\* The instruction at ip; only used when ip is inside the code.
Instruction  == code[ip + 1]
locals       == currentFrame.locals

-----------------------------------------------------------------------------
(* Values behind references.                                               *)

\* Two elements are equal when they are equal scalars or references to
\* objects already known to be equal.  Values without content never are.
ElementsEqual(pairs, v, w) ==
    /\ v.type = w.type
    /\ v.type # "void"
    /\ IF IsReference(v) THEN <<v.data, w.data>> \in pairs ELSE v.data = w.data

\* Pairs of references whose objects agree down to a given depth.
EqualObjects[depth \in Nat] ==
    IF depth = 0 THEN (DOMAIN heap) \X (DOMAIN heap)
    ELSE LET shallower == EqualObjects[depth - 1]
             Agree(a, b) ==
                 /\ a.name = b.name
                 /\ Len(a.elems) = Len(b.elems)
                 /\ \A i \in DOMAIN a.elems : ElementsEqual(shallower, a.elems[i], b.elems[i])
         IN  {p \in shallower : Agree(heap[p[1]], heap[p[2]])}

valuesEqual(v, w) ==
    ElementsEqual(IF IsReference(v) THEN EqualObjects[Len(heap)] ELSE {}, v, w)

\* References from which a path of a given length leads through the heap.  A
\* path as long as the heap is large means a cycle: recursion over it overflows.
Deep[depth \in Nat] ==
    IF depth = 0 THEN DOMAIN heap
    ELSE LET shallower == Deep[depth - 1]
         IN  {r \in shallower : \E i \in DOMAIN heap[r].elems :
                 /\ IsReference(heap[r].elems[i])
                 /\ heap[r].elems[i].data \in shallower}

Endless(v) == IsReference(v) /\ v.data \in Deep[Len(heap)]

\* What PRINT shows of each object: its contents, down to a given depth.
Shown[depth \in Nat] ==
    IF depth = 0 THEN heap
    ELSE LET deeper == Shown[depth - 1]
             Show(v) == IF IsReference(v) THEN deeper[v.data] ELSE v
         IN  [r \in DOMAIN heap |->
                 [heap[r] EXCEPT !.elems = [i \in DOMAIN @ |-> Show(@[i])]]]

valueToString(v) == IF IsReference(v) THEN Shown[Len(heap)][v.data] ELSE v

-----------------------------------------------------------------------------
(* The operand stack.                                                      *)

\* The i-th operand below the top (the top is Operand(0)), and what is left
\* when the n upper ones are popped.
Operand(i)   == stack[Len(stack) - i]
Below(n)     == SubSeq(stack, 1, Len(stack) - n)
\* The n upper operands, in the order they were pushed.
Arguments(n) == SubSeq(stack, Len(stack) - n + 1, Len(stack))

IndexOps  == {"LoadIndex", "StoreIndex"}
FieldOps  == {"LoadField", "StoreField"}
ArithOps  == {"Add", "Sub", "Mul", "Div", "Mod"}
OrderOps  == {"Less", "Greater", "LessEqual", "GreaterEqual"}
BitOps    == {"BitAnd", "BitOr", "BitXor"}
ShiftOps  == {"ShiftLeft", "ShiftRight"}
EqualOps  == {"Equal", "NotEqual"}
CastOps   == {"CastInt", "CastUInt", "CastFloat", "CastBool"}
JumpIfOps == {"JumpIfFalse", "JumpIfTrue"}
PushOps   == {"PushInt", "PushUInt", "PushFloat", "PushBool", "PushString", "PushVoid"}
BinaryOps == ArithOps \cup OrderOps \cup BitOps \cup ShiftOps \cup EqualOps

\* A local index of -1 makes LOAD_INDEX and STORE_INDEX pop the array.
FromStack(ins) == ins.op \in IndexOps /\ ins.arg < 0

\* The operands an instruction pops.
Pops(ins) ==
    CASE ins.op \in BinaryOps -> 2
      [] ins.op \in {"Print", "MakeArray", "MakeStruct"} -> ins.arg
      [] ins.op = "Call" -> functions[ins.arg + 1].params
      [] ins.op = "LoadIndex"  -> IF FromStack(ins) THEN 2 ELSE 1
      [] ins.op = "StoreIndex" -> IF FromStack(ins) THEN 3 ELSE 2
      [] ins.op \in PushOps \cup {"Load", "LoadField", "Jump", "Input"} -> 0
      [] OTHER -> 1

\* The array an index instruction works on, and the index it applies.
IndexedArray(ins) ==
    IF FromStack(ins) THEN Operand(Pops(ins) - 1) ELSE locals[ins.arg + 1]
IndexOperand(ins) == IF ins.op = "StoreIndex" THEN Operand(1) ELSE Operand(0)
Element(ins)      == heap[IndexedArray(ins).data].elems
FieldObject(ins)  == heap[locals[ins.arg + 1].data].elems

-----------------------------------------------------------------------------
(* Errors.  Fault is the message of the RuntimeError the next trip through *)
(* the loop raises, or "" when it raises none.                             *)

\* The result of the instructions that only combine their operands.
Result(ins) ==
    CASE ins.op = "Add" -> Add(Operand(1), Operand(0))
      [] ins.op = "Sub" -> Sub(Operand(1), Operand(0))
      [] ins.op = "Mul" -> Mul(Operand(1), Operand(0))
      [] ins.op = "Div" -> Div(Operand(1), Operand(0))
      [] ins.op = "Mod" -> Mod(Operand(1), Operand(0))
      [] ins.op = "Equal"      -> MakeBool(valuesEqual(Operand(1), Operand(0)))
      [] ins.op = "NotEqual"   -> MakeBool(~valuesEqual(Operand(1), Operand(0)))
      [] ins.op \in OrderOps   -> Compare(ins.op, Operand(1), Operand(0))
      [] ins.op \in BitOps     -> Bitwise(ins.op, Operand(1), Operand(0))
      [] ins.op \in ShiftOps   -> Shift(ins.op, Operand(1), Operand(0))
      [] ins.op \in CastOps    -> Cast(ins.op, Operand(0))
      [] ins.op = "BitNot"     -> BitNot(Operand(0))
      [] ins.op = "Neg"        -> Neg(Operand(0))
      [] ins.op = "Not"        -> Not(Operand(0))
      [] ins.op = "ToInt"      -> ToInt(Operand(0))
      [] ins.op = "Len" ->
            CASE Operand(0).type = "string" -> MakeInt(WrapInt(Len(Operand(0).data)))
              [] Operand(0).type = "array"  ->
                    MakeInt(WrapInt(Len(heap[Operand(0).data].elems)))
              [] OTHER -> Error("operand types")
      [] OTHER -> MakeVoid

Raise(condition, message) == IF condition THEN message ELSE ""

LocalMissing(ins) ==
    /\ ins.op \in {"Load", "Store"} \cup FieldOps \cup IndexOps
    /\ ~FromStack(ins)
    /\ ins.arg \notin 0 .. Len(locals) - 1

IndexFault(ins) ==
    IF IndexOperand(ins).type # "int" \/ IndexedArray(ins).type # "array" THEN "operand types"
    ELSE Raise(IndexOperand(ins).data \notin 0 .. Len(Element(ins)) - 1,
               "array index out of bounds")

FieldFault(ins) ==
    IF locals[ins.arg + 1].type # "struct" THEN "field of a value that is no struct"
    ELSE Raise(ins.arg2 \notin 0 .. Len(FieldObject(ins)) - 1,
               "struct field index out of bounds")

CallFault(ins) ==
    IF ins.arg \notin 0 .. Len(functions) - 1 THEN "invalid function index"
    ELSE IF functions[ins.arg + 1].address < 0 THEN "function has invalid address"
    ELSE Raise(functions[ins.arg + 1].params > Len(stack), "stack underflow")

\* Whether the next trip follows the target of a jump.
Taken(ins) ==
    \/ ins.op = "Jump"
    \/ ins.op = "JumpIfFalse" /\ ~IsTrue(Operand(0))
    \/ ins.op = "JumpIfTrue" /\ IsTrue(Operand(0))

JumpFault(ins) ==
    IF ins.op # "Jump" /\ Operand(0).type # "bool" THEN "operand types"
    ELSE Raise(Taken(ins) /\ ins.arg \notin 0 .. Len(code), "invalid jump address")

OperandFault(ins) ==
    CASE ins.op \in IndexOps -> IndexFault(ins)
      [] ins.op \in FieldOps -> FieldFault(ins)
      [] ins.op \in JumpIfOps \cup {"Jump"} -> JumpFault(ins)
      [] ins.op = "Assert" -> IF Operand(0).type # "bool" THEN "operand types"
                              ELSE Raise(~IsTrue(Operand(0)), "assertion failed")
      [] ins.op = "Panic"  -> IF Operand(0).type = "string" THEN "panic" ELSE "operand types"
      [] ins.op = "Exit"   -> Raise(Operand(0).type # "int", "operand types")
      [] ins.op = "Ret"    -> Raise(Len(frames) = 1 /\ Operand(0).type # "int", "RET from main")
      [] ins.op \in EqualOps ->
            Raise(/\ Endless(Operand(0)) /\ Endless(Operand(1))
                  /\ valuesEqual(Operand(0), Operand(1)), "SIGSEGV")
      [] ins.op = "Print"  -> Raise(\E i \in 0 .. ins.arg - 1 : Endless(Operand(i)), "SIGSEGV")
      [] OTHER -> IF IsError(Result(ins)) THEN Result(ins).data ELSE ""

Fault ==
    IF ip = Len(code) THEN "program reached end without return"
    ELSE IF ip \notin 0 .. Len(code) THEN "instruction pointer out of range"
    ELSE IF LocalMissing(Instruction) THEN "invalid local variable index"
    ELSE IF Instruction.op = "Call" THEN CallFault(Instruction)
    ELSE IF Pops(Instruction) \notin 0 .. Len(stack) THEN "stack underflow"
    ELSE OperandFault(Instruction)

-----------------------------------------------------------------------------
(* VM::run.                                                                *)

NewLocals(f) == [i \in 1 .. functions[f + 1].locals |-> MakeInt(0)]

NoBytecode == [code |-> <<>>, functions |-> <<>>, entry |-> -1]

\* A VM that has not run yet.
Init ==
    /\ bytecode = NoBytecode
    /\ stack = <<>>
    /\ frames = <<>>
    /\ heap = <<>>
    /\ ip = 0
    /\ running = FALSE
    /\ returnCode = 0
    /\ error = ""
    /\ input = <<>>
    /\ output = <<>>
    /\ bases = <<>>

\* VM::run up to its loop.  The generator never returns a program whose entry
\* these two guards reject (Accepted in Codegen).
Run(b) ==
    /\ bytecode = NoBytecode
    /\ b.entry \in 0 .. Len(b.functions) - 1
    /\ LET main == b.functions[b.entry + 1]
       IN  /\ main.address >= 0
           /\ frames' = <<[functionIndex |-> b.entry, returnIp |-> -1,
                           locals |-> [i \in 1 .. main.locals |-> MakeInt(0)]]>>
           /\ ip' = main.address
    /\ bytecode' = b
    /\ stack' = <<>>
    /\ running' = TRUE
    /\ returnCode' = 0
    /\ bases' = <<0>>
    /\ UNCHANGED <<heap, error, input, output>>

\* The loop reaches an instruction of this kind, and it will not throw.
Executing(ops) ==
    /\ running
    /\ ip \in 0 .. Len(code) - 1
    /\ Instruction.op \in ops
    /\ Fault = ""

\* Pop n operands, push one value, and go on with the next instruction.
Replace(n, v) == stack' = Append(Below(n), v) /\ ip' = ip + 1

\* A mutant: the error is noted, and the loop goes on.
ThrowGoesOn ==
    /\ running
    /\ Fault # ""
    /\ error' = Fault
    /\ UNCHANGED <<bytecode, stack, frames, heap, ip, running, returnCode, input, output, bases>>

Throw ==
    /\ running
    /\ Fault # ""
    /\ error' = Fault
    /\ running' = FALSE
    /\ UNCHANGED <<bytecode, stack, frames, heap, ip, returnCode, input, output, bases>>

\* The operand of PUSH_INT is an int, that of PUSH_UINT an int cast to uint.
PushConstant ==
    /\ Executing(PushOps)
    /\ Replace(0, CASE Instruction.op = "PushInt"    -> MakeInt(WrapInt(Instruction.arg))
                    [] Instruction.op = "PushUInt"   -> MakeUInt(WrapUInt(Instruction.arg))
                    [] Instruction.op = "PushFloat"  -> MakeFloat(Instruction.arg)
                    [] Instruction.op = "PushBool"   -> MakeBool(Instruction.arg # 0)
                    [] Instruction.op = "PushString" -> MakeString(Instruction.text)
                    [] OTHER                         -> MakeVoid)
    /\ UNCHANGED <<bytecode, frames, heap, running, returnCode, error, input, output, bases>>

Load ==
    /\ Executing({"Load"})
    /\ Replace(0, locals[Instruction.arg + 1])
    /\ UNCHANGED <<bytecode, frames, heap, running, returnCode, error, input, output, bases>>

\* A mutant: the first frame instead of the current one.
StoreInFirstFrame ==
    /\ Executing({"Store"})
    /\ frames' = [frames EXCEPT ![1].locals[Instruction.arg + 1] = Operand(0)]
    /\ stack' = Below(1)
    /\ ip' = ip + 1
    /\ UNCHANGED <<bytecode, heap, running, returnCode, error, input, output, bases>>

Store ==
    /\ Executing({"Store"})
    /\ frames' = [frames EXCEPT ![Len(frames)].locals[Instruction.arg + 1] = Operand(0)]
    /\ stack' = Below(1)
    /\ ip' = ip + 1
    /\ UNCHANGED <<bytecode, heap, running, returnCode, error, input, output, bases>>

Pop ==
    /\ Executing({"Pop"})
    /\ stack' = Below(1)
    /\ ip' = ip + 1
    /\ UNCHANGED <<bytecode, frames, heap, running, returnCode, error, input, output, bases>>

\* Operators, casts, comparisons, toInt and len: operands in, result out.
Compute ==
    /\ Executing(BinaryOps \cup CastOps \cup {"BitNot", "Neg", "Not", "ToInt", "Len"})
    /\ Replace(Pops(Instruction), Result(Instruction))
    /\ UNCHANGED <<bytecode, frames, heap, running, returnCode, error, input, output, bases>>

MakeArray ==
    /\ Executing({"MakeArray"})
    /\ heap' = Append(heap, [name |-> <<>>, elems |-> Arguments(Instruction.arg)])
    /\ Replace(Instruction.arg, ArrayRef(Len(heap) + 1))
    /\ UNCHANGED <<bytecode, frames, running, returnCode, error, input, output, bases>>

MakeStruct ==
    /\ Executing({"MakeStruct"})
    /\ heap' = Append(heap, [name |-> Instruction.text, elems |-> Arguments(Instruction.arg)])
    /\ Replace(Instruction.arg, StructRef(Len(heap) + 1))
    /\ UNCHANGED <<bytecode, frames, running, returnCode, error, input, output, bases>>

LoadIndex ==
    /\ Executing({"LoadIndex"})
    /\ Replace(Pops(Instruction), Element(Instruction)[IndexOperand(Instruction).data + 1])
    /\ UNCHANGED <<bytecode, frames, heap, running, returnCode, error, input, output, bases>>

StoreIndex ==
    /\ Executing({"StoreIndex"})
    /\ heap' = [heap EXCEPT ![IndexedArray(Instruction).data]
                              .elems[IndexOperand(Instruction).data + 1] = Operand(0)]
    /\ stack' = Below(Pops(Instruction))
    /\ ip' = ip + 1
    /\ UNCHANGED <<bytecode, frames, running, returnCode, error, input, output, bases>>

LoadField ==
    /\ Executing({"LoadField"})
    /\ Replace(0, FieldObject(Instruction)[Instruction.arg2 + 1])
    /\ UNCHANGED <<bytecode, frames, heap, running, returnCode, error, input, output, bases>>

StoreField ==
    /\ Executing({"StoreField"})
    /\ heap' = [heap EXCEPT ![locals[Instruction.arg + 1].data]
                              .elems[Instruction.arg2 + 1] = Operand(0)]
    /\ stack' = Below(1)
    /\ ip' = ip + 1
    /\ UNCHANGED <<bytecode, frames, running, returnCode, error, input, output, bases>>

Jump ==
    /\ Executing({"Jump"})
    /\ ip' = Instruction.arg
    /\ UNCHANGED <<bytecode, stack, frames, heap, running, returnCode, error, input,
                   output, bases>>

\* A mutant: the condition is read with peek.
JumpIfPeeks ==
    /\ Executing(JumpIfOps)
    /\ ip' = IF Taken(Instruction) THEN Instruction.arg ELSE ip + 1
    /\ UNCHANGED <<bytecode, stack, frames, heap, running, returnCode, error, input, output, bases>>

JumpIf ==
    /\ Executing(JumpIfOps)
    /\ stack' = Below(1)
    /\ ip' = IF Taken(Instruction) THEN Instruction.arg ELSE ip + 1
    /\ UNCHANGED <<bytecode, frames, heap, running, returnCode, error, input, output, bases>>

\* A mutant: the frame has room for the arguments only.
CallWithoutLocals ==
    /\ Executing({"Call"})
    /\ LET f == Instruction.arg
           n == functions[f + 1].params
       IN  /\ frames' = Append(frames,
                 [functionIndex |-> f, returnIp |-> ip + 1, locals |-> Arguments(n)])
           /\ stack' = Below(n)
           /\ bases' = Append(bases, Len(stack) - n)
           /\ ip' = functions[f + 1].address
    /\ UNCHANGED <<bytecode, heap, running, returnCode, error, input, output>>

\* A mutant: the call returns to where the caller's caller goes on.
CallReturnsTooFar ==
    /\ Executing({"Call"})
    /\ LET f == Instruction.arg
           n == functions[f + 1].params
           arguments == Arguments(n)
       IN  /\ frames' = Append(frames,
                 [functionIndex |-> f,
                  returnIp |-> IF Len(frames) > 1 THEN currentFrame.returnIp ELSE ip + 1,
                  locals |-> [i \in DOMAIN NewLocals(f) |->
                                 IF i <= n THEN arguments[i] ELSE NewLocals(f)[i]]])
           /\ stack' = Below(n)
           /\ bases' = Append(bases, Len(stack) - n)
           /\ ip' = functions[f + 1].address
    /\ UNCHANGED <<bytecode, heap, running, returnCode, error, input, output>>

\* A mutant: as many operands are popped as the callee has locals.
CallPopsLocals ==
    /\ Executing({"Call"})
    /\ LET f == Instruction.arg
           n == functions[f + 1].params
           arguments == Arguments(n)
       IN  /\ frames' = Append(frames,
                 [functionIndex |-> f, returnIp |-> ip + 1,
                  locals |-> [i \in DOMAIN NewLocals(f) |->
                                 IF i <= n THEN arguments[i] ELSE NewLocals(f)[i]]])
           /\ stack' = Below(functions[f + 1].locals)
           /\ bases' = Append(bases, Len(stack) - n)
           /\ ip' = functions[f + 1].address
    /\ UNCHANGED <<bytecode, heap, running, returnCode, error, input, output>>

\* The arguments move from the operand stack to the first locals of the callee.
Call ==
    /\ Executing({"Call"})
    /\ LET f == Instruction.arg
           n == functions[f + 1].params
           arguments == Arguments(n)
       IN  /\ frames' = Append(frames,
                 [functionIndex |-> f, returnIp |-> ip + 1,
                  locals |-> [i \in DOMAIN NewLocals(f) |->
                                 IF i <= n THEN arguments[i] ELSE NewLocals(f)[i]]])
           /\ stack' = Below(n)
           /\ bases' = Append(bases, Len(stack) - n)
           /\ ip' = functions[f + 1].address
    /\ UNCHANGED <<bytecode, heap, running, returnCode, error, input, output>>

\* RET hands its operand to the caller; the one of main ends the run.  The
\* operands below it stay where they are.
ReturnToCaller ==
    /\ Executing({"Ret"})
    /\ Len(frames) > 1
    /\ ip' = currentFrame.returnIp
    /\ frames' = SubSeq(frames, 1, Len(frames) - 1)
    /\ bases' = SubSeq(bases, 1, Len(bases) - 1)
    /\ UNCHANGED <<bytecode, stack, heap, running, returnCode, error, input, output>>

ReturnFromMain ==
    /\ Executing({"Ret"})
    /\ Len(frames) = 1
    /\ returnCode' = Operand(0).data
    /\ stack' = Below(1)
    /\ frames' = <<>>
    /\ bases' = <<>>
    /\ running' = FALSE
    /\ ip' = ip + 1
    /\ UNCHANGED <<bytecode, heap, error, input, output>>

Exit ==
    /\ Executing({"Exit"})
    /\ returnCode' = Operand(0).data
    /\ stack' = Below(1)
    /\ frames' = <<>>
    /\ bases' = <<>>
    /\ running' = FALSE
    /\ ip' = ip + 1
    /\ UNCHANGED <<bytecode, heap, error, input, output>>

Assert ==
    /\ Executing({"Assert"})
    /\ stack' = Below(1)
    /\ ip' = ip + 1
    /\ UNCHANGED <<bytecode, frames, heap, running, returnCode, error, input, output, bases>>

\* std::getline: some line, or the empty one at the end of standard input.
Input ==
    /\ Executing({"Input"})
    /\ \E line \in IF Len(input) < MaxInputs THEN InputLines ELSE {<<>>} :
          /\ Replace(0, MakeString(line))
          /\ input' = Append(input, line)
    /\ UNCHANGED <<bytecode, frames, heap, running, returnCode, error, output, bases>>

WriteLine ==
    /\ Executing({"Print"})
    /\ output' = Append(output, [i \in 1 .. Instruction.arg |->
                                    valueToString(Arguments(Instruction.arg)[i])])
    /\ stack' = Below(Instruction.arg)
    /\ ip' = ip + 1
    /\ UNCHANGED <<bytecode, frames, heap, running, returnCode, error, input, bases>>

\* The dispatch of VM::execute.
execute ==
    \/ Throw \/ PushConstant \/ Load \/ Store \/ Pop \/ Compute
    \/ MakeArray \/ MakeStruct \/ LoadIndex \/ StoreIndex \/ LoadField \/ StoreField
    \/ Jump \/ JumpIf \/ Call \/ ReturnToCaller \/ ReturnFromMain
    \/ Exit \/ Assert \/ Input \/ WriteLine

Next == (\E b \in Bytecodes : Run(b)) \/ execute

Spec == Init /\ [][Next]_vars

-----------------------------------------------------------------------------
(* Properties.                                                             *)

Messages == OperationErrors \cup ControlErrors \cup
    {"invalid local variable index", "stack underflow", "invalid function index",
     "array index out of bounds", "field of a value that is no struct",
     "struct field index out of bounds", "assertion failed", "panic", "RET from main", "SIGSEGV"}

\* What a slot can hold; the object behind a reference exists.
Value == Scalars \cup [type : {"array", "struct"}, data : 1 .. Len(heap)]

TypeOK ==
    /\ bytecode \in Bytecodes \cup {NoBytecode}
    /\ stack \in Seq(Value)
    /\ heap \in Seq([name : Seq(Nat), elems : Seq(Value)])
    /\ frames \in Seq([functionIndex : Functions(bytecode), returnIp : -1 .. Len(code),
                       locals : Seq(Value)])
    /\ \A d \in DOMAIN frames :
           Len(frames[d].locals) = functions[frames[d].functionIndex + 1].locals
    /\ ip \in 0 .. Len(code)
    /\ running \in BOOLEAN
    /\ running => frames # <<>>
    /\ returnCode \in IntRange
    /\ error \in Messages \cup {""}
    /\ input \in Seq(Seq(Nat))
    /\ bases \in Seq(Nat)
    /\ Len(bases) = Len(frames)

\* Every open call but that of main will come back behind the CALL that made
\* it: a call of this very function, in the code of its caller.
ReturnsToItsCall ==
    \A d \in DOMAIN frames :
        IF d = 1 THEN frames[d].returnIp = -1
        ELSE /\ frames[d].returnIp \in 1 .. Len(code)
             /\ code[frames[d].returnIp].op = "Call"
             /\ code[frames[d].returnIp].arg = frames[d].functionIndex
             /\ Inside(frames[d].returnIp - 1, frames[d - 1].functionIndex)

\* While a call runs, the locals of its callers are out of reach, and when it
\* returns its caller finds them as it left them.
CallersFrozen ==
    [][ frames # <<>> /\ frames' # <<>> =>
          \A d \in 1 .. Len(frames) - 1 : d \in DOMAIN frames' /\ frames'[d] = frames[d] ]_vars

=============================================================================
