------------------------------ MODULE Bytecode ------------------------------
(***************************************************************************)
(* The bytecode that the generator hands to the machine                    *)
(* (src/include/bytecode.hpp): code, a table of functions, and the index   *)
(* of the one to start.  Addresses and function indexes count from 0.      *)
(***************************************************************************)
EXTENDS Integers, Sequences

OpCode ==
    {"PushInt", "PushUInt", "PushFloat", "PushBool", "PushString", "PushVoid",
     "Load", "Store", "Pop", "MakeArray", "LoadIndex", "StoreIndex",
     "MakeStruct", "LoadField", "StoreField",
     "Add", "Sub", "Mul", "Div", "Mod", "BitAnd", "BitOr", "BitXor", "BitNot",
     "ShiftLeft", "ShiftRight", "Neg", "Not",
     "CastInt", "CastUInt", "CastFloat", "CastBool",
     "Equal", "NotEqual", "Less", "Greater", "LessEqual", "GreaterEqual",
     "Jump", "JumpIfFalse", "JumpIfTrue",
     "Call", "Input", "Exit", "Panic", "Assert", "Len", "ToInt", "Print", "Ret"}

Jumps == {"Jump", "JumpIfFalse", "JumpIfTrue"}

ReturnTypes == {"int", "uint", "float", "bool", "string", "array", "struct", "generic", "void"}

\* Whether an address lies in the code of a function: not before its start,
\* and before that of any function behind it.
InFunction(b, a, f) ==
    LET start(g) == b.functions[g].address
    IN  /\ a >= start(f + 1)
        /\ \A g \in DOMAIN b.functions : start(g) > start(f + 1) => a < start(g)

Addresses(b) == 0 .. Len(b.code) - 1
Functions(b) == 0 .. Len(b.functions) - 1

\* Control goes from one function to another by calls and returns only.
StaysInFunctions(b) ==
    \A f \in Functions(b) : \A a \in Addresses(b) :
        LET ins == b.code[a + 1]
            Stays(target) == target \in Addresses(b) /\ InFunction(b, target, f)
        IN  InFunction(b, a, f) =>
                /\ ins.op # "Ret" => Stays(a + 1)
                /\ ins.op \in Jumps => Stays(ins.arg)

\* What the machine may rely on.
IsBytecode(b) ==
    /\ b.code \in Seq([op : OpCode, arg : Int, arg2 : Int, text : Seq(Nat)])
    /\ b.functions \in Seq([address : Addresses(b), params : Nat, locals : Nat,
                            returnType : ReturnTypes])
    /\ \A f \in DOMAIN b.functions : b.functions[f].params <= b.functions[f].locals
    /\ b.entry \in Functions(b)
    /\ StaysInFunctions(b)

\* All of it.
AnyBytecode ==
    {b \in [code : Seq([op : OpCode, arg : Int, arg2 : Int, text : Seq(Nat)]),
            functions : Seq([address : Nat, params : Nat, locals : Nat, returnType : ReturnTypes]),
            entry : Nat] : IsBytecode(b)}
=============================================================================
