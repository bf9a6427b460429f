-------------------------------- MODULE X86 --------------------------------
(***************************************************************************)
(* The part of an x86-64 machine and of its C library that the generated   *)
(* assembly uses: registers, a stack in memory that grows downwards, and   *)
(* printf and exit.  Nothing of it is in the repository; it is modelled    *)
(* from the instructions src/asm_codegen.cpp writes.  A register holds a   *)
(* word of WordWidth bits; an xmm register holds a multiple of             *)
(* 1/FloatUnit.  An address counts bytes from the place where the C        *)
(* library's call of main has left rsp.                                    *)
(***************************************************************************)
EXTENDS Integers, Sequences, SequencesExt

CONSTANTS
    WordWidth,  \* bits of a register (64)
    FloatUnit   \* as in Values

VARIABLES
    code,     \* the lines being executed
    data,     \* the literals they refer to
    rip,      \* the line to execute next
    regs,     \* the registers
    flags,    \* the operands of the last comparison
    mem,      \* what has been written on the stack
    output,   \* the calls of printf: the format and the value shown
    status,   \* "off", "running", "returned", "exited", "SIGFPE" or "SIGSEGV"
    calls     \* not in the machine: for each open call, where it was made from
              \* and how many words its frame holds on the stack

machineVars == <<rip, regs, flags, mem, output, status, calls>>

W == INSTANCE Values WITH Width <- WordWidth, FloatUnit <- FloatUnit

Registers == {"rax", "rbx", "rcx", "rdx", "rdi", "rsi", "r8", "r9", "rsp", "rbp",
              "xmm0", "xmm1", "xmm2", "xmm3", "xmm4", "xmm5", "xmm6", "xmm7"}
\* What a call of the C library may leave changed.
CallerSaved == Registers \ {"rbx", "rsp", "rbp"}

\* A value nothing in the program depends on.
Garbage == -11

Line == code[rip]
Op   == Line.op
Running(ops) == status = "running" /\ Op \in ops

-----------------------------------------------------------------------------
(* Operands.                                                               *)

\* A word that has not been written, a datum outside the section.
Loaded(a) == IF a \in DOMAIN mem THEN mem[a] ELSE Garbage
Datum(label) == CHOOSE i \in DOMAIN data : data[i].label = label

AddressOf(x) ==
    CASE x.mode = "frame" -> regs["rbp"] - x.n
      [] x.mode = "at"    -> regs[x.name[1]]
      [] x.mode = "label" -> Datum(x)

Value(x) ==
    CASE x.mode = "reg" -> regs[x.name[1]]
      [] x.mode = "imm" -> x.n
      [] x.mode \in {"frame", "at"} -> Loaded(AddressOf(x))

Set(r, v) == regs' = [regs EXCEPT ![r] = v]

\* A store: to a register or to memory.
Write(x, v) ==
    IF x.mode = "reg" THEN Set(x.name[1], v) /\ UNCHANGED mem
    ELSE /\ mem' = [a \in DOMAIN mem \cup {AddressOf(x)} |-> IF a = AddressOf(x) THEN v ELSE mem[a]]
         /\ UNCHANGED regs

Advance == rip' = rip + 1
Stop(why) == status' = why /\ UNCHANGED <<rip, regs, flags, mem, output, calls>>

-----------------------------------------------------------------------------
(* Arithmetic on words.                                                    *)

Unsigned(n) == W!WrapUInt(n)
Byte(n)     == n % 256
WithByte(n, b) == (n - Byte(n)) + b

Computed(op, l, r) ==
    CASE op = "add"  -> W!WrapInt(l + r)
      [] op = "sub"  -> W!WrapInt(l - r)
      [] op = "imul" -> W!WrapInt(l * r)
      [] op = "and"  -> W!WrapInt(W!BitOperation("BitAnd", l, r))
      [] op = "or"   -> W!WrapInt(W!BitOperation("BitOr", l, r))
      [] op = "xor"  -> W!WrapInt(W!BitOperation("BitXor", l, r))
      [] op = "addsd" -> l + r
      [] op = "subsd" -> l - r
      [] op = "mulsd" -> W!Quotient(l * r, FloatUnit)
      [] op = "divsd" -> IF r = 0 THEN Garbage ELSE W!Quotient(l * FloatUnit, r)
BinaryOps == {"add", "sub", "imul", "and", "or", "xor", "addsd", "subsd", "mulsd", "divsd"}

Inverted(op, n) == IF op = "neg" THEN W!WrapInt(-n) ELSE -n - 1

\* shl, shr and sar of rax by cl.
ShiftedBy(op, n, count) ==
    CASE op = "shl" -> W!WrapInt(n * 2 ^ count)
      [] op = "shr" -> W!WrapInt(Unsigned(n) \div 2 ^ count)
      [] op = "sar" -> n \div 2 ^ count

\* The conditions on the last comparison; those of unsigned numbers are also
\* those of floats.
Signed(c, l, r) ==
    CASE c = "e"  -> l = r
      [] c = "ne" -> l # r
      [] c = "l"  -> l < r
      [] c = "g"  -> l > r
      [] c = "le" -> l <= r
      [] c = "ge" -> l >= r
BelowAs == [b |-> "l", a |-> "g", be |-> "le", ae |-> "ge"]
Holds(c) ==
    IF c \in DOMAIN BelowAs
    THEN IF flags.float THEN Signed(BelowAs[c], flags.left, flags.right)
         ELSE Signed(BelowAs[c], Unsigned(flags.left), Unsigned(flags.right))
    ELSE Signed(c, flags.left, flags.right)

Conditions == {"e", "ne", "l", "g", "le", "ge", "b", "a", "be", "ae"}
SetOps  == [op \in {"set" \o c : c \in Conditions} |-> CHOOSE c \in Conditions : op = "set" \o c]
JumpIf  == [je |-> "e", jl |-> "l", jge |-> "ge"]

-----------------------------------------------------------------------------
(* Instructions that change a register or memory only.                     *)

Keep == UNCHANGED <<code, data, output, status>>

Move ==
    /\ Running({"mov", "lea", "load"})
    /\ Write(Line.to, CASE Op = "mov"  -> Value(Line.from)
                        [] Op = "lea"  -> AddressOf(Line.from)
                        [] Op = "load" -> data[Datum(Line.from)].number)
    /\ Advance
    /\ Keep /\ UNCHANGED <<flags, calls>>

Compute ==
    /\ Running(BinaryOps)
    /\ Write(Line.to, Computed(Op, Value(Line.to), Value(Line.from)))
    /\ Advance
    /\ Keep /\ UNCHANGED <<flags, calls>>

Invert ==
    /\ Running({"neg", "not"})
    /\ Write(Line.to, Inverted(Op, Value(Line.to)))
    /\ Advance
    /\ Keep /\ UNCHANGED <<flags, calls>>

Shift ==
    /\ Running({"shl", "shr", "sar"})
    /\ Set("rax", ShiftedBy(Op, regs["rax"], regs["rcx"]))
    /\ Advance
    /\ Keep /\ UNCHANGED <<flags, mem, calls>>

Convert ==
    /\ Running({"cvtsi2sd", "cvttsd2si"})
    /\ Write(Line.to, IF Op = "cvtsi2sd" THEN Value(Line.from) * FloatUnit
                      ELSE W!WrapInt(W!Quotient(Value(Line.from), FloatUnit)))
    /\ Advance
    /\ Keep /\ UNCHANGED <<flags, calls>>

Cmp ==
    /\ Running({"cmp", "ucomisd"})
    /\ flags' = [float |-> Op = "ucomisd", left |-> Value(Line.to), right |-> Value(Line.from)]
    /\ Advance
    /\ Keep /\ UNCHANGED <<regs, mem, calls>>

\* The low byte of a register.
SetCc ==
    /\ Running(DOMAIN SetOps)
    /\ Write(Line.to, WithByte(Value(Line.to), IF Holds(SetOps[Op]) THEN 1 ELSE 0))
    /\ Advance
    /\ Keep /\ UNCHANGED <<flags, calls>>

Movzx ==
    /\ Running({"movzx"})
    /\ Set("rax", Byte(regs["rax"]))
    /\ Advance
    /\ Keep /\ UNCHANGED <<flags, mem, calls>>

\* The word of the sign above rax, which idiv takes for the high half.
Cqo ==
    /\ Running({"cqo"})
    /\ Set("rdx", IF regs["rax"] < 0 THEN -1 ELSE 0)
    /\ Advance
    /\ Keep /\ UNCHANGED <<flags, mem, calls>>

\* rdx:rax by the operand; a quotient that does not fit traps.
Dividend(op) ==
    IF op = "idiv" THEN regs["rdx"] * W!Modulus + Unsigned(regs["rax"])
    ELSE Unsigned(regs["rdx"]) * W!Modulus + Unsigned(regs["rax"])
Divisor(op) == IF op = "idiv" THEN Value(Line.to) ELSE Unsigned(Value(Line.to))
QuotientFits(op) ==
    /\ Divisor(op) # 0
    /\ W!Quotient(Dividend(op), Divisor(op)) \in IF op = "idiv" THEN W!IntRange ELSE W!UIntRange

Divide ==
    /\ Running({"idiv", "div"})
    /\ QuotientFits(Op)
    /\ regs' = [regs EXCEPT !["rax"] = W!WrapInt(W!Quotient(Dividend(Op), Divisor(Op))),
                            !["rdx"] = W!WrapInt(W!Remainder(Dividend(Op), Divisor(Op)))]
    /\ Advance
    /\ Keep /\ UNCHANGED <<flags, mem, calls>>

DivideTraps ==
    /\ Running({"idiv", "div"})
    /\ ~QuotientFits(Op)
    /\ Stop("SIGFPE")
    /\ UNCHANGED <<code, data>>

-----------------------------------------------------------------------------
(* Control.                                                                *)

\* The assembler gives a label the place of its line.
PlaceOf(label) == CHOOSE i \in DOMAIN code : code[i].op = "label" /\ code[i].to = label

Jump ==
    /\ Running({"label", "jmp"} \cup DOMAIN JumpIf)
    /\ IF Op = "label" \/ (Op \in DOMAIN JumpIf /\ ~Holds(JumpIf[Op])) THEN Advance
       ELSE rip' = PlaceOf(Line.to)
    /\ Keep /\ UNCHANGED <<regs, flags, mem, calls>>

-----------------------------------------------------------------------------
(* The stack.                                                              *)

Store(a, v) == mem' = [b \in DOMAIN mem \cup {a} |-> IF b = a THEN v ELSE mem[b]]
Operands(n) == calls' = [calls EXCEPT ![Len(calls)].operands = @ + n]

Push ==
    /\ Running({"push"})
    /\ Store(regs["rsp"] - 8, Value(Line.to))
    /\ Set("rsp", regs["rsp"] - 8)
    /\ IF Line.to.name = <<"rbp">> THEN UNCHANGED calls ELSE Operands(1)
    /\ Advance
    /\ Keep /\ UNCHANGED flags

Pop ==
    /\ Running({"pop"})
    /\ regs' = [regs EXCEPT ![Line.to.name[1]] = Loaded(regs["rsp"]), !["rsp"] = @ + 8]
    /\ Operands(-1)
    /\ Advance
    /\ Keep /\ UNCHANGED <<flags, mem>>

\* A call leaves the place behind it on the stack.
Call ==
    /\ Running({"call"})
    /\ Store(regs["rsp"] - 8, rip + 1)
    /\ Set("rsp", regs["rsp"] - 8)
    /\ rip' = PlaceOf(Line.to)
    /\ calls' = Append(calls, [from |-> rip, rsp |-> regs["rsp"], rbp |-> regs["rbp"], operands |-> 0])
    /\ Keep /\ UNCHANGED flags

Leave ==
    /\ Running({"leave"})
    /\ regs' = [regs EXCEPT !["rsp"] = regs["rbp"] + 8, !["rbp"] = Loaded(regs["rbp"])]
    /\ Advance
    /\ Keep /\ UNCHANGED <<flags, mem, calls>>

\* Where the C library called main from.
Library == 0
ReturnPlace == Loaded(regs["rsp"])

\* A word that is no address of the program stops it.
Ret ==
    /\ Running({"ret"})
    /\ rip' = ReturnPlace
    /\ status' = CASE ReturnPlace = Library     -> "returned"
                   [] ReturnPlace \in DOMAIN code -> status
                   [] OTHER                      -> "SIGSEGV"
    /\ Set("rsp", regs["rsp"] + 8)
    /\ calls' = Front(calls)
    /\ UNCHANGED <<code, data, flags, mem, output>>

-----------------------------------------------------------------------------
(* The C library.                                                          *)

Format == Line.to.name[1]
Printed ==
    CASE Format = "float" -> regs["xmm0"]
      [] Format \in {"int", "str"} -> regs["rsi"]
      [] Format = "uint"  -> Unsigned(regs["rsi"])
      [] OTHER -> 0

Printf ==
    /\ Running({"printf"})
    /\ output' = Append(output, [format |-> Format, value |-> Printed])
    /\ regs' = [r \in Registers |->
                   IF r \notin CallerSaved THEN regs[r] ELSE Garbage]
    /\ Advance
    /\ UNCHANGED <<code, data, flags, mem, status, calls>>

Exit ==
    /\ Running({"exit"})
    /\ Stop("exited")
    /\ UNCHANGED <<code, data>>

-----------------------------------------------------------------------------
(* The C library calls main with an aligned stack.                         *)

Off ==
    /\ rip = 0
    /\ regs = [r \in Registers |-> 0]
    /\ flags = [float |-> FALSE, left |-> 0, right |-> 0]
    /\ mem = <<>>
    /\ output = <<>>
    /\ status = "off"
    /\ calls = <<>>

\* main is called with nothing of the program on the stack.
Boot(main) ==
    /\ status = "off"
    /\ status' = "running"
    /\ rip' = PlaceOf(main)
    /\ regs' = [r \in Registers |-> IF r = "rsp" THEN -8 ELSE Garbage]
    /\ mem' = [a \in {-8} |-> Library]
    /\ calls' = <<[from |-> Library, rsp |-> 0, rbp |-> Garbage, operands |-> 0]>>
    /\ UNCHANGED <<code, data, flags, output>>

Step ==
    \/ Move \/ Compute \/ Invert \/ Shift \/ Convert \/ Cmp \/ SetCc \/ Movzx \/ Cqo
    \/ Divide \/ DivideTraps \/ Jump \/ Push \/ Pop \/ Call \/ Leave \/ Ret
    \/ Printf \/ Exit
=============================================================================
