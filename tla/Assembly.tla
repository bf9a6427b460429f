------------------------------ MODULE Assembly ------------------------------
(***************************************************************************)
(* The file the x86-64 generator (src/asm_codegen.cpp) writes: its         *)
(* instructions and labels, the part of the generator's state that says    *)
(* what is in the file, and what the assembler asks of it.  The generator  *)
(* and the pipeline around it share this part.                             *)
(***************************************************************************)
EXTENDS Integers, Sequences

VARIABLES
    program,      \* the program being compiled
    code,         \* the text section; a label is a line of its own
    data,         \* the literals in the data section
    next,         \* how many functions have been started
    work,         \* the open activations, the innermost last
    diagnostic    \* diagnostic_: the first message, or ""

-----------------------------------------------------------------------------
(* Operands and instructions.  mov stands for movsd too, and the push and  *)
(* pop of an xmm register for the two instructions that do it.             *)

Operand(mode, name, n) == [mode |-> mode, name |-> name, n |-> n]
Reg(r)      == Operand("reg", <<r>>, 0)
Imm(n)      == Operand("imm", <<>>, n)
Frame(k)    == Operand("frame", <<>>, k)       \* [rbp - k]
At(r)       == Operand("at", <<r>>, 0)         \* [r]
Label(base, n) == Operand("label", base, n)

Ins(op, to, from) == [op |-> op, to |-> to, from |-> from]
Nothing     == Imm(0)
Do(op)      == Ins(op, Nothing, Nothing)
Do1(op, x)  == Ins(op, x, Nothing)
Mov(to, from) == Ins("mov", to, from)

\* A call of printf with one of the formats of the data section; its argument
\* is in rsi or xmm0.
printf(format) == Do1("printf", Operand("format", <<format>>, 0))

rax == Reg("rax")
rbx == Reg("rbx")
rcx == Reg("rcx")
rdx == Reg("rdx")
rdi == Reg("rdi")
rsi == Reg("rsi")
rsp == Reg("rsp")
rbp == Reg("rbp")
xmm0 == Reg("xmm0")
xmm1 == Reg("xmm1")

\* The text of a label is a sequence of symbols: each run of letters of it is one,
\* and each other character.  A function keeps its name behind a prefix, with "_"
\* for each ":" that is not legal in a label.
Underscore == "_"
Compound(first, second) == <<first, Underscore, second>>
mangleFunctionName(path) ==
    IF path = <<"main">> THEN path
    ELSE <<"ml", Underscore>> \o [i \in DOMAIN path |-> IF path[i] = ":" THEN Underscore ELSE path[i]]

\* A label made for a construct is numbered, one of a function is not.
Unnumbered == -1
FunctionLabel(path) == Label(mangleFunctionName(path), Unnumbered)
BoundsError == Label(<<"ml", Underscore, "array", Underscore, "bounds", Underscore, "error">>, Unnumbered)
ShiftError  == Label(<<"ml", Underscore, "shift", Underscore, "error">>, Unnumbered)

\* How a number is written.
Digits == <<"0", "1", "2", "3", "4", "5", "6", "7", "8", "9">>
Numeral[n \in Nat] ==
    IF n < 10 THEN <<Digits[n + 1]>> ELSE Append(Numeral[n \div 10], Digits[(n % 10) + 1])

\* How a label is written, which is all the assembler sees of it.
Text(x) == IF x.n = Unnumbered THEN x.name ELSE x.name \o <<Underscore>> \o Numeral[x.n]

Generated == work = <<>> /\ next = Len(program)
Accepted  == diagnostic = ""

-----------------------------------------------------------------------------
(* Properties.                                                             *)

LabelLines == {i \in DOMAIN code : code[i].op = "label"}
JumpLines  == {i \in DOMAIN code : code[i].op \in {"jmp", "je", "jl", "jge", "call"}}
ToHandler(i) == code[i].to \in {BoundsError, ShiftError}

\* No function begins between two lines.
SameFunction(i, j) ==
    \A k \in LabelLines : (i < k /\ k <= j) \/ (j < k /\ k <= i) => code[k].to.n # Unnumbered

\* Which data a line refers to.
DataRefs == {code[i].from : i \in {j \in DOMAIN code : code[j].op \in {"lea", "load"}}}

\* A file that is written without a diagnostic can be assembled: every label, as
\* it is written, stands at one line of code or data only, every jump, call and
\* reference to data finds its label, and a jump stays inside its function unless
\* it goes to an error handler, although a construct's jumps and labels are
\* written far apart and around those of whatever is nested in it.
LabelsResolve ==
    Generated /\ Accepted =>
        /\ \A i, j \in LabelLines : Text(code[i].to) = Text(code[j].to) => i = j
        /\ \A i, j \in DOMAIN data : Text(data[i].label) = Text(data[j].label) => i = j
        /\ \A i \in LabelLines, j \in DOMAIN data : Text(code[i].to) # Text(data[j].label)
        /\ \A i \in JumpLines :
              \E j \in LabelLines :
                 /\ Text(code[j].to) = Text(code[i].to)
                 /\ code[i].op # "call" /\ ~ToHandler(i) => SameFunction(i, j)
        /\ \A x \in DataRefs :
              x.mode = "label" => \E i \in DOMAIN data : Text(data[i].label) = Text(x)
=============================================================================
