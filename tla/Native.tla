------------------------------- MODULE Native -------------------------------
(***************************************************************************)
(* The way of src/main.cpp with --emit-asm, and on from there: a program   *)
(* the analyzer has accepted is translated to assembly, the file is        *)
(* assembled and linked (scripts/build_asm.sh), and the machine runs it.   *)
(***************************************************************************)
EXTENDS Assembly, SequencesExt

CONSTANTS
    Width, FloatUnit,   \* see Values
    WordWidth,          \* see X86
    Programs            \* see AsmCodegen

VARIABLES
    phase,    \* "generate", "run" or "exited"
    \* The generator, with those of Assembly.
    labelCounter, areas, stackSize, endLabel, loopStack,
    \* The machine.
    rip, regs, flags, mem, output, status, calls

Generator == INSTANCE AsmCodegen WITH IntWidth <- Width
Machine   == INSTANCE X86
Source    == INSTANCE SourceSemantics WITH Declarations <- program

generatorVars == <<program, code, data, labelCounter, areas, stackSize, endLabel, loopStack, next,
                   work, diagnostic>>
machineVars   == <<rip, regs, flags, mem, output, status, calls>>
vars == <<phase, generatorVars, machineVars>>

Init ==
    /\ phase = "generate"
    /\ Generator!Init
    /\ Machine!Off

Generate ==
    /\ phase = "generate"
    /\ Generator!Next
    /\ UNCHANGED <<phase, machineVars>>

\* A diagnostic is reported; the file that is there already is of no use.
Reject ==
    /\ phase = "generate"
    /\ Generated
    /\ ~Accepted
    /\ phase' = "exited"
    /\ UNCHANGED <<generatorVars, machineVars>>

\* The assembler and the linker take the file, and the system starts it.
Start ==
    /\ phase = "generate"
    /\ Generated
    /\ Accepted
    /\ Machine!Boot(FunctionLabel(<<"main">>))
    /\ phase' = "run"
    /\ UNCHANGED <<program, labelCounter, areas, stackSize, endLabel, loopStack, next, work,
                   diagnostic>>

Execute ==
    /\ phase = "run"
    /\ Machine!Step
    /\ UNCHANGED <<phase, program, labelCounter, areas, stackSize, endLabel, loopStack, next, work,
                   diagnostic>>

Finish ==
    /\ phase = "run"
    /\ status # "running"
    /\ phase' = "exited"
    /\ UNCHANGED <<generatorVars, machineVars>>

Next == Generate \/ Reject \/ Start \/ Execute \/ Finish

Spec == Init /\ [][Next]_vars

-----------------------------------------------------------------------------
(* Properties.                                                             *)

Ran == phase = "exited" /\ diagnostic = ""

\* A call of printf: what kind of value, which number or which text.
Chunk(format, number, text) == [format |-> format, number |-> number, text |-> text]
Newline == Chunk("nl", 0, <<>>)
Shown == [i \in DOMAIN output |->
             IF output[i].format = "str" THEN Chunk("str", 0, data[output[i].value].text)
             ELSE Chunk(output[i].format, output[i].value, <<>>)]

\* What print should show for a value; a bool is a word, not a number.
FormatFor == [int |-> "int", uint |-> "uint", float |-> "float", string |-> "str", bool |-> "word"]
Written(v) == IF v.type = "string" THEN Chunk("str", 0, v.data)
              ELSE Chunk(FormatFor[v.type], v.data, <<>>)
WrittenLine(vs) == [i \in DOMAIN vs |-> Written(vs[i])] \o <<Newline>>

\* How an error of the source shows in the native program, which writes its
\* message to the output.  A division by zero is the trap of the processor.
Message ==
    [n \in {"array index out of bounds", "invalid shift count", "assertion failed"} |->
        CASE n = "array index out of bounds" -> <<Chunk("bounds", 0, <<>>)>>
          [] n = "invalid shift count"       -> <<Chunk("shift", 0, <<>>)>>
          [] n = "assertion failed"          -> <<Chunk("str", 0, Generator!AssertionFailed), Newline>>]
Traps == {"division by zero", "modulo by zero", "SIGFPE"}

\* The native program has shown and returned what the source program means:
\* the operands and arguments that wait on the stack, the registers, the
\* frames with their arrays and structs and the jumps all fit together.
NativeMeaning ==
    Ran =>
        LET meaning == Source!Meaning(<<>>)
            lines   == FlattenSeq([i \in DOMAIN meaning.output |-> WrittenLine(meaning.output[i])])
        IN  CASE meaning.error = "" ->
                    /\ status = "returned"
                    /\ regs["rax"] = meaning.code
                    /\ Shown = lines
              [] meaning.error \in DOMAIN Message ->
                    /\ status = "exited"
                    /\ Shown = lines \o Message[meaning.error]
              [] meaning.error \in Traps ->
                    /\ status = "SIGFPE"
                    /\ Shown = lines

\* At each call of the C library the stack pointer is at a multiple of 16, as
\* the calling convention demands, exactly if an even number of operands and
\* arguments wait on the stack in all open calls: the frames are rounded.
Waiting == FoldSeq(LAMBDA c, n : c.operands + n, 0, calls)
StackAligned ==
    status = "running" /\ code[rip].op \in {"printf", "exit"}
        => (regs["rsp"] % 16 = 0 <=> Waiting % 2 = 0)

\* While a call runs nothing is written at or above the return address it has
\* left on the stack: not the locals, the areas or the waiting operands of a
\* caller, whatever the index of an array; and when it returns, the caller
\* goes on behind the call with the frame and the stack it had.
CallerUntouched ==
    [][ LET depth == Len(calls)
        IN  /\ \A i \in DOMAIN calls \cap DOMAIN calls' :
                   \A a \in DOMAIN mem : a >= calls[i].rsp - 8 => mem'[a] = mem[a]
            /\ depth > 0 /\ Len(calls') < depth =>
                   /\ regs'["rsp"] = calls[depth].rsp
                   /\ regs'["rbp"] = calls[depth].rbp
                   /\ rip' = IF calls[depth].from = 0 THEN 0 ELSE calls[depth].from + 1 ]_vars
=============================================================================
