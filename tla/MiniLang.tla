------------------------------ MODULE MiniLang ------------------------------
(***************************************************************************)
(* The pipeline of src/main.cpp for a program the analyzer has accepted:   *)
(* the generator translates it, then a virtual machine runs the bytecode   *)
(* while the user types lines, and its result is the exit status.          *)
(***************************************************************************)
EXTENDS Control

CONSTANTS
    Width, FloatUnit,        \* see Values
    InputLines, MaxInputs,   \* see VM
    Exprs, Stmts, Programs   \* see Codegen

VARIABLES
    phase,        \* "generate", "run" or "exited"
    exitStatus,   \* what main returns
    \* The generator.
    program, genCode, genFunctions, genEntry, next, work, loopStack, switchBreakStack, diagnostic,
    \* The machine, beyond what Control declares.
    stack, heap, returnCode, input, output, bases

\* The components, with what has been proved of them.  Whatever program is
\* translated, the machine gets bytecode (HandsOverBytecode in BackEndProofs).
Generator == INSTANCE CodegenProofs
    WITH code <- genCode, functions <- genFunctions, entry <- genEntry
Machine == INSTANCE VMProofs WITH Bytecodes <- AnyBytecode

\* What the components assume of trees, numbers and the user's lines.
ASSUME ExprsAssumption    == Generator!ExprClosed(Exprs)
ASSUME StmtsAssumption    == Generator!StmtClosed(Stmts, Exprs)
ASSUME ProgramsAssumption == \A p \in Programs : Generator!IsProgram(p, Stmts)
ASSUME WidthAssumption    == Width \in Nat \ {0} /\ FloatUnit \in Nat \ {0}
ASSUME InputAssumption    == InputLines \subseteq Seq(Nat) /\ MaxInputs \in Nat

driverVars    == <<phase, exitStatus>>
generatorVars == <<program, genCode, genFunctions, genEntry, next, work, loopStack,
                   switchBreakStack, diagnostic>>
machineVars   == <<bytecode, stack, frames, heap, ip, running, returnCode, error,
                   input, output, bases>>
vars == <<driverVars, generatorVars, machineVars>>

Init ==
    /\ phase = "generate"
    /\ exitStatus = 0
    /\ Generator!Init
    /\ Machine!Init

Generate ==
    /\ phase = "generate"
    /\ Generator!Next
    /\ UNCHANGED <<driverVars, machineVars>>

\* A diagnostic of the generator is reported, and nothing runs.
Reject ==
    /\ phase = "generate"
    /\ Generator!Generated
    /\ ~Generator!Accepted
    /\ phase' = "exited"
    /\ exitStatus' = 1
    /\ UNCHANGED <<generatorVars, machineVars>>

Start ==
    /\ phase = "generate"
    /\ Generator!Generated
    /\ Generator!Accepted
    /\ Machine!Run(Generator!bytecode)
    /\ phase' = "run"
    /\ UNCHANGED <<exitStatus, generatorVars>>

Execute ==
    /\ phase = "run"
    /\ Machine!execute
    /\ UNCHANGED <<driverVars, generatorVars>>

\* The machine has returned or thrown.  (A trap or an overflow of the C++
\* stack ends the process with a status of the system's choice.)
Finish ==
    /\ phase = "run"
    /\ ~running
    /\ phase' = "exited"
    /\ exitStatus' = IF error # "" THEN 1 ELSE returnCode
    /\ UNCHANGED <<generatorVars, machineVars>>

Next == Generate \/ Reject \/ Start \/ Execute \/ Finish

Spec     == Init /\ [][Next]_vars
FairSpec == Spec /\ WF_vars(Next)

-----------------------------------------------------------------------------
(* Properties.                                                             *)

\* What the caller had on the operand stack when it made a call is there,
\* untouched, until the call returns, however deep the calls inside it.
CallerOperandsUntouched ==
    [][ running /\ running' =>
          /\ \A i \in DOMAIN bases' : Len(stack') >= bases'[i]
          /\ \A i \in DOMAIN bases \cap DOMAIN bases' :
                 /\ bases'[i] = bases[i]
                 /\ \A j \in 1 .. bases[i] : stack'[j] = stack[j] ]_machineVars

\* The errors that depend on the values of the run; any other is a defect of
\* the bytecode the analyzer and the generator have let through.
ValueErrors ==
    {"", "division by zero", "modulo by zero", "array index out of bounds", "invalid shift count",
     "assertion failed", "panic", "toInt cannot parse", "toInt out of range"}

OnlyValueErrors == error \in ValueErrors

\* In a program without procedures, RET finds the result of the call and, right
\* below it, the operands of the caller: no path through a body, however it
\* leaves loops and switches, forgets an operand or takes one too many.
ReturnsOneValue ==
    running /\ bytecode.code[ip + 1].op = "Ret" /\ (\A i \in DOMAIN program : program[i].returnType # "void")
        => Len(stack) = bases[Len(bases)] + 1

\* The generator and the machine both finish.
Exits == <>(phase = "exited")
=============================================================================
