------------------------------ MODULE Control ------------------------------
(***************************************************************************)
(* Where the machine of src/vm.cpp is: the instruction pointer, the open   *)
(* calls and how the run has ended.  The machine and the pipeline around   *)
(* it share this part.                                                     *)
(***************************************************************************)
EXTENDS Bytecode

VARIABLES
    bytecode,     \* *bytecode_: what the generator produced
    frames,       \* frames_: functionIndex, returnIp and locals of each call
    ip,           \* ip_
    running,      \* running_
    error         \* the message of the RuntimeError that ended the run, or ""

currentFrame == frames[Len(frames)]

-----------------------------------------------------------------------------
(* Properties.                                                             *)

\* The instruction pointer has left the code, or a jump or a call would.
ControlErrors == {"program reached end without return", "instruction pointer out of range",
                  "invalid jump address", "function has invalid address"}

\* Whether an address lies in the code of a function.
Inside(a, f) == InFunction(bytecode, a, f)

\* The machine is always at an instruction of the function of the current call,
\* so it never runs off the end of the code, nor jumps or calls out of it.
StaysInFunction ==
    /\ running => /\ ip \in Addresses(bytecode)
                  /\ Inside(ip, currentFrame.functionIndex)
    /\ error \notin ControlErrors
=============================================================================
