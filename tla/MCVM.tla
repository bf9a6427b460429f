-------------------------------- MODULE MCVM --------------------------------
(* The machine on two bytecodes, as minilang --dump-bytecode shows them:   *)
(* examples/run_recursion.ml, and a program that uses every kind of        *)
(* instruction: it calls, loops, allocates, reads lines, asserts and exits. *)
EXTENDS VM

I(op, arg)        == [op |-> op, arg |-> arg, arg2 |-> 0, text |-> <<>>]
O(op)             == I(op, 0)
IntF(address, params, localCount) ==
    [address |-> address, params |-> params, locals |-> localCount, returnType |-> "int"]
NewP              == [op |-> "MakeStruct", arg |-> 1, arg2 |-> 0, text |-> <<80>>]
Text(s)           == [op |-> "PushString", arg |-> 0, arg2 |-> 0, text |-> s]
One  == <<49>>
Two  == <<50>>

\* int fact(int n) { if (n <= 1) { return 1; } return n * fact(n - 1); }
\* from an address on, as the function with a given index.
Factorial(at, index) ==
    <<I("Load", 0), I("PushInt", 1), O("LessEqual"), I("JumpIfFalse", at + 6),
      I("PushInt", 1), O("Ret"),
      I("Load", 0), I("Load", 0), I("PushInt", 1), O("Sub"), I("Call", index), O("Mul"), O("Ret"),
      I("PushInt", 0), O("Ret")>>

Recursion ==
    [code |-> Factorial(0, 0)
        \o <<I("PushInt", 5), I("Call", 0), I("Store", 0), Text(One), I("Load", 0), I("Print", 2),
             I("Load", 0), O("Ret"), I("PushInt", 0), O("Ret")>>,
     functions |-> <<IntF(0, 1, 1), IntF(15, 0, 1)>>,
     entry |-> 1]

\* struct P { int x; }
\* int ask(int n) { n = n; int[2] v; v[n] = 7; n = v[0]; P p = P { x: n };
\*                  p.x = p.x + 1; print(p); return p.x; }
\* int main() { ask(1); string s = input(); if (s == "1") { exit(fact(3)); }
\*              while (len(s) < 2) { s = s + "22"; }
\*              assert(input() == "1"); return fact(ask(len(s))); }
Ask ==
    <<I("Load", 0), I("Store", 0),
      I("PushInt", 0), I("PushInt", 0), I("MakeArray", 2), I("Store", 1),
      I("Load", 0), I("PushInt", 7), I("StoreIndex", 1),
      I("PushInt", 0), I("LoadIndex", 1), I("Store", 0), I("Load", 0), NewP, I("Store", 2),
      I("LoadField", 2), I("PushInt", 1), O("Add"), I("StoreField", 2),
      I("Load", 2), I("Print", 1), I("LoadField", 2), O("Ret"), I("PushInt", 0), O("Ret")>>

Main ==
    <<I("PushInt", 1), I("Call", 0), O("Pop"), O("Input"), I("Store", 0),
      I("Load", 0), Text(One), O("Equal"), I("JumpIfFalse", 52),
      I("PushInt", 3), I("Call", 1), O("Exit"),
      I("Load", 0), O("Len"), I("PushInt", 2), O("Less"), I("JumpIfFalse", 62),
      I("Load", 0), Text(Two \o Two), O("Add"), I("Store", 0), I("Jump", 52),
      O("Input"), Text(One), O("Equal"), O("Assert"),
      I("Load", 0), O("Len"), I("Call", 0), I("Call", 1), O("Ret"), I("PushInt", 0), O("Ret")>>

Tour == [code |-> Ask \o Factorial(25, 1) \o Main,
         functions |-> <<IntF(0, 1, 3), IntF(25, 1, 1), IntF(40, 0, 1)>>,
         entry |-> 2]

MCBytecodes == {Recursion, Tour}
MCLines     == {<<>>, One, Two}
=============================================================================
