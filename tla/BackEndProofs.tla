---------------------------- MODULE BackEndProofs ----------------------------
(***************************************************************************)
(* Proofs about the two ways from a checked tree to a program that runs.   *)
(*                                                                         *)
(* The x86-64 generator, for every program whose trees and names allow it: *)
(* the labels of a file that is written without a diagnostic resolve.      *)
(* The proof says of every open activation which labels it has still to    *)
(* write, and that the jumps in the code arrive at a label that is in the  *)
(* code already or is owed by somebody.                                    *)
(*                                                                         *)
(* The pipeline of bytecode generator and machine, for every program,      *)
(* input and width: the whole implements both components, so that the      *)
(* theorems about them hold inside it.                                     *)
(***************************************************************************)
EXTENDS AsmCodegen, CallStackProofs, TLAPS

-----------------------------------------------------------------------------
(* What lines and activations look like in a program of expressions E and  *)
(* statements S: F are the labels of its functions, D those of its data    *)
(* and T the labels a jump may go to.                                      *)

Modes == {"reg", "imm", "frame", "at", "label", "format"}
Strings == STRING
Words == Strings \cup
    {"rax", "rbx", "rcx", "rdx", "rdi", "rsi", "r8", "r9", "rsp", "rbp",
     "xmm0", "xmm1", "xmm2", "xmm3", "xmm4", "xmm5", "xmm6", "xmm7",
     "int", "uint", "str", "float", "nl", "bounds", "shift",
     "main", "ml", Underscore, "end", "array", "error",
     "flt", "assert", "fail", "if", "else", "while", "start", "for", "update"}
OpCodes ==
    {"label", "jmp", "je", "jl", "jge", "call", "mov", "lea", "load", "push", "pop", "printf", "exit",
     "cmp", "sete", "setne", "setl", "setle", "setg", "setge", "setb", "setbe", "seta", "setae", "movzx",
     "add", "sub", "imul", "cqo", "idiv", "div", "and", "or", "xor", "not", "neg", "shl", "sar", "shr",
     "addsd", "subsd", "mulsd", "divsd", "ucomisd", "cvtsi2sd", "cvttsd2si", "leave", "ret"}

AnyOperand == [mode : Modes, name : Seq(Words), n : Int \cup {IntWidth}]
AnyLine    == [op : OpCodes, to : AnyOperand, from : AnyOperand]
AnyDatum   == [label : AnyOperand, text : Seq(Nat), number : Int]

Jumps == {"jmp", "je", "jl", "jge"}
HandlerLabels     == {BoundsError, ShiftError}
FunctionLabels(p) == {FunctionLabel(p[i].path) : i \in DOMAIN p}
DataLabels(d)     == {d[i].label : i \in DOMAIN d}

\* The labels made for constructs, for the ends of functions with the labels F,
\* and for data.
ConstructBases ==
    {Compound("assert", "fail"), Compound("assert", "end"), Compound("if", "else"), Compound("if", "end"),
     Compound("while", "start"), Compound("while", "end"),
     Compound("for", "start"), Compound("for", "update"), Compound("for", "end")}
DataBases == {<<"str">>, <<"flt">>}
ForConstruct(x) == \E base \in ConstructBases, n \in Nat : x = Label(base, n)
ForEnd(x, F)    == \E f \in F, n \in Nat : x = Label(f.name \o <<Underscore, "end">>, n)
ForData(x)      == \E base \in DataBases, n \in Nat : x = Label(base, n)

FitsData(l, D) == l.op \in {"lea", "load"} /\ l.from.mode = "label" => l.from \in D
Fits(F, D, T) ==
    {l \in AnyLine :
        /\ l.op = "label" => ForConstruct(l.to) \/ ForEnd(l.to, F)
        /\ l.op \in Jumps => l.to \in HandlerLabels \cup T
        /\ l.op = "call" => l.to \in F
        /\ FitsData(l, D)}
\* Lines without labels, and without jumps but to the handlers.
Quiet(F, D) == {l \in Fits(F, D, {}) : l.op # "label"}

Contexts(T) == [breakLabel : T, continueLabel : T]

Messages ==
    {"variable without local index", "array index expression without local index",
     "field access without semantic indexes", "function argument", "len for non-array value",
     "assert condition that is not bool", "built-in function", "float64 binary operator",
     "string binary operators", "mixed int/float binary expression",
     "mixed int/uint binary expression", "non-int32/bool binary expression",
     "bitwise not for non-int/uint", "cast type", "struct field type",
     "non-literal struct initializer", "array element type", "non-literal array initializer",
     "array initializer size mismatch", "no stack offset", "local variable type",
     "assignment without local index", "array assignment without local index",
     "field assignment without semantic indexes", "print of this value type",
     "break or continue outside loop", "this statement or expression",
     "function return or parameter type", "invalid local variable"}

\* Activations that have no labels to write.
Plain(E, S, F, D) ==
    [task : {"generate"}, node : E \cup S]
    \cup [task : {"rounds"}, node : {s \in S : s.kind = "for"}]
    \cup [task : {"refuse"}, node : Messages]
    \cup [task : {"emit"}, node : Seq(Quiet(F, D))]
\* Those of a body.
Inside(E, S, F, D, T) ==
    Plain(E, S, F, D)
    \cup [task : {"emit"}, node : Seq(Fits(F, D, T))]
    \cup [task : {"enterLoop"}, node : [breakLabel : T, continueLabel : T, body : S]]
    \cup [task : {"leaveLoop"}, node : S]
Activations(p, E, S, D, T) ==
    Inside(E, S, FunctionLabels(p), D, T)
    \cup [task : {"collect"}, node : S]
    \cup [task : {"prologue", "epilogue"}, node : {p[i] : i \in DOMAIN p}]

-----------------------------------------------------------------------------
(* Labels.                                                                 *)

LabelsOf(lines) == {lines[j].to : j \in {i \in DOMAIN lines : lines[i].op = "label"}}
Writes(it)      == IF it.task = "emit" THEN LabelsOf(it.node) ELSE {}

InBody(w) == /\ w # <<>>
             /\ w[1].task = "epilogue"
             /\ \A k \in DOMAIN w : w[k].task # "prologue"

\* Those the activations w have still to write.
Owed(w, end) ==
    (UNION {Writes(w[k]) : k \in DOMAIN w}) \cup (IF InBody(w) THEN {end} ELSE {})

\* Those the code c has since the last function began in it.
Here(c, i) == \A k \in DOMAIN c : c[k].op = "label" /\ i < k => c[k].to.n # Unnumbered
Placed(c)  == {c[i].to : i \in {j \in DOMAIN c : c[j].op = "label" /\ Here(c, j)}}

AtHand(c, w, end) == Placed(c) \cup Owed(w, end)

-----------------------------------------------------------------------------
(* The invariants.                                                         *)

Typed(E, S) ==
    /\ code \in Seq(AnyLine)
    /\ data \in Seq(AnyDatum)
    /\ labelCounter \in Nat
    /\ \A s \in DOMAIN areas : areas[s] \in [base : Int, size : Int]
    /\ stackSize \in Int
    /\ endLabel \in AnyOperand
    /\ next \in 0 .. Len(program)
    /\ loopStack \in Seq(Contexts(AtHand(code, work, endLabel)))
    /\ work \in Seq(Activations(program, E, S, DataLabels(data), AtHand(code, work, endLabel)))

\* A jump has its label behind it or in front of it in the same function.
Arrives(c, i) ==
    \E j \in DOMAIN c :
        /\ c[j].op = "label" /\ c[j].to = c[i].to
        /\ \A k \in DOMAIN c :
              c[k].op = "label" /\ ((i < k /\ k <= j) \/ (j < k /\ k <= i)) => c[k].to.n # Unnumbered

CodeFits ==
    \A i \in DOMAIN code :
        /\ code[i].op = "call" => code[i].to \in FunctionLabels(program)
        /\ FitsData(code[i], DataLabels(data))
        /\ code[i].op \in Jumps /\ code[i].to \notin HandlerLabels =>
              \/ Arrives(code, i)
              \/ Here(code, i) /\ code[i].to \in Owed(work, endLabel)

\* A function is worked on from its areas over its prologue to its epilogue.
Shape(p, w, f) ==
    /\ w # <<>> => w[1].task = "epilogue" \/ (w[1].task = "refuse" /\ Len(w) = 1)
    /\ \A k \in DOMAIN w :
          /\ w[k].task = "epilogue" => k = 1
          /\ w[k].task \in {"prologue", "epilogue"} =>
                f > 0 /\ w[k].node = p[f] /\ ~NotPassed(p[f].paramTypes)
          /\ w[k].task = "prologue" =>
                /\ \A j \in 2 .. k - 1 : w[j].task = "generate"
                /\ \A j \in k + 1 .. Len(w) : w[j].task \in {"collect", "refuse"}
          /\ w[k].task = "collect" => \E j \in 1 .. k - 1 : w[j].task = "prologue"

LoopsMatched == Len(loopStack) = Cardinality(Pending(work, {"leaveLoop"}))

\* No label is written twice.
LinesApart(lines) ==
    \A i, j \in DOMAIN lines :
        lines[i].op = "label" /\ lines[j].op = "label" /\ lines[i].to = lines[j].to => i = j
\* The activations w write each label once, and none that is not numbered from low to high.
WritesApart(w, low, high) ==
    /\ \A k \in DOMAIN w :
          /\ w[k].task = "emit" => LinesApart(w[k].node)
          /\ \A l \in Writes(w[k]) : l.n \in low .. high - 1
    /\ \A k, m \in DOMAIN w : k # m => Writes(w[k]) \cap Writes(w[m]) = {}
Apart ==
    /\ LinesApart(code)
    /\ \A l \in LabelsOf(code) : l.n = Unnumbered \/ l.n \in 0 .. labelCounter - 1
    /\ WritesApart(work, 0, labelCounter)
    /\ \A k \in DOMAIN work : Writes(work[k]) \cap LabelsOf(code) = {}
    /\ InBody(work) =>
          /\ endLabel.n \in 0 .. labelCounter - 1
          /\ endLabel \notin LabelsOf(code)
          /\ \A k \in DOMAIN work : endLabel \notin Writes(work[k])

\* How many functions have their label.
Begun(w, f) == IF \E k \in DOMAIN w : w[k].task = "prologue" THEN f - 1 ELSE f
Doomed == diagnostic # "" \/ \E k \in DOMAIN work : work[k].task = "refuse"
Named ==
    /\ HandlerLabels \subseteq LabelsOf(code)
    /\ \A l \in LabelsOf(code) :
          l.n = Unnumbered =>
             l \in HandlerLabels \cup {FunctionLabel(program[f].path) : f \in 1 .. Begun(work, next)}
    /\ Doomed \/ \A f \in 1 .. Begun(work, next) : FunctionLabel(program[f].path) \in LabelsOf(code)

\* Every label is a handler's, a function's or made from a known base.
Based ==
    /\ endLabel.n # Unnumbered => ForEnd(endLabel, FunctionLabels(program))
    /\ \A l \in LabelsOf(code) : l.n # Unnumbered => ForConstruct(l) \/ ForEnd(l, FunctionLabels(program))
    /\ \A i \in DOMAIN data :
          ForData(data[i].label) /\ data[i].label.n \in Nat /\ data[i].label.n < labelCounter
    /\ \A i, j \in DOMAIN data : data[i].label.n = data[j].label.n => i = j

Inv(E, S) ==
    /\ Resolvable(program, E, S)
    /\ Typed(E, S) /\ CodeFits /\ Shape(program, work, next) /\ LoopsMatched /\ Apart /\ Named

-----------------------------------------------------------------------------
(* Numerals and the texts of labels.                                       *)

Decimals == {Digits[d] : d \in DOMAIN Digits}

\* What Numeral makes of n when f does what Numeral does.
NumeralFrom(f, n) == IF n < 10 THEN <<Digits[n + 1]>> ELSE Append(f[n \div 10], Digits[(n % 10) + 1])
IsNumerals(f, N) == f = [n \in N |-> NumeralFrom(f, n)]
Below(m) == {n \in Nat : n < m}

\* The numerals of the numbers below a bound exist.
LEMMA NumeralsBelow ==
    ASSUME NEW m \in Nat
    PROVE  \E f : IsNumerals(f, Below(m))
<1> DEFINE Without == {n \in Nat : ~\E f : IsNumerals(f, Below(n))}
<1>1. ASSUME Without # {} PROVE FALSE
  <2>1. PICK n \in Without : \A k \in Without : n <= k
    <3>1. Without \in SUBSET Nat
      OBVIOUS
    <3> HIDE DEF Without
    <3>2. QED
      BY <1>1, <3>1, Least
  <2>2. n \in Nat /\ ~\E f : IsNumerals(f, Below(n))
    BY <2>1
  <2>3. CASE n = 0
    <3>1. Below(n) = {}
      BY <2>3 DEF Below
    <3> DEFINE f == [k \in {} |-> 0]
    <3>2. f = [k \in {} |-> NumeralFrom(f, k)]
      OBVIOUS
    <3>3. QED
      BY <2>2, <3>1, <3>2 DEF IsNumerals
  <2>4. CASE n # 0
    <3> DEFINE l == n - 1
    <3>1. l \in Nat /\ l < n /\ ~(n <= l) /\ \A k \in Nat : k < n => k = l \/ k < l
      BY <2>2, <2>4
    <3> HIDE DEF l
    <3>2. PICK g : IsNumerals(g, Below(l))
      BY <2>1, <3>1
    <3> DEFINE f == [k \in Below(n) |-> IF k = l THEN NumeralFrom(g, l) ELSE g[k]]
               h == [k \in Below(n) |-> NumeralFrom(f, k)]
    <3>3. ASSUME NEW k \in Below(n) PROVE f[k] = h[k]
      <4>1. k \in Nat /\ k < n /\ (k = l \/ k < l)
        BY <3>1 DEF Below
      <4>2. f[k] = NumeralFrom(g, k)
        <5>1. CASE k = l
          BY <5>1
        <5>2. CASE k < l
          <6>1. k # l /\ k \in Below(l)
            BY <3>1, <4>1, <5>2 DEF Below
          <6>2. f[k] = g[k]
            BY <6>1
          <6>3. g[k] = NumeralFrom(g, k)
            BY <3>2, <6>1 DEF IsNumerals
          <6>4. QED
            BY <6>2, <6>3
        <5>3. QED
          BY <4>1, <5>1, <5>2
      <4>3. k >= 10 => f[k \div 10] = g[k \div 10]
        <5>1. SUFFICES ASSUME k >= 10 PROVE f[k \div 10] = g[k \div 10]
          OBVIOUS
        <5> DEFINE q == k \div 10
        <5>2. q \in Nat /\ q < k
          BY <4>1, <5>1
        <5> HIDE DEF q
        <5>3. q \in Below(n) /\ q # l
          BY <3>1, <4>1, <5>2, <2>2 DEF Below
        <5>4. f[q] = g[q]
          BY <5>3
        <5>5. QED
          BY <5>4 DEF q
      <4>4. h[k] = NumeralFrom(f, k)
        <5> HIDE DEF f
        <5>1. QED
          OBVIOUS
      <4> HIDE DEF f, h
      <4>5. k < 10 \/ k >= 10
        BY <4>1
      <4>6. NumeralFrom(f, k) = NumeralFrom(g, k)
        BY <4>3, <4>5 DEF NumeralFrom
      <4>7. QED
        BY <4>2, <4>4, <4>6
    <3>4. f = h
      <4>1. f = [k \in Below(n) |-> f[k]] /\ h = [k \in Below(n) |-> h[k]]
        OBVIOUS
      <4> HIDE DEF f, h
      <4>2. QED
        BY <3>3, <4>1
    <3>5. IsNumerals(f, Below(n))
      <4> HIDE DEF f
      <4>1. QED
        BY <3>4 DEF IsNumerals
    <3> HIDE DEF f
    <3>6. QED
      BY <2>2, <3>5
  <2>5. QED
    BY <2>3, <2>4
<1>2. QED
  BY <1>1

\* They do not depend on the bound.
LEMMA NumeralsAgree ==
    ASSUME NEW a \in Nat, NEW b \in Nat, NEW f, NEW g, IsNumerals(f, Below(a)), IsNumerals(g, Below(b)),
           NEW n \in Nat, n < a, n < b
    PROVE  f[n] = g[n]
<1> DEFINE Differ == {k \in Nat : k < a /\ k < b /\ f[k] # g[k]}
<1>1. ASSUME Differ # {} PROVE FALSE
  <2>1. PICK k \in Differ : \A j \in Differ : k <= j
    <3>1. Differ \in SUBSET Nat
      OBVIOUS
    <3> HIDE DEF Differ
    <3>2. QED
      BY <1>1, <3>1, Least
  <2>2. k \in Nat /\ k < a /\ k < b /\ f[k] # g[k]
    BY <2>1
  <2>3. k \in Below(a) /\ k \in Below(b)
    BY <2>2 DEF Below
  <2>4. f[k] = NumeralFrom(f, k) /\ g[k] = NumeralFrom(g, k)
    BY <2>3 DEF IsNumerals
  <2>5. k >= 10 => f[k \div 10] = g[k \div 10]
    <3>1. SUFFICES ASSUME k >= 10 PROVE f[k \div 10] = g[k \div 10]
      OBVIOUS
    <3> DEFINE q == k \div 10
    <3>2. q \in Nat /\ q < k
      BY <2>2, <3>1
    <3> HIDE DEF q
    <3>3. q < a /\ q < b /\ ~(k <= q)
      BY <2>2, <3>2
    <3>4. f[q] = g[q]
      BY <2>1, <3>2, <3>3
    <3>5. QED
      BY <3>4 DEF q
  <2>6. k < 10 \/ k >= 10
    BY <2>2
  <2> HIDE DEF Differ
  <2>7. NumeralFrom(f, k) = NumeralFrom(g, k)
    BY <2>5, <2>6 DEF NumeralFrom
  <2>8. QED
    BY <2>2, <2>4, <2>7
<1>2. QED
  BY <1>1

\* So Numeral is what its definition says.
LEMMA NumeralUnfolds ==
    \A n \in Nat : Numeral[n] = NumeralFrom(Numeral, n)
<1> DEFINE part(n) == CHOOSE f : IsNumerals(f, Below(n + 1))
           h == [n \in Nat |-> part(n)[n]]
           r == [n \in Nat |-> NumeralFrom(h, n)]
<1>1. ASSUME NEW n \in Nat PROVE IsNumerals(part(n), Below(n + 1))
  <2>1. n + 1 \in Nat
    OBVIOUS
  <2>2. \E f : IsNumerals(f, Below(n + 1))
    BY <2>1, NumeralsBelow
  <2>3. QED
    BY <2>2
<1> HIDE DEF part
<1>2. ASSUME NEW n \in Nat PROVE h[n] = r[n]
  <2> DEFINE f == part(n)
  <2>1. IsNumerals(f, Below(n + 1)) /\ n \in Below(n + 1)
    BY <1>1 DEF Below
  <2>2. h[n] = f[n]
    OBVIOUS
  <2>3. r[n] = NumeralFrom(h, n)
    <3> HIDE DEF h
    <3>1. QED
      OBVIOUS
  <2> HIDE DEF f
  <2>4. f[n] = NumeralFrom(f, n)
    BY <2>1 DEF IsNumerals
  <2>5. n >= 10 => f[n \div 10] = h[n \div 10]
    <3>1. SUFFICES ASSUME n >= 10 PROVE f[n \div 10] = h[n \div 10]
      OBVIOUS
    <3> DEFINE q == n \div 10
    <3>2. q \in Nat /\ q < n
      BY <3>1
    <3> HIDE DEF q
    <3>3. q + 1 \in Nat /\ n + 1 \in Nat /\ q < q + 1 /\ q < n + 1
      BY <3>2
    <3>4. IsNumerals(part(q), Below(q + 1))
      BY <1>1, <3>2
    <3>5. f[q] = part(q)[q]
      BY <2>1, <3>2, <3>3, <3>4, NumeralsAgree
    <3>6. h[q] = part(q)[q]
      BY <3>2
    <3>7. QED
      BY <3>5, <3>6 DEF q
  <2>6. n < 10 \/ n >= 10
    OBVIOUS
  <2> HIDE DEF h
  <2>7. NumeralFrom(f, n) = NumeralFrom(h, n)
    BY <2>5, <2>6 DEF NumeralFrom
  <2>8. QED
    BY <2>2, <2>3, <2>4, <2>7 DEF h
<1>3. h = r
  <2>1. h = [n \in Nat |-> h[n]] /\ r = [n \in Nat |-> r[n]]
    OBVIOUS
  <2> HIDE DEF h, r
  <2>2. QED
    BY <1>2, <2>1
<1>4. IsNumerals(h, Nat)
  <2> HIDE DEF h
  <2>1. QED
    BY <1>3 DEF IsNumerals
<1> HIDE DEF h
<1>5. Numeral = CHOOSE f : IsNumerals(f, Nat)
  BY Zenon DEF Numeral, IsNumerals, NumeralFrom
<1>6. IsNumerals(Numeral, Nat)
  BY <1>4, <1>5
<1>7. QED
  BY <1>6 DEF IsNumerals

LEMMA DigitsDiffer ==
    /\ \A a, b \in 1 .. 10 : Digits[a] = Digits[b] => a = b
    /\ \A a \in 1 .. 10 : Digits[a] \in Decimals
    /\ Underscore \notin Decimals /\ "error" \notin Decimals
<1>1. DOMAIN Digits = 1 .. 10
  BY DEF Digits
<1>2. \A a, b \in 1 .. 10 : Digits[a] = Digits[b] => a = b
  BY DEF Digits
<1>3. ASSUME NEW a \in 1 .. 10 PROVE Digits[a] # Underscore /\ Digits[a] # "error"
  <2>1. \/ a = 1 \/ a = 2 \/ a = 3 \/ a = 4 \/ a = 5
        \/ a = 6 \/ a = 7 \/ a = 8 \/ a = 9 \/ a = 10
    OBVIOUS
  <2>2. Digits[a] \in {"0", "1", "2", "3", "4", "5", "6", "7", "8", "9"}
    BY <2>1 DEF Digits
  <2>3. Underscore \notin {"0", "1", "2", "3", "4", "5", "6", "7", "8", "9"}
    BY Zenon DEF Underscore
  <2>4. "error" \notin {"0", "1", "2", "3", "4", "5", "6", "7", "8", "9"}
    BY Zenon
  <2>5. QED
    BY <2>2, <2>3, <2>4
<1>4. QED
  BY <1>1, <1>2, <1>3 DEF Decimals

\* A numeral is a sequence of digits, with one at least.
LEMMA NumeralIsDigits ==
    ASSUME NEW n \in Nat
    PROVE  Numeral[n] \in Seq(Decimals) /\ Len(Numeral[n]) > 0
<1> DEFINE Wrong == {k \in Nat : ~(Numeral[k] \in Seq(Decimals) /\ Len(Numeral[k]) > 0)}
<1>1. ASSUME Wrong # {} PROVE FALSE
  <2>1. PICK k \in Wrong : \A j \in Wrong : k <= j
    <3>1. Wrong \in SUBSET Nat
      OBVIOUS
    <3> HIDE DEF Wrong
    <3>2. QED
      BY <1>1, <3>1, Least
  <2>2. k \in Nat /\ ~(Numeral[k] \in Seq(Decimals) /\ Len(Numeral[k]) > 0)
    BY <2>1
  <2>3. CASE k < 10
    <3>1. Numeral[k] = <<Digits[k + 1]>>
      BY <2>2, <2>3, NumeralUnfolds DEF NumeralFrom
    <3>2. Digits[k + 1] \in Decimals
      <4>1. k + 1 \in 1 .. 10
        BY <2>2, <2>3
      <4>2. QED
        BY <4>1, DigitsDiffer
    <3>3. <<Digits[k + 1]>> \in Seq(Decimals) /\ Len(<<Digits[k + 1]>>) > 0
      BY <3>2
    <3>4. QED
      BY <2>2, <3>1, <3>3
  <2>4. CASE k >= 10
    <3> DEFINE q == k \div 10
               d == Digits[(k % 10) + 1]
    <3>1. q \in Nat /\ ~(k <= q)
      BY <2>2, <2>4
    <3>2. d \in Decimals
      <4>1. (k % 10) + 1 \in 1 .. 10
        BY <2>2
      <4>2. QED
        BY <4>1, DigitsDiffer
    <3>3. Numeral[k] = Append(Numeral[q], d)
      <4>1. Numeral[k] = NumeralFrom(Numeral, k) /\ ~(k < 10)
        BY <2>2, <2>4, NumeralUnfolds
      <4>2. QED
        BY <4>1, Zenon DEF NumeralFrom
    <3> HIDE DEF q, d
    <3>4. Numeral[q] \in Seq(Decimals)
      BY <2>1, <3>1
    <3>5. Append(Numeral[q], d) \in Seq(Decimals) /\ Len(Append(Numeral[q], d)) > 0
      BY <3>2, <3>4
    <3>6. QED
      BY <2>2, <3>3, <3>5
  <2>5. QED
    BY <2>2, <2>3, <2>4
<1>2. QED
  BY <1>1

\* Different numbers are written differently.
LEMMA NumeralsDiffer ==
    ASSUME NEW m \in Nat, NEW n \in Nat, Numeral[m] = Numeral[n]
    PROVE  m = n
<1> DEFINE Shared == {k \in Nat : \E j \in Nat : j # k /\ Numeral[j] = Numeral[k]}
<1>1. ASSUME Shared # {} PROVE FALSE
  <2>1. PICK k \in Shared : \A j \in Shared : k <= j
    <3>1. Shared \in SUBSET Nat
      OBVIOUS
    <3> HIDE DEF Shared
    <3>2. QED
      BY <1>1, <3>1, Least
  <2>2. PICK j \in Nat : j # k /\ Numeral[j] = Numeral[k]
    BY <2>1
  <2>3. k \in Nat /\ j \in Shared
    BY <2>1, <2>2
  <2>4. k <= j
    BY <2>1, <2>3
  <2> DEFINE a == k \div 10
             b == j \div 10
             c == Digits[(k % 10) + 1]
             d == Digits[(j % 10) + 1]
  <2>5. CASE k < 10 /\ j < 10
    <3>1. Numeral[k] = <<Digits[k + 1]>> /\ Numeral[j] = <<Digits[j + 1]>>
      BY <2>3, <2>5, NumeralUnfolds DEF NumeralFrom
    <3>2. Digits[k + 1] = Digits[j + 1]
      BY <2>2, <3>1
    <3>3. k + 1 \in 1 .. 10 /\ j + 1 \in 1 .. 10
      BY <2>3, <2>5
    <3>4. QED
      <4>1. k + 1 = j + 1
        BY <3>2, <3>3, DigitsDiffer
      <4>2. QED
        BY <2>2, <2>3, <4>1
  <2>6. CASE k < 10 /\ j >= 10
    <3>1. Numeral[k] = <<Digits[k + 1]>> /\ Numeral[j] = Append(Numeral[b], d)
      <4>1. Numeral[k] = NumeralFrom(Numeral, k) /\ Numeral[j] = NumeralFrom(Numeral, j)
        BY <2>3, NumeralUnfolds
      <4>2. k < 10 /\ ~(j < 10)
        BY <2>3, <2>6
      <4>3. QED
        BY <4>1, <4>2, Zenon DEF NumeralFrom
    <3>2. b \in Nat
      BY <2>6
    <3> HIDE DEF b, d
    <3>3. Len(Numeral[b]) > 0 /\ Numeral[b] \in Seq(Decimals)
      BY <3>2, NumeralIsDigits
    <3>4. Len(Numeral[j]) = Len(Numeral[b]) + 1
      BY <3>1, <3>3
    <3>5. Len(Numeral[k]) = 1
      BY <3>1
    <3>6. Len(Numeral[j]) = Len(Numeral[k])
      BY <2>2
    <3> DEFINE x == Len(Numeral[b])
               y == Len(Numeral[j])
               z == Len(Numeral[k])
    <3>7. x \in Nat /\ x > 0 /\ y = x + 1 /\ z = 1 /\ y = z
      <4> HIDE DEF Shared
      <4>1. x \in Nat
        BY <3>3
      <4>2. x > 0 /\ y = x + 1
        BY <3>3, <3>4, Zenon
      <4>3. z = 1 /\ y = z
        BY <3>5, <3>6, Zenon
      <4>4. QED
        BY <4>1, <4>2, <4>3
    <3> HIDE DEF Shared, x, y, z
    <3>8. QED
      BY <3>7
  <2>7. CASE k >= 10 /\ j >= 10
    <3>1. Numeral[k] = Append(Numeral[a], c) /\ Numeral[j] = Append(Numeral[b], d)
      <4>1. Numeral[k] = NumeralFrom(Numeral, k) /\ Numeral[j] = NumeralFrom(Numeral, j)
        BY <2>3, NumeralUnfolds
      <4>2. ~(k < 10) /\ ~(j < 10)
        BY <2>3, <2>7
      <4>3. QED
        BY <4>1, <4>2, Zenon DEF NumeralFrom
    <3>2. a \in Nat /\ b \in Nat /\ ~(k <= a)
      BY <2>3, <2>7
    <3>3. (k % 10) + 1 \in 1 .. 10 /\ (j % 10) + 1 \in 1 .. 10
      BY <2>3
    <3>4. k = 10 * (k \div 10) + (k % 10) /\ j = 10 * (j \div 10) + (j % 10)
      BY <2>3
    <3> HIDE DEF Shared
    <3>5. Numeral[a] = Numeral[b] /\ c = d
      <4> HIDE DEF a, b, c, d
      <4>1. Numeral[a] \in Seq(Decimals) /\ Numeral[b] \in Seq(Decimals)
        BY <3>2, NumeralIsDigits
      <4>2. Append(Numeral[a], c) = Append(Numeral[b], d)
        BY <2>2, <3>1
      <4>3. c \in Decimals /\ d \in Decimals
        BY <3>3, DigitsDiffer DEF c, d
      <4> DEFINE u == Numeral[a]
                 v == Numeral[b]
      <4> HIDE DEF u, v
      <4>4. u \in Seq(Decimals) /\ v \in Seq(Decimals) /\ Append(u, c) = Append(v, d)
        BY <4>1, <4>2 DEF u, v
      <4>5. u = v /\ c = d
        BY <4>3, <4>4, AppendInjective
      <4>6. QED
        BY <4>5 DEF u, v
    <3>6. k % 10 = j % 10
      <4>1. (k % 10) + 1 = (j % 10) + 1
        BY <3>3, <3>5, DigitsDiffer
      <4>2. k % 10 \in Nat /\ j % 10 \in Nat
        BY <2>3
      <4>3. QED
        BY <4>1, <4>2
    <3>7. a # b
      BY <2>2, <3>4, <3>6
    <3>8. a \in Shared
      <4> HIDE DEF a, b
      <4>1. QED
        BY <3>2, <3>5, <3>7 DEF Shared
    <3>9. QED
      BY <2>1, <3>2, <3>8
  <2>8. QED
    BY <2>3, <2>4, <2>5, <2>6, <2>7
<1>2. QED
  BY <1>1

\* The text of a numbered label: its base, "_" and digits.
LEMMA TextIs ==
    ASSUME NEW X, NEW base \in Seq(X), NEW n \in Nat
    PROVE  LET s == Text(Label(base, n))
               k == Len(base) + 1
           IN  /\ s \in Seq((X \cup Decimals) \cup {Underscore})
               /\ k \in Nat /\ Len(s) \in Nat /\ Len(s) = k + Len(Numeral[n]) /\ Len(s) > k
               /\ \A i \in 1 .. Len(base) : s[i] = base[i]
               /\ s[k] = Underscore
               /\ \A i \in k + 1 .. Len(s) : s[i] = Numeral[n][i - k] /\ s[i] \in Decimals
<1> DEFINE Y == (X \cup Decimals) \cup {Underscore}
           s == Text(Label(base, n))
           a == Len(base)
           k == a + 1
           t == base \o <<Underscore>>
           d == Numeral[n]
           m == Len(d)
<1>1. s = t \o d
  <2>1. Label(base, n).n = n /\ Label(base, n).name = base
    BY DEF Label, Operand
  <2>2. n # Unnumbered
    BY DEF Unnumbered
  <2>3. QED
    BY <2>1, <2>2 DEF Text
<1>2. d \in Seq(Decimals) /\ m > 0
  BY NumeralIsDigits
<1>3. base \in Seq(Y) /\ <<Underscore>> \in Seq(Y) /\ d \in Seq(Y)
  <2>1. X \subseteq Y /\ Decimals \subseteq Y
    OBVIOUS
  <2>2. Underscore \in Y
    OBVIOUS
  <2> HIDE DEF Y, d
  <2>3. base \in Seq(Y) /\ d \in Seq(Y)
    BY <1>2, <2>1, SeqMonotonic
  <2>4. <<Underscore>> \in Seq(Y)
    <3>1. \A y \in Y : <<y>> \in Seq(Y)
      OBVIOUS
    <3>2. QED
      BY <2>2, <3>1
  <2>5. QED
    BY <2>3, <2>4
<1> HIDE DEF Y
<1>4. /\ t \in Seq(Y) /\ Len(t) = k
      /\ \A i \in 1 .. a : t[i] = base[i]
      /\ t[k] = Underscore
  <2> DEFINE u == <<Underscore>>
  <2>1. u \in Seq(Y) /\ Len(u) = 1 /\ u[1] = Underscore
    BY <1>3
  <2> HIDE DEF u
  <2>2. /\ base \o u \in Seq(Y) /\ Len(base \o u) = Len(base) + Len(u)
        /\ \A i \in 1 .. Len(base) : (base \o u)[i] = base[i]
        /\ \A i \in Len(base) + 1 .. Len(base) + Len(u) : (base \o u)[i] = u[i - Len(base)]
    BY <1>3, <2>1, ConcatElements
  <2>3. a \in Nat /\ k \in a + 1 .. a + 1 /\ k - a = 1
    OBVIOUS
  <2>4. (base \o u)[k] = u[1]
    BY <2>1, <2>2, <2>3
  <2>5. QED
    BY <2>1, <2>2, <2>4 DEF u
<1>5. a \in Nat /\ k \in Nat /\ m \in Nat /\ DOMAIN d = 1 .. m
  <2> HIDE DEF d
  <2>1. QED
    BY <1>2
<1> HIDE DEF t, d, s
<1>6. /\ t \o d \in Seq(Y) /\ Len(t \o d) = Len(t) + Len(d)
      /\ \A i \in 1 .. Len(t) : (t \o d)[i] = t[i]
      /\ \A i \in Len(t) + 1 .. Len(t) + Len(d) : (t \o d)[i] = d[i - Len(t)]
  BY <1>3, <1>4, ConcatElements
<1>7. /\ s \in Seq(Y) /\ Len(s) = k + m
      /\ \A i \in 1 .. k : s[i] = t[i]
      /\ \A i \in k + 1 .. k + m : s[i] = d[i - k]
  BY <1>1, <1>4, <1>6
<1>8. \A i \in 1 .. a : s[i] = base[i]
  <2>1. \A i \in 1 .. a : i \in 1 .. k
    BY <1>5
  <2>2. QED
    BY <1>4, <1>7, <2>1
<1>9. s[k] = Underscore
  <2>1. k \in 1 .. k
    BY <1>5
  <2>2. QED
    BY <1>4, <1>7, <2>1
<1>10. \A i \in k + 1 .. k + m : d[i - k] \in Decimals
  <2>1. \A i \in k + 1 .. k + m : i - k \in 1 .. m
    BY <1>5
  <2>2. QED
    BY <1>2, <1>5, <2>1
<1>11. Len(s) > k /\ Len(s) \in Nat
  BY <1>2, <1>5, <1>7
<1>12. QED
  BY <1>5, <1>7, <1>8, <1>9, <1>10, <1>11 DEF s, d, Y

\* Its base and its number can be read back.
LEMMA NumberedTextsDiffer ==
    ASSUME NEW X, NEW b1 \in Seq(X), NEW b2 \in Seq(X), NEW n1 \in Nat, NEW n2 \in Nat,
           Text(Label(b1, n1)) = Text(Label(b2, n2))
    PROVE  b1 = b2 /\ n1 = n2
<1> DEFINE s == Text(Label(b1, n1))
           t == Text(Label(b2, n2))
           j == Len(b1) + 1
           k == Len(b2) + 1
           d1 == Numeral[n1]
           d2 == Numeral[n2]
           c == Len(s)
           m1 == Len(d1)
           m2 == Len(d2)
<1>1. /\ j \in Nat /\ Len(s) \in Nat /\ Len(s) = j + Len(d1) /\ Len(s) > j
      /\ \A i \in 1 .. Len(b1) : s[i] = b1[i]
      /\ s[j] = Underscore
      /\ \A i \in j + 1 .. Len(s) : s[i] = d1[i - j] /\ s[i] \in Decimals
  BY TextIs
<1>2. /\ k \in Nat /\ Len(t) = k + Len(d2) /\ Len(t) > k
      /\ \A i \in 1 .. Len(b2) : t[i] = b2[i]
      /\ t[k] = Underscore
      /\ \A i \in k + 1 .. Len(t) : t[i] = d2[i - k] /\ t[i] \in Decimals
  BY TextIs
<1>3. d1 \in Seq(Decimals) /\ d2 \in Seq(Decimals) /\ Len(d1) \in Nat /\ Len(d2) \in Nat
  <2>1. d1 \in Seq(Decimals) /\ d2 \in Seq(Decimals)
    BY NumeralIsDigits
  <2> HIDE DEF d1, d2
  <2>2. QED
    BY <2>1
<1>4. s = t
  OBVIOUS
<1> HIDE DEF s, t, d1, d2
<1>5. /\ Len(b1) \in Nat /\ Len(b2) \in Nat /\ j = Len(b1) + 1 /\ k = Len(b2) + 1
      /\ j \in Nat /\ k \in Nat /\ c \in Nat /\ m1 \in Nat /\ m2 \in Nat
      /\ c = j + m1 /\ c = k + m2 /\ c > j /\ c > k /\ c = Len(s) /\ c = Len(t)
  <2>1. Len(b1) \in Nat /\ Len(b2) \in Nat
    OBVIOUS
  <2>2. j \in Nat /\ c \in Nat /\ m1 \in Nat /\ c = j + m1 /\ c > j
    BY <1>1, <1>3, Zenon
  <2>3. k \in Nat /\ m2 \in Nat /\ c = k + m2 /\ c > k
    BY <1>2, <1>3, <1>4, Zenon
  <2>4. QED
    BY <1>4, <2>1, <2>2, <2>3
<1> HIDE DEF j, k, c, m1, m2
<1>6. ~(j < k)
  <2>1. SUFFICES ASSUME j < k PROVE FALSE
    OBVIOUS
  <2>2. k \in j + 1 .. c
    BY <1>5, <2>1
  <2>3. s[k] \in Decimals /\ s[k] = Underscore
    BY <1>1, <1>2, <1>4, <1>5, <2>2
  <2>4. QED
    BY <2>3, DigitsDiffer
<1>7. ~(k < j)
  <2>1. SUFFICES ASSUME k < j PROVE FALSE
    OBVIOUS
  <2>2. j \in k + 1 .. c
    BY <1>5, <2>1
  <2>3. t[j] \in Decimals /\ t[j] = Underscore
    BY <1>1, <1>2, <1>4, <1>5, <2>2
  <2>4. QED
    BY <2>3, DigitsDiffer
<1>8. j = k /\ Len(b1) = Len(b2)
  BY <1>5, <1>6, <1>7
<1>9. b1 = b2
  <2>1. \A i \in 1 .. Len(b1) : b1[i] = b2[i]
    BY <1>1, <1>2, <1>4, <1>8
  <2>2. QED
    BY <1>8, <2>1, SeqEqual
<1>10. d1 = d2
  <2>1. Len(d1) = Len(d2)
    <3>1. m1 = m2
      BY <1>5, <1>8
    <3>2. QED
      BY <3>1 DEF m1, m2
  <2>2. ASSUME NEW i \in 1 .. Len(d1) PROVE d1[i] = d2[i]
    <3> DEFINE h == i + j
    <3>1. h \in j + 1 .. c /\ h - j = i /\ i \in Nat
      <4>1. i \in 1 .. m1
        BY <2>2 DEF m1
      <4>2. QED
        BY <1>5, <4>1
    <3> HIDE DEF h
    <3>2. s[h] = d1[i] /\ t[h] = d2[i]
      BY <1>1, <1>2, <1>5, <1>8, <3>1
    <3>3. QED
      BY <1>4, <3>2
  <2>3. QED
    BY <1>3, <2>1, <2>2, SeqEqual
<1>11. n1 = n2
  BY <1>10, NumeralsDiffer DEF d1, d2
<1>12. QED
  BY <1>9, <1>11

-----------------------------------------------------------------------------
(* What FlattenSeq makes of sequences over a set is a sequence over it.    *)

IsFlattening(f, seqs, n) ==
    f = [i \in 1 .. n |-> IF i = 1 THEN seqs[i] ELSE f[i - 1] \o seqs[i]]

\* What FlattenSeq chooses exists: the sequences one after the other.
LEMMA FlatteningExists ==
    ASSUME NEW seqs, NEW m \in Nat \ {0}
    PROVE  \E f : IsFlattening(f, seqs, m)
<1> DEFINE Without == {n \in Nat : n # 0 /\ ~\E f : IsFlattening(f, seqs, n)}
<1>1. ASSUME Without # {} PROVE FALSE
  <2>1. PICK n \in Without : \A k \in Without : n <= k
    <3>1. Without \in SUBSET Nat
      OBVIOUS
    <3> HIDE DEF Without
    <3>2. QED
      BY <1>1, <3>1, Least
  <2>2. n \in Nat /\ n # 0 /\ ~\E f : IsFlattening(f, seqs, n)
    BY <2>1
  <2>3. CASE n = 1
    <3> DEFINE f == [i \in 1 .. n |-> seqs[i]]
    <3>1. \A i \in 1 .. n : i = 1
      BY <2>3
    <3>2. f = [i \in 1 .. n |-> IF i = 1 THEN seqs[i] ELSE f[i - 1] \o seqs[i]]
      BY <3>1
    <3>3. IsFlattening(f, seqs, n)
      BY <3>2 DEF IsFlattening
    <3>4. QED
      BY <2>2, <3>3
  <2>4. CASE n # 1
    <3>1. n - 1 \in Nat /\ n - 1 # 0 /\ ~(n <= n - 1)
      BY <2>2, <2>4
    <3>2. n - 1 \notin Without
      BY <2>1, <3>1
    <3>3. PICK g : IsFlattening(g, seqs, n - 1)
      BY <3>1, <3>2
    <3> DEFINE f == [i \in 1 .. n |-> IF i = n THEN g[n - 1] \o seqs[n] ELSE g[i]]
               h == [i \in 1 .. n |-> IF i = 1 THEN seqs[i] ELSE f[i - 1] \o seqs[i]]
    <3>4. ASSUME NEW i \in 1 .. n PROVE f[i] = h[i]
      <4>1. CASE i = n
        <5>1. n - 1 \in 1 .. n /\ n - 1 # n
          BY <3>1, <2>2
        <5>2. f[n - 1] = g[n - 1]
          BY <5>1
        <5>3. f[i] = g[n - 1] \o seqs[n]
          BY <4>1
        <5>4. h[i] = f[n - 1] \o seqs[n]
          <6> HIDE DEF f
          <6>1. QED
            BY <2>4, <4>1
        <5>5. QED
          BY <5>2, <5>3, <5>4
      <4>2. CASE i # n
        <5>1. i \in 1 .. n - 1
          BY <2>2, <4>2
        <5>2. g[i] = IF i = 1 THEN seqs[i] ELSE g[i - 1] \o seqs[i]
          BY <3>3, <5>1 DEF IsFlattening
        <5>3. i # 1 => i - 1 \in 1 .. n /\ i - 1 # n
          BY <2>2, <5>1
        <5>4. i # 1 => f[i - 1] = g[i - 1]
          BY <5>3
        <5>5. f[i] = g[i]
          BY <4>2
        <5>6. h[i] = IF i = 1 THEN seqs[i] ELSE f[i - 1] \o seqs[i]
          <6> HIDE DEF f
          <6>1. QED
            OBVIOUS
        <5>7. QED
          BY <5>2, <5>4, <5>5, <5>6
      <4>3. QED
        BY <4>1, <4>2
    <3>5. f = h
      <4>1. f = [i \in 1 .. n |-> f[i]] /\ h = [i \in 1 .. n |-> h[i]]
        OBVIOUS
      <4> HIDE DEF f, h
      <4>2. QED
        BY <3>4, <4>1
    <3>6. IsFlattening(f, seqs, n)
      <4> HIDE DEF f
      <4>1. QED
        BY <3>5 DEF IsFlattening
    <3> HIDE DEF f
    <3>7. QED
      BY <2>2, <3>6
  <2>5. QED
    BY <2>3, <2>4
<1>2. QED
  BY <1>1

LEMMA FlattenedIsSeq ==
    ASSUME NEW S, NEW seqs \in Seq(Seq(S))
    PROVE  FlattenSeq(seqs) \in Seq(S)
<1>1. Len(seqs) \in Nat /\ \A i \in 1 .. Len(seqs) : seqs[i] \in Seq(S)
  OBVIOUS
<1>2. CASE Len(seqs) = 0
  <2>1. seqs = <<>>
    BY <1>2
  <2>2. FlattenSeq(seqs) = seqs
    BY <1>2 DEF FlattenSeq
  <2>3. <<>> \in Seq(S)
    OBVIOUS
  <2>4. QED
    BY <2>1, <2>2, <2>3
<1>3. CASE Len(seqs) # 0
  <2> DEFINE f == CHOOSE f : IsFlattening(f, seqs, Len(seqs))
  <2>1. FlattenSeq(seqs) = f[Len(seqs)]
    BY <1>3 DEF FlattenSeq, IsFlattening
  <2>2. IsFlattening(f, seqs, Len(seqs))
    BY <1>1, <1>3, FlatteningExists
  <2> HIDE DEF f
  <2> DEFINE Wrong == {i \in Nat : i \in 1 .. Len(seqs) /\ f[i] \notin Seq(S)}
  <2>3. ASSUME Wrong # {} PROVE FALSE
    <3>1. PICK i \in Wrong : \A k \in Wrong : i <= k
      <4>1. Wrong \in SUBSET Nat
        OBVIOUS
      <4> HIDE DEF Wrong
      <4>2. QED
        BY <2>3, <4>1, Least
    <3>2. i \in 1 .. Len(seqs) /\ f[i] \notin Seq(S)
      BY <3>1
    <3>3. f[i] = IF i = 1 THEN seqs[i] ELSE f[i - 1] \o seqs[i]
      BY <2>2, <3>2 DEF IsFlattening
    <3>4. i # 1
      BY <1>1, <3>2, <3>3
    <3>5. i - 1 \in Nat /\ i - 1 \in 1 .. Len(seqs) /\ ~(i <= i - 1)
      BY <1>1, <3>2, <3>4
    <3>6. f[i - 1] \in Seq(S)
      BY <3>1, <3>5
    <3>7. seqs[i] \in Seq(S)
      BY <1>1, <3>2
    <3>8. QED
      BY <3>2, <3>3, <3>4, <3>6, <3>7
  <2>4. Len(seqs) \in 1 .. Len(seqs)
    BY <1>1, <1>3
  <2>5. QED
    BY <1>1, <2>1, <2>3, <2>4
<1>4. QED
  BY <1>2, <1>3

-----------------------------------------------------------------------------
(* The lines of the methods.                                               *)

NoLabel == {x \in AnyOperand : x.mode # "label"}
Harmless == OpCodes \ ({"label", "call"} \cup Jumps)

LEMMA OperandsHaveTypes ==
    /\ \A r \in Words : Reg(r) \in NoLabel /\ At(r) \in NoLabel
    /\ \A n \in Int \cup {IntWidth} : Imm(n) \in NoLabel /\ Frame(n) \in NoLabel
    /\ Nothing \in NoLabel
    /\ \A base \in Seq(Words), n \in Int : Label(base, n) \in AnyOperand /\ Label(base, n).n = n
<1>1. \A r \in Words : <<r>> \in Seq(Words)
  OBVIOUS
<1>2. <<>> \in Seq(Words)
  OBVIOUS
<1>3. QED
  BY <1>1, <1>2 DEF Modes, NoLabel, AnyOperand, Reg, At, Imm, Frame, Nothing, Label, Operand

LEMMA RegistersHaveTypes ==
    /\ rax \in NoLabel /\ rbx \in NoLabel /\ rcx \in NoLabel /\ rdx \in NoLabel
    /\ rdi \in NoLabel /\ rsi \in NoLabel /\ rsp \in NoLabel /\ rbp \in NoLabel
    /\ xmm0 \in NoLabel /\ xmm1 \in NoLabel
BY OperandsHaveTypes DEF Words, rax, rbx, rcx, rdx, rdi, rsi, rsp, rbp, xmm0, xmm1

LEMMA ResultHasType == \A type : Result(type) \in NoLabel
BY RegistersHaveTypes DEF Result

LEMMA HarmlessIsQuiet ==
    ASSUME NEW F, NEW D
    PROVE  \A op \in Harmless : \A x, y \in NoLabel :
              /\ Ins(op, x, y) \in Quiet(F, D)
              /\ Do1(op, x) \in Quiet(F, D)
              /\ Do(op) \in Quiet(F, D)
<1>1. ASSUME NEW op \in Harmless, NEW x \in NoLabel, NEW y \in NoLabel
      PROVE  Ins(op, x, y) \in Quiet(F, D)
  <2>1. Ins(op, x, y) \in AnyLine
    BY DEF Harmless, NoLabel, AnyLine, Ins
  <2>2. op \notin Jumps /\ op # "label" /\ op # "call"
    BY DEF Harmless
  <2>3. y.mode # "label"
    BY DEF NoLabel
  <2>4. Ins(op, x, y).op = op /\ Ins(op, x, y).from = y
    BY DEF Ins
  <2>5. QED
    BY <2>1, <2>2, <2>3, <2>4 DEF Quiet, Fits, FitsData
<1>2. QED
  BY <1>1, OperandsHaveTypes DEF Do1, Do

\* The jumps to the handlers of run time errors need no label of the function.
LEMMA ErrorsAreQuiet ==
    ASSUME NEW F, NEW D
    PROVE  \A op \in Jumps : \A l \in HandlerLabels : Do1(op, l) \in Quiet(F, D)
<1>1. HandlerLabels \subseteq AnyOperand
  <2>1. {"ml", Underscore, "array", "bounds", "shift", "error"} \subseteq Words
    BY DEF Words
  <2>2. /\ <<"ml", Underscore, "array", Underscore, "bounds", Underscore, "error">> \in Seq(Words)
        /\ <<"ml", Underscore, "shift", Underscore, "error">> \in Seq(Words)
    BY <2>1
  <2>3. Unnumbered \in Int
    BY DEF Unnumbered
  <2>4. QED
    BY <2>3, <2>2, OperandsHaveTypes DEF HandlerLabels, BoundsError, ShiftError
<1>2. SUFFICES ASSUME NEW op \in Jumps, NEW l \in HandlerLabels
               PROVE  Do1(op, l) \in Quiet(F, D)
  OBVIOUS
<1>3. op \in OpCodes /\ op \notin {"label", "call", "lea", "load"}
  BY DEF Jumps, OpCodes
<1>4. Nothing \in AnyOperand
  BY OperandsHaveTypes DEF NoLabel
<1>5. Do1(op, l) \in AnyLine
  BY <1>1, <1>3, <1>4 DEF AnyLine, Do1, Ins
<1>6. Do1(op, l).op = op /\ Do1(op, l).to = l
  BY DEF Do1, Ins
<1>7. QED
  BY <1>3, <1>5, <1>6 DEF Quiet, Fits, FitsData

\* Where all lines of a method are of this kind, there is only the list to look at.
LEMMA LinesAreQuiet ==
    ASSUME NEW F, NEW D
    PROVE  /\ \A x, y \in NoLabel :
                 /\ Mov(x, y) \in Quiet(F, D)
                 /\ \A op \in Harmless : Ins(op, x, y) \in Quiet(F, D)
           /\ \A op \in Harmless : Do(op) \in Quiet(F, D) /\ \A x \in NoLabel : Do1(op, x) \in Quiet(F, D)
           /\ \A format \in Words : printf(format) \in Quiet(F, D)
<1>1. "mov" \in Harmless /\ "printf" \in Harmless
  BY DEF Harmless, OpCodes, Jumps
<1>2. \A format \in Words : Operand("format", <<format>>, 0) \in NoLabel
  <2>1. \A format \in Words : <<format>> \in Seq(Words)
    OBVIOUS
  <2>2. QED
    BY <2>1 DEF Operand, NoLabel, AnyOperand, Modes
<1>3. NoLabel # {}
  BY RegistersHaveTypes
<1>4. QED
  BY <1>1, <1>2, <1>3, HarmlessIsQuiet DEF Mov, printf

LEMMA BoundsCheckIsQuiet ==
    ASSUME NEW F, NEW D, NEW index \in NoLabel, NEW size \in Int
    PROVE  emitArrayBoundsCheck(index, size) \in Seq(Quiet(F, D))
<1>1. Imm(0) \in NoLabel /\ Imm(size) \in NoLabel
  BY OperandsHaveTypes
<1>2. "cmp" \in Harmless /\ "jl" \in Jumps /\ "jge" \in Jumps /\ BoundsError \in HandlerLabels
  BY DEF Harmless, OpCodes, Jumps, HandlerLabels
<1>3. /\ Ins("cmp", index, Imm(0)) \in Quiet(F, D)
      /\ Ins("cmp", index, Imm(size)) \in Quiet(F, D)
      /\ Do1("jl", BoundsError) \in Quiet(F, D)
      /\ Do1("jge", BoundsError) \in Quiet(F, D)
  BY <1>1, <1>2, LinesAreQuiet, ErrorsAreQuiet
<1>4. QED
  BY <1>3 DEF emitArrayBoundsCheck

LEMMA ElementAddressIsQuiet ==
    ASSUME NEW F, NEW D, NEW base \in Int
    PROVE  ElementAddress(base) \in Seq(Quiet(F, D))
<1>1. Imm(8) \in NoLabel /\ Frame(base) \in NoLabel
  BY OperandsHaveTypes
<1>2. "imul" \in Harmless /\ "lea" \in Harmless /\ "sub" \in Harmless
  BY DEF Harmless, OpCodes, Jumps
<1>3. /\ Mov(rcx, rbx) \in Quiet(F, D)
      /\ Ins("imul", rcx, Imm(8)) \in Quiet(F, D)
      /\ Ins("lea", rdx, Frame(base)) \in Quiet(F, D)
      /\ Ins("sub", rdx, rcx) \in Quiet(F, D)
  BY <1>1, <1>2, LinesAreQuiet, RegistersHaveTypes
<1>4. QED
  BY <1>3 DEF ElementAddress

-----------------------------------------------------------------------------
(* The expressions.                                                        *)

LEMMA PlainItems ==
    ASSUME NEW E, NEW S, NEW F, NEW D
    PROVE  /\ \A n \in E \cup S : Gen(n) \in Plain(E, S, F, D)
           /\ \A text \in Messages : Refuse(text) \in Plain(E, S, F, D)
           /\ \A lines \in Seq(Quiet(F, D)) : Emit(lines) \in Plain(E, S, F, D)
           /\ \A n \in S : n.kind = "for" => Item("rounds", n) \in Plain(E, S, F, D)
<1> DEFINE Q == Quiet(F, D)
<1> HIDE DEF Q
<1>1. QED
  BY DEF Plain, Gen, Refuse, Emit, Item, Q

LEMMA RefusalIsPlain ==
    ASSUME NEW E, NEW S, NEW F, NEW D
    PROVE  \A text \in Messages : <<Refuse(text)>> \in Seq(Plain(E, S, F, D))
BY PlainItems

LEMMA GenAllIsPlain ==
    ASSUME NEW E, NEW S, NEW F, NEW D
    PROVE  /\ \A nodes \in Seq(E) : GenAll(nodes) \in Seq(Plain(E, S, F, D))
           /\ \A nodes \in Seq(S) : GenAll(nodes) \in Seq(Plain(E, S, F, D))
<1>1. ASSUME NEW nodes \in Seq(E \cup S) PROVE GenAll(nodes) \in Seq(Plain(E, S, F, D))
  <2>1. \A i \in DOMAIN nodes : Gen(nodes[i]) \in Plain(E, S, F, D)
    BY PlainItems
  <2>2. QED
    BY <2>1 DEF GenAll
<1>2. \A nodes : nodes \in Seq(E) \/ nodes \in Seq(S) => nodes \in Seq(E \cup S)
  BY SeqMonotonic
<1>3. QED
  BY <1>1, <1>2

LEMMA LiteralsArePlain ==
    ASSUME NEW E, NEW S, NEW F, NEW D, NEW n, n.value \in Int
    PROVE  /\ emitIntLiteralExpr(n) \in Seq(Plain(E, S, F, D))
           /\ emitBoolLiteralExpr(n) \in Seq(Plain(E, S, F, D))
<1>1. Imm(n.value) \in NoLabel
  BY OperandsHaveTypes
<1>2. Mov(rax, Imm(n.value)) \in Quiet(F, D)
  BY <1>1, LinesAreQuiet, RegistersHaveTypes
<1>3. Emit(<<Mov(rax, Imm(n.value))>>) \in Plain(E, S, F, D)
  <2>1. <<Mov(rax, Imm(n.value))>> \in Seq(Quiet(F, D))
    BY <1>2
  <2>2. QED
    BY <2>1, PlainItems
<1>4. QED
  BY <1>3 DEF emitIntLiteralExpr, emitBoolLiteralExpr

LEMMA VariableIsPlain ==
    ASSUME NEW E, NEW S, NEW F, NEW D, NEW n, n.slot \in Int
    PROVE  emitVariableExpr(n) \in Seq(Plain(E, S, F, D))
<1>1. Frame(localOffset(n.slot)) \in NoLabel
  <2>1. localOffset(n.slot) \in Int
    BY DEF localOffset
  <2>2. QED
    BY <2>1, OperandsHaveTypes
<1>2. Mov(Result(n.type), Frame(localOffset(n.slot))) \in Quiet(F, D)
  BY <1>1, LinesAreQuiet, ResultHasType
<1>3. Emit(<<Mov(Result(n.type), Frame(localOffset(n.slot)))>>) \in Plain(E, S, F, D)
  <2>1. <<Mov(Result(n.type), Frame(localOffset(n.slot)))>> \in Seq(Quiet(F, D))
    BY <1>2
  <2>2. QED
    BY <2>1, PlainItems
<1>4. <<Refuse("variable without local index")>> \in Seq(Plain(E, S, F, D))
  BY RefusalIsPlain DEF Messages
<1>5. <<Emit(<<Mov(Result(n.type), Frame(localOffset(n.slot)))>>)>> \in Seq(Plain(E, S, F, D))
  BY <1>3
<1>6. QED
  BY <1>4, <1>5, Zenon DEF emitVariableExpr

AreasOK == \A s \in DOMAIN areas : areas[s] \in [base : Int, size : Int]

LEMMA IndexIsPlain ==
    ASSUME NEW E, NEW S, NEW F, NEW D, AreasOK, NEW n, n.index \in E
    PROVE  emitIndexExpr(n) \in Seq(Plain(E, S, F, D))
<1>1. <<Refuse("array index expression without local index")>> \in Seq(Plain(E, S, F, D))
  BY RefusalIsPlain DEF Messages
<1>2. CASE HasArea(n.slot)
  <2>1. areas[n.slot].base \in Int /\ areas[n.slot].size \in Int
    BY <1>2 DEF AreasOK, HasArea
  <2> DEFINE size == areas[n.slot].size
             base == areas[n.slot].base
             before == <<Mov(rbx, rax)>>
             after  == <<Mov(rax, At("rdx"))>>
  <2>2. before \in Seq(Quiet(F, D))
    BY LinesAreQuiet, RegistersHaveTypes
  <2>3. after \in Seq(Quiet(F, D))
    <3>1. At("rdx") \in NoLabel
      BY OperandsHaveTypes DEF Words
    <3>2. QED
      BY <3>1, LinesAreQuiet, RegistersHaveTypes
  <2>4. emitArrayBoundsCheck(rbx, size) \in Seq(Quiet(F, D)) /\ ElementAddress(base) \in Seq(Quiet(F, D))
    BY <2>1, BoundsCheckIsQuiet, ElementAddressIsQuiet, RegistersHaveTypes
  <2> HIDE DEF size, base, before, after
  <2>5. before \o emitArrayBoundsCheck(rbx, size) \o ElementAddress(base) \o after \in Seq(Quiet(F, D))
    BY <2>2, <2>3, <2>4
  <2>6. /\ Gen(n.index) \in Plain(E, S, F, D)
        /\ Emit(before \o emitArrayBoundsCheck(rbx, size) \o ElementAddress(base) \o after)
             \in Plain(E, S, F, D)
    BY <2>5, PlainItems
  <2>7. emitIndexExpr(n)
          = <<Gen(n.index), Emit(before \o emitArrayBoundsCheck(rbx, size) \o ElementAddress(base) \o after)>>
    BY <1>2 DEF emitIndexExpr, size, base, before, after
  <2>8. QED
    BY <2>6, <2>7
<1>3. CASE ~HasArea(n.slot)
  BY <1>1, <1>3 DEF emitIndexExpr
<1>4. QED
  BY <1>2, <1>3

LEMMA FieldIsPlain ==
    ASSUME NEW E, NEW S, NEW F, NEW D, AreasOK, NEW n, n.field \in Nat
    PROVE  emitFieldAccessExpr(n) \in Seq(Plain(E, S, F, D))
<1>1. <<Refuse("field access without semantic indexes")>> \in Seq(Plain(E, S, F, D))
  BY RefusalIsPlain DEF Messages
<1>2. CASE HasArea(n.slot)
  <2>1. areas[n.slot].base + n.field * 8 \in Int
    BY <1>2 DEF AreasOK, HasArea
  <2>2. Mov(rax, Frame(areas[n.slot].base + n.field * 8)) \in Quiet(F, D)
    BY <2>1, OperandsHaveTypes, LinesAreQuiet, RegistersHaveTypes
  <2>3. <<Mov(rax, Frame(areas[n.slot].base + n.field * 8))>> \in Seq(Quiet(F, D))
    BY <2>2
  <2>4. Emit(<<Mov(rax, Frame(areas[n.slot].base + n.field * 8))>>) \in Plain(E, S, F, D)
    BY <2>3, PlainItems
  <2>5. QED
    BY <1>2, <2>4 DEF emitFieldAccessExpr
<1>3. CASE ~HasArea(n.slot)
  BY <1>1, <1>3 DEF emitFieldAccessExpr
<1>4. QED
  BY <1>2, <1>3

\* The registers of arguments are there: no class has run out of them.
LEMMA ArgumentsHaveRegisters ==
    ASSUME NEW T, NEW types \in Seq(T), ~NotPassed(types), NEW i \in DOMAIN types
    PROVE  RegisterFor(types, i) \in NoLabel
<1> DEFINE Floats == {j \in 1 .. i : types[j] = "float"}
<1>1. i \in Nat /\ i >= 1 /\ IsFiniteSet(1 .. i) /\ Cardinality(1 .. i) = i
  BY FS_Interval
<1>2. IsFiniteSet(Floats) /\ Cardinality(Floats) \in Nat
  BY <1>1, FS_Subset, FS_CardinalityType
<1>3. fpIndex(types, i) = Cardinality(Floats)
  BY DEF fpIndex
<1>4. fpIndex(types, i) <= Len(fpArgRegs) /\ gpIndex(types, i) <= Len(gpArgRegs)
  BY <1>1, <1>2, <1>3 DEF NotPassed, gpIndex, fpArgRegs, gpArgRegs
<1>5. CASE types[i] = "float"
  <2>1. Floats # {}
    BY <1>1, <1>5
  <2>2. Cardinality(Floats) # 0
    BY <1>2, <2>1, FS_EmptySet
  <2>3. fpIndex(types, i) \in 1 .. 8
    BY <1>2, <1>3, <1>4, <2>2 DEF fpArgRegs
  <2>4. fpArgRegs[fpIndex(types, i)] \in Words
    BY <2>3 DEF fpArgRegs, Words
  <2>5. QED
    BY <1>5, <2>4, OperandsHaveTypes DEF RegisterFor
<1>6. CASE types[i] # "float"
  <2>1. Floats \subseteq (1 .. i) \ {i}
    BY <1>6
  <2>2. IsFiniteSet((1 .. i) \ {i}) /\ Cardinality((1 .. i) \ {i}) = i - 1
    <3>1. i \in 1 .. i
      BY <1>1
    <3>2. QED
      BY <1>1, <3>1, FS_RemoveElement
  <2>3. Cardinality(Floats) <= i - 1
    <3> DEFINE Others == (1 .. i) \ {i}
    <3> HIDE DEF Floats, Others
    <3>1. Floats \subseteq Others /\ IsFiniteSet(Others) /\ Cardinality(Others) = i - 1
      BY <2>1, <2>2 DEF Others
    <3>2. Cardinality(Floats) <= Cardinality(Others)
      BY <3>1, FS_Subset
    <3>3. QED
      BY <3>1, <3>2
  <2>4. gpIndex(types, i) \in 1 .. 6
    BY <1>1, <1>2, <1>3, <1>4, <2>3 DEF gpIndex, gpArgRegs
  <2>5. gpArgRegs[gpIndex(types, i)] \in Words
    BY <2>4 DEF gpArgRegs, Words
  <2>6. QED
    BY <1>6, <2>5, OperandsHaveTypes DEF RegisterFor
<1>7. QED
  BY <1>5, <1>6

LEMMA CallIsQuiet ==
    ASSUME NEW F, NEW D, NEW label \in F, F \subseteq AnyOperand
    PROVE  Do1("call", label) \in Quiet(F, D)
<1>1. Do1("call", label) \in AnyLine
  BY OperandsHaveTypes DEF Do1, Ins, AnyLine, OpCodes, NoLabel
<1>2. Do1("call", label).op = "call" /\ Do1("call", label).to = label
  BY DEF Do1, Ins
<1>3. QED
  BY <1>1, <1>2 DEF Quiet, Fits, FitsData, Jumps

LEMMA PassedIsPlain ==
    ASSUME NEW E, NEW S, NEW F, NEW D, NEW label \in F, F \subseteq AnyOperand,
           NEW args \in Seq(E)
    PROVE  Passed(args, label) \in Seq(Plain(E, S, F, D))
<1> DEFINE types == TypesOf(args)
           place(i) == Len(args) + 1 - i
           push(i) == Do1("push", Result(args[i].type))
           waiting == [i \in DOMAIN args |-> <<Gen(args[i]), Emit(<<push(i)>>)>>]
           pops == [i \in DOMAIN args |-> Do1("pop", RegisterFor(types, place(i)))]
           call == <<Do1("call", label)>>
<1>1. CASE NotPassed(types)
  <2>1. <<Refuse("function argument")>> \in Seq(Plain(E, S, F, D))
    BY RefusalIsPlain DEF Messages
  <2>2. QED
    BY <1>1, <2>1 DEF Passed
<1>2. CASE ~NotPassed(types)
  <2>1. types \in Seq({types[i] : i \in DOMAIN args}) /\ DOMAIN types = DOMAIN args
    BY DEF TypesOf
  <2>2. \A i \in DOMAIN args : place(i) \in DOMAIN types
    BY <2>1
  <2> HIDE DEF types
  <2>3. \A i \in DOMAIN args : RegisterFor(types, place(i)) \in NoLabel
    <3> HIDE DEF place
    <3>1. QED
      BY <1>2, <2>1, <2>2, ArgumentsHaveRegisters
  <2>4. "push" \in Harmless /\ "pop" \in Harmless
    BY DEF Harmless, OpCodes, Jumps
  <2>5. pops \in Seq(Quiet(F, D))
    <3>1. \A i \in DOMAIN args : Do1("pop", RegisterFor(types, place(i))) \in Quiet(F, D)
      <4> HIDE DEF place
      <4>1. QED
        BY <2>3, <2>4, LinesAreQuiet
    <3> HIDE DEF place
    <3>2. QED
      BY <3>1
  <2>6. call \in Seq(Quiet(F, D))
    BY CallIsQuiet
  <2>7. waiting \in Seq(Seq(Plain(E, S, F, D)))
    <3>1. ASSUME NEW i \in DOMAIN args
          PROVE  <<Gen(args[i]), Emit(<<push(i)>>)>> \in Seq(Plain(E, S, F, D))
      <4>1. push(i) \in Quiet(F, D)
        BY <2>4, LinesAreQuiet, ResultHasType
      <4> HIDE DEF push
      <4>2. <<push(i)>> \in Seq(Quiet(F, D))
        BY <4>1
      <4>3. Gen(args[i]) \in Plain(E, S, F, D) /\ Emit(<<push(i)>>) \in Plain(E, S, F, D)
        <5>1. args[i] \in E \cup S
          OBVIOUS
        <5>2. QED
          BY <4>2, <5>1, PlainItems
      <4>4. QED
        BY <4>3
    <3> DEFINE Lists == Seq(Plain(E, S, F, D))
               pair(i) == <<Gen(args[i]), Emit(<<push(i)>>)>>
    <3>2. \A i \in DOMAIN args : pair(i) \in Lists
      BY <3>1
    <3> HIDE DEF Lists, pair
    <3>3. [i \in DOMAIN args |-> pair(i)] \in Seq(Lists)
      BY <3>2
    <3>4. QED
      BY <3>3 DEF Lists, pair
  <2> HIDE DEF waiting, pops, call
  <2>8. FlattenSeq(waiting) \in Seq(Plain(E, S, F, D))
    BY <2>7, FlattenedIsSeq
  <2>9. Emit(pops \o call) \in Plain(E, S, F, D)
    <3>1. pops \o call \in Seq(Quiet(F, D))
      BY <2>5, <2>6
    <3>2. QED
      BY <3>1, PlainItems
  <2>10. FlattenSeq(waiting) \o <<Emit(pops \o call)>> \in Seq(Plain(E, S, F, D))
    BY <2>8, <2>9
  <2>11. Passed(args, label) = FlattenSeq(waiting) \o <<Emit(pops \o call)>>
    BY <1>2, Zenon DEF Passed, types, waiting, push, pops, place, call
  <2>12. QED
    BY <2>10, <2>11
<1>3. QED
  BY <1>1, <1>2

LEMMA OperateIsQuiet ==
    ASSUME NEW F, NEW D, NEW op \in ArithmeticOps, NEW signed \in BOOLEAN
    PROVE  Operate(op, signed) \in Seq(Quiet(F, D))
<1>1. {"add", "sub", "imul", "cqo", "idiv", "div", "and", "or", "xor", "shl", "sar", "shr", "cmp",
       "movzx", "sete", "setne", "setl", "setle", "setg", "setge", "setb", "setbe", "seta", "setae"}
        \subseteq Harmless
  BY DEF Harmless, OpCodes, Jumps
<1>2. \A o \in {"add", "sub", "imul", "and", "or", "xor", "shl"} : OnRbx(o) \in Seq(Quiet(F, D))
  BY <1>1, LinesAreQuiet, RegistersHaveTypes DEF OnRbx
<1>3. \A set \in {"sete", "setne", "setl", "setle", "setg", "setge", "setb", "setbe", "seta", "setae"} :
          Compared(set) \in Seq(Quiet(F, D))
  <2>1. SUFFICES ASSUME NEW set \in {"sete", "setne", "setl", "setle", "setg", "setge", "setb", "setbe",
                                     "seta", "setae"}
                 PROVE  Compared(set) \in Seq(Quiet(F, D))
    OBVIOUS
  <2>2. Ins("cmp", rbx, rax) \in Quiet(F, D) /\ Do1(set, rax) \in Quiet(F, D) /\ Do("movzx") \in Quiet(F, D)
    BY <1>1, LinesAreQuiet, RegistersHaveTypes
  <2>3. QED
    BY <2>2 DEF Compared, Truth
<1>4. \A o \in {"shl", "sar", "shr"} : Shifted(o) \in Seq(Quiet(F, D))
  <2>1. SUFFICES ASSUME NEW o \in {"shl", "sar", "shr"} PROVE Shifted(o) \in Seq(Quiet(F, D))
    OBVIOUS
  <2>2. Imm(0) \in NoLabel /\ Imm(IntWidth) \in NoLabel
    <3>1. 0 \in Int \cup {IntWidth} /\ IntWidth \in Int \cup {IntWidth}
      OBVIOUS
    <3>2. QED
      BY <3>1, OperandsHaveTypes
  <2>3. Ins("cmp", rax, Imm(0)) \in Quiet(F, D) /\ Ins("cmp", rax, Imm(IntWidth)) \in Quiet(F, D)
    BY <1>1, <2>2, LinesAreQuiet, RegistersHaveTypes
  <2>4. Do1("jl", ShiftError) \in Quiet(F, D) /\ Do1("jge", ShiftError) \in Quiet(F, D)
    BY ErrorsAreQuiet DEF Jumps, HandlerLabels
  <2>5. Mov(rcx, rax) \in Quiet(F, D) /\ Mov(rax, rbx) \in Quiet(F, D) /\ Do(o) \in Quiet(F, D)
    BY <1>1, LinesAreQuiet, RegistersHaveTypes
  <2>6. QED
    BY <2>3, <2>4, <2>5 DEF Shifted
<1>5. SignedDivision \in Seq(Quiet(F, D)) /\ UnsignedDivision \in Seq(Quiet(F, D))
  <2>1. Imm(0) \in NoLabel
    BY OperandsHaveTypes
  <2>2. /\ Mov(rcx, rax) \in Quiet(F, D) /\ Mov(rax, rbx) \in Quiet(F, D) /\ Do("cqo") \in Quiet(F, D)
        /\ Do1("idiv", rcx) \in Quiet(F, D) /\ Do1("div", rcx) \in Quiet(F, D)
        /\ Mov(rdx, Imm(0)) \in Quiet(F, D)
    BY <1>1, <2>1, LinesAreQuiet, RegistersHaveTypes
  <2>3. QED
    BY <2>2 DEF SignedDivision, UnsignedDivision
<1>6. /\ <<Ins("add", rax, rbx)>> \in Seq(Quiet(F, D))
      /\ <<Ins("imul", rax, rbx)>> \in Seq(Quiet(F, D))
      /\ <<Mov(rax, rdx)>> \in Seq(Quiet(F, D))
  BY <1>1, LinesAreQuiet, RegistersHaveTypes
<1> DEFINE Division == IF signed THEN SignedDivision ELSE UnsignedDivision
<1>7. Division \in Seq(Quiet(F, D))
  BY <1>5
<1>8. CASE op \in {"BitAnd", "BitOr", "BitXor", "Sub"}
  BY <1>2, <1>8 DEF Operate
<1>9. CASE op \in {"Add", "Mul"}
  BY <1>6, <1>9 DEF Operate
<1>10. CASE op \in {"Div", "Mod"}
  <2>1. op = "Div" => Operate(op, signed) = Division
    BY DEF Operate
  <2>2. op = "Mod" => Operate(op, signed) = Division \o <<Mov(rax, rdx)>>
    BY DEF Operate
  <2> HIDE DEF Division
  <2>3. Division \o <<Mov(rax, rdx)>> \in Seq(Quiet(F, D))
    BY <1>6, <1>7
  <2>4. QED
    BY <1>7, <1>10, <2>1, <2>2, <2>3
<1>11. CASE op \in {"ShiftLeft", "ShiftRight"}
  BY <1>4, <1>11 DEF Operate
<1>12. CASE op \in {"Less", "Greater"}
  BY <1>3, <1>12 DEF Operate
<1>13. CASE op \in {"LessEqual", "GreaterEqual", "Equal", "NotEqual"}
  BY <1>3, <1>13 DEF Operate
<1>14. QED
  BY <1>8, <1>9, <1>10, <1>11, <1>12, <1>13 DEF ArithmeticOps

LEMMA OperandsArePlain ==
    ASSUME NEW E, NEW S, NEW F, NEW D, NEW n, n.left \in E, n.right \in E,
           NEW between \in Seq(Quiet(F, D)), NEW after \in Seq(Quiet(F, D))
    PROVE  Operands(n, between, after) \in Seq(Plain(E, S, F, D))
<1>1. n.left \in E \cup S /\ n.right \in E \cup S
  OBVIOUS
<1>2. /\ Gen(n.left) \in Plain(E, S, F, D) /\ Gen(n.right) \in Plain(E, S, F, D)
      /\ Emit(between) \in Plain(E, S, F, D) /\ Emit(after) \in Plain(E, S, F, D)
  BY <1>1, PlainItems
<1>3. QED
  BY <1>2 DEF Operands

LEMMA TruthIsQuiet ==
    ASSUME NEW F, NEW D
    PROVE  /\ \A set \in {"sete", "setne", "setl", "setle", "setg", "setge", "setb", "setbe", "seta", "setae"} :
                 Truth(set) \in Seq(Quiet(F, D))
           /\ \A x, y \in NoLabel : <<Ins("cmp", x, y)>> \in Seq(Quiet(F, D))
<1>1. {"movzx", "cmp", "sete", "setne", "setl", "setle", "setg", "setge", "setb", "setbe", "seta", "setae"}
        \subseteq Harmless
  BY DEF Harmless, OpCodes, Jumps
<1>2. \A set \in Harmless : Do1(set, rax) \in Quiet(F, D) /\ Do("movzx") \in Quiet(F, D)
  BY <1>1, LinesAreQuiet, RegistersHaveTypes
<1>3. \A x, y \in NoLabel : Ins("cmp", x, y) \in Quiet(F, D)
  BY <1>1, LinesAreQuiet
<1>4. QED
  BY <1>1, <1>2, <1>3 DEF Truth

LEMMA OperateFloatIsPlain ==
    ASSUME NEW E, NEW S, NEW F, NEW D, NEW op
    PROVE  OperateFloat(op) \in Seq(Plain(E, S, F, D))
<1>1. CASE op \in DOMAIN FloatOps
  <2>1. FloatOps[op] \in Harmless
    BY <1>1 DEF FloatOps, Harmless, OpCodes, Jumps
  <2>2. Ins(FloatOps[op], xmm0, xmm1) \in Quiet(F, D)
    BY <2>1, LinesAreQuiet, RegistersHaveTypes
  <2>3. <<Ins(FloatOps[op], xmm0, xmm1)>> \in Seq(Quiet(F, D))
    BY <2>2
  <2>4. <<Emit(<<Ins(FloatOps[op], xmm0, xmm1)>>)>> \in Seq(Plain(E, S, F, D))
    BY <2>3, PlainItems
  <2>5. op \notin DOMAIN FloatConditions
    BY <1>1 DEF FloatOps, FloatConditions
  <2>6. QED
    BY <1>1, <2>4, <2>5, Zenon DEF OperateFloat
<1>2. CASE op \notin DOMAIN FloatOps /\ op \in DOMAIN FloatConditions
  <2>1. Truth(FloatConditions[op]) \in Seq(Quiet(F, D))
    <3>1. FloatConditions[op] \in {"sete", "setne", "setb", "setbe", "seta", "setae"}
      BY <1>2 DEF FloatConditions
    <3>2. QED
      BY <3>1, TruthIsQuiet
  <2>2. <<Ins("ucomisd", xmm0, xmm1)>> \in Seq(Quiet(F, D))
    <3>1. "ucomisd" \in Harmless
      BY DEF Harmless, OpCodes, Jumps
    <3>2. QED
      BY <3>1, LinesAreQuiet, RegistersHaveTypes
  <2>3. <<Ins("ucomisd", xmm0, xmm1)>> \o Truth(FloatConditions[op]) \in Seq(Quiet(F, D))
    BY <2>1, <2>2
  <2> DEFINE lines == <<Ins("ucomisd", xmm0, xmm1)>> \o Truth(FloatConditions[op])
  <2>4. lines \in Seq(Quiet(F, D))
    BY <2>3
  <2> HIDE DEF lines
  <2>5. <<Emit(lines)>> \in Seq(Plain(E, S, F, D))
    BY <2>4, PlainItems
  <2>6. QED
    BY <1>2, <2>5, Zenon DEF OperateFloat, lines
<1>3. CASE op \notin DOMAIN FloatOps /\ op \notin DOMAIN FloatConditions
  <2>1. <<Refuse("float64 binary operator")>> \in Seq(Plain(E, S, F, D))
    BY RefusalIsPlain DEF Messages
  <2>2. QED
    BY <1>3, <2>1, Zenon DEF OperateFloat
<1>4. QED
  BY <1>1, <1>2, <1>3

LEMMA BinaryIsPlain ==
    ASSUME NEW E, NEW S, NEW F, NEW D, NEW n, n.left \in E, n.right \in E,
           \/ n.op \in ArithmeticOps
           \/ n.op \in ShortCircuitOps /\ n.left.type = "bool" /\ n.right.type = "bool"
    PROVE  emitBinaryExpr(n) \in Seq(Plain(E, S, F, D))
<1> DEFINE l == n.left.type
           r == n.right.type
           PushRax == <<Do1("push", rax)>>
           PopRbx  == <<Do1("pop", rbx)>>
           Logical == Logic(IF n.op = "And" THEN "and" ELSE "or")
<1>1. {"push", "pop", "cmp", "setne", "and", "or", "movzx"} \subseteq Harmless
  BY DEF Harmless, OpCodes, Jumps
<1>2. PushRax \in Seq(Quiet(F, D)) /\ PopRbx \in Seq(Quiet(F, D))
  BY <1>1, LinesAreQuiet, RegistersHaveTypes
<1> HIDE DEF PushRax, PopRbx
<1>3. CASE "string" \in {l, r}
  <2>1. <<Refuse("string binary operators")>> \in Seq(Plain(E, S, F, D))
    BY RefusalIsPlain DEF Messages
  <2>2. "float" \in {l, r} \/ "uint" \in {l, r} => l # r
    BY <1>3
  <2>3. ~({l, r} \subseteq {"int", "bool"})
    BY <1>3
  <2>4. <<Refuse("mixed int/float binary expression")>> \in Seq(Plain(E, S, F, D))
    BY RefusalIsPlain DEF Messages
  <2>5. <<Refuse("mixed int/uint binary expression")>> \in Seq(Plain(E, S, F, D))
    BY RefusalIsPlain DEF Messages
  <2>6. QED
    BY <1>3, <2>1, <2>2, <2>3, <2>4, <2>5, Zenon DEF emitBinaryExpr
<1>4. CASE "string" \notin {l, r} /\ "float" \in {l, r}
  <2>1. <<Refuse("mixed int/float binary expression")>> \in Seq(Plain(E, S, F, D))
    BY RefusalIsPlain DEF Messages
  <2> DEFINE between == <<Do1("push", xmm0)>>
             after   == <<Mov(xmm1, xmm0), Do1("pop", xmm0)>>
  <2>2. between \in Seq(Quiet(F, D)) /\ after \in Seq(Quiet(F, D))
    BY <1>1, LinesAreQuiet, RegistersHaveTypes
  <2> HIDE DEF between, after
  <2>3. Operands(n, between, after) \o OperateFloat(n.op) \in Seq(Plain(E, S, F, D))
    <3>1. Operands(n, between, after) \in Seq(Plain(E, S, F, D))
      BY <2>2, OperandsArePlain
    <3>2. OperateFloat(n.op) \in Seq(Plain(E, S, F, D))
      BY OperateFloatIsPlain
    <3>3. QED
      BY <3>1, <3>2
  <2>4. ~({l, r} \subseteq {"int", "bool"})
    BY <1>4
  <2>5. QED
    BY <1>4, <2>1, <2>3, <2>4, Zenon DEF emitBinaryExpr, between, after
<1>5. CASE "string" \notin {l, r} /\ "float" \notin {l, r} /\ "uint" \in {l, r}
  <2>1. <<Refuse("mixed int/uint binary expression")>> \in Seq(Plain(E, S, F, D))
    BY RefusalIsPlain DEF Messages
  <2>2. n.op \in ArithmeticOps
    BY <1>5
  <2>3. Operate(n.op, FALSE) \in Seq(Quiet(F, D))
    BY <2>2, OperateIsQuiet
  <2> DEFINE operation == Operate(n.op, FALSE)
  <2>4. operation \in Seq(Quiet(F, D))
    BY <2>3
  <2> HIDE DEF operation
  <2>5. PopRbx \o operation \in Seq(Quiet(F, D))
    BY <1>2, <2>4
  <2>6. Operands(n, PushRax, PopRbx \o operation) \in Seq(Plain(E, S, F, D))
    BY <1>2, <2>5, OperandsArePlain
  <2>7. ~({l, r} \subseteq {"int", "bool"})
    BY <1>5
  <2>8. QED
    BY <1>5, <2>1, <2>6, <2>7, Zenon DEF emitBinaryExpr, PushRax, PopRbx, operation
<1>6. CASE {l, r} \subseteq {"int", "bool"}
  <2>1. Logical \in Seq(Quiet(F, D))
    <3>1. Imm(0) \in NoLabel
      BY OperandsHaveTypes
    <3>2. /\ Ins("cmp", rbx, Imm(0)) \in Quiet(F, D) /\ Ins("cmp", rax, Imm(0)) \in Quiet(F, D)
          /\ Do1("setne", rbx) \in Quiet(F, D) /\ Do1("setne", rax) \in Quiet(F, D)
          /\ Ins("and", rax, rbx) \in Quiet(F, D) /\ Ins("or", rax, rbx) \in Quiet(F, D)
          /\ Do("movzx") \in Quiet(F, D)
      BY <1>1, <3>1, LinesAreQuiet, RegistersHaveTypes
    <3>3. QED
      BY <3>2 DEF Logic
  <2>2. n.op \notin ShortCircuitOps => Operate(n.op, TRUE) \in Seq(Quiet(F, D))
    BY OperateIsQuiet
  <2> DEFINE operation == IF n.op \in ShortCircuitOps THEN Logical ELSE Operate(n.op, TRUE)
  <2>3. operation \in Seq(Quiet(F, D))
    BY <2>1, <2>2
  <2> HIDE DEF operation, Logical
  <2>4. PopRbx \o operation \in Seq(Quiet(F, D))
    BY <1>2, <2>3
  <2>5. Operands(n, PushRax, PopRbx \o operation) \in Seq(Plain(E, S, F, D))
    BY <1>2, <2>4, OperandsArePlain
  <2>6. "string" \notin {l, r} /\ "float" \notin {l, r} /\ "uint" \notin {l, r}
    BY <1>6
  <2>7. QED
    BY <1>6, <2>5, <2>6, Zenon DEF emitBinaryExpr, PushRax, PopRbx, operation, Logical
<1>7. CASE "string" \notin {l, r} /\ "float" \notin {l, r} /\ "uint" \notin {l, r}
           /\ ~({l, r} \subseteq {"int", "bool"})
  <2>1. <<Refuse("non-int32/bool binary expression")>> \in Seq(Plain(E, S, F, D))
    BY RefusalIsPlain DEF Messages
  <2>2. QED
    BY <1>7, <2>1, Zenon DEF emitBinaryExpr
<1>8. QED
  BY <1>3, <1>4, <1>5, <1>6, <1>7

LEMMA UnaryIsPlain ==
    ASSUME NEW E, NEW S, NEW F, NEW D, NEW n, n.operand \in E, n.op \in UnaryOps
    PROVE  emitUnaryExpr(n) \in Seq(Plain(E, S, F, D))
<1> DEFINE negated == <<Mov(xmm1, Imm(0)), Ins("subsd", xmm1, xmm0), Mov(xmm0, xmm1)>>
           neg     == <<Do1("neg", rax)>>
           flipped == <<Do1("not", rax)>>
           truth   == <<Ins("cmp", rax, Imm(0))>> \o Truth("sete")
           Sequences == Seq(Plain(E, S, F, D))
<1>1. Imm(0) \in NoLabel
  BY OperandsHaveTypes
<1>2. {"subsd", "neg", "not"} \subseteq Harmless
  BY DEF Harmless, OpCodes, Jumps
<1>3. /\ negated \in Seq(Quiet(F, D)) /\ neg \in Seq(Quiet(F, D)) /\ flipped \in Seq(Quiet(F, D))
  BY <1>1, <1>2, LinesAreQuiet, RegistersHaveTypes
<1>4. truth \in Seq(Quiet(F, D))
  <2>1. <<Ins("cmp", rax, Imm(0))>> \in Seq(Quiet(F, D)) /\ Truth("sete") \in Seq(Quiet(F, D))
    BY <1>1, TruthIsQuiet, RegistersHaveTypes
  <2>2. QED
    BY <2>1
<1> HIDE DEF negated, neg, flipped, truth
<1>5. <<Refuse("bitwise not for non-int/uint")>> \in Sequences
  BY RefusalIsPlain DEF Messages
<1>6. /\ <<Gen(n.operand)>> \in Sequences
      /\ <<Emit(negated)>> \in Sequences /\ <<Emit(neg)>> \in Sequences
      /\ <<Emit(flipped)>> \in Sequences /\ <<Emit(truth)>> \in Sequences
  <2>1. n.operand \in E \cup S
    OBVIOUS
  <2>2. QED
    BY <1>3, <1>4, <2>1, PlainItems
<1> DEFINE type == n.operand.type
           rest == CASE n.op = "BitNot" ->
                            IF type \in {"int", "uint"} THEN <<Emit(flipped)>>
                            ELSE <<Refuse("bitwise not for non-int/uint")>>
                     [] n.op = "Neg" -> <<Emit(IF type = "float" THEN negated ELSE neg)>>
                     [] n.op = "Not" -> <<Emit(truth)>>
<1>7. emitUnaryExpr(n) = <<Gen(n.operand)>> \o rest
  BY Zenon DEF emitUnaryExpr, flipped, negated, neg, truth
<1>8. rest \in Sequences
  <2> HIDE DEF Sequences
  <2>1. CASE n.op = "BitNot"
    BY <1>5, <1>6, <2>1
  <2>2. CASE n.op = "Neg"
    BY <1>6, <2>2
  <2>3. CASE n.op = "Not"
    BY <1>6, <2>3
  <2>4. QED
    BY <2>1, <2>2, <2>3 DEF UnaryOps
<1> HIDE DEF rest
<1>9. QED
  BY <1>6, <1>7, <1>8

LEMMA CastIsPlain ==
    ASSUME NEW E, NEW S, NEW F, NEW D, NEW n, n.operand \in E
    PROVE  emitCastExpr(n) \in Seq(Plain(E, S, F, D))
<1>1. Imm(0) \in NoLabel
  BY OperandsHaveTypes
<1>2. {"cvtsi2sd", "cvttsd2si", "ucomisd"} \subseteq Harmless
  BY DEF Harmless, OpCodes, Jumps
<1> DEFINE Sequences == Seq(Quiet(F, D))
           unequal == <<Mov(xmm1, Imm(0)), Ins("ucomisd", xmm0, xmm1)>>
<1>3. /\ <<>> \in Sequences
      /\ <<Ins("cvtsi2sd", xmm0, rax)>> \in Sequences
      /\ <<Ins("cvttsd2si", rax, xmm0)>> \in Sequences
      /\ unequal \in Sequences
  BY <1>1, <1>2, LinesAreQuiet, RegistersHaveTypes
<1>4. <<Ins("cmp", rax, Imm(0))>> \in Sequences /\ Truth("setne") \in Sequences
  BY <1>1, TruthIsQuiet, RegistersHaveTypes
<1> HIDE DEF unequal
<1>5. unequal \o Truth("setne") \in Sequences /\ <<Ins("cmp", rax, Imm(0))>> \o Truth("setne") \in Sequences
  BY <1>3, <1>4
<1> HIDE DEF Sequences
<1>6. ASSUME NEW source, NEW target PROVE Converted(source, target) \in Sequences
  <2>1. CASE source = target \/ target \notin {"float", "int", "uint", "bool"}
    <3>1. Converted(source, target) = <<>>
      BY <2>1 DEF Converted
    <3>2. QED
      BY <1>3, <3>1
  <2>2. CASE source # target /\ target = "float"
    BY <1>3, <2>2 DEF Converted
  <2>3. CASE source # target /\ target \in {"int", "uint"}
    BY <1>3, <2>3 DEF Converted
  <2>4. CASE source # target /\ target = "bool"
    BY <1>3, <1>5, <2>4 DEF Converted, unequal
  <2>5. QED
    BY <2>1, <2>2, <2>3, <2>4
<1>7. <<Gen(n.operand), Emit(Converted(n.operand.type, n.type))>> \in Seq(Plain(E, S, F, D))
  <2>1. n.operand \in E \cup S
    OBVIOUS
  <2>2. QED
    BY <1>6, <2>1, PlainItems DEF Sequences
<1>8. <<Refuse("cast type")>> \in Seq(Plain(E, S, F, D))
  BY RefusalIsPlain DEF Messages
<1>9. QED
  BY <1>7, <1>8, Zenon DEF emitCastExpr

LEMMA DataRefsAreQuiet ==
    ASSUME NEW F, NEW D, NEW label \in D, label \in AnyOperand, NEW r \in NoLabel
    PROVE  Ins("lea", r, label) \in Quiet(F, D) /\ Ins("load", r, label) \in Quiet(F, D)
<1>1. SUFFICES ASSUME NEW op \in {"lea", "load"} PROVE Ins(op, r, label) \in Quiet(F, D)
  OBVIOUS
<1>2. op \in OpCodes /\ op \notin Jumps /\ op # "label" /\ op # "call"
  BY DEF OpCodes, Jumps
<1>3. Ins(op, r, label) \in AnyLine
  BY <1>2 DEF Ins, AnyLine, NoLabel
<1>4. Ins(op, r, label).op = op /\ Ins(op, r, label).from = label
  BY DEF Ins
<1>5. QED
  BY <1>2, <1>3, <1>4 DEF Quiet, Fits, FitsData

LEMMA DataLiteralsArePlain ==
    ASSUME NEW E, NEW S, NEW F, NEW D, NEW n, NEW l, l[1] \in D, l[1] \in AnyOperand
    PROVE  /\ emitFloatLiteralExpr(n, l) \in Seq(Plain(E, S, F, D))
           /\ emitStringLiteralExpr(n, l) \in Seq(Plain(E, S, F, D))
<1>1. Ins("load", xmm0, l[1]) \in Quiet(F, D) /\ Ins("lea", rax, l[1]) \in Quiet(F, D)
  BY DataRefsAreQuiet, RegistersHaveTypes
<1>2. <<Ins("load", xmm0, l[1])>> \in Seq(Quiet(F, D)) /\ <<Ins("lea", rax, l[1])>> \in Seq(Quiet(F, D))
  BY <1>1
<1>3. Emit(<<Ins("load", xmm0, l[1])>>) \in Plain(E, S, F, D) /\ Emit(<<Ins("lea", rax, l[1])>>) \in Plain(E, S, F, D)
  BY <1>2, PlainItems
<1>4. QED
  BY <1>3 DEF emitFloatLiteralExpr, emitStringLiteralExpr

\* The built-in functions but an assertion, which has labels.
LEMMA BuiltinIsPlain ==
    ASSUME NEW E, NEW S, NEW F, NEW D, AreasOK, NEW n, NEW l,
           n.op \in UnaryBuiltins \ {"ToInt"},
           ~(n.op = "Assert" /\ n.operand.type = "bool")
    PROVE  emitBuiltin(n, l) \in Seq(Plain(E, S, F, D))
<1> DEFINE Sequences == Seq(Plain(E, S, F, D))
<1>1. <<Refuse("len for non-array value")>> \in Sequences
  BY RefusalIsPlain DEF Messages
<1>2. <<Refuse("assert condition that is not bool")>> \in Sequences
  BY RefusalIsPlain DEF Messages
<1>3. <<Refuse("built-in function")>> \in Sequences
  BY RefusalIsPlain DEF Messages
<1>4. CASE n.op = "Len"
  <2>1. CASE n.operand.kind = "variable" /\ n.operand.type = "array" /\ HasArea(n.operand.slot)
    <3>1. areas[n.operand.slot].size \in Int
      BY <2>1 DEF HasArea, AreasOK
    <3>2. Mov(rax, Imm(areas[n.operand.slot].size)) \in Quiet(F, D)
      BY <3>1, OperandsHaveTypes, LinesAreQuiet, RegistersHaveTypes
    <3>3. <<Mov(rax, Imm(areas[n.operand.slot].size))>> \in Seq(Quiet(F, D))
      BY <3>2
    <3>4. <<Emit(<<Mov(rax, Imm(areas[n.operand.slot].size))>>)>> \in Sequences
      BY <3>3, PlainItems
    <3>5. emitBuiltin(n, l) = <<Emit(<<Mov(rax, Imm(areas[n.operand.slot].size))>>)>>
      BY <1>4, <2>1 DEF emitBuiltin
    <3>6. QED
      BY <3>4, <3>5
  <2>2. CASE ~(n.operand.kind = "variable" /\ n.operand.type = "array" /\ HasArea(n.operand.slot))
    <3>1. emitBuiltin(n, l) = <<Refuse("len for non-array value")>>
      BY <1>4, <2>2 DEF emitBuiltin
    <3>2. QED
      BY <1>1, <3>1
  <2>3. QED
    BY <2>1, <2>2
<1>5. CASE n.op = "Assert"
  <2>1. emitBuiltin(n, l) = <<Refuse("assert condition that is not bool")>>
    BY <1>5 DEF emitBuiltin
  <2>2. QED
    BY <1>2, <2>1
<1>6. CASE n.op \in {"Exit", "Panic"}
  <2>1. emitBuiltin(n, l) = <<Refuse("built-in function")>>
    BY <1>6 DEF emitBuiltin
  <2>2. QED
    BY <1>3, <2>1
<1>7. QED
  BY <1>4, <1>5, <1>6 DEF UnaryBuiltins

-----------------------------------------------------------------------------
(* The statements.                                                         *)

LEMMA UntilRefusedIsSeq ==
    ASSUME NEW X, NEW items \in Seq(X)
    PROVE  UntilRefused(items) \in Seq(X)
<1> DEFINE refused == {i \in DOMAIN items : items[i].task = "refuse"}
<1>1. CASE refused = {}
  BY <1>1 DEF UntilRefused
<1>2. CASE refused # {}
  <2>1. \E i \in refused : \A j \in refused : i <= j
    <3>1. refused \in SUBSET Nat
      OBVIOUS
    <3> HIDE DEF refused
    <3>2. QED
      BY <1>2, <3>1, Least
  <2> DEFINE first == CHOOSE i \in refused : \A j \in refused : i <= j
  <2>2. first \in refused
    <3> HIDE DEF refused
    <3>1. QED
      BY <2>1
  <2>3. first \in 0 .. Len(items)
    BY <2>2
  <2>4. UntilRefused(items) = SubSeq(items, 1, first)
    BY <1>2, Zenon DEF UntilRefused
  <2> HIDE DEF first
  <2>5. QED
    BY <2>3, <2>4, PrefixProperties
<1>3. QED
  BY <1>1, <1>2

LEMMA StoreIsQuiet ==
    ASSUME NEW F, NEW D, NEW k \in Int
    PROVE  \A x \in NoLabel : Mov(Frame(k), x) \in Quiet(F, D) /\ Mov(x, Frame(k)) \in Quiet(F, D)
BY OperandsHaveTypes, LinesAreQuiet

LEMMA FilledIsPlain ==
    ASSUME NEW E, NEW S, NEW F, NEW D, NEW nodes \in Seq(E), NEW base \in Int, NEW types,
           NEW what \in Messages
    PROVE  Filled(nodes, base, types, what) \in Seq(Plain(E, S, F, D))
<1> DEFINE store(i) == Mov(Frame(base + (i - 1) * 8), rax)
           piece(i) == IF nodes[i].type \notin types THEN <<Refuse(what)>>
                       ELSE <<Gen(nodes[i]), Emit(<<store(i)>>)>>
           pieces == [i \in DOMAIN nodes |-> piece(i)]
           Lists == Seq(Plain(E, S, F, D))
<1>1. ASSUME NEW i \in DOMAIN nodes PROVE piece(i) \in Lists
  <2>1. <<Refuse(what)>> \in Lists
    BY RefusalIsPlain
  <2>2. base + (i - 1) * 8 \in Int
    OBVIOUS
  <2>3. store(i) \in Quiet(F, D)
    BY <2>2, StoreIsQuiet, RegistersHaveTypes
  <2> HIDE DEF store
  <2>4. <<store(i)>> \in Seq(Quiet(F, D))
    BY <2>3
  <2>5. nodes[i] \in E \cup S
    OBVIOUS
  <2>6. <<Gen(nodes[i]), Emit(<<store(i)>>)>> \in Lists
    <3>1. Gen(nodes[i]) \in Plain(E, S, F, D) /\ Emit(<<store(i)>>) \in Plain(E, S, F, D)
      BY <2>4, <2>5, PlainItems
    <3>2. QED
      BY <3>1
  <2> HIDE DEF Lists
  <2>7. QED
    BY <2>1, <2>6
<1>2. pieces \in Seq(Lists)
  <2> HIDE DEF Lists, piece
  <2>1. QED
    BY <1>1
<1> HIDE DEF pieces
<1>3. FlattenSeq(pieces) \in Seq(Plain(E, S, F, D))
  BY <1>2, FlattenedIsSeq
<1>4. Filled(nodes, base, types, what) = UntilRefused(FlattenSeq(pieces))
  BY Zenon DEF Filled, pieces, piece, store
<1>5. QED
  BY <1>3, <1>4, UntilRefusedIsSeq

LEMMA ClearedIsPlain ==
    ASSUME NEW E, NEW S, NEW F, NEW D, NEW base \in Int, NEW size \in Int
    PROVE  Cleared(base, size) \in Seq(Plain(E, S, F, D))
<1> DEFINE store(i) == Mov(Frame(base + (i - 1) * 8), Imm(0))
           stores == [i \in 1 .. size |-> store(i)]
<1>1. \A i \in 1 .. size : store(i) \in Quiet(F, D)
  <2>1. SUFFICES ASSUME NEW i \in 1 .. size PROVE store(i) \in Quiet(F, D)
    OBVIOUS
  <2>2. base + (i - 1) * 8 \in Int
    OBVIOUS
  <2>3. Imm(0) \in NoLabel
    BY OperandsHaveTypes
  <2>4. QED
    BY <2>2, <2>3, StoreIsQuiet
<1>2. stores \in Seq(Quiet(F, D))
  <2> HIDE DEF store
  <2>1. CASE size >= 0
    <3>1. size \in Nat
      BY <2>1
    <3>2. QED
      BY <1>1, <3>1
  <2>2. CASE size < 0
    <3>1. 1 .. size = 1 .. 0
      BY <2>2
    <3>2. stores = <<>>
      BY <3>1
    <3>3. QED
      BY <3>2
  <2>3. QED
    BY <2>1, <2>2
<1> HIDE DEF stores
<1>3. Emit(stores) \in Plain(E, S, F, D)
  BY <1>2, PlainItems
<1>4. Cleared(base, size) = <<Emit(stores)>>
  BY Zenon DEF Cleared, stores, store
<1>5. QED
  BY <1>3, <1>4

LEMMA AreaAddressIsPlain ==
    ASSUME NEW E, NEW S, NEW F, NEW D, AreasOK, NEW slot \in Int, HasArea(slot)
    PROVE  AreaAddress(slot) \in Seq(Plain(E, S, F, D))
<1>1. areas[slot].base \in Int
  BY DEF HasArea, AreasOK
<1>2. localOffset(slot) \in Int
  BY DEF localOffset
<1>3. "lea" \in Harmless
  BY DEF Harmless, OpCodes, Jumps
<1>4. Ins("lea", rax, Frame(areas[slot].base)) \in Quiet(F, D)
  BY <1>1, <1>3, OperandsHaveTypes, LinesAreQuiet, RegistersHaveTypes
<1>5. Mov(Frame(localOffset(slot)), rax) \in Quiet(F, D)
  BY <1>2, StoreIsQuiet, RegistersHaveTypes
<1>6. <<Ins("lea", rax, Frame(areas[slot].base)), Mov(Frame(localOffset(slot)), rax)>> \in Seq(Quiet(F, D))
  BY <1>4, <1>5
<1>7. Emit(<<Ins("lea", rax, Frame(areas[slot].base)), Mov(Frame(localOffset(slot)), rax)>>)
          \in Plain(E, S, F, D)
  BY <1>6, PlainItems
<1>8. QED
  BY <1>7 DEF AreaAddress

LEMMA DeclareStructIsPlain ==
    ASSUME NEW E, NEW S, NEW F, NEW D, AreasOK, ExprClosed(E), NEW n, n.slot \in Int, HasArea(n.slot),
           n.init \in Seq(E)
    PROVE  DeclareStruct(n) \in Seq(Plain(E, S, F, D))
<1> DEFINE area == areas[n.slot]
           Lists == Seq(Plain(E, S, F, D))
<1>1. area.base \in Int /\ area.size \in Int
  BY DEF HasArea, AreasOK
<1>2. Cleared(area.base, area.size) \in Lists
  BY <1>1, ClearedIsPlain
<1>3. AreaAddress(n.slot) \in Lists
  BY AreaAddressIsPlain
<1>4. CASE n.init = <<>>
  <2>1. DeclareStruct(n) = Cleared(area.base, area.size) \o AreaAddress(n.slot)
    BY <1>4, Zenon DEF DeclareStruct
  <2> HIDE DEF area
  <2>2. QED
    BY <1>2, <1>3, <2>1
<1>5. CASE n.init # <<>> /\ n.init[1].kind # "structLiteral"
  <2>1. DeclareStruct(n) = <<Refuse("non-literal struct initializer")>>
    BY <1>5, Zenon DEF DeclareStruct
  <2>2. <<Refuse("non-literal struct initializer")>> \in Lists
    BY RefusalIsPlain DEF Messages
  <2>3. QED
    BY <2>1, <2>2
<1>6. CASE n.init # <<>> /\ n.init[1].kind = "structLiteral"
  <2>1. n.init[1] \in E
    BY <1>6
  <2>2. n.init[1].fields \in Seq(E)
    BY <1>6, <2>1 DEF ExprClosed
  <2>3. emitStructLiteralToMemory(n.init[1], area.base) \in Lists
    <3>1. "struct field type" \in Messages
      BY DEF Messages
    <3>2. QED
      BY <1>1, <2>2, <3>1, FilledIsPlain DEF emitStructLiteralToMemory
  <2>4. DeclareStruct(n) = emitStructLiteralToMemory(n.init[1], area.base) \o AreaAddress(n.slot)
    BY <1>6, Zenon DEF DeclareStruct
  <2> HIDE DEF area
  <2>5. QED
    BY <1>3, <2>3, <2>4
<1>7. QED
  BY <1>4, <1>5, <1>6

LEMMA DeclareArrayIsPlain ==
    ASSUME NEW E, NEW S, NEW F, NEW D, AreasOK, ExprClosed(E), NEW n, n.slot \in Int, HasArea(n.slot),
           n.init \in Seq(E)
    PROVE  DeclareArray(n) \in Seq(Plain(E, S, F, D))
<1> DEFINE area == areas[n.slot]
           values == Filled(n.init[1].elems, area.base, {"int", "bool"}, "array element type")
           Lists == Seq(Plain(E, S, F, D))
<1>1. area.base \in Int /\ area.size \in Int
  BY DEF HasArea, AreasOK
<1>2. Cleared(area.base, area.size) \in Lists
  BY <1>1, ClearedIsPlain
<1>3. AreaAddress(n.slot) \in Lists
  BY AreaAddressIsPlain
<1>4. CASE n.init = <<>>
  <2>1. DeclareArray(n) = Cleared(area.base, area.size) \o AreaAddress(n.slot)
    BY <1>4, Zenon DEF DeclareArray
  <2> HIDE DEF area
  <2>2. QED
    BY <1>2, <1>3, <2>1
<1>5. CASE n.init # <<>> /\ n.init[1].kind # "arrayLiteral"
  <2>1. DeclareArray(n) = <<Refuse("non-literal array initializer")>>
    BY <1>5, Zenon DEF DeclareArray
  <2>2. <<Refuse("non-literal array initializer")>> \in Lists
    BY RefusalIsPlain DEF Messages
  <2>3. QED
    BY <2>1, <2>2
<1>6. CASE n.init # <<>> /\ n.init[1].kind = "arrayLiteral"
  <2>1. n.init[1] \in E
    BY <1>6
  <2>2. n.init[1].elems \in Seq(E)
    BY <1>6, <2>1 DEF ExprClosed
  <2>3. values \in Lists
    <3>1. "array element type" \in Messages
      BY DEF Messages
    <3>2. QED
      BY <1>1, <2>2, <3>1, FilledIsPlain
  <2>4. <<Refuse("array initializer size mismatch")>> \in Lists
    BY RefusalIsPlain DEF Messages
  <2>5. values \o AreaAddress(n.slot) \in Lists
    <3> HIDE DEF values
    <3>1. QED
      BY <1>3, <2>3
  <2>6. \/ DeclareArray(n) = <<Refuse("array initializer size mismatch")>>
        \/ DeclareArray(n) = values
        \/ DeclareArray(n) = values \o AreaAddress(n.slot)
    <3> DEFINE elems == n.init[1].elems
               refusal == <<Refuse("array initializer size mismatch")>>
               filled == CASE Len(elems) # area.size -> refusal
                           [] Len(elems) = area.size /\ Refused(values) -> values
                           [] OTHER -> values \o AreaAddress(n.slot)
    <3>1. DeclareArray(n) = filled
      BY <1>6, Zenon DEF DeclareArray
    <3> HIDE DEF values, elems, area, refusal
    <3>2. CASE Len(elems) # area.size
      <4>1. filled = refusal
        BY <3>2
      <4>2. QED
        BY <3>1, <4>1 DEF refusal
    <3>3. CASE Len(elems) = area.size /\ Refused(values)
      BY <3>1, <3>3
    <3>4. CASE Len(elems) = area.size /\ ~Refused(values)
      BY <3>1, <3>4
    <3>5. QED
      BY <3>2, <3>3, <3>4
  <2> HIDE DEF values
  <2>7. QED
    BY <2>3, <2>4, <2>5, <2>6
<1>7. QED
  BY <1>4, <1>5, <1>6

LEMMA VarDeclIsPlain ==
    ASSUME NEW E, NEW S, NEW F, NEW D, AreasOK, ExprClosed(E), NEW n, NEW l, n.slot \in Int,
           n.init \in Seq(E),
           n.type = "string" /\ n.init = <<>> => l[1] \in D /\ l[1] \in AnyOperand
    PROVE  emitVarDeclStmt(n, l) \in Seq(Plain(E, S, F, D))
<1> DEFINE Lists == Seq(Plain(E, S, F, D))
           default == <<Emit(<<DefaultValue(n.type, l)>>)>>
           store   == <<Emit(<<Mov(Frame(localOffset(n.slot)), Result(n.type))>>)>>
           value   == IF n.init # <<>> THEN GenAll(n.init) ELSE default
<1>1. CASE n.type \in {"struct", "array"} /\ ~HasArea(n.slot)
  <2>1. emitVarDeclStmt(n, l) = <<Refuse("no stack offset")>>
    BY <1>1 DEF emitVarDeclStmt, Scalars
  <2>2. <<Refuse("no stack offset")>> \in Lists
    BY RefusalIsPlain DEF Messages
  <2>3. QED
    BY <2>1, <2>2
<1>2. CASE n.type = "struct" /\ HasArea(n.slot)
  <2>1. emitVarDeclStmt(n, l) = DeclareStruct(n)
    BY <1>2 DEF emitVarDeclStmt, Scalars
  <2>2. QED
    BY <1>2, <2>1, DeclareStructIsPlain
<1>3. CASE n.type = "array" /\ HasArea(n.slot)
  <2>1. emitVarDeclStmt(n, l) = DeclareArray(n)
    BY <1>3 DEF emitVarDeclStmt, Scalars
  <2>2. QED
    BY <1>3, <2>1, DeclareArrayIsPlain
<1>4. CASE n.type \notin Scalars \cup {"struct", "array"}
  <2>1. emitVarDeclStmt(n, l) = <<Refuse("local variable type")>>
    BY <1>4 DEF emitVarDeclStmt
  <2>2. <<Refuse("local variable type")>> \in Lists
    BY RefusalIsPlain DEF Messages
  <2>3. QED
    BY <2>1, <2>2
<1>5. CASE n.type \in Scalars
  <2>1. n.init = <<>> => default \in Lists
    <3>1. n.init = <<>> => DefaultValue(n.type, l) \in Quiet(F, D)
      <4>1. n.init = <<>> /\ n.type = "string" => DefaultValue(n.type, l) \in Quiet(F, D)
        <5>1. n.type = "string" => DefaultValue(n.type, l) = Ins("lea", rax, l[1])
          BY DEF DefaultValue
        <5>2. QED
          BY <5>1, DataRefsAreQuiet, RegistersHaveTypes
      <4>2. Mov(xmm0, Imm(0)) \in Quiet(F, D) /\ Mov(rax, Imm(0)) \in Quiet(F, D)
        BY OperandsHaveTypes, LinesAreQuiet, RegistersHaveTypes
      <4>3. n.type # "string" => DefaultValue(n.type, l) \in Quiet(F, D)
        BY <4>2 DEF DefaultValue
      <4>4. QED
        BY <4>1, <4>3
    <3>2. n.init = <<>> => <<DefaultValue(n.type, l)>> \in Seq(Quiet(F, D))
      BY <3>1
    <3>3. n.init = <<>> => Emit(<<DefaultValue(n.type, l)>>) \in Plain(E, S, F, D)
      BY <3>2, PlainItems
    <3>4. QED
      BY <3>3
  <2>2. GenAll(n.init) \in Lists
    BY GenAllIsPlain
  <2>3. store \in Lists
    <3>1. localOffset(n.slot) \in Int
      BY DEF localOffset
    <3>2. Mov(Frame(localOffset(n.slot)), Result(n.type)) \in Quiet(F, D)
      BY <3>1, StoreIsQuiet, ResultHasType
    <3>3. <<Mov(Frame(localOffset(n.slot)), Result(n.type))>> \in Seq(Quiet(F, D))
      BY <3>2
    <3>4. Emit(<<Mov(Frame(localOffset(n.slot)), Result(n.type))>>) \in Plain(E, S, F, D)
      BY <3>3, PlainItems
    <3>5. QED
      BY <3>4
  <2>4. emitVarDeclStmt(n, l) = value \o store
    <3>1. n.type \notin {"struct", "array"}
      BY <1>5 DEF Scalars
    <3>2. QED
      BY <1>5, <3>1, Zenon DEF emitVarDeclStmt
  <2> HIDE DEF default, store
  <2>5. value \in Lists
    BY <2>1, <2>2
  <2> HIDE DEF value
  <2>6. QED
    BY <2>3, <2>4, <2>5
<1>6. QED
  BY <1>1, <1>2, <1>3, <1>4, <1>5

LEMMA AssignIsPlain ==
    ASSUME NEW E, NEW S, NEW F, NEW D, NEW n, n.slot \in Int, n.value \in E
    PROVE  emitAssignStmt(n) \in Seq(Plain(E, S, F, D))
<1> DEFINE lines == <<Mov(Frame(localOffset(n.slot)), Result(n.value.type))>>
<1>1. lines \in Seq(Quiet(F, D))
  <2>1. localOffset(n.slot) \in Int
    BY DEF localOffset
  <2>2. Mov(Frame(localOffset(n.slot)), Result(n.value.type)) \in Quiet(F, D)
    BY <2>1, StoreIsQuiet, ResultHasType
  <2>3. QED
    BY <2>2
<1> HIDE DEF lines
<1>2. n.value \in E \cup S
  OBVIOUS
<1>3. Gen(n.value) \in Plain(E, S, F, D) /\ Emit(lines) \in Plain(E, S, F, D)
  BY <1>1, <1>2, PlainItems
<1>4. <<Gen(n.value), Emit(lines)>> \in Seq(Plain(E, S, F, D))
  BY <1>3
<1>5. <<Refuse("assignment without local index")>> \in Seq(Plain(E, S, F, D))
  BY RefusalIsPlain DEF Messages
<1>6. QED
  BY <1>4, <1>5, Zenon DEF emitAssignStmt, lines

LEMMA ArrayAssignIsPlain ==
    ASSUME NEW E, NEW S, NEW F, NEW D, AreasOK, NEW n, n.value \in E, n.index \in E
    PROVE  emitArrayAssignStmt(n) \in Seq(Plain(E, S, F, D))
<1>1. CASE ~HasArea(n.slot)
  <2>1. <<Refuse("array assignment without local index")>> \in Seq(Plain(E, S, F, D))
    BY RefusalIsPlain DEF Messages
  <2>2. QED
    BY <1>1, <2>1, Zenon DEF emitArrayAssignStmt
<1>2. CASE HasArea(n.slot)
  <2>1. areas[n.slot].base \in Int /\ areas[n.slot].size \in Int
    BY <1>2 DEF AreasOK, HasArea
  <2> DEFINE size == areas[n.slot].size
             base == areas[n.slot].base
             before == <<Mov(rbx, rax)>>
             after  == <<Mov(At("rdx"), rax)>>
             check  == before \o emitArrayBoundsCheck(rbx, size)
             store  == ElementAddress(base) \o after
  <2>2. before \in Seq(Quiet(F, D))
    BY LinesAreQuiet, RegistersHaveTypes
  <2>3. after \in Seq(Quiet(F, D))
    <3>1. At("rdx") \in NoLabel
      BY OperandsHaveTypes DEF Words
    <3>2. QED
      BY <3>1, LinesAreQuiet, RegistersHaveTypes
  <2>4. emitArrayBoundsCheck(rbx, size) \in Seq(Quiet(F, D)) /\ ElementAddress(base) \in Seq(Quiet(F, D))
    BY <2>1, BoundsCheckIsQuiet, ElementAddressIsQuiet, RegistersHaveTypes
  <2> HIDE DEF size, base, before, after
  <2>5. check \in Seq(Quiet(F, D)) /\ store \in Seq(Quiet(F, D))
    BY <2>2, <2>3, <2>4
  <2> HIDE DEF check, store
  <2>6. n.index \in E \cup S /\ n.value \in E \cup S
    OBVIOUS
  <2>7. /\ Gen(n.index) \in Plain(E, S, F, D) /\ Gen(n.value) \in Plain(E, S, F, D)
        /\ Emit(check) \in Plain(E, S, F, D) /\ Emit(store) \in Plain(E, S, F, D)
    BY <2>5, <2>6, PlainItems
  <2>8. <<Gen(n.index), Emit(check), Gen(n.value), Emit(store)>> \in Seq(Plain(E, S, F, D))
    BY <2>7
  <2>9. emitArrayAssignStmt(n) = <<Gen(n.index), Emit(check), Gen(n.value), Emit(store)>>
    BY <1>2, Zenon DEF emitArrayAssignStmt, check, store, before, after, size, base
  <2>10. QED
    BY <2>8, <2>9
<1>3. QED
  BY <1>1, <1>2

LEMMA FieldAssignIsPlain ==
    ASSUME NEW E, NEW S, NEW F, NEW D, AreasOK, NEW n, n.value \in E, n.field \in Nat
    PROVE  emitFieldAssignStmt(n) \in Seq(Plain(E, S, F, D))
<1>1. CASE ~HasArea(n.slot)
  <2>1. <<Refuse("field assignment without semantic indexes")>> \in Seq(Plain(E, S, F, D))
    BY RefusalIsPlain DEF Messages
  <2>2. QED
    BY <1>1, <2>1, Zenon DEF emitFieldAssignStmt
<1>2. CASE HasArea(n.slot)
  <2> DEFINE lines == <<Mov(Frame(areas[n.slot].base + n.field * 8), rax)>>
  <2>1. areas[n.slot].base + n.field * 8 \in Int
    BY <1>2 DEF AreasOK, HasArea
  <2>2. Mov(Frame(areas[n.slot].base + n.field * 8), rax) \in Quiet(F, D)
    BY <2>1, StoreIsQuiet, RegistersHaveTypes
  <2>3. lines \in Seq(Quiet(F, D))
    BY <2>2
  <2> HIDE DEF lines
  <2>4. n.value \in E \cup S
    OBVIOUS
  <2>5. Gen(n.value) \in Plain(E, S, F, D) /\ Emit(lines) \in Plain(E, S, F, D)
    BY <2>3, <2>4, PlainItems
  <2>6. <<Gen(n.value), Emit(lines)>> \in Seq(Plain(E, S, F, D))
    BY <2>5
  <2>7. QED
    BY <1>2, <2>6, Zenon DEF emitFieldAssignStmt, lines
<1>3. QED
  BY <1>1, <1>2

LEMMA FormatsAreWords == \A type \in DOMAIN Formats : Formats[type] \in Words
<1>1. DOMAIN Formats = {"int", "bool", "uint", "string", "float"}
  BY DEF Formats
<1>2. Formats["int"] = "int" /\ Formats["bool"] = "int" /\ Formats["uint"] = "uint"
  BY DEF Formats
<1>3. Formats["string"] = "str" /\ Formats["float"] = "float"
  BY DEF Formats
<1>4. {"int", "uint", "str", "float"} \subseteq Words
  BY DEF Words
<1>5. QED
  BY <1>1, <1>2, <1>3, <1>4

LEMMA PrintIsPlain ==
    ASSUME NEW E, NEW S, NEW F, NEW D, NEW n, n.args \in Seq(E)
    PROVE  emitPrintStmt(n) \in Seq(Plain(E, S, F, D))
<1> DEFINE Lists == Seq(Plain(E, S, F, D))
           moved(type) == IF type = "float" THEN <<>> ELSE <<Mov(rsi, rax)>>
           lines(type) == moved(type) \o <<printf(Formats[type])>>
           piece(i) == IF n.args[i].type \notin DOMAIN Formats THEN <<Refuse("print of this value type")>>
                       ELSE <<Gen(n.args[i]), Emit(lines(n.args[i].type))>>
           pieces == [i \in DOMAIN n.args |-> piece(i)]
           newline == <<Emit(<<printf("nl")>>)>>
<1>1. ASSUME NEW type \in DOMAIN Formats PROVE lines(type) \in Seq(Quiet(F, D))
  <2>1. Formats[type] \in Words
    BY FormatsAreWords
  <2>2. <<printf(Formats[type])>> \in Seq(Quiet(F, D))
    BY <2>1, LinesAreQuiet
  <2>3. moved(type) \in Seq(Quiet(F, D))
    <3>1. <<Mov(rsi, rax)>> \in Seq(Quiet(F, D))
      BY LinesAreQuiet, RegistersHaveTypes
    <3>2. <<>> \in Seq(Quiet(F, D))
      OBVIOUS
    <3>3. QED
      BY <3>1, <3>2
  <2> HIDE DEF moved
  <2>4. QED
    BY <2>2, <2>3
<1> HIDE DEF lines
<1>2. ASSUME NEW i \in DOMAIN n.args PROVE piece(i) \in Lists
  <2>1. <<Refuse("print of this value type")>> \in Lists
    BY RefusalIsPlain DEF Messages
  <2>2. n.args[i] \in E \cup S
    OBVIOUS
  <2>3. n.args[i].type \in DOMAIN Formats =>
           Gen(n.args[i]) \in Plain(E, S, F, D) /\ Emit(lines(n.args[i].type)) \in Plain(E, S, F, D)
    BY <1>1, <2>2, PlainItems
  <2>4. n.args[i].type \in DOMAIN Formats => <<Gen(n.args[i]), Emit(lines(n.args[i].type))>> \in Lists
    BY <2>3
  <2> HIDE DEF Lists
  <2>5. QED
    BY <2>1, <2>4
<1>3. pieces \in Seq(Lists)
  <2> HIDE DEF Lists, piece
  <2>1. QED
    BY <1>2
<1>4. newline \in Lists
  <2>1. <<printf("nl")>> \in Seq(Quiet(F, D))
    BY LinesAreQuiet DEF Words
  <2>2. Emit(<<printf("nl")>>) \in Plain(E, S, F, D)
    BY <2>1, PlainItems
  <2>3. QED
    BY <2>2
<1> HIDE DEF pieces, newline
<1>5. pieces \o <<newline>> \in Seq(Lists)
  <2> HIDE DEF Lists
  <2>1. QED
    BY <1>3, <1>4
<1>6. FlattenSeq(pieces \o <<newline>>) \in Seq(Plain(E, S, F, D))
  BY <1>5, FlattenedIsSeq
<1>7. emitPrintStmt(n) = UntilRefused(FlattenSeq(pieces \o <<newline>>))
  BY Zenon DEF emitPrintStmt, pieces, newline, piece, lines, moved
<1>8. QED
  BY <1>6, <1>7, UntilRefusedIsSeq

-----------------------------------------------------------------------------
(* Activations that replace the top one.                                   *)

\* What stands in v, which is w with the top replaced by these items.
Splits(v, w, items) ==
    /\ \A k \in DOMAIN v :
          \/ k \in 1 .. Len(w) - 1 /\ k \in DOMAIN w /\ v[k] = w[k]
          \/ /\ k >= Len(w)
             /\ Len(items) + Len(w) - k \in DOMAIN items
             /\ v[k] = items[Len(items) + Len(w) - k]
    /\ \A k \in DOMAIN w : k # Len(w) => k \in DOMAIN v /\ v[k] = w[k]
    /\ \A j \in DOMAIN items :
          /\ Len(items) + Len(w) - j \in DOMAIN v
          /\ v[Len(items) + Len(w) - j] = items[j]

\* Each activation is one that was below the top or one of the new ones, and the
\* other way round.
LEMMA ReplacedSplits ==
    ASSUME NEW X, NEW w \in Seq(X), w # <<>>, NEW items \in Seq(X)
    PROVE  Replaced(w, items) \in Seq(X) /\ Splits(Replaced(w, items), w, items)
<1> DEFINE v == Replaced(w, items)
<1>1. /\ v \in Seq(X)
      /\ Len(v) = Len(w) - 1 + Len(items)
      /\ \A i \in 1 .. Len(w) - 1 : v[i] = w[i]
      /\ \A i \in Len(w) .. Len(v) : v[i] = items[Len(items) + Len(w) - i]
  BY ReplacedProperties
<1> HIDE DEF v
<1>2. Len(w) \in Nat /\ Len(w) # 0 /\ Len(items) \in Nat
  OBVIOUS
<1>3. DOMAIN v = 1 .. Len(v) /\ DOMAIN w = 1 .. Len(w) /\ DOMAIN items = 1 .. Len(items)
  BY <1>1
<1>4. ASSUME NEW k \in DOMAIN v
      PROVE  \/ k \in 1 .. Len(w) - 1 /\ k \in DOMAIN w /\ v[k] = w[k]
             \/ /\ k >= Len(w)
                /\ Len(items) + Len(w) - k \in DOMAIN items
                /\ v[k] = items[Len(items) + Len(w) - k]
  <2>1. k \in 1 .. Len(v)
    BY <1>3
  <2>2. CASE k < Len(w)
    <3>1. k \in 1 .. Len(w) - 1 /\ k \in 1 .. Len(w)
      BY <1>2, <2>1, <2>2
    <3>2. QED
      BY <1>1, <1>3, <3>1
  <2>3. CASE k >= Len(w)
    <3>1. Len(items) + Len(w) - k \in 1 .. Len(items) /\ k \in Len(w) .. Len(v)
      BY <1>1, <1>2, <2>1, <2>3
    <3>2. QED
      BY <1>1, <1>3, <2>3, <3>1
  <2>4. QED
    BY <1>2, <2>1, <2>2, <2>3
<1>5. ASSUME NEW k \in DOMAIN w, k # Len(w) PROVE k \in DOMAIN v /\ v[k] = w[k]
  <2>1. k \in 1 .. Len(w) - 1 /\ k \in 1 .. Len(v)
    BY <1>1, <1>2, <1>3, <1>5
  <2>2. QED
    BY <1>1, <1>3, <2>1
<1>6. ASSUME NEW j \in DOMAIN items
      PROVE  /\ Len(items) + Len(w) - j \in DOMAIN v
             /\ v[Len(items) + Len(w) - j] = items[j]
  <2>1. j \in 1 .. Len(items)
    BY <1>3
  <2>2. Len(items) + Len(w) - j \in Len(w) .. Len(v) /\ Len(items) + Len(w) - j \in 1 .. Len(v)
    BY <1>1, <1>2, <2>1
  <2>3. Len(items) + Len(w) - (Len(items) + Len(w) - j) = j
    BY <1>2, <2>1
  <2>4. QED
    BY <1>1, <1>3, <2>2, <2>3
<1>7. QED
  BY <1>1, <1>4, <1>5, <1>6 DEF Splits, v

\* The labels that were owed still are.
LEMMA OwedGrows ==
    ASSUME NEW X, NEW w \in Seq(X), w # <<>>, NEW items \in Seq(X), NEW end,
           Writes(w[Len(w)]) = {}, w[Len(w)].task # "epilogue",
           \A k \in DOMAIN items : items[k].task # "prologue"
    PROVE  /\ Owed(w, end) \subseteq Owed(Replaced(w, items), end)
           /\ \A j \in DOMAIN items : Writes(items[j]) \subseteq Owed(Replaced(w, items), end)
           /\ InBody(w) => InBody(Replaced(w, items))
<1> DEFINE v == Replaced(w, items)
<1>1. v \in Seq(X) /\ Splits(v, w, items)
  BY ReplacedSplits
<1> HIDE DEF v
<1>2. 1 \in DOMAIN w
  OBVIOUS
<1>3. InBody(w) => InBody(v)
  <2>1. SUFFICES ASSUME InBody(w) PROVE InBody(v)
    OBVIOUS
  <2>2. 1 # Len(w)
    BY <2>1, Zenon DEF InBody
  <2>3. v # <<>> /\ v[1] = w[1]
    <3>1. 1 \in DOMAIN v /\ v[1] = w[1]
      BY <1>1, <1>2, <2>2 DEF Splits
    <3>2. QED
      BY <1>1, <3>1
  <2>4. ASSUME NEW k \in DOMAIN v PROVE v[k].task # "prologue"
    <3>1. (k \in DOMAIN w /\ v[k] = w[k]) \/ \E j \in DOMAIN items : v[k] = items[j]
      BY <1>1 DEF Splits
    <3>2. CASE k \in DOMAIN w /\ v[k] = w[k]
      BY <2>1, <3>2 DEF InBody
    <3>3. QED
      BY <3>1, <3>2
  <2>5. QED
    BY <2>1, <2>3, <2>4 DEF InBody
<1>4. \A k \in DOMAIN w : Writes(w[k]) \subseteq Owed(v, end)
  <2>1. SUFFICES ASSUME NEW k \in DOMAIN w PROVE Writes(w[k]) \subseteq Owed(v, end)
    OBVIOUS
  <2>2. CASE k = Len(w)
    BY <2>2
  <2>3. CASE k # Len(w)
    BY <1>1, <2>3 DEF Owed, Splits
  <2>4. QED
    BY <2>2, <2>3
<1>5. \A j \in DOMAIN items : Writes(items[j]) \subseteq Owed(v, end)
  BY <1>1 DEF Owed, Splits
<1>6. Owed(w, end) \subseteq Owed(v, end)
  BY <1>3, <1>4 DEF Owed
<1>7. QED
  BY <1>3, <1>5, <1>6 DEF v

LEMMA FitsGrow ==
    ASSUME NEW F, NEW D, NEW T, NEW D2, NEW T2, D \subseteq D2, T \subseteq T2
    PROVE  Seq(Fits(F, D, T)) \subseteq Seq(Fits(F, D2, T2)) /\ Seq(Quiet(F, D)) \subseteq Seq(Quiet(F, D2))
<1>1. Fits(F, D, T) \subseteq Fits(F, D2, T2)
  BY DEF Fits, FitsData
<1>2. Quiet(F, D) \subseteq Quiet(F, D2)
  BY DEF Quiet, Fits, FitsData
<1> DEFINE A == Fits(F, D, T)
           B == Fits(F, D2, T2)
           A1 == Quiet(F, D)
           B1 == Quiet(F, D2)
<1> HIDE DEF A, B, A1, B1
<1>3. Seq(A) \subseteq Seq(B) /\ Seq(A1) \subseteq Seq(B1)
  BY <1>1, <1>2, SeqMonotonic DEF A, B, A1, B1
<1>4. QED
  BY <1>3 DEF A, B, A1, B1

LEMMA ActivationsGrow ==
    ASSUME NEW p, NEW E, NEW S, NEW D, NEW T, NEW D2, NEW T2, D \subseteq D2, T \subseteq T2
    PROVE  /\ Activations(p, E, S, D, T) \subseteq Activations(p, E, S, D2, T2)
           /\ Seq(Activations(p, E, S, D, T)) \subseteq Seq(Activations(p, E, S, D2, T2))
<1> DEFINE F == FunctionLabels(p)
           A == Activations(p, E, S, D, T)
           B == Activations(p, E, S, D2, T2)
<1>1. Seq(Fits(F, D, T)) \subseteq Seq(Fits(F, D2, T2)) /\ Seq(Quiet(F, D)) \subseteq Seq(Quiet(F, D2))
  BY FitsGrow
<1>2. A \subseteq B
  <2> DEFINE Q1 == Seq(Quiet(F, D))
             Q2 == Seq(Quiet(F, D2))
             F1 == Seq(Fits(F, D, T))
             F2 == Seq(Fits(F, D2, T2))
             Prefix(Q, G, U) == [task : {"generate"}, node : E \cup S]
                \cup [task : {"rounds"}, node : {s \in S : s.kind = "for"}]
                \cup [task : {"refuse"}, node : Messages]
                \cup [task : {"emit"}, node : Q]
                \cup [task : {"emit"}, node : G]
                \cup [task : {"enterLoop"}, node : [breakLabel : U, continueLabel : U, body : S]]
                \cup [task : {"leaveLoop"}, node : S]
                \cup [task : {"collect"}, node : S]
                \cup [task : {"prologue", "epilogue"}, node : {p[i] : i \in DOMAIN p}]
  <2>1. A = Prefix(Q1, F1, T) /\ B = Prefix(Q2, F2, T2)
    BY DEF Activations, Inside, Plain
  <2>2. Q1 \subseteq Q2 /\ F1 \subseteq F2
    BY <1>1
  <2> HIDE DEF Q1, Q2, F1, F2, A, B
  <2>3. [breakLabel : T, continueLabel : T, body : S] \subseteq [breakLabel : T2, continueLabel : T2, body : S]
    OBVIOUS
  <2> DEFINE C1 == [breakLabel : T, continueLabel : T, body : S]
             C2 == [breakLabel : T2, continueLabel : T2, body : S]
             M == {p[i] : i \in DOMAIN p}
             L == {s \in S : s.kind = "for"}
  <2>4. C1 \subseteq C2
    BY <2>3
  <2> HIDE DEF C1, C2, M, L
  <2>5. QED
    BY <2>1, <2>2, <2>4 DEF C1, C2, M, L
<1> HIDE DEF A, B
<1>3. Seq(A) \subseteq Seq(B)
  BY <1>2, SeqMonotonic
<1>4. QED
  BY <1>2, <1>3 DEF A, B

\* The activations a step may put in the place of the top one, with the labels
\* from low to high that it has made.
Allowed(top, items, low, high) ==
    /\ top.task = "refuse" => items = <<>>
    /\ \A k \in DOMAIN items :
          /\ items[k].task \notin {"prologue", "epilogue"}
          /\ top.task = "collect" => items[k].task \in {"collect", "refuse"}
          /\ items[k].task = "collect" => top.task = "collect"
    /\ WritesApart(items, low, high)

\* Areas, prologue, statements and epilogue stay in this order on the stack.
LEMMA ShapeKept ==
    ASSUME NEW X, NEW w \in Seq(X), w # <<>>, NEW items \in Seq(X), NEW p, NEW f,
           NEW low, NEW high, Shape(p, w, f), w[Len(w)].task \notin {"prologue", "epilogue"},
           Allowed(w[Len(w)], items, low, high)
    PROVE  Shape(p, Replaced(w, items), f)
<1> DEFINE v == Replaced(w, items)
           n == Len(w)
<1>1. v \in Seq(X) /\ Splits(v, w, items)
  BY ReplacedSplits
<1>2. n \in Nat /\ n # 0 /\ n \in DOMAIN w /\ DOMAIN w = 1 .. n /\ DOMAIN v = 1 .. Len(v) /\ Len(v) \in Nat
  BY <1>1
<1>3. items = <<>> => Len(v) = n - 1
  <2>1. Len(Replaced(w, items)) = Len(w) - 1 + Len(items)
    BY ReplacedProperties
  <2>2. items = <<>> => Len(items) = 0
    OBVIOUS
  <2>3. QED
    BY <1>2, <2>1, <2>2
<1> HIDE DEF v
<1>4. v # <<>> => v[1].task = "epilogue" \/ (v[1].task = "refuse" /\ Len(v) = 1)
  <2>1. CASE n = 1
    <3>1. w[n].task = "refuse"
      BY <2>1 DEF Shape
    <3>2. items = <<>>
      BY <3>1 DEF Allowed
    <3>3. v = <<>>
      BY <1>1, <1>3, <2>1, <3>2
    <3>4. QED
      BY <3>3
  <2>2. CASE n # 1
    <3>1. 1 \in DOMAIN w /\ 1 # n
      BY <1>2, <2>2
    <3>2. v[1] = w[1]
      BY <1>1, <3>1 DEF Splits
    <3>3. w[1].task = "epilogue"
      BY <2>2 DEF Shape
    <3>4. QED
      BY <3>2, <3>3
  <2>3. QED
    BY <2>1, <2>2
<1>5. ASSUME NEW k \in DOMAIN v, v[k].task \in {"prologue", "epilogue"}
      PROVE  k \in 1 .. n - 1 /\ k \in DOMAIN w /\ v[k] = w[k]
  BY <1>1, <1>5 DEF Splits, Allowed
<1>6. ASSUME NEW k \in DOMAIN v PROVE v[k].task = "epilogue" => k = 1
  BY <1>5 DEF Shape
<1>7. ASSUME NEW k \in DOMAIN v 
      PROVE  v[k].task \in {"prologue", "epilogue"} =>
                f > 0 /\ v[k].node = p[f] /\ ~NotPassed(p[f].paramTypes)
  BY <1>5 DEF Shape
<1>8. ASSUME NEW k \in DOMAIN v, v[k].task = "prologue"
      PROVE  /\ \A j \in 2 .. k - 1 : v[j].task = "generate"
             /\ \A j \in k + 1 .. Len(v) : v[j].task \in {"collect", "refuse"}
  <2>1. k \in 1 .. n - 1 /\ k \in DOMAIN w /\ v[k] = w[k] /\ w[k].task = "prologue"
    BY <1>5, <1>8
  <2>2. /\ \A j \in 2 .. k - 1 : w[j].task = "generate"
        /\ \A j \in k + 1 .. n : w[j].task \in {"collect", "refuse"}
    BY <2>1 DEF Shape
  <2>3. ASSUME NEW j \in 2 .. k - 1 PROVE v[j].task = "generate"
    <3>1. j \in DOMAIN w /\ j # n
      <4> HIDE DEF n
      <4>1. QED
        BY <1>2, <2>1
    <3>2. v[j] = w[j]
      BY <1>1, <3>1 DEF Splits
    <3>3. QED
      BY <2>2, <3>2
  <2>4. n \in k + 1 .. n
    BY <1>2, <2>1
  <2>5. w[n].task \in {"collect", "refuse"}
    BY <2>2, <2>4
  <2>6. ASSUME NEW j \in k + 1 .. Len(v) PROVE v[j].task \in {"collect", "refuse"}
    <3>1. j \in DOMAIN v
      BY <1>2, <2>1
    <3>2. CASE j \in 1 .. n - 1 /\ v[j] = w[j]
      <4>1. j \in k + 1 .. n
        BY <1>2, <2>1, <3>2
      <4>2. QED
        BY <2>2, <3>2, <4>1
    <3>3. CASE Len(items) + n - j \in DOMAIN items /\ v[j] = items[Len(items) + n - j]
      <4> DEFINE i == Len(items) + n - j
      <4>1. i \in DOMAIN items /\ v[j] = items[i]
        BY <3>3
      <4> HIDE DEF i
      <4>2. items # <<>>
        BY <4>1
      <4>3. QED
        BY <2>5, <4>1, <4>2 DEF Allowed
    <3>4. QED
      BY <1>1, <3>1, <3>2, <3>3 DEF Splits
  <2>7. QED
    BY <2>3, <2>6
<1>9. ASSUME NEW k \in DOMAIN v, v[k].task = "collect" PROVE \E j \in 1 .. k - 1 : v[j].task = "prologue"
  <2>1. PICK m \in DOMAIN w : m <= k /\ w[m].task = "collect"
    <3>1. CASE k \in 1 .. n - 1 /\ k \in DOMAIN w /\ v[k] = w[k]
      BY <1>2, <1>9, <3>1
    <3>2. CASE k >= n /\ Len(items) + n - k \in DOMAIN items /\ v[k] = items[Len(items) + n - k]
      <4> DEFINE i == Len(items) + n - k
      <4>1. i \in DOMAIN items /\ v[k] = items[i]
        BY <3>2
      <4> HIDE DEF i
      <4>2. w[n].task = "collect"
        BY <1>9, <4>1 DEF Allowed
      <4>3. QED
        BY <1>2, <3>2, <4>2
    <3>3. QED
      BY <1>1, <3>1, <3>2 DEF Splits
  <2>2. PICK j \in 1 .. m - 1 : w[j].task = "prologue"
    BY <2>1 DEF Shape
  <2>3. j \in DOMAIN w /\ j # n /\ j \in 1 .. k - 1
    <3>1. k \in 1 .. Len(v) /\ m \in 1 .. n /\ m <= k
      BY <1>2, <2>1
    <3>2. k \in Int /\ m \in Int /\ j \in Int /\ 1 <= j /\ j <= m - 1 /\ m <= n /\ m <= k
      BY <1>2, <2>2, <3>1
    <3>3. j \in 1 .. n /\ j # n /\ j \in 1 .. k - 1
      <4> HIDE DEF n
      <4>1. QED
        BY <1>2, <3>2
    <3>4. QED
      BY <1>2, <3>3
  <2>4. v[j] = w[j]
    BY <1>1, <2>3 DEF Splits
  <2>5. QED
    BY <2>2, <2>3, <2>4
<1>10. Shape(p, v, f)
  BY <1>4, <1>6, <1>7, <1>8, <1>9 DEF Shape
<1>11. QED
  BY <1>10 DEF v

LEMMA BegunKept ==
    ASSUME NEW X, NEW w \in Seq(X), w # <<>>, NEW items \in Seq(X), NEW f, NEW low, NEW high,
           w[Len(w)].task # "prologue", Allowed(w[Len(w)], items, low, high)
    PROVE  /\ Begun(Replaced(w, items), f) = Begun(w, f)
           /\ InBody(Replaced(w, items)) /\ w[Len(w)].task # "epilogue" => InBody(w)
<1> DEFINE v == Replaced(w, items)
<1>1. v \in Seq(X) /\ Splits(v, w, items)
  BY ReplacedSplits
<1> HIDE DEF v
<1>2. (\E k \in DOMAIN w : w[k].task = "prologue") <=> \E k \in DOMAIN v : v[k].task = "prologue"
  <2>1. ASSUME NEW k \in DOMAIN w, w[k].task = "prologue" PROVE \E j \in DOMAIN v : v[j].task = "prologue"
    BY <1>1, <2>1 DEF Splits
  <2>2. ASSUME NEW k \in DOMAIN v, v[k].task = "prologue" PROVE \E j \in DOMAIN w : w[j].task = "prologue"
    <3>1. (k \in DOMAIN w /\ v[k] = w[k]) \/ \E j \in DOMAIN items : v[k] = items[j]
      BY <1>1 DEF Splits
    <3>2. \A j \in DOMAIN items : items[j].task # "prologue"
      BY DEF Allowed
    <3>3. QED
      BY <2>2, <3>1, <3>2
  <2>3. QED
    BY <2>1, <2>2
<1>3. Begun(v, f) = Begun(w, f)
  BY <1>2, Zenon DEF Begun
<1>4. InBody(v) /\ w[Len(w)].task # "epilogue" => InBody(w)
  <2>1. SUFFICES ASSUME InBody(v), w[Len(w)].task # "epilogue" PROVE InBody(w)
    OBVIOUS
  <2>2. 1 \in DOMAIN v /\ v[1].task = "epilogue"
    BY <1>1, <2>1 DEF InBody
  <2>3. v[1] = w[1]
    <3> DEFINE i == Len(items) + Len(w) - 1
    <3>1. v[1] = w[1] \/ (i \in DOMAIN items /\ v[1] = items[i])
      BY <1>1, <2>2 DEF Splits
    <3> HIDE DEF i
    <3>2. QED
      BY <2>2, <3>1 DEF Allowed
  <2>4. \A k \in DOMAIN w : w[k].task # "prologue"
    BY <1>2, <2>1 DEF InBody
  <2>5. QED
    BY <2>2, <2>3, <2>4 DEF InBody
<1>5. QED
  BY <1>3, <1>4 DEF v

LEMMA TopOfStack ==
    ASSUME NEW X, NEW w \in Seq(X), w # <<>>
    PROVE  /\ Len(w) \in Nat /\ Len(w) # 0
           /\ DOMAIN w = 1 .. Len(w)
           /\ 1 \in DOMAIN w /\ Len(w) \in DOMAIN w
OBVIOUS

LEMMA NumbersApart ==
    ASSUME NEW low \in Nat, NEW high \in Nat, low <= high
    PROVE  /\ Unnumbered \notin low .. high - 1
           /\ \A x \in 0 .. low - 1 : x \notin low .. high - 1 /\ x \in 0 .. high - 1
BY DEF Unnumbered

\* New activations that write new labels do not write those of the others.
LEMMA WritesStayApart ==
    ASSUME NEW X, NEW w \in Seq(X), w # <<>>, NEW items \in Seq(X), NEW low \in Nat, NEW high \in Nat, low <= high,
           Writes(w[Len(w)]) = {}, Allowed(w[Len(w)], items, low, high), WritesApart(w, 0, low)
    PROVE  /\ WritesApart(Replaced(w, items), 0, high)
           /\ \A k \in DOMAIN Replaced(w, items) :
                 \/ \E j \in DOMAIN w : Writes(Replaced(w, items)[k]) = Writes(w[j])
                 \/ \A l \in Writes(Replaced(w, items)[k]) : l.n \in low .. high - 1
<1> DEFINE v == Replaced(w, items)
           n == Len(w)
           m(i) == Len(items) + n - i
<1>1. v \in Seq(X) /\ Splits(v, w, items)
  BY ReplacedSplits
<1> HIDE DEF v
<1>2. n \in Nat /\ DOMAIN w = 1 .. n
  OBVIOUS
<1>3. \A k, j \in Int : k # j => m(k) # m(j)
  OBVIOUS
<1>4. WritesApart(items, low, high)
  BY DEF Allowed
<1>5. \A k \in DOMAIN v :
         /\ k \in Int
         /\ \/ k \in 1 .. n - 1 /\ k \in DOMAIN w /\ v[k] = w[k]
            \/ k >= n /\ m(k) \in DOMAIN items /\ v[k] = items[m(k)]
  <2>1. \A k \in DOMAIN v : k \in Int
    BY <1>1
  <2>2. \A k \in DOMAIN v :
           \/ k \in 1 .. n - 1 /\ k \in DOMAIN w /\ v[k] = w[k]
           \/ k >= n /\ m(k) \in DOMAIN items /\ v[k] = items[m(k)]
    BY <1>1, Zenon DEF Splits
  <2>3. QED
    BY <2>1, <2>2
<1> HIDE DEF m
<1>6. ASSUME NEW k \in DOMAIN v PROVE v[k].task = "emit" => LinesApart(v[k].node)
  BY <1>4, <1>5 DEF WritesApart
<1>7. ASSUME NEW k \in DOMAIN v, NEW l \in Writes(v[k])
      PROVE  /\ l.n \in 0 .. high - 1
             /\ k \in 1 .. n - 1 => l.n \in 0 .. low - 1
             /\ k >= n => l.n \in low .. high - 1
  <2>1. CASE k \in 1 .. n - 1 /\ k \in DOMAIN w /\ v[k] = w[k]
    <3>1. l.n \in 0 .. low - 1
      BY <2>1 DEF WritesApart
    <3>2. QED
      BY <1>2, <2>1, <3>1
  <2>2. CASE k >= n /\ m(k) \in DOMAIN items /\ v[k] = items[m(k)]
    <3>1. l.n \in low .. high - 1
      BY <1>4, <2>2 DEF WritesApart
    <3>2. QED
      BY <1>2, <2>2, <3>1
  <2>3. QED
    BY <1>5, <2>1, <2>2
<1>8. ASSUME NEW k \in DOMAIN v, NEW j \in DOMAIN v, k # j PROVE Writes(v[k]) \cap Writes(v[j]) = {}
  <2>1. CASE k \in 1 .. n - 1 /\ j \in 1 .. n - 1
    <3>1. v[k] = w[k] /\ v[j] = w[j] /\ k \in DOMAIN w /\ j \in DOMAIN w
      BY <1>2, <1>5, <2>1
    <3>2. QED
      BY <1>8, <3>1 DEF WritesApart
  <2>2. CASE k >= n /\ j >= n
    <3>1. /\ v[k] = items[m(k)] /\ v[j] = items[m(j)]
          /\ m(k) \in DOMAIN items /\ m(j) \in DOMAIN items /\ m(k) # m(j)
      BY <1>5, <1>8, <1>3, <2>2
    <3>2. QED
      BY <1>4, <3>1 DEF WritesApart
  <2>3. CASE k \in 1 .. n - 1 /\ j >= n
    <3>1. \A l \in Writes(v[k]) : l.n \in 0 .. low - 1
      BY <1>7, <2>3
    <3>2. \A l \in Writes(v[j]) : l.n \in low .. high - 1
      BY <1>7, <2>3
    <3>3. \A x \in 0 .. low - 1 : x \notin low .. high - 1
      OBVIOUS
    <3>4. QED
      BY <3>1, <3>2, <3>3
  <2>4. CASE k >= n /\ j \in 1 .. n - 1
    <3>1. \A l \in Writes(v[j]) : l.n \in 0 .. low - 1
      BY <1>7, <2>4
    <3>2. \A l \in Writes(v[k]) : l.n \in low .. high - 1
      BY <1>7, <2>4
    <3>3. \A x \in 0 .. low - 1 : x \notin low .. high - 1
      OBVIOUS
    <3>4. QED
      BY <3>1, <3>2, <3>3
  <2>5. QED
    BY <1>5, <2>1, <2>2, <2>3, <2>4
<1>9. WritesApart(v, 0, high)
  BY <1>6, <1>7, <1>8 DEF WritesApart
<1>10. ASSUME NEW k \in DOMAIN v
      PROVE  \/ \E j \in DOMAIN w : Writes(v[k]) = Writes(w[j])
             \/ \A l \in Writes(v[k]) : l.n \in low .. high - 1
  BY <1>5, <1>7
<1>11. QED
  BY <1>9, <1>10 DEF v

\* A step of the top activation that writes no line keeps the invariant, whatever
\* activations take its place, if they write no label but new ones.
LEMMA PushKeepsInv ==
    ASSUME NEW E, NEW S, Inv(E, S), NEW items, work # <<>>,
           Top.task \notin {"emit", "prologue", "epilogue"},
           work' = Replaced(work, items),
           UNCHANGED <<program, code, endLabel, next>>,
           data' \in Seq(AnyDatum), DataLabels(data) \subseteq DataLabels(data'),
           labelCounter' \in Nat, labelCounter <= labelCounter',
           AreasOK', stackSize' \in Int,
           loopStack' \in Seq(Contexts(AtHand(code, Replaced(work, items), endLabel))),
           LoopsMatched',
           diagnostic # "" \/ Top.task = "refuse" => diagnostic' # "",
           Allowed(Top, items, labelCounter, labelCounter'),
           items \in Seq(Activations(program, E, S, DataLabels(data'),
                                     AtHand(code, Replaced(work, items), endLabel)))
    PROVE  Inv(E, S)'
<1> DEFINE v == Replaced(work, items)
           T == AtHand(code, work, endLabel)
           U == AtHand(code, v, endLabel)
           X == Activations(program, E, S, DataLabels(data'), U)
           n == Len(work)
<1>1. work \in Seq(Activations(program, E, S, DataLabels(data), T))
  BY DEF Inv, Typed
<1>2. n \in DOMAIN work /\ DOMAIN work = 1 .. n /\ n \in Nat
  <2> DEFINE A == Activations(program, E, S, DataLabels(data), T)
  <2>1. work \in Seq(A)
    BY <1>1
  <2> HIDE DEF A
  <2>2. QED
    BY <2>1, TopOfStack
<1>3. Top = work[n]
  BY DEF Top
<1>4. Writes(work[n]) = {}
  BY <1>3 DEF Writes
<1>5. Owed(work, endLabel) \subseteq Owed(v, endLabel)
  <2>1. items \in Seq(X)
    OBVIOUS
  <2> DEFINE Y == X \cup Activations(program, E, S, DataLabels(data), T)
  <2> HIDE DEF X
  <2>2. work \in Seq(Y) /\ items \in Seq(Y)
    <3> DEFINE A == Activations(program, E, S, DataLabels(data), T)
    <3>1. work \in Seq(A)
      BY <1>1
    <3> HIDE DEF A
    <3>2. work \in Seq(X \cup A) /\ items \in Seq(X \cup A)
      BY <2>1, <3>1, SeqMonotonic
    <3>3. QED
      BY <3>2 DEF A
  <2> HIDE DEF Y
  <2>3. \A k \in DOMAIN items : items[k].task # "prologue"
    BY DEF Allowed
  <2>4. QED
    BY <1>3, <1>4, <2>2, <2>3, OwedGrows
<1>6. T \subseteq U
  BY <1>5 DEF AtHand
<1>7. work \in Seq(X)
  BY <1>1, <1>6, ActivationsGrow
<1>8. items \in Seq(X)
  OBVIOUS
<1> HIDE DEF X
<1>9. v \in Seq(X) /\ Splits(v, work, items)
  BY <1>7, <1>8, ReplacedSplits
<1>10. /\ Resolvable(program, E, S) /\ Typed(E, S) /\ CodeFits /\ Shape(program, work, next) /\ Apart /\ Named
  BY DEF Inv
<1>11. v = work' /\ code' = code /\ endLabel' = endLabel /\ program' = program /\ next' = next
  OBVIOUS
<1> HIDE DEF v
<1>12. Typed(E, S)'
  <2>1. v \in Seq(Activations(program, E, S, DataLabels(data'), AtHand(code, v, endLabel)))
    BY <1>9 DEF X
  <2>2. loopStack' \in Seq(Contexts(AtHand(code, v, endLabel)))
    BY DEF v
  <2>3. /\ code \in Seq(AnyLine) /\ endLabel \in AnyOperand /\ next \in 0 .. Len(program)
    BY <1>10 DEF Typed
  <2>4. QED
    BY <1>11, <2>1, <2>2, <2>3 DEF Typed, AreasOK
<1>13. CodeFits'
  <2>1. \A i \in DOMAIN code :
           /\ code[i].op = "call" => code[i].to \in FunctionLabels(program)
           /\ FitsData(code[i], DataLabels(data'))
           /\ code[i].op \in Jumps /\ code[i].to \notin HandlerLabels =>
                 \/ Arrives(code, i)
                 \/ Here(code, i) /\ code[i].to \in Owed(v, endLabel)
    <3>1. SUFFICES ASSUME NEW i \in DOMAIN code
                   PROVE  /\ code[i].op = "call" => code[i].to \in FunctionLabels(program)
                          /\ FitsData(code[i], DataLabels(data'))
                          /\ code[i].op \in Jumps /\ code[i].to \notin HandlerLabels =>
                                \/ Arrives(code, i)
                                \/ Here(code, i) /\ code[i].to \in Owed(v, endLabel)
      OBVIOUS
    <3>2. FitsData(code[i], DataLabels(data'))
      BY <1>10 DEF CodeFits, FitsData
    <3>3. QED
      BY <1>5, <1>10, <3>2 DEF CodeFits
  <2>2. QED
    BY <1>11, <2>1 DEF CodeFits
<1>14. Shape(program, v, next)
  BY <1>3, <1>7, <1>8, <1>10, ShapeKept DEF v
<1>15. Shape(program, work, next)'
  BY <1>11, <1>14
<1>16. /\ Begun(v, next) = Begun(work, next)
       /\ InBody(v) => InBody(work)
  BY <1>3, <1>7, <1>8, BegunKept DEF v
<1>17. labelCounter \in Nat
  BY <1>10 DEF Typed
<1>18. /\ WritesApart(v, 0, labelCounter')
       /\ \A k \in DOMAIN v :
             \/ \E j \in DOMAIN work : Writes(v[k]) = Writes(work[j])
             \/ \A l \in Writes(v[k]) : l.n \in labelCounter .. labelCounter' - 1
  <2>1. WritesApart(work, 0, labelCounter)
    BY <1>10 DEF Apart
  <2>2. QED
    BY <1>3, <1>4, <1>7, <1>8, <1>17, <2>1, WritesStayApart DEF v
<1>19. Apart'
  <2>1. LinesApart(code)
    BY <1>10 DEF Apart
  <2>2. \A l \in LabelsOf(code) : l.n = Unnumbered \/ l.n \in 0 .. labelCounter - 1
    BY <1>10 DEF Apart
  <2>3. Unnumbered \notin labelCounter .. labelCounter' - 1
    BY <1>17, NumbersApart
  <2>4. \A x \in 0 .. labelCounter - 1 : x \notin labelCounter .. labelCounter' - 1 /\ x \in 0 .. labelCounter' - 1
    BY <1>17, NumbersApart
  <2>5. \A k \in DOMAIN v : Writes(v[k]) \cap LabelsOf(code) = {}
    <3>1. SUFFICES ASSUME NEW k \in DOMAIN v, NEW l \in Writes(v[k]) PROVE l \notin LabelsOf(code)
      OBVIOUS
    <3>2. CASE \E j \in DOMAIN work : Writes(v[k]) = Writes(work[j])
      BY <1>10, <3>2 DEF Apart
    <3>3. CASE \A x \in Writes(v[k]) : x.n \in labelCounter .. labelCounter' - 1
      <4>1. l.n \in labelCounter .. labelCounter' - 1
        BY <3>3
      <4>2. QED
        BY <2>2, <2>3, <2>4, <4>1
    <3>4. QED
      BY <1>18, <3>2, <3>3
  <2>6. InBody(v) => /\ endLabel.n \in 0 .. labelCounter' - 1
                     /\ endLabel \notin LabelsOf(code)
                     /\ \A k \in DOMAIN v : endLabel \notin Writes(v[k])
    <3>1. SUFFICES ASSUME InBody(v)
                   PROVE  /\ endLabel.n \in 0 .. labelCounter' - 1
                          /\ endLabel \notin LabelsOf(code)
                          /\ \A k \in DOMAIN v : endLabel \notin Writes(v[k])
      OBVIOUS
    <3>2. /\ endLabel.n \in 0 .. labelCounter - 1
          /\ endLabel \notin LabelsOf(code)
          /\ \A k \in DOMAIN work : endLabel \notin Writes(work[k])
      BY <1>10, <1>16, <3>1 DEF Apart
    <3>3. \A k \in DOMAIN v : endLabel \notin Writes(v[k])
      BY <1>18, <2>4, <3>2
    <3>4. QED
      BY <2>4, <3>2, <3>3
  <2>7. \A l \in LabelsOf(code) : l.n = Unnumbered \/ l.n \in 0 .. labelCounter' - 1
    BY <2>2, <2>4
  <2>8. QED
    BY <1>11, <1>18, <2>1, <2>5, <2>6, <2>7 DEF Apart
<1>20. Doomed => Doomed'
  <2>1. CASE diagnostic # "" \/ Top.task = "refuse"
    BY <2>1 DEF Doomed
  <2>2. ASSUME NEW k \in DOMAIN work, work[k].task = "refuse", Top.task # "refuse" PROVE Doomed'
    <3>1. k # n
      BY <1>3, <2>2
    <3>2. k \in DOMAIN v /\ v[k] = work[k]
      BY <1>9, <3>1 DEF Splits
    <3>3. QED
      BY <1>11, <2>2, <3>2 DEF Doomed
  <2>3. QED
    BY <2>1, <2>2 DEF Doomed
<1>21. Named'
  BY <1>10, <1>11, <1>16, <1>20 DEF Named
<1>22. QED
  BY <1>10, <1>11, <1>12, <1>13, <1>15, <1>19, <1>21 DEF Inv

-----------------------------------------------------------------------------
(* Lines behind the code.                                                  *)

LEMMA LabelsOfBoth ==
    ASSUME NEW X, NEW c \in Seq(X), NEW lines \in Seq(X)
    PROVE  LabelsOf(c \o lines) = LabelsOf(c) \cup LabelsOf(lines)
<1> DEFINE d == c \o lines
           n == Len(c)
<1>1. /\ Len(d) = n + Len(lines)
      /\ \A i \in 1 .. n : d[i] = c[i]
      /\ \A i \in n + 1 .. n + Len(lines) : d[i] = lines[i - n]
      /\ d \in Seq(X)
  BY ConcatElements
<1>2. n \in Nat /\ Len(lines) \in Nat /\ DOMAIN c = 1 .. n /\ DOMAIN lines = 1 .. Len(lines)
      /\ DOMAIN d = 1 .. Len(d)
  BY <1>1
<1> HIDE DEF d, n
<1>3. ASSUME NEW i \in DOMAIN c, c[i].op = "label" PROVE c[i].to \in LabelsOf(d)
  <2>1. i \in DOMAIN d /\ d[i] = c[i]
    BY <1>1, <1>2
  <2>2. QED
    BY <1>3, <2>1 DEF LabelsOf
<1>4. ASSUME NEW i \in DOMAIN lines, lines[i].op = "label" PROVE lines[i].to \in LabelsOf(d)
  <2> DEFINE m == n + i
  <2>1. m \in DOMAIN d /\ m \in n + 1 .. n + Len(lines) /\ m - n = i
    BY <1>1, <1>2
  <2> HIDE DEF m
  <2>2. d[m] = lines[i]
    BY <1>1, <2>1
  <2>3. QED
    BY <1>4, <2>1, <2>2 DEF LabelsOf
<1>5. ASSUME NEW i \in DOMAIN d, d[i].op = "label" PROVE d[i].to \in LabelsOf(c) \cup LabelsOf(lines)
  <2>1. CASE i \in 1 .. n
    BY <1>1, <1>2, <1>5, <2>1 DEF LabelsOf
  <2>2. CASE i \in n + 1 .. n + Len(lines)
    <3>1. i - n \in DOMAIN lines /\ d[i] = lines[i - n]
      BY <1>1, <1>2, <2>2
    <3>2. QED
      BY <1>5, <3>1 DEF LabelsOf
  <2>3. QED
    BY <1>1, <1>2, <2>1, <2>2
<1>6. QED
  BY <1>3, <1>4, <1>5 DEF LabelsOf, d

\* Where no function begins in the lines, what is placed stays so, and a jump
\* to a label that is placed arrives.
LEMMA LinesAppended ==
    ASSUME NEW X, NEW c \in Seq(X), NEW lines \in Seq(X),
           \A l \in LabelsOf(lines) : l.n # Unnumbered
    PROVE  /\ \A i \in DOMAIN c : (Here(c, i) => Here(c \o lines, i))
           /\ \A i \in DOMAIN c : (Arrives(c, i) => Arrives(c \o lines, i))
           /\ \A i \in Len(c) + 1 .. Len(c \o lines) : Here(c \o lines, i)
           /\ Placed(c) \cup LabelsOf(lines) \subseteq Placed(c \o lines)
           /\ \A i \in DOMAIN (c \o lines) :
                 Here(c \o lines, i) /\ (c \o lines)[i].to \in Placed(c \o lines) => Arrives(c \o lines, i)
<1> DEFINE d == c \o lines
           n == Len(c)
<1>1. /\ Len(d) = n + Len(lines)
      /\ \A i \in 1 .. n : d[i] = c[i]
      /\ \A i \in n + 1 .. n + Len(lines) : d[i] = lines[i - n]
      /\ d \in Seq(X)
  BY ConcatElements
<1>2. n \in Nat /\ Len(lines) \in Nat /\ DOMAIN c = 1 .. n /\ DOMAIN lines = 1 .. Len(lines)
      /\ DOMAIN d = 1 .. Len(d)
  BY <1>1
<1> HIDE DEF d, n
<1>3. ASSUME NEW k \in DOMAIN d, k \notin DOMAIN c, d[k].op = "label" PROVE d[k].to.n # Unnumbered
  <2>1. k \in n + 1 .. n + Len(lines) /\ k - n \in DOMAIN lines
    BY <1>1, <1>2, <1>3
  <2>2. d[k] = lines[k - n]
    BY <1>1, <2>1
  <2>3. d[k].to \in LabelsOf(lines)
    BY <1>3, <2>1, <2>2 DEF LabelsOf
  <2>4. QED
    BY <2>3
<1>4. \A k \in DOMAIN c : k \in DOMAIN d /\ d[k] = c[k]
  BY <1>1, <1>2
<1>5. ASSUME NEW i \in DOMAIN c, Here(c, i) PROVE Here(d, i)
  BY <1>3, <1>4, <1>5 DEF Here
<1>6. ASSUME NEW i \in n + 1 .. Len(d) PROVE Here(d, i)
  <2>1. SUFFICES ASSUME NEW k \in DOMAIN d, d[k].op = "label", i < k PROVE d[k].to.n # Unnumbered
    BY DEF Here
  <2>2. k \notin DOMAIN c
    BY <1>1, <1>2, <2>1
  <2>3. QED
    BY <1>3, <2>1, <2>2
<1>7. ASSUME NEW i \in DOMAIN c, Arrives(c, i) PROVE Arrives(d, i)
  <2>1. PICK j \in DOMAIN c :
           /\ c[j].op = "label" /\ c[j].to = c[i].to
           /\ \A k \in DOMAIN c :
                 c[k].op = "label" /\ ((i < k /\ k <= j) \/ (j < k /\ k <= i)) => c[k].to.n # Unnumbered
    BY <1>7 DEF Arrives
  <2>2. j \in DOMAIN d /\ d[j] = c[j] /\ d[i] = c[i]
    BY <1>4
  <2>3. \A k \in DOMAIN d :
           d[k].op = "label" /\ ((i < k /\ k <= j) \/ (j < k /\ k <= i)) => d[k].to.n # Unnumbered
    BY <1>3, <1>4, <2>1
  <2>4. QED
    BY <2>1, <2>2, <2>3 DEF Arrives
<1>8. Placed(c) \subseteq Placed(d)
  BY <1>4, <1>5 DEF Placed
<1>9. ASSUME NEW i \in DOMAIN lines, lines[i].op = "label" PROVE lines[i].to \in Placed(d)
  <2> DEFINE m == n + i
  <2>1. m \in DOMAIN d /\ m \in n + 1 .. n + Len(lines) /\ m - n = i
    BY <1>1, <1>2
  <2> HIDE DEF m
  <2>2. d[m] = lines[i]
    BY <1>1, <2>1
  <2>3. Here(d, m)
    BY <1>1, <1>6, <2>1
  <2>4. QED
    BY <1>9, <2>1, <2>2, <2>3 DEF Placed
<1>10. LabelsOf(lines) \subseteq Placed(d)
  BY <1>9 DEF LabelsOf
<1>11. ASSUME NEW i \in DOMAIN d, Here(d, i), d[i].to \in Placed(d) PROVE Arrives(d, i)
  <2>1. PICK j \in DOMAIN d : d[j].op = "label" /\ Here(d, j) /\ d[j].to = d[i].to
    BY <1>11 DEF Placed
  <2>2. \A k \in DOMAIN d : d[k].op = "label" /\ (i < k \/ j < k) => d[k].to.n # Unnumbered
    BY <1>11, <2>1 DEF Here
  <2>3. QED
    BY <2>1, <2>2 DEF Arrives
<1>12. QED
  BY <1>5, <1>6, <1>7, <1>8, <1>10, <1>11 DEF d, n

\* Lines with labels of their own behind lines with labels of their own.
LEMMA ApartTogether ==
    ASSUME NEW X, NEW c \in Seq(X), NEW lines \in Seq(X),
           LinesApart(c), LinesApart(lines), LabelsOf(c) \cap LabelsOf(lines) = {}
    PROVE  LinesApart(c \o lines)
<1> DEFINE d == c \o lines
           n == Len(c)
<1>1. /\ Len(d) = n + Len(lines)
      /\ \A i \in 1 .. n : d[i] = c[i]
      /\ \A i \in n + 1 .. n + Len(lines) : d[i] = lines[i - n]
      /\ d \in Seq(X)
  BY ConcatElements
<1>2. n \in Nat /\ Len(lines) \in Nat /\ DOMAIN c = 1 .. n /\ DOMAIN lines = 1 .. Len(lines)
      /\ DOMAIN d = 1 .. Len(d)
  BY <1>1
<1> HIDE DEF d, n
<1>3. ASSUME NEW i \in DOMAIN d, NEW j \in DOMAIN d, d[i].op = "label", d[j].op = "label",
             d[i].to = d[j].to, i <= j
      PROVE  i = j
  <2>1. CASE i <= n /\ j <= n
    <3>1. i \in DOMAIN c /\ j \in DOMAIN c /\ d[i] = c[i] /\ d[j] = c[j]
      BY <1>1, <1>2, <2>1
    <3>2. QED
      BY <1>3, <3>1 DEF LinesApart
  <2>2. CASE i > n /\ j > n
    <3>1. i - n \in DOMAIN lines /\ j - n \in DOMAIN lines /\ d[i] = lines[i - n] /\ d[j] = lines[j - n]
      BY <1>1, <1>2, <2>2
    <3>2. i - n = j - n
      BY <1>3, <3>1 DEF LinesApart
    <3>3. QED
      BY <1>1, <1>2, <3>2
  <2>3. CASE i <= n /\ j > n
    <3>1. i \in DOMAIN c /\ j - n \in DOMAIN lines /\ d[i] = c[i] /\ d[j] = lines[j - n]
      <4>1. i \in DOMAIN c /\ d[i] = c[i]
        BY <1>1, <1>2, <2>3
      <4>2. j - n \in DOMAIN lines /\ d[j] = lines[j - n]
        BY <1>1, <1>2, <2>3
      <4>3. QED
        BY <4>1, <4>2
    <3>2. d[i].to \in LabelsOf(c) /\ d[j].to \in LabelsOf(lines)
      BY <1>3, <3>1 DEF LabelsOf
    <3>3. QED
      BY <1>3, <3>2
  <2>4. QED
    BY <1>1, <1>2, <1>3, <2>1, <2>2, <2>3
<1>4. ASSUME NEW i \in DOMAIN d, NEW j \in DOMAIN d PROVE i <= j \/ j <= i
  BY <1>1, <1>2
<1>5. LinesApart(d)
  BY <1>3, <1>4 DEF LinesApart
<1>6. QED
  BY <1>5 DEF d

\* A step that writes the lines of the top activation.
LEMMA AppendKeepsInv ==
    ASSUME NEW E, NEW S, Inv(E, S), NEW lines, work # <<>>, Top.task \in {"emit", "epilogue"},
           work' = Replaced(work, <<>>), code' = code \o lines,
           UNCHANGED <<program, data, labelCounter, areas, stackSize, endLabel, loopStack, next, diagnostic>>,
           lines \in Seq(Fits(FunctionLabels(program), DataLabels(data), AtHand(code, work, endLabel))),
           LinesApart(lines), LabelsOf(code) \cap LabelsOf(lines) = {},
           \A l \in LabelsOf(lines) : l.n \in 0 .. labelCounter - 1,
           Owed(work, endLabel) \subseteq Owed(Replaced(work, <<>>), endLabel) \cup LabelsOf(lines),
           \A k \in DOMAIN work : k # Len(work) => Writes(work[k]) \cap LabelsOf(lines) = {},
           InBody(Replaced(work, <<>>)) => InBody(work) /\ endLabel \notin LabelsOf(lines),
           Shape(program, Replaced(work, <<>>), next)
    PROVE  Inv(E, S)'
<1> DEFINE v == Replaced(work, <<>>)
           d == code \o lines
           T == AtHand(code, work, endLabel)
           U == AtHand(d, v, endLabel)
           F == FunctionLabels(program)
           D == DataLabels(data)
           n == Len(work)
           A == Activations(program, E, S, D, T)
<1>1. work \in Seq(A)
  BY DEF Inv, Typed
<1> HIDE DEF A
<1>2. n \in DOMAIN work /\ DOMAIN work = 1 .. n /\ n \in Nat
  BY <1>1, TopOfStack
<1>3. Top = work[n]
  BY DEF Top
<1>4. /\ Resolvable(program, E, S) /\ Typed(E, S) /\ CodeFits /\ Apart /\ Named /\ LoopsMatched
  BY DEF Inv
<1>5. v = work' /\ d = code' /\ endLabel' = endLabel /\ program' = program /\ next' = next
      /\ data' = data /\ labelCounter' = labelCounter /\ loopStack' = loopStack
      /\ areas' = areas /\ stackSize' = stackSize /\ diagnostic' = diagnostic
  OBVIOUS
<1>6. <<>> \in Seq(A)
  OBVIOUS
<1>7. v \in Seq(A) /\ Splits(v, work, <<>>)
  BY <1>1, <1>6, ReplacedSplits
<1>8. lines \in Seq(AnyLine) /\ code \in Seq(AnyLine)
  <2>1. Fits(F, D, T) \subseteq AnyLine
    BY DEF Fits
  <2> DEFINE R == Fits(F, D, T)
  <2>2. lines \in Seq(R) /\ R \subseteq AnyLine
    BY <2>1
  <2> HIDE DEF R
  <2>3. QED
    BY <1>4, <2>2, SeqMonotonic DEF Typed
<1>9. \A l \in LabelsOf(lines) : l.n # Unnumbered
  <2>1. labelCounter \in Nat
    BY <1>4 DEF Typed
  <2>2. Unnumbered \notin 0 .. labelCounter - 1
    BY <2>1 DEF Unnumbered
  <2>3. QED
    BY <2>2
<1> HIDE DEF v
<1>10. /\ \A i \in DOMAIN code : (Here(code, i) => Here(d, i))
       /\ \A i \in DOMAIN code : (Arrives(code, i) => Arrives(d, i))
       /\ \A i \in Len(code) + 1 .. Len(d) : Here(d, i)
       /\ Placed(code) \cup LabelsOf(lines) \subseteq Placed(d)
       /\ \A i \in DOMAIN d : Here(d, i) /\ d[i].to \in Placed(d) => Arrives(d, i)
  BY <1>8, <1>9, LinesAppended
<1>11. /\ d \in Seq(AnyLine)
       /\ Len(d) = Len(code) + Len(lines)
       /\ \A i \in 1 .. Len(code) : d[i] = code[i]
       /\ \A i \in Len(code) + 1 .. Len(code) + Len(lines) : d[i] = lines[i - Len(code)]
  BY <1>8, ConcatElements
<1>12. LabelsOf(d) = LabelsOf(code) \cup LabelsOf(lines)
  BY <1>8, LabelsOfBoth
<1> HIDE DEF d
<1>13. Owed(work, endLabel) \subseteq Owed(v, endLabel) \cup LabelsOf(lines)
  BY DEF v
<1>14. T \subseteq U
  BY <1>10, <1>13 DEF AtHand
<1>15. Typed(E, S)'
  <2>1. v \in Seq(Activations(program, E, S, D, U))
    <3>1. v \in Seq(Activations(program, E, S, D, T))
      BY <1>7 DEF A
    <3>2. QED
      BY <1>14, <3>1, ActivationsGrow
  <2>2. loopStack \in Seq(Contexts(U))
    <3> DEFINE C == Contexts(T)
               G == Contexts(U)
    <3>1. loopStack \in Seq(C)
      BY <1>4 DEF Typed
    <3>2. C \subseteq G
      BY <1>14 DEF Contexts
    <3> HIDE DEF C, G
    <3>3. loopStack \in Seq(G)
      BY <3>1, <3>2, SeqMonotonic
    <3>4. QED
      BY <3>3 DEF G
  <2>3. /\ data \in Seq(AnyDatum) /\ endLabel \in AnyOperand /\ next \in 0 .. Len(program)
        /\ labelCounter \in Nat /\ stackSize \in Int
        /\ \A s \in DOMAIN areas : areas[s] \in [base : Int, size : Int]
    BY <1>4 DEF Typed
  <2>4. QED
    BY <1>5, <1>11, <2>1, <2>2, <2>3 DEF Typed
<1>16. \A i \in DOMAIN d : i \in 1 .. Len(code) \/ (i \in Len(code) + 1 .. Len(d) /\ i - Len(code) \in DOMAIN lines)
  <2>1. Len(code) \in Nat /\ Len(lines) \in Nat /\ DOMAIN d = 1 .. Len(d) /\ DOMAIN lines = 1 .. Len(lines)
    BY <1>8, <1>11
  <2> DEFINE c1 == Len(code)
             c2 == Len(lines)
  <2> HIDE DEF c1, c2
  <2>2. c1 \in Nat /\ c2 \in Nat /\ DOMAIN d = 1 .. c1 + c2 /\ DOMAIN lines = 1 .. c2 /\ Len(d) = c1 + c2
    BY <1>11, <2>1 DEF c1, c2
  <2>3. QED
    BY <2>2 DEF c1
<1>17. CodeFits'
  <2>1. ASSUME NEW i \in DOMAIN d
        PROVE  /\ d[i].op = "call" => d[i].to \in F
               /\ FitsData(d[i], D)
               /\ d[i].op \in Jumps /\ d[i].to \notin HandlerLabels =>
                     \/ Arrives(d, i)
                     \/ Here(d, i) /\ d[i].to \in Owed(v, endLabel)
    <3>1. CASE i \in 1 .. Len(code)
      <4>1. d[i] = code[i] /\ i \in DOMAIN code
        BY <1>8, <1>11, <3>1
      <4>2. /\ code[i].op = "call" => code[i].to \in F
            /\ FitsData(code[i], D)
            /\ code[i].op \in Jumps /\ code[i].to \notin HandlerLabels =>
                  \/ Arrives(code, i)
                  \/ Here(code, i) /\ code[i].to \in Owed(work, endLabel)
        BY <1>4, <4>1 DEF CodeFits
      <4>3. ASSUME Here(code, i), code[i].to \in Owed(work, endLabel)
            PROVE  \/ Arrives(d, i)
                   \/ Here(d, i) /\ d[i].to \in Owed(v, endLabel)
        BY <1>10, <1>13, <4>1, <4>3
      <4>4. QED
        BY <1>10, <4>1, <4>2, <4>3
    <3>2. CASE i \in Len(code) + 1 .. Len(d) /\ i - Len(code) \in DOMAIN lines
      <4>1. d[i] = lines[i - Len(code)]
        BY <1>11, <3>2
      <4> DEFINE k == i - Len(code)
      <4>2. k \in DOMAIN lines /\ d[i] = lines[k]
        BY <3>2, <4>1
      <4> HIDE DEF k
      <4>3. d[i] \in Fits(F, D, T)
        <5> DEFINE R == Fits(F, D, T)
        <5>1. lines \in Seq(R)
          OBVIOUS
        <5> HIDE DEF R
        <5>2. d[i] \in R
          BY <4>2, <5>1
        <5>3. QED
          BY <5>2 DEF R
      <4>4. Here(d, i)
        BY <1>10, <3>2
      <4>5. /\ d[i].op = "call" => d[i].to \in F
            /\ FitsData(d[i], D)
            /\ d[i].op \in Jumps => d[i].to \in HandlerLabels \cup T
        BY <4>3 DEF Fits
      <4>6. d[i].to \in T => d[i].to \in Placed(d) \/ d[i].to \in Owed(v, endLabel)
        BY <1>14 DEF AtHand
      <4>7. QED
        BY <1>10, <4>4, <4>5, <4>6
    <3>3. QED
      BY <1>16, <3>1, <3>2
  <2>2. QED
    BY <1>5, <2>1 DEF CodeFits
<1>18. Shape(program, work, next)'
  <2>1. Shape(program, v, next)
    BY DEF v
  <2>2. QED
    BY <1>5, <2>1
<1>19. LoopsMatched'
  <2>1. Count(v, {"leaveLoop"}) = Count(work, {"leaveLoop"})
    <3>1. \A i \in 1 .. Len(<<>>) - 1 : <<>>[i].task \notin {"leaveLoop"}
      OBVIOUS
    <3>2. Count(v, {"leaveLoop"})
            = Count(work, {"leaveLoop"}) - One(work[n].task \in {"leaveLoop"}) + One(LastIn(<<>>, {"leaveLoop"}))
      BY <1>1, <1>6, <3>1, CountReplaced DEF v
    <3>3. One(work[n].task \in {"leaveLoop"}) = 0 /\ One(LastIn(<<>>, {"leaveLoop"})) = 0
      BY <1>3 DEF One, LastIn
    <3>4. Count(work, {"leaveLoop"}) \in Nat
      BY <1>1, CountProperties
    <3>5. QED
      BY <3>2, <3>3, <3>4
  <2>2. QED
    BY <1>4, <1>5, <2>1 DEF LoopsMatched, Count
<1>20. \A k \in DOMAIN v : k \in DOMAIN work /\ k # n /\ v[k] = work[k]
  <2>1. \A k \in DOMAIN v : k \in 1 .. n - 1 /\ k \in DOMAIN work /\ v[k] = work[k]
    BY <1>7 DEF Splits
  <2>2. \A k \in 1 .. n - 1 : k # n
    <3> HIDE DEF n
    <3>1. QED
      BY <1>2
  <2>3. QED
    BY <2>1, <2>2
<1>21. Apart'
  <2>1. LinesApart(d)
    BY <1>4, <1>8, ApartTogether DEF d, Apart
  <2>2. \A l \in LabelsOf(d) : l.n = Unnumbered \/ l.n \in 0 .. labelCounter - 1
    BY <1>4, <1>12 DEF Apart
  <2>3. WritesApart(v, 0, labelCounter)
    BY <1>4, <1>20 DEF Apart, WritesApart
  <2>4. \A k \in DOMAIN v : Writes(v[k]) \cap LabelsOf(d) = {}
    BY <1>4, <1>12, <1>20 DEF Apart
  <2>5. InBody(v) => /\ endLabel.n \in 0 .. labelCounter - 1
                     /\ endLabel \notin LabelsOf(d)
                     /\ \A k \in DOMAIN v : endLabel \notin Writes(v[k])
    <3>1. InBody(v) => InBody(work) /\ endLabel \notin LabelsOf(lines)
      BY DEF v
    <3>2. QED
      BY <1>4, <1>12, <1>20, <3>1 DEF Apart
  <2>6. QED
    BY <1>5, <2>1, <2>2, <2>3, <2>4, <2>5 DEF Apart
<1>22. Begun(v, next) = Begun(work, next)
  <2>1. Allowed(work[n], <<>>, 0, 0)
    BY DEF Allowed, WritesApart
  <2>2. QED
    BY <1>1, <1>3, <1>6, <2>1, BegunKept DEF v
<1>23. Doomed => Doomed'
  <2>1. ASSUME NEW k \in DOMAIN work, work[k].task = "refuse" PROVE Doomed'
    <3>1. k # n
      BY <1>3, <2>1
    <3>2. k \in DOMAIN v /\ v[k] = work[k]
      BY <1>7, <3>1 DEF Splits
    <3>3. QED
      BY <1>5, <2>1, <3>2 DEF Doomed
  <2>2. QED
    BY <1>5, <2>1 DEF Doomed
<1>24. Named'
  <2>1. HandlerLabels \subseteq LabelsOf(d)
    BY <1>4, <1>12 DEF Named
  <2>2. \A l \in LabelsOf(d) :
           l.n = Unnumbered =>
              l \in HandlerLabels \cup {FunctionLabel(program[f].path) : f \in 1 .. Begun(v, next)}
    BY <1>4, <1>9, <1>12, <1>22 DEF Named
  <2>3. Doomed \/ \A f \in 1 .. Begun(v, next) : FunctionLabel(program[f].path) \in LabelsOf(d)
    BY <1>4, <1>12, <1>22 DEF Named
  <2>4. QED
    BY <1>5, <1>23, <2>1, <2>2, <2>3 DEF Named
<1>25. QED
  BY <1>4, <1>5, <1>15, <1>17, <1>18, <1>19, <1>21, <1>24 DEF Inv

-----------------------------------------------------------------------------
(* The functions.                                                          *)

\* Nothing is owed by activations that have no labels.
LEMMA NothingOwed ==
    ASSUME NEW w, NEW end, \A k \in DOMAIN w : Writes(w[k]) = {}, ~InBody(w)
    PROVE  Owed(w, end) = {}
BY DEF Owed

LEMMA BetweenFunctions ==
    ASSUME NEW E, NEW S, Inv(E, S), work = <<>>
    PROVE  /\ loopStack = <<>>
           /\ Owed(work, endLabel) = {}
           /\ Begun(work, next) = next
<1>1. LoopsMatched /\ Typed(E, S)
  BY DEF Inv
<1>2. Pending(work, {"leaveLoop"}) = {}
  BY DEF Pending
<1>3. Cardinality({}) = 0
  BY FS_EmptySet
<1>4. Len(loopStack) = 0
  BY <1>1, <1>2, <1>3 DEF LoopsMatched
<1>5. loopStack = <<>>
  <2> DEFINE C == Contexts(AtHand(code, work, endLabel))
  <2>1. loopStack \in Seq(C)
    BY <1>1 DEF Typed
  <2> HIDE DEF C
  <2>2. QED
    BY <1>4, <2>1
<1>6. Owed(work, endLabel) = {}
  BY NothingOwed DEF InBody
<1>7. Begun(work, next) = next
  BY DEF Begun
<1>8. QED
  BY <1>5, <1>6, <1>7

\* The stack that items make on an empty one.
LEMMA FirstActivations ==
    ASSUME NEW X, NEW items \in Seq(X)
    PROVE  LET v == Replaced(<<>>, items)
           IN  /\ v \in Seq(X)
               /\ Len(v) = Len(items)
               /\ DOMAIN v = 1 .. Len(items)
               /\ \A i \in 1 .. Len(items) : v[i] = items[Len(items) - i + 1]
<1> DEFINE front == SubSeq(<<>>, 1, Len(<<>>) - 1)
           back  == Reverse(items)
<1>1. front = <<>>
  OBVIOUS
<1>2. /\ back \in Seq(X)
      /\ Len(back) = Len(items)
      /\ \A i \in 1 .. Len(items) : back[i] = items[Len(items) - i + 1]
  BY DEF Reverse
<1>3. Replaced(<<>>, items) = front \o back
  BY DEF Replaced
<1> HIDE DEF front, back
<1>4. Replaced(<<>>, items) = back
  BY <1>1, <1>2, <1>3
<1>5. DOMAIN back = 1 .. Len(items)
  BY <1>2
<1>6. QED
  BY <1>2, <1>4, <1>5

LEMMA RefuseFunctionKeepsInv ==
    ASSUME NEW E, NEW S, Inv(E, S), RefuseFunction
    PROVE  Inv(E, S)'
<1> DEFINE what == Refuse("function return or parameter type")
           T == AtHand(code, work, endLabel)
           X == Activations(program, E, S, DataLabels(data), T)
<1>1. /\ work = <<>> /\ next < Len(program) /\ next' = next + 1
      /\ work' = Replaced(work, <<what>>)
      /\ program' = program /\ code' = code /\ data' = data /\ labelCounter' = labelCounter
      /\ areas' = areas /\ stackSize' = stackSize /\ endLabel' = endLabel
      /\ loopStack' = loopStack /\ diagnostic' = diagnostic
  BY DEF RefuseFunction, Then, frameVars
<1>2. what.task = "refuse" /\ what.node = "function return or parameter type"
  BY DEF Refuse, Item
<1>3. what \in X
  BY DEF Messages, Refuse, Item, Activations, Inside, Plain
<1> HIDE DEF what
<1>4. /\ work' \in Seq({what}) /\ Len(work') = 1 /\ DOMAIN work' = {1}
      /\ work'[1] = what
  <2>1. <<what>> \in Seq({what}) /\ Len(<<what>>) = 1 /\ <<what>>[1] = what
    OBVIOUS
  <2>2. /\ work' \in Seq({what}) /\ Len(work') = 1 /\ DOMAIN work' = 1 .. 1
        /\ \A i \in 1 .. 1 : work'[i] = <<what>>[1 - i + 1]
    BY <1>1, <2>1, FirstActivations
  <2>3. 1 \in 1 .. 1 /\ 1 .. 1 = {1} /\ (1 - 1) + 1 = 1
    OBVIOUS
  <2>4. work'[1] = what
    BY <2>1, <2>2, <2>3
  <2>5. QED
    BY <2>2, <2>3, <2>4
<1>5. loopStack = <<>> /\ Owed(work, endLabel) = {} /\ Begun(work, next) = next
  BY <1>1, BetweenFunctions
<1>6. Owed(work', endLabel) = {} /\ ~InBody(work')
  <2>1. \A k \in DOMAIN work' : Writes(work'[k]) = {}
    BY <1>4, <1>2 DEF Writes
  <2>2. ~InBody(work')
    BY <1>4, <1>2 DEF InBody
  <2>3. QED
    BY <2>1, <2>2, NothingOwed
<1>7. AtHand(code, work', endLabel) = T
  BY <1>5, <1>6 DEF AtHand
<1>8. /\ Resolvable(program, E, S) /\ Typed(E, S) /\ CodeFits /\ Apart /\ Named /\ LoopsMatched
  BY DEF Inv
<1>9. Typed(E, S)'
  <2>1. work' \in Seq(X)
    <3> HIDE DEF X
    <3>1. {what} \subseteq X
      BY <1>3
    <3>2. QED
      BY <1>4, <3>1, SeqMonotonic
  <2>2. next + 1 \in 0 .. Len(program)
    <3>1. next \in 0 .. Len(program)
      BY <1>8 DEF Typed
    <3>2. Len(program) \in Int
      BY <3>1, <1>8 DEF Resolvable, TreesOf
    <3>3. QED
      BY <1>1, <3>1, <3>2
  <2>3. QED
    BY <1>1, <1>7, <1>8, <2>1, <2>2 DEF Typed
<1>10. CodeFits'
  <2>1. \A i \in DOMAIN code :
           /\ code[i].op = "call" => code[i].to \in FunctionLabels(program)
           /\ FitsData(code[i], DataLabels(data))
           /\ code[i].op \in Jumps /\ code[i].to \notin HandlerLabels => Arrives(code, i)
    BY <1>5, <1>8 DEF CodeFits
  <2>2. QED
    BY <1>1, <2>1 DEF CodeFits
<1>11. Shape(program, work, next)'
  BY <1>4, <1>2 DEF Shape
<1>12. LoopsMatched'
  <2>1. Pending(work', {"leaveLoop"}) = {}
    BY <1>4, <1>2 DEF Pending
  <2>2. Cardinality({}) = 0
    BY FS_EmptySet
  <2>3. QED
    BY <1>1, <1>5, <2>1, <2>2 DEF LoopsMatched
<1>13. Apart'
  <2>1. \A k \in DOMAIN work' : work'[k].task # "emit" /\ Writes(work'[k]) = {}
    BY <1>4, <1>2 DEF Writes
  <2>2. WritesApart(work', 0, labelCounter)
    BY <2>1 DEF WritesApart
  <2>3. QED
    BY <1>1, <1>6, <1>8, <2>1, <2>2 DEF Apart
<1>14. Named'
  <2>1. Doomed'
    BY <1>4, <1>2 DEF Doomed
  <2>2. Begun(work', next + 1) = next + 1
    BY <1>4, <1>2 DEF Begun
  <2>3. next \in Nat
    BY <1>8 DEF Typed
  <2>4. 1 .. next \subseteq 1 .. next + 1
    BY <2>3
  <2>5. /\ HandlerLabels \subseteq LabelsOf(code)
        /\ \A l \in LabelsOf(code) :
              l.n = Unnumbered =>
                 l \in HandlerLabels \cup {FunctionLabel(program[f].path) : f \in 1 .. next}
    BY <1>5, <1>8 DEF Named
  <2>6. \A l \in LabelsOf(code) :
              l.n = Unnumbered =>
                 l \in HandlerLabels \cup {FunctionLabel(program[f].path) : f \in 1 .. next + 1}
    BY <2>4, <2>5
  <2>7. QED
    BY <1>1, <2>1, <2>2, <2>5, <2>6 DEF Named
<1>15. QED
  BY <1>1, <1>8, <1>9, <1>10, <1>11, <1>12, <1>13, <1>14 DEF Inv

Visited(X, body) ==
    /\ GenAll(body) \in Seq(X) /\ Len(GenAll(body)) = Len(body)
    /\ \A i \in 1 .. Len(body) : GenAll(body)[i].task = "generate"
    /\ CollectAll(body) \in Seq(X) /\ Len(CollectAll(body)) = Len(body)
    /\ \A i \in 1 .. Len(body) : CollectAll(body)[i].task = "collect"

\* The statements of a function are visited twice, for their areas and for their code.
LEMMA AllCollected ==
    ASSUME NEW S, NEW X, NEW body \in Seq(S), \A s \in S : Gen(s) \in X /\ Collect(s) \in X
    PROVE  Visited(X, body)
<1>1. DOMAIN body = 1 .. Len(body) /\ Len(body) \in Nat
  OBVIOUS
<1>2. \A i \in DOMAIN body : Gen(body[i]) \in X /\ Collect(body[i]) \in X
  OBVIOUS
<1>3. \A i \in DOMAIN body : Gen(body[i]).task = "generate" /\ Collect(body[i]).task = "collect"
  BY DEF Gen, Collect, Item
<1>4. QED
  BY <1>1, <1>2, <1>3 DEF Visited, GenAll, CollectAll

Joined(X, r, s, t) ==
    /\ r \in Seq(X) /\ Len(r) = Len(s) + Len(t)
    /\ \A i \in 1 .. Len(s) : r[i] = s[i]
    /\ \A i \in Len(s) + 1 .. Len(s) + Len(t) : r[i] = t[i - Len(s)]

LEMMA Concatenated ==
    ASSUME NEW X, NEW s \in Seq(X), NEW t \in Seq(X)
    PROVE  Joined(X, s \o t, s, t)
BY ConcatElements DEF Joined

\* The stack of a function, with the epilogue at the bottom.
ForFunction(X, v, b, f) ==
    /\ v \in Seq(X)
    /\ Len(v) = 2 * b + 2 /\ DOMAIN v = 1 .. 2 * b + 2
    /\ v[1] = Item("epilogue", f)
    /\ \A i \in 2 .. b + 1 : v[i].task = "generate"
    /\ v[b + 2] = Item("prologue", f)
    /\ \A i \in b + 3 .. 2 * b + 2 : v[i].task = "collect"

\* What StartFunction leaves on the stack: the areas on top, then the prologue, the
\* statements, and the epilogue at the bottom.
LEMMA FunctionStack ==
    ASSUME NEW S, NEW X, NEW body \in Seq(S), NEW f,
           \A s \in S : Gen(s) \in X /\ Collect(s) \in X,
           Item("prologue", f) \in X, Item("epilogue", f) \in X
    PROVE  ForFunction(X, Replaced(<<>>, CollectAll(body) \o <<Item("prologue", f)>> \o GenAll(body)
                                             \o <<Item("epilogue", f)>>), Len(body), f)
<1> DEFINE C == CollectAll(body)
           G == GenAll(body)
           P == <<Item("prologue", f)>>
           Q == <<Item("epilogue", f)>>
           first == C \o P
           second == first \o G
           items == second \o Q
           b == Len(body)
           v == Replaced(<<>>, items)
<1>1. /\ G \in Seq(X) /\ Len(G) = b /\ \A i \in 1 .. b : G[i].task = "generate"
      /\ C \in Seq(X) /\ Len(C) = b /\ \A i \in 1 .. b : C[i].task = "collect"
  <2>1. Visited(X, body)
    BY AllCollected
  <2>2. QED
    BY <2>1 DEF Visited
<1>2. /\ P \in Seq(X) /\ Len(P) = 1 /\ P[1] = Item("prologue", f)
      /\ Q \in Seq(X) /\ Len(Q) = 1 /\ Q[1] = Item("epilogue", f)
  OBVIOUS
<1>3. b \in Nat
  OBVIOUS
<1> HIDE DEF C, G, P, Q, b
<1>4. first = C \o P
  OBVIOUS
<1> HIDE DEF first
<1>5. second = first \o G
  OBVIOUS
<1> HIDE DEF second
<1>6. items = second \o Q
  OBVIOUS
<1> HIDE DEF items
<1>7. /\ first \in Seq(X) /\ Len(first) = b + 1
      /\ \A i \in 1 .. b : first[i] = C[i]
      /\ first[b + 1] = P[1]
  <2>1. /\ first \in Seq(X) /\ Len(first) = b + 1
        /\ \A i \in 1 .. b : first[i] = C[i]
        /\ \A i \in b + 1 .. b + 1 : first[i] = P[i - b]
    <3>1. Joined(X, first, C, P)
      BY <1>1, <1>2, <1>4, Concatenated
    <3>2. QED
      BY <1>1, <1>2, <3>1 DEF Joined
  <2>2. b + 1 \in b + 1 .. b + 1 /\ (b + 1) - b = 1
    BY <1>3
  <2>3. QED
    BY <2>1, <2>2
<1>8. /\ second \in Seq(X) /\ Len(second) = 2 * b + 1
      /\ \A i \in 1 .. b + 1 : second[i] = first[i]
      /\ \A i \in b + 2 .. 2 * b + 1 : second[i] = G[i - (b + 1)]
  <2>1. /\ second \in Seq(X) /\ Len(second) = (b + 1) + b
        /\ \A i \in 1 .. b + 1 : second[i] = first[i]
        /\ \A i \in (b + 1) + 1 .. (b + 1) + b : second[i] = G[i - (b + 1)]
    <3>1. Joined(X, second, first, G)
      BY <1>1, <1>7, <1>5, Concatenated
    <3>2. QED
      BY <1>1, <1>7, <3>1 DEF Joined
  <2>2. (b + 1) + b = 2 * b + 1 /\ (b + 1) + 1 = b + 2
    BY <1>3
  <2>3. QED
    BY <2>1, <2>2
<1>9. /\ items \in Seq(X) /\ Len(items) = 2 * b + 2
      /\ \A i \in 1 .. 2 * b + 1 : items[i] = second[i]
      /\ items[2 * b + 2] = Q[1]
  <2>1. /\ items \in Seq(X) /\ Len(items) = (2 * b + 1) + 1
        /\ \A i \in 1 .. 2 * b + 1 : items[i] = second[i]
        /\ \A i \in (2 * b + 1) + 1 .. (2 * b + 1) + 1 : items[i] = Q[i - (2 * b + 1)]
    <3>1. Joined(X, items, second, Q)
      BY <1>2, <1>8, <1>6, Concatenated
    <3>2. QED
      BY <1>2, <1>8, <3>1 DEF Joined
  <2>2. (2 * b + 1) + 1 = 2 * b + 2 /\ (2 * b + 2) - (2 * b + 1) = 1
        /\ 2 * b + 2 \in 2 * b + 2 .. 2 * b + 2
    BY <1>3
  <2>3. QED
    BY <2>1, <2>2
<1>10. /\ v \in Seq(X) /\ Len(v) = 2 * b + 2 /\ DOMAIN v = 1 .. 2 * b + 2
      /\ \A i \in 1 .. 2 * b + 2 : v[i] = items[(2 * b + 2) - i + 1]
  <2>1. items \in Seq(X) /\ Len(items) = 2 * b + 2
    BY <1>9
  <2>2. /\ v \in Seq(X) /\ Len(v) = Len(items) /\ DOMAIN v = 1 .. Len(items)
        /\ \A i \in 1 .. Len(items) : v[i] = items[Len(items) - i + 1]
    BY <2>1, FirstActivations
  <2>3. QED
    BY <2>1, <2>2
<1> HIDE DEF v
<1>11. v[1] = Item("epilogue", f)
  <2>1. 1 \in 1 .. 2 * b + 2 /\ ((2 * b + 2) - 1) + 1 = 2 * b + 2
    BY <1>3
  <2>2. QED
    BY <1>2, <1>9, <1>10, <2>1
<1>12. v[b + 2] = Item("prologue", f)
  <2>1. /\ b + 2 \in 1 .. 2 * b + 2 /\ ((2 * b + 2) - (b + 2)) + 1 = b + 1
        /\ b + 1 \in 1 .. 2 * b + 1 /\ b + 1 \in 1 .. b + 1
    BY <1>3
  <2>2. v[b + 2] = items[b + 1]
    BY <1>10, <2>1
  <2>3. QED
    BY <1>2, <1>7, <1>8, <1>9, <2>1, <2>2
<1>13. ASSUME NEW i \in 2 .. b + 1 PROVE v[i].task = "generate"
  <2> DEFINE j == ((2 * b + 2) - i) + 1
             k == j - (b + 1)
  <2>1. i \in 1 .. 2 * b + 2 /\ j \in 1 .. 2 * b + 1 /\ j \in b + 2 .. 2 * b + 1 /\ k \in 1 .. b
    BY <1>3
  <2>2. v[i] = items[j]
    BY <1>10, <2>1
  <2>3. v[i] = G[k]
    <3> HIDE DEF j
    <3>1. items[j] = second[j] /\ second[j] = G[j - (b + 1)]
      BY <1>8, <1>9, <2>1
    <3>2. QED
      BY <2>2, <3>1
  <2> HIDE DEF j, k
  <2>4. QED
    BY <1>1, <2>1, <2>3
<1>14. ASSUME NEW i \in b + 3 .. 2 * b + 2 PROVE v[i].task = "collect"
  <2> DEFINE j == ((2 * b + 2) - i) + 1
  <2>1. i \in 1 .. 2 * b + 2 /\ j \in 1 .. 2 * b + 1 /\ j \in 1 .. b + 1 /\ j \in 1 .. b
    BY <1>3
  <2>2. v[i] = items[j]
    BY <1>10, <2>1
  <2> HIDE DEF j
  <2>3. v[i] = C[j]
    BY <1>7, <1>8, <1>9, <2>1, <2>2
  <2>4. QED
    BY <1>1, <2>1, <2>3
<1>15. QED
  BY <1>10, <1>11, <1>12, <1>13, <1>14 DEF ForFunction, v, items, second, first, C, G, P, Q, b

LEMMA StartFunctionKeepsInv ==
    ASSUME NEW E, NEW S, Inv(E, S), StartFunction
    PROVE  Inv(E, S)'
<1> DEFINE f == program[next + 1]
           b == Len(f.body)
           T == AtHand(code, work, endLabel)
           X == Activations(program, E, S, DataLabels(data), T)
<1>1. /\ work = <<>> /\ next < Len(program) /\ next' = next + 1 /\ ~NotPassed(f.paramTypes)
      /\ work' = Replaced(<<>>, CollectAll(f.body) \o <<Item("prologue", f)>> \o GenAll(f.body)
                                    \o <<Item("epilogue", f)>>)
      /\ program' = program /\ code' = code /\ data' = data /\ labelCounter' = labelCounter
      /\ areas' = <<>> /\ stackSize' = f.localCount * 8 /\ endLabel' = endLabel
      /\ loopStack' = loopStack /\ diagnostic' = diagnostic
  BY DEF StartFunction, Then, Function
<1>2. /\ Resolvable(program, E, S) /\ Typed(E, S) /\ CodeFits /\ Apart /\ Named /\ LoopsMatched
  BY DEF Inv
<1>3. next + 1 \in DOMAIN program /\ next \in Nat /\ next + 1 \in 0 .. Len(program)
  <2>1. next \in 0 .. Len(program)
    BY <1>2 DEF Typed
  <2>2. Len(program) \in Nat /\ DOMAIN program = 1 .. Len(program)
    BY <1>2 DEF Resolvable, TreesOf
  <2>3. QED
    BY <1>1, <2>1, <2>2
<1>4. f.body \in Seq(S) /\ f.localCount \in Nat
  BY <1>2, <1>3 DEF Resolvable, TreesOf
<1>5. /\ \A s \in S : Gen(s) \in X /\ Collect(s) \in X
      /\ Item("prologue", f) \in X /\ Item("epilogue", f) \in X
  <2>1. \A s \in S : Gen(s) \in X
    BY DEF Activations, Inside, Plain, Gen, Item
  <2>2. \A s \in S : Collect(s) \in X
    BY DEF Activations, Collect, Item
  <2>3. f \in {program[i] : i \in DOMAIN program}
    BY <1>3
  <2> DEFINE P == {program[i] : i \in DOMAIN program}
  <2> HIDE DEF P, f
  <2>4. Item("prologue", f) \in X /\ Item("epilogue", f) \in X
    BY <2>3 DEF Activations, Item, P
  <2>5. QED
    BY <2>1, <2>2, <2>4
<1>6. b \in Nat
  BY <1>4
<1> HIDE DEF X, f
<1>7. /\ work' \in Seq(X)
      /\ Len(work') = 2 * b + 2 /\ DOMAIN work' = 1 .. 2 * b + 2
      /\ work'[1] = Item("epilogue", f)
      /\ \A i \in 2 .. b + 1 : work'[i].task = "generate"
      /\ work'[b + 2] = Item("prologue", f)
      /\ \A i \in b + 3 .. 2 * b + 2 : work'[i].task = "collect"
  <2>1. ForFunction(X, work', b, f)
    BY <1>1, <1>4, <1>5, FunctionStack
  <2>2. QED
    BY <2>1 DEF ForFunction
<1> HIDE DEF b
<1>8. /\ work'[1].task = "epilogue" /\ work'[1].node = f
      /\ work'[b + 2].task = "prologue" /\ work'[b + 2].node = f
  BY <1>7 DEF Item
<1>9. \A k \in DOMAIN work' : k = 1 \/ k \in 2 .. b + 1 \/ k = b + 2 \/ k \in b + 3 .. 2 * b + 2
  BY <1>6, <1>7
<1>10. \A k \in DOMAIN work' :
          /\ work'[k].task \in {"epilogue", "generate", "prologue", "collect"}
          /\ work'[k].task = "epilogue" => k = 1
          /\ work'[k].task = "prologue" => k = b + 2
          /\ work'[k].task = "collect" => k \in b + 3 .. 2 * b + 2
          /\ work'[k].task \in {"prologue", "epilogue"} => work'[k].node = f
  <2>1. SUFFICES ASSUME NEW k \in DOMAIN work'
                 PROVE  /\ work'[k].task \in {"epilogue", "generate", "prologue", "collect"}
                        /\ work'[k].task = "epilogue" => k = 1
                        /\ work'[k].task = "prologue" => k = b + 2
                        /\ work'[k].task = "collect" => k \in b + 3 .. 2 * b + 2
                        /\ work'[k].task \in {"prologue", "epilogue"} => work'[k].node = f
    OBVIOUS
  <2>2. CASE k = 1
    BY <1>8, <2>2
  <2>3. CASE k \in 2 .. b + 1
    BY <1>7, <2>3
  <2>4. CASE k = b + 2
    BY <1>8, <2>4
  <2>5. CASE k \in b + 3 .. 2 * b + 2
    BY <1>7, <2>5
  <2>6. QED
    BY <1>9, <2>2, <2>3, <2>4, <2>5
<1>11. b + 2 \in DOMAIN work' /\ 1 \in DOMAIN work'
  BY <1>6, <1>7
<1>12. loopStack = <<>> /\ Owed(work, endLabel) = {} /\ Begun(work, next) = next
  BY <1>1, BetweenFunctions
<1>13. /\ \A k \in DOMAIN work' : Writes(work'[k]) = {} /\ work'[k].task # "emit"
       /\ ~InBody(work')
       /\ Owed(work', endLabel) = {}
  <2>1. \A k \in DOMAIN work' : Writes(work'[k]) = {} /\ work'[k].task # "emit"
    BY <1>10 DEF Writes
  <2>2. ~InBody(work')
    BY <1>8, <1>11 DEF InBody
  <2>3. QED
    BY <2>1, <2>2, NothingOwed
<1>14. AtHand(code, work', endLabel) = T
  BY <1>12, <1>13 DEF AtHand
<1>15. Typed(E, S)'
  <2>1. f.localCount * 8 \in Int
    BY <1>4
  <2>2. work' \in Seq(Activations(program, E, S, DataLabels(data), T))
    BY <1>7 DEF X
  <2>3. loopStack \in Seq(Contexts(T))
    BY <1>2 DEF Typed
  <2>4. \A s \in DOMAIN <<>> : <<>>[s] \in [base : Int, size : Int]
    OBVIOUS
  <2>5. code \in Seq(AnyLine) /\ data \in Seq(AnyDatum) /\ labelCounter \in Nat /\ endLabel \in AnyOperand
    BY <1>2 DEF Typed
  <2>6. QED
    BY <1>1, <1>3, <1>14, <2>1, <2>2, <2>3, <2>4, <2>5 DEF Typed
<1>16. CodeFits'
  <2>1. \A i \in DOMAIN code :
           /\ code[i].op = "call" => code[i].to \in FunctionLabels(program)
           /\ FitsData(code[i], DataLabels(data))
           /\ code[i].op \in Jumps /\ code[i].to \notin HandlerLabels => Arrives(code, i)
    BY <1>2, <1>12 DEF CodeFits
  <2>2. QED
    BY <1>1, <2>1 DEF CodeFits
<1>17. Shape(program, work', next + 1)
  <2>1. work'[1].task = "epilogue"
    BY <1>8
  <2>2. ASSUME NEW k \in DOMAIN work', work'[k].task \in {"prologue", "epilogue"}
        PROVE  next + 1 > 0 /\ work'[k].node = program[next + 1] /\ ~NotPassed(program[next + 1].paramTypes)
    BY <1>1, <1>3, <1>10, <2>2 DEF f
  <2>3. ASSUME NEW k \in DOMAIN work', work'[k].task = "prologue"
        PROVE  /\ \A j \in 2 .. k - 1 : work'[j].task = "generate"
               /\ \A j \in k + 1 .. Len(work') : work'[j].task \in {"collect", "refuse"}
    <3>1. k = b + 2
      BY <1>10, <2>3
    <3>2. k - 1 = b + 1 /\ k + 1 = b + 3
      BY <1>6, <3>1
    <3>3. QED
      BY <1>7, <3>2
  <2>4. ASSUME NEW k \in DOMAIN work', work'[k].task = "collect"
        PROVE  \E j \in 1 .. k - 1 : work'[j].task = "prologue"
    <3>1. k \in b + 3 .. 2 * b + 2
      BY <1>10, <2>4
    <3>2. b + 2 \in 1 .. k - 1
      BY <1>6, <3>1
    <3>3. QED
      BY <1>8, <3>2
  <2>5. QED
    BY <1>10, <2>1, <2>2, <2>3, <2>4 DEF Shape
<1>18. LoopsMatched'
  <2>1. Pending(work', {"leaveLoop"}) = {}
    BY <1>10 DEF Pending
  <2>2. Cardinality({}) = 0
    BY FS_EmptySet
  <2>3. QED
    BY <1>1, <1>12, <2>1, <2>2 DEF LoopsMatched
<1>19. Apart'
  <2>1. WritesApart(work', 0, labelCounter)
    BY <1>13 DEF WritesApart
  <2>2. QED
    BY <1>1, <1>2, <1>13, <2>1 DEF Apart
<1>20. Named'
  <2>1. Begun(work', next + 1) = next
    <3>1. Begun(work', next + 1) = (next + 1) - 1
      BY <1>8, <1>11 DEF Begun
    <3>2. QED
      BY <1>3, <3>1
  <2>2. Doomed => Doomed'
    <3>1. DOMAIN work = {}
      BY <1>1
    <3>2. QED
      BY <1>1, <3>1, Zenon DEF Doomed
  <2>3. QED
    BY <1>1, <1>2, <1>12, <2>1, <2>2 DEF Named
<1>21. QED
  BY <1>1, <1>2, <1>15, <1>16, <1>17, <1>18, <1>19, <1>20 DEF Inv

LEMMA FunctionLabelsHaveTypes ==
    ASSUME NEW p, NEW E, NEW S, TreesOf(p, E, S)
    PROVE  /\ \A i \in DOMAIN p :
                 /\ FunctionLabel(p[i].path) \in AnyOperand
                 /\ FunctionLabel(p[i].path).n = Unnumbered
                 /\ EndBase(p[i].path) \in Seq(Words)
           /\ FunctionLabels(p) \subseteq AnyOperand
<1>1. ASSUME NEW path \in Seq(Strings) PROVE mangleFunctionName(path) \in Seq(Words)
  <2>1. Strings \subseteq Words /\ "ml" \in Words /\ Underscore \in Words
    BY DEF Words
  <2> DEFINE parts == [i \in DOMAIN path |-> IF path[i] = ":" THEN Underscore ELSE path[i]]
  <2>2. parts \in Seq(Words)
    <3>1. \A i \in DOMAIN path : (IF path[i] = ":" THEN Underscore ELSE path[i]) \in Words
      BY <2>1
    <3>2. QED
      BY <3>1
  <2>3. path \in Seq(Words)
    BY <2>1, SeqMonotonic
  <2>4. <<"ml", Underscore>> \o parts \in Seq(Words)
    <3>1. <<"ml", Underscore>> \in Seq(Words)
      BY <2>1
    <3> HIDE DEF parts
    <3>2. QED
      BY <2>2, <3>1
  <2>5. QED
    BY <2>3, <2>4, Zenon DEF mangleFunctionName
<1>2. ASSUME NEW i \in DOMAIN p
      PROVE  /\ FunctionLabel(p[i].path) \in AnyOperand
             /\ FunctionLabel(p[i].path).n = Unnumbered
             /\ EndBase(p[i].path) \in Seq(Words)
  <2>1. p[i].path \in Seq(Strings)
    BY Zenon DEF TreesOf, Strings
  <2>2. mangleFunctionName(p[i].path) \in Seq(Words)
    BY <1>1, <2>1
  <2>3. Unnumbered \in Int
    BY DEF Unnumbered
  <2>4. <<Underscore, "end">> \in Seq(Words)
    <3>1. Underscore \in Words /\ "end" \in Words
      BY DEF Words
    <3>2. QED
      BY <3>1
  <2> DEFINE name == mangleFunctionName(p[i].path)
  <2>5. FunctionLabel(p[i].path) = Label(name, Unnumbered)
    BY DEF FunctionLabel
  <2> HIDE DEF name
  <2>6. name \in Seq(Words)
    BY <2>2 DEF name
  <2>7. name \o <<Underscore, "end">> \in Seq(Words)
    BY <2>4, <2>6
  <2>8. EndBase(p[i].path) \in Seq(Words)
    BY <2>7 DEF EndBase, name
  <2>9. QED
    BY <2>3, <2>5, <2>6, <2>8, OperandsHaveTypes
<1>3. QED
  BY <1>2 DEF FunctionLabels

\* The lines of a prologue: the label of the function and quiet lines.
Opening(F, D) ==
    {l \in AnyLine :
        /\ l.op \in Jumps => l.to \in HandlerLabels
        /\ l.op = "call" => l.to \in F
        /\ FitsData(l, D)}

LEMMA QuietLines ==
    ASSUME NEW F, NEW D, NEW lines \in Seq(Quiet(F, D))
    PROVE  /\ LabelsOf(lines) = {} /\ LinesApart(lines)
           /\ lines \in Seq(Opening(F, D))
<1>1. \A x \in Quiet(F, D) : x \in Opening(F, D) /\ x.op # "label"
  BY DEF Quiet, Fits, Opening
<1> DEFINE Q == Quiet(F, D)
           R == Opening(F, D)
<1> HIDE DEF Q, R
<1>2. lines \in Seq(Q) /\ \A x \in Q : x \in R /\ x.op # "label"
  BY <1>1 DEF Q, R
<1>3. \A i \in DOMAIN lines : lines[i].op # "label"
  BY <1>2
<1>4. lines \in Seq(R)
  BY <1>2
<1>5. QED
  BY <1>3, <1>4 DEF LabelsOf, LinesApart, R

LEMMA PrologueLines ==
    ASSUME NEW p, NEW E, NEW S, TreesOf(p, E, S), NEW i \in DOMAIN p, ~NotPassed(p[i].paramTypes),
           NEW D, NEW size \in Int
    PROVE  LET f == p[i]
               lines == (<<Do1("label", FunctionLabel(f.path)), Do1("push", rbp), Mov(rbp, rsp)>>
                            \o (IF size > 0 THEN <<Ins("sub", rsp, Imm(size))>> ELSE <<>>))
                            \o [j \in DOMAIN f.paramTypes |->
                                    Mov(Frame(localOffset(j - 1)), RegisterFor(f.paramTypes, j))]
           IN  /\ lines \in Seq(Opening(FunctionLabels(p), D))
               /\ LabelsOf(lines) = {FunctionLabel(f.path)}
               /\ LinesApart(lines)
<1> DEFINE f == p[i]
           F == FunctionLabels(p)
           Q == Quiet(F, D)
           R == Opening(F, D)
           label == FunctionLabel(f.path)
           first == Do1("label", label)
           head == <<first, Do1("push", rbp), Mov(rbp, rsp)>>
           space == IF size > 0 THEN <<Ins("sub", rsp, Imm(size))>> ELSE <<>>
           store(j) == Mov(Frame(localOffset(j - 1)), RegisterFor(f.paramTypes, j))
           stores == [j \in DOMAIN f.paramTypes |-> store(j)]
<1>1. "push" \in Harmless /\ "sub" \in Harmless
  BY DEF Harmless, OpCodes, Jumps
<1>2. Do1("push", rbp) \in Q /\ Mov(rbp, rsp) \in Q
  BY <1>1, LinesAreQuiet, RegistersHaveTypes
<1>3. space \in Seq(Q)
  <2>1. Ins("sub", rsp, Imm(size)) \in Q
    BY <1>1, OperandsHaveTypes, LinesAreQuiet, RegistersHaveTypes
  <2> HIDE DEF Q
  <2>2. <<Ins("sub", rsp, Imm(size))>> \in Seq(Q) /\ <<>> \in Seq(Q)
    BY <2>1
  <2>3. QED
    BY <2>2
<1>4. stores \in Seq(Q)
  <2>1. f.paramTypes \in Seq(Types)
    BY DEF TreesOf
  <2>2. ASSUME NEW j \in DOMAIN f.paramTypes PROVE store(j) \in Q
    <3>1. RegisterFor(f.paramTypes, j) \in NoLabel
      BY <2>1, ArgumentsHaveRegisters
    <3>2. localOffset(j - 1) \in Int
      BY <2>1 DEF localOffset
    <3>3. QED
      BY <3>1, <3>2, StoreIsQuiet
  <2> HIDE DEF Q, store, f
  <2>3. QED
    BY <2>1, <2>2
<1>5. first \in R /\ first.op = "label" /\ first.to = label
  <2>1. label \in AnyOperand
    BY FunctionLabelsHaveTypes
  <2>2. Nothing \in AnyOperand /\ Nothing.mode # "label"
    BY OperandsHaveTypes DEF NoLabel
  <2>3. "label" \in OpCodes /\ "label" \notin Jumps
    BY DEF OpCodes, Jumps
  <2> HIDE DEF label
  <2>4. first \in AnyLine /\ first.op = "label" /\ first.to = label
    BY <2>1, <2>2, <2>3 DEF Do1, Ins, AnyLine
  <2> HIDE DEF first
  <2>5. QED
    BY <2>3, <2>4 DEF Opening, FitsData
<1>6. \A x \in Q : x \in R /\ x.op # "label"
  BY DEF Quiet, Fits, Opening
<1> HIDE DEF Q, R, first, label
<1>7. head \in Seq(R) /\ LabelsOf(head) = {label} /\ LinesApart(head)
  <2>1. Do1("push", rbp) \in R /\ Do1("push", rbp).op # "label" /\ Mov(rbp, rsp) \in R /\ Mov(rbp, rsp).op # "label"
    BY <1>2, <1>6
  <2> DEFINE x == Do1("push", rbp)
             y == Mov(rbp, rsp)
  <2> HIDE DEF x, y
  <2>2. x \in R /\ x.op # "label" /\ y \in R /\ y.op # "label"
    BY <2>1 DEF x, y
  <2>3. <<first, x, y>> \in Seq(R)
    BY <1>5, <2>2
  <2>4. DOMAIN <<first, x, y>> = 1 .. 3 /\ <<first, x, y>>[1] = first /\ <<first, x, y>>[2] = x /\ <<first, x, y>>[3] = y
    OBVIOUS
  <2>5. \A k \in 1 .. 3 : k = 1 \/ k = 2 \/ k = 3
    OBVIOUS
  <2>6. LabelsOf(<<first, x, y>>) = {label}
    <3> DEFINE h == <<first, x, y>>
    <3> HIDE DEF h
    <3>1. DOMAIN h = 1 .. 3 /\ h[1] = first /\ h[2] = x /\ h[3] = y
      BY <2>4 DEF h
    <3>2. \A k \in DOMAIN h : h[k].op = "label" <=> k = 1
      BY <1>5, <2>2, <2>5, <3>1
    <3>3. 1 \in DOMAIN h /\ h[1].to = label
      BY <1>5, <3>1
    <3>4. LabelsOf(h) = {label}
      BY <3>2, <3>3 DEF LabelsOf
    <3>5. QED
      BY <3>4 DEF h
  <2>7. LinesApart(<<first, x, y>>)
    BY <1>5, <2>2, <2>4, <2>5 DEF LinesApart
  <2>8. QED
    BY <2>3, <2>6, <2>7 DEF x, y
<1>8. /\ LabelsOf(space) = {} /\ LinesApart(space) /\ space \in Seq(R)
      /\ LabelsOf(stores) = {} /\ LinesApart(stores) /\ stores \in Seq(R)
  BY <1>3, <1>4, QuietLines DEF Q, R
<1> HIDE DEF head, space, stores
<1>9. /\ head \o space \in Seq(R) /\ LabelsOf(head \o space) = {label} /\ LinesApart(head \o space)
  <2>1. head \o space \in Seq(R)
    BY <1>7, <1>8
  <2>2. LabelsOf(head \o space) = {label}
    BY <1>7, <1>8, LabelsOfBoth
  <2>3. LabelsOf(head) \cap LabelsOf(space) = {}
    BY <1>8
  <2>4. QED
    BY <1>7, <1>8, <2>1, <2>2, <2>3, ApartTogether
<1> DEFINE both == head \o space
<1> HIDE DEF both
<1>10. both \in Seq(R) /\ LabelsOf(both) = {label} /\ LinesApart(both)
  BY <1>9 DEF both
<1>11. both \o stores \in Seq(R) /\ LabelsOf(both \o stores) = {label} /\ LinesApart(both \o stores)
  <2>1. both \o stores \in Seq(R)
    BY <1>8, <1>10
  <2>2. LabelsOf(both \o stores) = {label}
    BY <1>8, <1>10, LabelsOfBoth
  <2>3. LabelsOf(both) \cap LabelsOf(stores) = {}
    BY <1>8
  <2>4. QED
    BY <1>8, <1>10, <2>1, <2>2, <2>3, ApartTogether
<1>12. QED
  BY <1>11, Zenon DEF both, head, space, stores, store, first, label, R, F, f

\* Jumps that have arrived do so with more lines behind.
LEMMA ArrivesStill ==
    ASSUME NEW X, NEW c \in Seq(X), NEW lines \in Seq(X), NEW i \in DOMAIN c, Arrives(c, i)
    PROVE  Arrives(c \o lines, i)
<1> DEFINE d == c \o lines
           n == Len(c)
<1>1. /\ Len(d) = n + Len(lines)
      /\ \A j \in 1 .. n : d[j] = c[j]
      /\ d \in Seq(X)
  BY ConcatElements
<1>2. n \in Nat /\ Len(lines) \in Nat /\ DOMAIN c = 1 .. n /\ DOMAIN d = 1 .. Len(d)
  BY <1>1
<1> HIDE DEF d, n
<1>3. PICK j \in DOMAIN c :
         /\ c[j].op = "label" /\ c[j].to = c[i].to
         /\ \A k \in DOMAIN c :
               c[k].op = "label" /\ ((i < k /\ k <= j) \/ (j < k /\ k <= i)) => c[k].to.n # Unnumbered
  BY DEF Arrives
<1>4. j \in DOMAIN d /\ d[j] = c[j] /\ d[i] = c[i]
  BY <1>1, <1>2
<1>5. ASSUME NEW k \in DOMAIN d, (i < k /\ k <= j) \/ (j < k /\ k <= i)
      PROVE  k \in DOMAIN c /\ d[k] = c[k]
  BY <1>1, <1>2, <1>5
<1>6. Arrives(d, i)
  BY <1>3, <1>4, <1>5 DEF Arrives
<1>7. QED
  BY <1>6 DEF d

LEMMA PrologueKeepsInv ==
    ASSUME NEW E, NEW S, Inv(E, S), Prologue
    PROVE  /\ Inv(E, S)'
           /\ \A l \in LabelsOf(code') : l \in LabelsOf(code) \/ l.n = Unnumbered
           /\ ForEnd(endLabel', FunctionLabels(program))
<1> DEFINE f == program[next]
           n == Len(work)
           size == Rounded(stackSize)
           F == FunctionLabels(program)
           D == DataLabels(data)
           R == Opening(F, D)
           label == FunctionLabel(f.path)
           lines == (<<Do1("label", FunctionLabel(f.path)), Do1("push", rbp), Mov(rbp, rsp)>>
                        \o (IF size > 0 THEN <<Ins("sub", rsp, Imm(size))>> ELSE <<>>))
                        \o [j \in DOMAIN f.paramTypes |->
                                Mov(Frame(localOffset(j - 1)), RegisterFor(f.paramTypes, j))]
           end == Label(EndBase(f.path), labelCounter)
           A == Activations(program, E, S, D, AtHand(code, work, endLabel))
<1>1. /\ Resolvable(program, E, S) /\ Typed(E, S) /\ CodeFits /\ Apart /\ Named /\ LoopsMatched
      /\ Shape(program, work, next)
  BY DEF Inv
<1>2. work # <<>> /\ work[n].task = "prologue"
  BY DEF Prologue, Running, Top
<1>3. work \in Seq(A)
  BY <1>1 DEF Typed
<1> HIDE DEF A
<1>4. n \in DOMAIN work /\ DOMAIN work = 1 .. n /\ n \in Nat /\ 1 \in DOMAIN work
  BY <1>2, <1>3, TopOfStack
<1>5. next > 0 /\ work[n].node = f /\ ~NotPassed(f.paramTypes)
  BY <1>1, <1>2, <1>4 DEF Shape
<1>6. next \in DOMAIN program /\ next \in Nat
  <2>1. next \in 0 .. Len(program)
    BY <1>1 DEF Typed
  <2>2. Len(program) \in Nat /\ DOMAIN program = 1 .. Len(program)
    BY <1>1 DEF Resolvable, TreesOf
  <2>3. QED
    BY <1>5, <2>1, <2>2
<1>7. /\ work' = Replaced(work, <<>>)
      /\ program' = program /\ data' = data /\ areas' = areas /\ loopStack' = loopStack
      /\ next' = next /\ diagnostic' = diagnostic /\ labelCounter' = labelCounter + 1
      /\ stackSize' = size /\ endLabel' = end
  BY <1>5 DEF Prologue, Then, Node, Top
<1>8. code' = code \o lines
  <2>1. Node = f
    BY <1>5 DEF Node, Top
  <2> DEFINE head == <<Do1("label", FunctionLabel(f.path)), Do1("push", rbp), Mov(rbp, rsp)>>
             space == IF size > 0 THEN <<Ins("sub", rsp, Imm(size))>> ELSE <<>>
             stores == [j \in DOMAIN f.paramTypes |->
                                Mov(Frame(localOffset(j - 1)), RegisterFor(f.paramTypes, j))]
  <2>2. code' = code \o head \o space \o stores
    BY <2>1, Zenon DEF Prologue
  <2>3. code \in Seq(AnyLine)
    BY <1>1 DEF Typed
  <2> DEFINE W == AnyLine \cup {head[i] : i \in DOMAIN head} \cup {space[i] : i \in DOMAIN space}
                          \cup {stores[i] : i \in DOMAIN stores}
  <2>4. code \in Seq(W) /\ head \in Seq(W) /\ space \in Seq(W) /\ stores \in Seq(W)
    <3>1. f.paramTypes \in Seq(Types)
      BY <1>1, <1>6 DEF Resolvable, TreesOf
    <3>2. head \in Seq({head[i] : i \in DOMAIN head})
      OBVIOUS
    <3>3. space \in Seq({space[i] : i \in DOMAIN space})
      <4> DEFINE one == Ins("sub", rsp, Imm(size))
      <4>1. CASE size > 0
        <5>1. space = <<one>>
          BY <4>1
        <5> HIDE DEF space, one
        <5>2. QED
          BY <5>1
      <4>2. CASE ~(size > 0)
        <5>1. space = <<>>
          BY <4>2
        <5> HIDE DEF space
        <5>2. QED
          BY <5>1
      <4>3. QED
        BY <4>1, <4>2
    <3>4. stores \in Seq({stores[i] : i \in DOMAIN stores})
      BY <3>1
    <3> HIDE DEF head, space, stores
    <3>5. QED
      BY <2>3, <3>2, <3>3, <3>4, SeqMonotonic
  <2> HIDE DEF head, space, stores, W
  <2>5. ((code \o head) \o space) \o stores = code \o ((head \o space) \o stores)
    <3> DEFINE begin == code \o head
    <3>1. begin \in Seq(W) /\ head \o space \in Seq(W)
      BY <2>4, ConcatProperties
    <3>2. begin \o space = code \o (head \o space)
      BY <2>4, ConcatAssociative
    <3>3. (code \o (head \o space)) \o stores = code \o ((head \o space) \o stores)
      BY <2>4, <3>1, ConcatAssociative
    <3>4. QED
      BY <3>2, <3>3
  <2>6. QED
    BY <2>2, <2>5 DEF head, space, stores
<1>9. lines \in Seq(R) /\ LabelsOf(lines) = {label} /\ LinesApart(lines)
  <2>1. size \in Int
    BY <1>1 DEF Typed, Rounded
  <2>2. TreesOf(program, E, S)
    BY <1>1 DEF Resolvable
  <2> HIDE DEF size
  <2>3. QED
    BY <1>5, <1>6, <2>1, <2>2, PrologueLines
<1>10. label \in AnyOperand /\ label.n = Unnumbered
       /\ EndBase(f.path) \in Seq(Words)
  BY <1>1, <1>6, FunctionLabelsHaveTypes DEF Resolvable
<1>11. labelCounter \in Nat /\ code \in Seq(AnyLine)
  BY <1>1 DEF Typed
<1>12. end \in AnyOperand /\ end.n = labelCounter
  <2> DEFINE base == EndBase(f.path)
  <2>1. base \in Seq(Words) /\ labelCounter \in Int
    BY <1>10, <1>11
  <2>2. end = Label(base, labelCounter)
    OBVIOUS
  <2> HIDE DEF base, end
  <2>3. QED
    BY <2>1, <2>2, OperandsHaveTypes
<1> HIDE DEF lines, end, label
<1>13. lines \in Seq(AnyLine)
  <2>1. R \subseteq AnyLine
    BY DEF Opening
  <2> HIDE DEF R
  <2>2. QED
    BY <1>9, <2>1, SeqMonotonic
<1> DEFINE v == Replaced(work, <<>>)
           d == code \o lines
<1>14. v \in Seq(A) /\ Splits(v, work, <<>>)
  <2>1. <<>> \in Seq(A)
    OBVIOUS
  <2>2. QED
    BY <1>2, <1>3, <2>1, ReplacedSplits
<1>15. n # 1
  <2>1. n = 1 => work[1].task = "prologue"
    BY <1>2
  <2>2. work[1].task = "epilogue" \/ work[1].task = "refuse"
    BY <1>1, <1>2 DEF Shape
  <2>3. QED
    BY <2>1, <2>2
<1>16. work[1].task = "epilogue"
  BY <1>1, <1>2, <1>15 DEF Shape
<1>17. \A k \in DOMAIN work : k = 1 \/ k = n \/ k \in 2 .. n - 1
  <2> HIDE DEF n
  <2>1. QED
    BY <1>4
<1>18. \A k \in DOMAIN work :
          /\ k # n => work[k].task \in {"epilogue", "generate"}
          /\ k # 1 /\ k # n => work[k].task = "generate"
          /\ work[k].task \notin {"emit", "refuse", "leaveLoop"}
  <2>1. \A k \in 2 .. n - 1 : work[k].task = "generate"
    BY <1>1, <1>2, <1>4 DEF Shape
  <2>2. QED
    BY <1>2, <1>16, <1>17, <2>1
<1>19. loopStack = <<>>
  <2>1. Pending(work, {"leaveLoop"}) = {}
    BY <1>18 DEF Pending
  <2>2. Cardinality({}) = 0
    BY FS_EmptySet
  <2>3. Len(loopStack) = 0
    BY <1>1, <2>1, <2>2 DEF LoopsMatched
  <2> DEFINE C == Contexts(AtHand(code, work, endLabel))
  <2>4. loopStack \in Seq(C)
    BY <1>1 DEF Typed
  <2> HIDE DEF C
  <2>5. QED
    BY <2>3, <2>4
<1>20. Owed(work, endLabel) = {}
  <2>1. \A k \in DOMAIN work : Writes(work[k]) = {}
    BY <1>18 DEF Writes
  <2>2. ~InBody(work)
    BY <1>2, <1>4 DEF InBody
  <2>3. QED
    BY <2>1, <2>2, NothingOwed
<1> HIDE DEF v
<1>21. \A k \in DOMAIN v : k \in DOMAIN work /\ k # n /\ v[k] = work[k]
  <2>1. \A k \in DOMAIN v : k \in 1 .. n - 1 /\ k \in DOMAIN work /\ v[k] = work[k]
    BY <1>14 DEF Splits
  <2>2. \A k \in 1 .. n - 1 : k # n
    <3> HIDE DEF n
    <3>1. QED
      BY <1>4
  <2>3. QED
    BY <2>1, <2>2
<1>22. v \in Seq(Activations(program, E, S, D, AtHand(d, v, end)))
  <2> DEFINE B == Activations(program, E, S, D, AtHand(d, v, end))
  <2>1. \A x \in A : x.task \in {"epilogue", "generate"} => x \in B
    BY DEF A, Activations, Inside, Plain
  <2> HIDE DEF B
  <2>2. \A k \in DOMAIN v : v[k] \in B
    BY <1>14, <1>18, <1>21, <2>1
  <2> DEFINE C == {v[k] : k \in DOMAIN v}
  <2>3. v \in Seq(C)
    BY <1>14
  <2>4. C \subseteq B
    BY <2>2
  <2> HIDE DEF C
  <2>5. v \in Seq(B)
    BY <2>3, <2>4, SeqMonotonic
  <2>6. QED
    BY <2>5 DEF B
<1>23. LabelsOf(d) = LabelsOf(code) \cup {label}
  BY <1>9, <1>11, <1>13, LabelsOfBoth
<1>24. /\ d \in Seq(AnyLine)
       /\ Len(d) = Len(code) + Len(lines)
       /\ \A i \in 1 .. Len(code) : d[i] = code[i]
       /\ \A i \in Len(code) + 1 .. Len(code) + Len(lines) : d[i] = lines[i - Len(code)]
  BY <1>11, <1>13, ConcatElements
<1>25. \A i \in DOMAIN code : Arrives(code, i) => Arrives(d, i)
  BY <1>11, <1>13, ArrivesStill
<1> HIDE DEF d
<1>26. v = work' /\ d = code'
  BY <1>7, <1>8 DEF v, d
<1>27. Typed(E, S)'
  <2>1. loopStack \in Seq(Contexts(AtHand(d, v, end)))
    BY <1>19
  <2>2. size \in Int
    BY <1>1 DEF Typed, Rounded
  <2>3. data \in Seq(AnyDatum) /\ next \in 0 .. Len(program) /\ labelCounter + 1 \in Nat
        /\ \A s \in DOMAIN areas : areas[s] \in [base : Int, size : Int]
    BY <1>1, <1>11 DEF Typed
  <2> HIDE DEF size
  <2>4. QED
    BY <1>7, <1>12, <1>22, <1>24, <1>26, <2>1, <2>2, <2>3 DEF Typed
<1>28. \A i \in DOMAIN d : i \in 1 .. Len(code) \/ (i \in Len(code) + 1 .. Len(d) /\ i - Len(code) \in DOMAIN lines)
  <2>1. Len(code) \in Nat /\ Len(lines) \in Nat /\ DOMAIN d = 1 .. Len(d) /\ DOMAIN lines = 1 .. Len(lines)
    BY <1>11, <1>13, <1>24
  <2> DEFINE c1 == Len(code)
             c2 == Len(lines)
  <2> HIDE DEF c1, c2
  <2>2. c1 \in Nat /\ c2 \in Nat /\ DOMAIN d = 1 .. c1 + c2 /\ DOMAIN lines = 1 .. c2 /\ Len(d) = c1 + c2
    BY <1>24, <2>1 DEF c1, c2
  <2>3. QED
    BY <2>2 DEF c1
<1>29. CodeFits'
  <2>1. ASSUME NEW i \in DOMAIN d
        PROVE  /\ d[i].op = "call" => d[i].to \in F
               /\ FitsData(d[i], D)
               /\ d[i].op \in Jumps /\ d[i].to \notin HandlerLabels => Arrives(d, i)
    <3>1. CASE i \in 1 .. Len(code)
      <4>1. d[i] = code[i] /\ i \in DOMAIN code
        BY <1>11, <1>24, <3>1
      <4>2. /\ code[i].op = "call" => code[i].to \in F
            /\ FitsData(code[i], D)
            /\ code[i].op \in Jumps /\ code[i].to \notin HandlerLabels => Arrives(code, i)
        BY <1>1, <1>20, <4>1 DEF CodeFits
      <4>3. QED
        BY <1>25, <4>1, <4>2
    <3>2. CASE i \in Len(code) + 1 .. Len(d) /\ i - Len(code) \in DOMAIN lines
      <4>1. d[i] = lines[i - Len(code)]
        BY <1>24, <3>2
      <4> DEFINE k == i - Len(code)
      <4>2. k \in DOMAIN lines /\ d[i] = lines[k]
        BY <3>2, <4>1
      <4> HIDE DEF k
      <4>3. d[i] \in R
        <5> HIDE DEF R
        <5>1. QED
          BY <1>9, <4>2
      <4>4. QED
        BY <4>3 DEF Opening
    <3>3. QED
      BY <1>28, <3>1, <3>2
  <2>2. QED
    BY <1>7, <1>26, <2>1 DEF CodeFits
<1>30. 1 \in DOMAIN v /\ v[1] = work[1]
  BY <1>4, <1>14, <1>15 DEF Splits
<1>31. InBody(v) /\ \A k \in DOMAIN v : v[k].task \in {"epilogue", "generate"} /\ (v[k].task = "epilogue" => k = 1)
  <2>1. \A k \in DOMAIN v : v[k].task \in {"epilogue", "generate"} /\ (v[k].task = "epilogue" => k = 1)
    BY <1>18, <1>21
  <2>2. v # <<>>
    BY <1>30
  <2>3. QED
    BY <1>16, <1>30, <2>1, <2>2 DEF InBody
<1>32. Shape(program, v, next)
  <2>1. v[1].task = "epilogue"
    BY <1>16, <1>30
  <2>2. v[1].node = program[next]
    BY <1>1, <1>4, <1>16, <1>30 DEF Shape
  <2>3. QED
    BY <1>5, <1>31, <2>1, <2>2 DEF Shape
<1>33. Shape(program, work, next)'
  BY <1>7, <1>26, <1>32
<1>34. LoopsMatched'
  <2>1. Pending(v, {"leaveLoop"}) = {}
    BY <1>31 DEF Pending
  <2>2. Cardinality({}) = 0
    BY FS_EmptySet
  <2>3. QED
    BY <1>7, <1>19, <1>26, <2>1, <2>2 DEF LoopsMatched
<1>35. Begun(work, next) = next - 1 /\ Begun(v, next) = next
  BY <1>2, <1>4, <1>31 DEF Begun
<1>36. label \notin LabelsOf(code)
  <2>1. SUFFICES ASSUME label \in LabelsOf(code) PROVE FALSE
    OBVIOUS
  <2>2. label \in HandlerLabels \cup {FunctionLabel(program[g].path) : g \in 1 .. next - 1}
    BY <1>1, <1>10, <1>35, <2>1 DEF Named
  <2>3. label \notin HandlerLabels
    BY <1>1, <1>6 DEF Resolvable, HandlerLabels, label
  <2>4. PICK g \in 1 .. next - 1 : FunctionLabel(program[g].path) = label
    BY <2>2, <2>3
  <2>5. g \in DOMAIN program /\ g # next
    <3>1. DOMAIN program = 1 .. Len(program)
      BY <1>1 DEF Resolvable, TreesOf
    <3>2. Len(program) \in Nat
      BY <1>1 DEF Resolvable, TreesOf
    <3>3. QED
      BY <1>6, <3>1, <3>2
  <2>6. QED
    BY <1>1, <1>6, <2>4, <2>5 DEF Resolvable, label
<1>37. Apart'
  <2>1. LinesApart(d)
    <3>1. LabelsOf(code) \cap LabelsOf(lines) = {}
      BY <1>9, <1>36
    <3>2. LinesApart(code)
      BY <1>1 DEF Apart
    <3>3. QED
      BY <1>9, <1>11, <1>13, <3>1, <3>2, ApartTogether DEF d
  <2>2. \A x \in 0 .. labelCounter - 1 : x \in 0 .. (labelCounter + 1) - 1 /\ x # labelCounter
    BY <1>11
  <2>3. Unnumbered # labelCounter /\ labelCounter \in 0 .. (labelCounter + 1) - 1
    BY <1>11 DEF Unnumbered
  <2>4. \A l \in LabelsOf(d) : (l.n = Unnumbered \/ l.n \in 0 .. (labelCounter + 1) - 1) /\ l.n # labelCounter
    BY <1>1, <1>10, <1>23, <2>2, <2>3 DEF Apart
  <2>5. \A k \in DOMAIN v : Writes(v[k]) = {} /\ v[k].task # "emit"
    BY <1>31 DEF Writes
  <2>6. WritesApart(v, 0, labelCounter + 1)
    BY <2>5 DEF WritesApart
  <2>7. end \notin LabelsOf(d)
    BY <1>12, <2>4
  <2>8. QED
    BY <1>7, <1>12, <1>26, <2>1, <2>3, <2>4, <2>5, <2>6, <2>7 DEF Apart
<1>38. Named'
  <2>1. Doomed => Doomed'
    BY <1>7, <1>18 DEF Doomed
  <2>2. 1 .. next - 1 \subseteq 1 .. next /\ next \in 1 .. next /\ \A g \in 1 .. next : g = next \/ g \in 1 .. next - 1
    BY <1>5, <1>6
  <2>3. \A l \in LabelsOf(d) :
           l.n = Unnumbered =>
              l \in HandlerLabels \cup {FunctionLabel(program[g].path) : g \in 1 .. next}
    BY <1>1, <1>23, <1>35, <2>2 DEF Named, label
  <2>4. Doomed \/ \A g \in 1 .. next : FunctionLabel(program[g].path) \in LabelsOf(d)
    BY <1>1, <1>23, <1>35, <2>2 DEF Named, label
  <2>5. HandlerLabels \subseteq LabelsOf(d)
    BY <1>1, <1>23 DEF Named
  <2>6. QED
    BY <1>7, <1>26, <1>35, <2>1, <2>3, <2>4, <2>5 DEF Named
<1>39. Resolvable(program, E, S)'
  BY <1>1, <1>7
<1>40. Inv(E, S)'
  BY <1>27, <1>29, <1>33, <1>34, <1>37, <1>38, <1>39 DEF Inv
<1>41. \A l \in LabelsOf(code') : l \in LabelsOf(code) \/ l.n = Unnumbered
  BY <1>10, <1>23, <1>26
<1>42. ForEnd(endLabel', F)
  <2>1. label \in F
    BY <1>6 DEF FunctionLabels, label
  <2>2. label.name = mangleFunctionName(f.path)
    BY DEF FunctionLabel, Label, Operand, label
  <2>3. endLabel' = Label(label.name \o <<Underscore, "end">>, labelCounter)
    BY <1>7, <2>2, Zenon DEF end, EndBase
  <2> HIDE DEF F
  <2>4. QED
    BY <1>11, <2>1, <2>3 DEF ForEnd
<1>43. QED
  BY <1>40, <1>41, <1>42

-----------------------------------------------------------------------------
(* What the methods put in the place of a node.                            *)

LEMMA SameLoops ==
    ASSUME NEW E, NEW S, Inv(E, S), NEW X, NEW items \in Seq(X), work # <<>>,
           Top.task \notin {"emit", "epilogue", "leaveLoop"},
           \A k \in DOMAIN items : items[k].task \notin {"prologue", "leaveLoop"},
           work' = Replaced(work, items), loopStack' = loopStack
    PROVE  /\ LoopsMatched'
           /\ loopStack' \in Seq(Contexts(AtHand(code, Replaced(work, items), endLabel)))
           /\ AtHand(code, work, endLabel) \subseteq AtHand(code, Replaced(work, items), endLabel)
           /\ \A j \in DOMAIN items : Writes(items[j]) \subseteq AtHand(code, Replaced(work, items), endLabel)
<1> DEFINE A == Activations(program, E, S, DataLabels(data), AtHand(code, work, endLabel))
           Z == A \cup X
           T == AtHand(code, work, endLabel)
           T2 == AtHand(code, Replaced(work, items), endLabel)
           C == Contexts(T)
           C2 == Contexts(T2)
<1>1. Typed(E, S) /\ LoopsMatched
  BY DEF Inv
<1>2. work \in Seq(Z) /\ items \in Seq(Z)
  <2>1. work \in Seq(A)
    BY <1>1 DEF Typed
  <2>2. A \subseteq Z /\ X \subseteq Z
    OBVIOUS
  <2> HIDE DEF A, Z
  <2>3. QED
    BY <2>1, <2>2, SeqMonotonic
<1>3. loopStack \in Seq(C)
  BY <1>1 DEF Typed
<1>4. work[Len(work)].task \notin {"emit", "epilogue", "leaveLoop"}
  BY DEF Top
<1>5. Writes(work[Len(work)]) = {}
  BY <1>4 DEF Writes
<1> HIDE DEF A, Z
<1>6. /\ Owed(work, endLabel) \subseteq Owed(Replaced(work, items), endLabel)
      /\ \A j \in DOMAIN items : Writes(items[j]) \subseteq Owed(Replaced(work, items), endLabel)
  BY <1>2, <1>4, <1>5, OwedGrows
<1>7. T \subseteq T2 /\ \A j \in DOMAIN items : Writes(items[j]) \subseteq T2
  BY <1>6 DEF AtHand
<1>8. loopStack \in Seq(C2)
  <2>1. C \subseteq C2
    BY <1>7 DEF Contexts
  <2> HIDE DEF C, C2
  <2>2. QED
    BY <1>3, <2>1, SeqMonotonic
<1>9. Count(Replaced(work, items), {"leaveLoop"}) = Count(work, {"leaveLoop"})
  <2>1. DOMAIN items = 1 .. Len(items) /\ Len(items) \in Nat
    BY <1>2
  <2>2. \A i \in 1 .. Len(items) - 1 : i \in DOMAIN items
    BY <2>1
  <2>3. items # <<>> => Len(items) \in DOMAIN items
    BY <1>2
  <2>4. ~LastIn(items, {"leaveLoop"})
    BY <2>3 DEF LastIn
  <2>5. Count(Replaced(work, items), {"leaveLoop"})
          = Count(work, {"leaveLoop"}) - One(work[Len(work)].task \in {"leaveLoop"})
               + One(LastIn(items, {"leaveLoop"}))
    BY <1>2, <2>2, CountReplaced
  <2>6. One(work[Len(work)].task \in {"leaveLoop"}) = 0 /\ One(LastIn(items, {"leaveLoop"})) = 0
    BY <1>4, <2>4 DEF One
  <2>7. Count(work, {"leaveLoop"}) \in Nat
    BY <1>2, CountProperties
  <2>8. QED
    BY <2>5, <2>6, <2>7
<1>10. LoopsMatched'
  BY <1>1, <1>9 DEF LoopsMatched, Count
<1>11. QED
  BY <1>7, <1>8, <1>10

Written(items) == UNION {Writes(items[k]) : k \in DOMAIN items}

\* Activations of X that write the labels W, numbered from low to high.
Brings(items, X, W, low, high) ==
    /\ items \in Seq(X)
    /\ \A k \in DOMAIN items : items[k].task \notin {"prologue", "epilogue", "collect", "leaveLoop"}
    /\ Written(items) = W
    /\ WritesApart(items, low, high)

\* A method whose activations bring the labels their jumps need keeps the invariant.
LEMMA BringsKeepsInv ==
    ASSUME NEW E, NEW S, Inv(E, S), NEW items, NEW W, work # <<>>, Top.task \in {"generate", "rounds"},
           Brings(items, Activations(program, E, S, DataLabels(data'), AtHand(code, work, endLabel) \cup W),
                  W, labelCounter, labelCounter'),
           work' = Replaced(work, items), data' \in Seq(AnyDatum), DataLabels(data) \subseteq DataLabels(data'),
           labelCounter' \in Nat, labelCounter <= labelCounter',
           UNCHANGED <<program, code, areas, stackSize, endLabel, loopStack, next, diagnostic>>
    PROVE  Inv(E, S)'
<1> DEFINE D == DataLabels(data')
           T == AtHand(code, work, endLabel)
           T2 == AtHand(code, Replaced(work, items), endLabel)
           X == Activations(program, E, S, D, T \cup W)
<1>1. /\ items \in Seq(X)
      /\ \A k \in DOMAIN items : items[k].task \notin {"prologue", "epilogue", "collect", "leaveLoop"}
      /\ Written(items) = W /\ WritesApart(items, labelCounter, labelCounter')
  BY DEF Brings
<1> HIDE DEF X
<1>2. /\ LoopsMatched'
      /\ loopStack' \in Seq(Contexts(T2))
      /\ T \subseteq T2
      /\ \A j \in DOMAIN items : Writes(items[j]) \subseteq T2
  BY <1>1, SameLoops
<1>3. T \cup W \subseteq T2
  BY <1>1, <1>2 DEF Written
<1>4. items \in Seq(Activations(program, E, S, D, T2))
  <2> DEFINE U == T \cup W
  <2>1. items \in Seq(Activations(program, E, S, D, U)) /\ U \subseteq T2
    BY <1>1, <1>3 DEF X
  <2> HIDE DEF U, D, T2
  <2>2. QED
    BY <2>1, ActivationsGrow
<1>5. Allowed(Top, items, labelCounter, labelCounter')
  BY <1>1 DEF Allowed
<1>6. AreasOK' /\ stackSize' \in Int
  <2>1. AreasOK /\ stackSize \in Int
    BY DEF Inv, Typed, AreasOK
  <2>2. QED
    BY <2>1 DEF AreasOK
<1>7. QED
  BY <1>2, <1>4, <1>5, <1>6, PushKeepsInv

\* What two sequences of activations bring, they bring one after the other.
LEMMA BringsTogether ==
    ASSUME NEW X, NEW low, NEW high, NEW s, NEW t, NEW V, NEW W,
           Brings(s, X, V, low, high), Brings(t, X, W, low, high), V \cap W = {}
    PROVE  Brings(s \o t, X, V \cup W, low, high)
<1> DEFINE r == s \o t
           a == Len(s)
           b == Len(t)
           tasks == {"prologue", "epilogue", "collect", "leaveLoop"}
<1>1. s \in Seq(X) /\ t \in Seq(X) /\ Written(s) = V /\ Written(t) = W
  BY DEF Brings
<1>2. /\ r \in Seq(X)
      /\ Len(r) = a + b
      /\ \A i \in 1 .. a : r[i] = s[i]
      /\ \A i \in a + 1 .. a + b : r[i] = t[i - a]
  BY <1>1, ConcatElements
<1>3. a \in Nat /\ b \in Nat /\ DOMAIN s = 1 .. a /\ DOMAIN t = 1 .. b /\ DOMAIN r = 1 .. Len(r)
  BY <1>1, <1>2
<1> HIDE DEF r, a, b
<1>4. \A k \in DOMAIN r : \/ k \in DOMAIN s /\ r[k] = s[k]
                          \/ k > a /\ k - a \in DOMAIN t /\ r[k] = t[k - a]
  BY <1>2, <1>3
<1>5. \A k \in DOMAIN s : k \in DOMAIN r /\ r[k] = s[k]
  BY <1>2, <1>3
<1>6. \A k \in DOMAIN t : k + a \in DOMAIN r /\ r[k + a] = t[k]
  BY <1>2, <1>3
<1>7. \A k \in DOMAIN s : /\ s[k].task \notin tasks
                          /\ s[k].task = "emit" => LinesApart(s[k].node)
                          /\ Writes(s[k]) \subseteq V
                          /\ \A l \in Writes(s[k]) : l.n \in low .. high - 1
                          /\ \A m \in DOMAIN s : k # m => Writes(s[k]) \cap Writes(s[m]) = {}
  BY <1>1 DEF Brings, WritesApart, Written
<1>8. \A k \in DOMAIN t : /\ t[k].task \notin tasks
                          /\ t[k].task = "emit" => LinesApart(t[k].node)
                          /\ Writes(t[k]) \subseteq W
                          /\ \A l \in Writes(t[k]) : l.n \in low .. high - 1
                          /\ \A m \in DOMAIN t : k # m => Writes(t[k]) \cap Writes(t[m]) = {}
  BY <1>1 DEF Brings, WritesApart, Written
<1>9. Written(r) = V \cup W
  <2>1. \A k \in DOMAIN r : Writes(r[k]) \subseteq V \cup W
    BY <1>4, <1>7, <1>8
  <2>2. \A k \in DOMAIN s : Writes(s[k]) \subseteq Written(r)
    BY <1>5 DEF Written
  <2>3. \A k \in DOMAIN t : Writes(t[k]) \subseteq Written(r)
    BY <1>6 DEF Written
  <2>4. V \subseteq Written(r)
    BY <1>1, <2>2 DEF Written
  <2>5. W \subseteq Written(r)
    BY <1>1, <2>3 DEF Written
  <2>6. Written(r) \subseteq V \cup W
    BY <2>1 DEF Written
  <2>7. QED
    BY <2>4, <2>5, <2>6
<1>10. ASSUME NEW k \in DOMAIN r
       PROVE  /\ r[k].task \notin tasks
              /\ r[k].task = "emit" => LinesApart(r[k].node)
              /\ \A l \in Writes(r[k]) : l.n \in low .. high - 1
  BY <1>4, <1>7, <1>8
<1>11. ASSUME NEW k \in DOMAIN r, NEW m \in DOMAIN r, k # m
       PROVE  Writes(r[k]) \cap Writes(r[m]) = {}
  <2>1. CASE k \in DOMAIN s /\ r[k] = s[k] /\ m \in DOMAIN s /\ r[m] = s[m]
    BY <1>7, <1>11, <2>1
  <2>2. CASE k \in DOMAIN s /\ r[k] = s[k] /\ m - a \in DOMAIN t /\ r[m] = t[m - a]
    BY <1>7, <1>8, <2>2
  <2>3. CASE k - a \in DOMAIN t /\ r[k] = t[k - a] /\ m \in DOMAIN s /\ r[m] = s[m]
    BY <1>7, <1>8, <2>3
  <2>4. CASE k - a \in DOMAIN t /\ r[k] = t[k - a] /\ m - a \in DOMAIN t /\ r[m] = t[m - a]
    <3>1. k - a # m - a
      BY <1>2, <1>3, <1>11
    <3>2. QED
      BY <1>8, <2>4, <3>1
  <2>5. QED
    BY <1>4, <2>1, <2>2, <2>3, <2>4
<1>12. WritesApart(r, low, high)
  BY <1>10, <1>11 DEF WritesApart
<1>13. Brings(r, X, V \cup W, low, high)
  BY <1>2, <1>9, <1>10, <1>12 DEF Brings
<1>14. QED
  BY <1>13 DEF r

LEMMA PlainBrings ==
    ASSUME NEW p, NEW E, NEW S, NEW D, NEW T, NEW low, NEW high,
           NEW items \in Seq(Plain(E, S, FunctionLabels(p), D))
    PROVE  Brings(items, Activations(p, E, S, D, T), {}, low, high)
<1> DEFINE P == Plain(E, S, FunctionLabels(p), D)
           X == Activations(p, E, S, D, T)
           Q == Quiet(FunctionLabels(p), D)
<1>1. items \in Seq(X)
  <2>1. P \subseteq X
    BY DEF Activations, Inside
  <2> HIDE DEF P, X
  <2>2. QED
    BY <2>1, SeqMonotonic DEF P
<1>2. \A k \in DOMAIN items : items[k] \in P
  <2> HIDE DEF P
  <2>1. QED
    BY DEF P
<1>3. \A it \in P : /\ it.task \in {"generate", "rounds", "refuse", "emit"}
                    /\ it.task = "emit" => it.node \in Seq(Q)
  BY DEF Plain
<1>4. \A k \in DOMAIN items : /\ items[k].task \in {"generate", "rounds", "refuse", "emit"}
                              /\ items[k].task = "emit" => items[k].node \in Seq(Q)
  BY <1>2, <1>3
<1>5. \A lines \in Seq(Q) : LabelsOf(lines) = {} /\ LinesApart(lines)
  BY QuietLines
<1>6. \A k \in DOMAIN items : Writes(items[k]) = {} /\ (items[k].task = "emit" => LinesApart(items[k].node))
  BY <1>4, <1>5 DEF Writes
<1>7. WritesApart(items, low, high)
  BY <1>6 DEF WritesApart
<1>8. Written(items) = {}
  BY <1>6 DEF Written
<1> HIDE DEF X
<1>9. QED
  BY <1>1, <1>4, <1>7, <1>8 DEF Brings, X

LEMMA LinesBring ==
    ASSUME NEW p, NEW E, NEW S, NEW D, NEW T, NEW low, NEW high,
           NEW lines \in Seq(Fits(FunctionLabels(p), D, T)), LinesApart(lines),
           \A l \in LabelsOf(lines) : l.n \in low .. high - 1
    PROVE  Brings(<<Emit(lines)>>, Activations(p, E, S, D, T), LabelsOf(lines), low, high)
<1> DEFINE X == Activations(p, E, S, D, T)
           it == Emit(lines)
           items == <<it>>
           G == Seq(Fits(FunctionLabels(p), D, T))
<1>1. it.task = "emit" /\ it.node = lines /\ it \in X
  <2>1. lines \in G
    OBVIOUS
  <2> HIDE DEF G
  <2>2. Emit(lines) \in [task : {"emit"}, node : G]
    BY <2>1 DEF Emit, Item
  <2>3. QED
    BY <2>2 DEF Emit, Item, Activations, Inside, G
<1> HIDE DEF X, it
<1>2. items \in Seq(X) /\ DOMAIN items = {1} /\ items[1] = it
  BY <1>1
<1> HIDE DEF items
<1>3. Writes(it) = LabelsOf(lines)
  BY <1>1 DEF Writes
<1>4. Written(items) = LabelsOf(lines)
  BY <1>2, <1>3 DEF Written
<1>5. WritesApart(items, low, high)
  BY <1>1, <1>2, <1>3 DEF WritesApart
<1>6. Brings(items, X, LabelsOf(lines), low, high)
  BY <1>1, <1>2, <1>4, <1>5 DEF Brings
<1>7. QED
  BY <1>6 DEF items, it, X

LEMMA EnteringBrings ==
    ASSUME NEW p, NEW E, NEW S, NEW D, NEW T, NEW low, NEW high, NEW loop \in [breakLabel : T, continueLabel : T, body : S]
    PROVE  Brings(<<Item("enterLoop", loop)>>, Activations(p, E, S, D, T), {}, low, high)
<1> DEFINE X == Activations(p, E, S, D, T)
           it == Item("enterLoop", loop)
           items == <<it>>
<1>1. it.task = "enterLoop" /\ it \in X
  BY DEF Item, Activations, Inside
<1> HIDE DEF X, it
<1>2. items \in Seq(X) /\ DOMAIN items = {1} /\ items[1] = it
  BY <1>1
<1> HIDE DEF items
<1>3. Writes(it) = {}
  BY <1>1 DEF Writes
<1>4. Written(items) = {} /\ WritesApart(items, low, high)
  BY <1>1, <1>2, <1>3 DEF Written, WritesApart
<1>5. Brings(items, X, {}, low, high)
  BY <1>1, <1>2, <1>4 DEF Brings
<1>6. QED
  BY <1>5 DEF items, it, X

\* Labels that makeLabel makes are new and different.
LEMMA MadeLabels ==
    ASSUME labelCounter \in Nat, NEW bases \in Seq(Seq(Words)), NEW l, l = makeLabels(bases)
    PROVE  /\ Len(l) = Len(bases) /\ DOMAIN l = 1 .. Len(bases)
           /\ \A i \in DOMAIN bases :
                 /\ l[i] \in AnyOperand
                 /\ l[i].n \in Nat /\ l[i] = Label(bases[i], l[i].n)
                 /\ l[i].n \in labelCounter .. (labelCounter + Len(l)) - 1
                 /\ \A j \in DOMAIN bases : l[i] = l[j] => i = j
<1> DEFINE number(i) == labelCounter + i - 1
           G == Seq(Words)
           made == [i \in DOMAIN bases |-> Label(bases[i], number(i))]
<1>1. l = made
  BY DEF makeLabels
<1>2. DOMAIN bases = 1 .. Len(bases) /\ Len(bases) \in Nat /\ \A i \in DOMAIN bases : bases[i] \in G
  <2> HIDE DEF G
  <2>1. bases \in Seq(G)
    BY DEF G
  <2>2. QED
    BY <2>1
<1>3. \A i \in DOMAIN bases : number(i) \in Int
  BY <1>2
<1> HIDE DEF number
<1>4. \A i \in DOMAIN bases :
         /\ Label(bases[i], number(i)) \in AnyOperand
         /\ Label(bases[i], number(i)).n = number(i)
  BY <1>2, <1>3, OperandsHaveTypes
<1>5. \A i \in DOMAIN bases : l[i] \in AnyOperand /\ l[i].n = number(i) /\ l[i] = Label(bases[i], number(i))
  BY <1>1, <1>4
<1>6. DOMAIN l = 1 .. Len(bases) /\ l \in Seq(AnyOperand)
  <2>1. DOMAIN l = DOMAIN bases
    BY <1>1
  <2>2. \A i \in DOMAIN bases : made[i] \in AnyOperand
    BY <1>1, <1>5
  <2>3. l = [i \in DOMAIN bases |-> made[i]]
    BY <1>1
  <2> HIDE DEF made
  <2>4. QED
    BY <1>2, <2>1, <2>2, <2>3
<1>7. Len(l) = Len(bases)
  BY <1>2, <1>6
<1>8. ASSUME NEW i \in DOMAIN bases
      PROVE  /\ l[i].n \in Nat /\ l[i] = Label(bases[i], l[i].n)
             /\ l[i].n \in labelCounter .. (labelCounter + Len(l)) - 1
             /\ \A j \in DOMAIN bases : l[i] = l[j] => i = j
  <2>1. l[i].n \in Nat /\ l[i].n \in labelCounter .. (labelCounter + Len(bases)) - 1
    <3>1. i \in 1 .. Len(bases)
      BY <1>2
    <3> DEFINE m == Len(bases)
    <3> HIDE DEF m
    <3>2. i \in 1 .. m /\ m \in Nat
      BY <1>2, <3>1 DEF m
    <3>3. number(i) \in Nat /\ number(i) \in labelCounter .. (labelCounter + m) - 1
      BY <3>2 DEF number
    <3>4. QED
      BY <1>5, <3>3 DEF m
  <2>2. ASSUME NEW j \in DOMAIN bases, l[i] = l[j] PROVE i = j
    <3>1. number(i) = number(j)
      BY <1>5, <2>2
    <3>2. i \in Int /\ j \in Int
      BY <1>2
    <3>3. QED
      BY <3>1, <3>2 DEF number
  <2>3. QED
    BY <1>5, <1>7, <2>1, <2>2
<1>9. QED
  BY <1>5, <1>6, <1>7, <1>8

\* Lines of a body with a jump or a label.
LEMMA JumpsFit ==
    ASSUME NEW F, NEW D, NEW T, NEW y \in AnyOperand, y \in T
    PROVE  /\ \A op \in Jumps : Do1(op, y) \in Fits(F, D, T)
           /\ ForConstruct(y) \/ ForEnd(y, F) => Do1("label", y) \in Fits(F, D, T)
           /\ Quiet(F, D) \subseteq Fits(F, D, T)
<1>1. \A op \in Jumps \cup {"label"} : op \in OpCodes
  BY DEF Jumps, OpCodes
<1>2. Nothing \in AnyOperand
  BY OperandsHaveTypes DEF NoLabel
<1>3. \A op \in Jumps \cup {"label"} :
         /\ Do1(op, y) \in AnyLine
         /\ Do1(op, y).op = op /\ Do1(op, y).to = y
  BY <1>1, <1>2 DEF Do1, Ins, AnyLine
<1>4. \A op \in Jumps : op \notin {"label", "call", "lea", "load"}
  BY DEF Jumps
<1>5. "label" \notin Jumps \cup {"call", "lea", "load"}
  BY DEF Jumps
<1>6. \A op \in Jumps : Do1(op, y) \in Fits(F, D, T)
  <2>1. \A op \in Jumps : Do1(op, y) \in AnyLine /\ Do1(op, y).op = op /\ Do1(op, y).to = y
    BY <1>3
  <2>2. QED
    BY <1>4, <2>1 DEF Fits, FitsData
<1>7. ForConstruct(y) \/ ForEnd(y, F) => Do1("label", y) \in Fits(F, D, T)
  BY <1>3, <1>5 DEF Fits, FitsData
<1>8. Quiet(F, D) \subseteq Fits(F, D, T)
  <2>1. {} \subseteq T
    OBVIOUS
  <2>2. QED
    BY DEF Quiet, Fits
<1>9. QED
  BY <1>6, <1>7, <1>8

LEMMA LabelsBring ==
    ASSUME NEW p, NEW E, NEW S, NEW D, NEW T, NEW low, NEW high,
           NEW x \in AnyOperand, x \in T, ForConstruct(x), x.n \in low .. high - 1,
           NEW y \in AnyOperand, y \in T
    PROVE  LET X == Activations(p, E, S, D, T)
           IN  /\ Brings(<<Emit(<<Do1("label", x)>>)>>, X, {x}, low, high)
               /\ Brings(<<Emit(<<Do1("jmp", y), Do1("label", x)>>)>>, X, {x}, low, high)
<1> DEFINE F == FunctionLabels(p)
           G == Fits(F, D, T)
           X == Activations(p, E, S, D, T)
           a == Do1("label", x)
           b == Do1("jmp", y)
           one == <<a>>
           two == <<b, a>>
<1>1. a \in G /\ a.op = "label" /\ a.to = x
  <2>1. a.op = "label" /\ a.to = x
    BY DEF Do1, Ins
  <2>2. a \in G
    BY JumpsFit
  <2>3. QED
    BY <2>1, <2>2
<1>2. b \in G /\ b.op = "jmp"
  <2>1. b.op = "jmp"
    BY DEF Do1, Ins
  <2>2. "jmp" \in Jumps
    BY DEF Jumps
  <2>3. b \in G
    BY <2>2, JumpsFit
  <2>4. QED
    BY <2>1, <2>3
<1> HIDE DEF G, a, b, X
<1>3. one \in Seq(G) /\ two \in Seq(G)
  BY <1>1, <1>2
<1>4. DOMAIN one = {1} /\ one[1] = a /\ DOMAIN two = {1, 2} /\ two[1] = b /\ two[2] = a
  OBVIOUS
<1> HIDE DEF one, two
<1>5. \A i \in DOMAIN one : one[i].op = "label" => i = 1
  BY <1>4
<1>6. \A i \in DOMAIN two : two[i].op = "label" => i = 2
  BY <1>2, <1>4
<1>7. LabelsOf(one) = {x} /\ LinesApart(one)
  BY <1>1, <1>4, <1>5 DEF LabelsOf, LinesApart
<1>8. LabelsOf(two) = {x} /\ LinesApart(two)
  BY <1>1, <1>4, <1>6 DEF LabelsOf, LinesApart
<1>9. Brings(<<Emit(one)>>, X, LabelsOf(one), low, high)
  BY <1>3, <1>7, LinesBring DEF G, X
<1>10. Brings(<<Emit(two)>>, X, LabelsOf(two), low, high)
  BY <1>3, <1>8, LinesBring DEF G, X
<1>11. QED
  BY <1>7, <1>8, <1>9, <1>10 DEF one, two, a, b, X

LEMMA JumpsBring ==
    ASSUME NEW p, NEW E, NEW S, NEW D, NEW T, NEW low, NEW high, NEW y \in AnyOperand, y \in T
    PROVE  LET X == Activations(p, E, S, D, T)
           IN  /\ Brings(<<Emit(<<Do1("jmp", y)>>)>>, X, {}, low, high)
               /\ Brings(<<Emit(<<Ins("cmp", rax, Imm(0)), Do1("je", y)>>)>>, X, {}, low, high)
<1> DEFINE F == FunctionLabels(p)
           G == Fits(F, D, T)
           X == Activations(p, E, S, D, T)
           a == Ins("cmp", rax, Imm(0))
           b == Do1("je", y)
           c == Do1("jmp", y)
           one == <<c>>
           two == <<a, b>>
<1>1. a \in G /\ a.op = "cmp"
  <2>1. a.op = "cmp"
    BY DEF Ins
  <2>2. "cmp" \in Harmless
    BY DEF Harmless, OpCodes, Jumps
  <2>3. 0 \in Int \cup {IntWidth}
    OBVIOUS
  <2>4. Imm(0) \in NoLabel
    BY <2>3, OperandsHaveTypes
  <2>5. a \in Quiet(F, D)
    BY <2>2, <2>4, LinesAreQuiet, RegistersHaveTypes
  <2>6. Quiet(F, D) \subseteq G
    BY JumpsFit
  <2>7. QED
    BY <2>1, <2>5, <2>6
<1>2. b \in G /\ b.op = "je" /\ c \in G /\ c.op = "jmp"
  <2>1. b.op = "je" /\ c.op = "jmp"
    BY DEF Do1, Ins
  <2>2. "je" \in Jumps /\ "jmp" \in Jumps
    BY DEF Jumps
  <2>3. b \in G /\ c \in G
    BY <2>2, JumpsFit
  <2>4. QED
    BY <2>1, <2>3
<1> HIDE DEF G, a, b, c, X
<1>3. one \in Seq(G) /\ two \in Seq(G)
  BY <1>1, <1>2
<1>4. DOMAIN one = {1} /\ one[1] = c /\ DOMAIN two = {1, 2} /\ two[1] = a /\ two[2] = b
  OBVIOUS
<1> HIDE DEF one, two
<1>5. \A i \in DOMAIN one : one[i].op # "label"
  BY <1>2, <1>4
<1>6. \A i \in DOMAIN two : two[i].op # "label"
  BY <1>1, <1>2, <1>4
<1>7. LabelsOf(one) = {} /\ LinesApart(one)
  BY <1>5 DEF LabelsOf, LinesApart
<1>8. LabelsOf(two) = {} /\ LinesApart(two)
  BY <1>6 DEF LabelsOf, LinesApart
<1>9. Brings(<<Emit(one)>>, X, LabelsOf(one), low, high)
  BY <1>3, <1>7, LinesBring DEF G, X
<1>10. Brings(<<Emit(two)>>, X, LabelsOf(two), low, high)
  BY <1>3, <1>8, LinesBring DEF G, X
<1>11. QED
  BY <1>7, <1>8, <1>9, <1>10 DEF one, two, a, b, c, X

LEMMA OneMore ==
    ASSUME NEW X, NEW s \in Seq(X), NEW x \in X
    PROVE  /\ s \o <<x>> \in Seq(X)
           /\ Len(s \o <<x>>) = Len(s) + 1
           /\ \A i \in 1 .. Len(s) : (s \o <<x>>)[i] = s[i]
           /\ (s \o <<x>>)[Len(s) + 1] = x
<1> DEFINE t == <<x>>
           r == s \o t
<1>1. t \in Seq(X) /\ Len(t) = 1 /\ t[1] = x
  OBVIOUS
<1> HIDE DEF t
<1>2. /\ r \in Seq(X)
      /\ Len(r) = Len(s) + Len(t)
      /\ \A i \in 1 .. Len(s) : r[i] = s[i]
      /\ \A i \in Len(s) + 1 .. Len(s) + Len(t) : r[i] = t[i - Len(s)]
  BY <1>1, ConcatElements
<1>3. Len(s) \in Nat
  OBVIOUS
<1> HIDE DEF r
<1>4. r[Len(s) + 1] = x
  <2>1. Len(s) + 1 \in Len(s) + 1 .. Len(s) + Len(t) /\ Len(s) + 1 - Len(s) = 1
    BY <1>1, <1>3
  <2>2. QED
    BY <1>1, <1>2, <2>1
<1>5. QED
  BY <1>1, <1>2, <1>4 DEF r, t

LEMMA FourInARow ==
    ASSUME NEW a, NEW b, NEW c, NEW d
    PROVE  ((<<a>> \o <<b>>) \o <<c>>) \o <<d>> = <<a, b, c, d>>
<1> DEFINE X == {a, b, c, d}
           q == <<a>>
           r == q \o <<b>>
           s == r \o <<c>>
           t == s \o <<d>>
<1>1. q \in Seq(X) /\ Len(q) = 1 /\ q[1] = a /\ a \in X /\ b \in X /\ c \in X /\ d \in X
  OBVIOUS
<1> HIDE DEF X, q
<1>2. r \in Seq(X) /\ Len(r) = 2 /\ r[1] = a /\ r[2] = b
  <2>1. r \in Seq(X) /\ Len(r) = Len(q) + 1 /\ r[Len(q) + 1] = b /\ \A i \in 1 .. Len(q) : r[i] = q[i]
    <3>1. q \in Seq(X) /\ b \in X
      BY <1>1
    <3>2. QED
      BY <3>1, OneMore
  <2> HIDE DEF r
  <2>2. QED
    BY <1>1, <2>1
<1> HIDE DEF r
<1>3. s \in Seq(X) /\ Len(s) = 3 /\ s[1] = a /\ s[2] = b /\ s[3] = c
  <2>1. s \in Seq(X) /\ Len(s) = Len(r) + 1 /\ s[Len(r) + 1] = c /\ \A i \in 1 .. Len(r) : s[i] = r[i]
    <3>1. r \in Seq(X) /\ c \in X
      BY <1>1, <1>2
    <3>2. QED
      BY <3>1, OneMore
  <2> HIDE DEF s
  <2>2. QED
    BY <1>2, <2>1
<1> HIDE DEF s
<1>4. t \in Seq(X) /\ Len(t) = 4 /\ t[1] = a /\ t[2] = b /\ t[3] = c /\ t[4] = d
  <2>1. t \in Seq(X) /\ Len(t) = Len(s) + 1 /\ t[Len(s) + 1] = d /\ \A i \in 1 .. Len(s) : t[i] = s[i]
    <3>1. s \in Seq(X) /\ d \in X
      BY <1>1, <1>3
    <3>2. QED
      BY <3>1, OneMore
  <2> HIDE DEF t
  <2>2. QED
    BY <1>3, <2>1
<1> HIDE DEF t
<1>5. <<a, b, c, d>> \in Seq(X) /\ Len(<<a, b, c, d>>) = 4
  <2>1. a \in X /\ b \in X /\ c \in X /\ d \in X
    BY DEF X
  <2>2. QED
    BY <2>1
<1>6. t = <<a, b, c, d>>
  <2> DEFINE u == <<a, b, c, d>>
  <2>1. u \in Seq(X) /\ Len(u) = 4 /\ u[1] = a /\ u[2] = b /\ u[3] = c /\ u[4] = d
    BY <1>5
  <2> HIDE DEF u
  <2>2. \A i \in 1 .. 4 : t[i] = u[i]
    <3>1. \A i \in 1 .. 4 : i = 1 \/ i = 2 \/ i = 3 \/ i = 4
      OBVIOUS
    <3>2. QED
      BY <1>4, <2>1, <3>1
  <2>3. t = u
    BY <1>4, <2>1, <2>2, SeqEqual
  <2>4. QED
    BY <2>3 DEF u
<1>7. QED
  BY <1>6 DEF t, s, r, q

LEMMA NodesBring ==
    ASSUME NEW p, NEW E, NEW S, NEW D, NEW T, NEW low, NEW high
    PROVE  LET X == Activations(p, E, S, D, T)
           IN  /\ \A n \in E \cup S : Brings(<<Gen(n)>>, X, {}, low, high)
               /\ \A nodes \in Seq(E) : Brings(GenAll(nodes), X, {}, low, high)
               /\ \A nodes \in Seq(S) : Brings(GenAll(nodes), X, {}, low, high)
<1> DEFINE F == FunctionLabels(p)
           Lists == Seq(Plain(E, S, F, D))
<1>1. \A n \in E \cup S : <<Gen(n)>> \in Lists
  BY PlainItems
<1>2. /\ \A nodes \in Seq(E) : GenAll(nodes) \in Lists
      /\ \A nodes \in Seq(S) : GenAll(nodes) \in Lists
  BY GenAllIsPlain
<1>3. \A items \in Lists : Brings(items, Activations(p, E, S, D, T), {}, low, high)
  BY PlainBrings
<1> HIDE DEF Lists
<1>4. QED
  BY <1>1, <1>2, <1>3

\* An assertion jumps over its own message.
LEMMA AssertBrings ==
    ASSUME NEW p, NEW E, NEW S, NEW D, NEW T, NEW low, NEW high, NEW n, n.operand \in E, NEW l,
           \A i \in 1 .. 3 : l[i] \in AnyOperand /\ l[i].n \in low .. high - 1,
           ForConstruct(l[1]), ForConstruct(l[2]), l[1] \in T, l[2] \in T, l[1] # l[2], l[3] \in D
    PROVE  Brings(emitAssert(n, l), Activations(p, E, S, D, T), {l[1], l[2]}, low, high)
<1> DEFINE F == FunctionLabels(p)
           G == Fits(F, D, T)
           X == Activations(p, E, S, D, T)
           fail == l[1]
           end == l[2]
           text == l[3]
           a1 == Ins("cmp", rax, Imm(0))
           a2 == Do1("je", fail)
           a3 == Do1("jmp", end)
           a4 == Do1("label", fail)
           a5 == Ins("lea", rsi, text)
           a6 == printf("str")
           a7 == printf("nl")
           a8 == Do1("exit", Imm(1))
           a9 == Do1("label", end)
           lines == <<a1, a2, a3, a4, a5, a6, a7, a8, a9>>
<1>1. /\ fail \in AnyOperand /\ fail \in T /\ ForConstruct(fail) /\ fail.n \in low .. high - 1
      /\ end \in AnyOperand /\ end \in T /\ ForConstruct(end) /\ end.n \in low .. high - 1
      /\ text \in AnyOperand /\ text \in D
  OBVIOUS
<1> HIDE DEF fail, end, text
<1>2. Quiet(F, D) \subseteq G
  BY <1>1, JumpsFit
<1>3. a1 \in G /\ a5 \in G /\ a6 \in G /\ a7 \in G /\ a8 \in G
  <2>1. "cmp" \in Harmless /\ "exit" \in Harmless
    BY DEF Harmless, OpCodes, Jumps
  <2>2. 0 \in Int \cup {IntWidth} /\ 1 \in Int \cup {IntWidth}
    OBVIOUS
  <2>3. Imm(0) \in NoLabel /\ Imm(1) \in NoLabel
    BY <2>2, OperandsHaveTypes
  <2>4. "str" \in Words /\ "nl" \in Words
    BY DEF Words
  <2>5. a1 \in Quiet(F, D) /\ a8 \in Quiet(F, D)
    BY <2>1, <2>3, LinesAreQuiet, RegistersHaveTypes
  <2>6. a6 \in Quiet(F, D) /\ a7 \in Quiet(F, D)
    BY <2>4, LinesAreQuiet
  <2>7. a5 \in Quiet(F, D)
    BY <1>1, DataRefsAreQuiet, RegistersHaveTypes
  <2>8. QED
    BY <1>2, <2>5, <2>6, <2>7
<1>4. a2 \in G /\ a3 \in G /\ a4 \in G /\ a9 \in G
  <2>1. "je" \in Jumps /\ "jmp" \in Jumps
    BY DEF Jumps
  <2>2. a2 \in G /\ a4 \in G
    BY <1>1, <2>1, JumpsFit
  <2>3. a3 \in G /\ a9 \in G
    BY <1>1, <2>1, JumpsFit
  <2>4. QED
    BY <2>2, <2>3
<1>5. /\ a1.op # "label" /\ a2.op # "label" /\ a3.op # "label" /\ a5.op # "label"
      /\ a6.op # "label" /\ a7.op # "label" /\ a8.op # "label"
      /\ a4.op = "label" /\ a4.to = fail /\ a9.op = "label" /\ a9.to = end
  BY DEF Ins, Do1, printf
<1> HIDE DEF G, X, a1, a2, a3, a4, a5, a6, a7, a8, a9
<1>6. lines \in Seq(G)
  BY <1>3, <1>4
<1>7. /\ DOMAIN lines = 1 .. 9
      /\ lines[1] = a1 /\ lines[2] = a2 /\ lines[3] = a3 /\ lines[4] = a4 /\ lines[5] = a5
      /\ lines[6] = a6 /\ lines[7] = a7 /\ lines[8] = a8 /\ lines[9] = a9
  OBVIOUS
<1> HIDE DEF lines
<1>8. \A i \in DOMAIN lines : lines[i].op = "label" => i \in {4, 9}
  <2>1. \A i \in DOMAIN lines : i \in {1, 2, 3, 4, 5, 6, 7, 8, 9}
    BY <1>7
  <2>2. QED
    BY <1>5, <1>7, <2>1
<1>9. fail # end
  BY DEF fail, end
<1>10. LinesApart(lines)
  BY <1>5, <1>7, <1>8, <1>9 DEF LinesApart
<1>11. LabelsOf(lines) = {fail, end}
  <2>1. {i \in DOMAIN lines : lines[i].op = "label"} = {4, 9}
    BY <1>5, <1>7, <1>8
  <2>2. QED
    BY <1>5, <1>7, <2>1 DEF LabelsOf
<1>12. Brings(<<Emit(lines)>>, X, {fail, end}, low, high)
  BY <1>1, <1>6, <1>10, <1>11, LinesBring DEF G, X
<1>13. Brings(<<Gen(n.operand)>>, X, {}, low, high)
  BY NodesBring DEF X
<1>14. Brings(<<Gen(n.operand)>> \o <<Emit(lines)>>, X, {} \cup {fail, end}, low, high)
  BY <1>12, <1>13, BringsTogether
<1>15. emitAssert(n, l) = <<Gen(n.operand), Emit(lines)>>
  BY DEF emitAssert, lines, a1, a2, a3, a4, a5, a6, a7, a8, a9, fail, end, text
<1>16. <<Gen(n.operand), Emit(lines)>> = <<Gen(n.operand)>> \o <<Emit(lines)>>
  OBVIOUS
<1>17. {} \cup {fail, end} = {fail, end}
  OBVIOUS
<1>18. QED
  BY <1>14, <1>15, <1>16, <1>17 DEF fail, end, X

\* Both labels of an if are brought, whatever stands in its branches.
LEMMA IfBrings ==
    ASSUME NEW p, NEW E, NEW S, NEW D, NEW T, NEW low, NEW high, NEW n,
           n.cond \in E, n.then \in S, n.else \in Seq(S), NEW l,
           \A i \in 1 .. 2 : l[i] \in AnyOperand /\ ForConstruct(l[i]) /\ l[i].n \in low .. high - 1,
           l[1] \in T, l[2] \in T, l[1] # l[2]
    PROVE  Brings(emitIfStmt(n, l), Activations(p, E, S, D, T), {l[1], l[2]}, low, high)
<1> DEFINE X == Activations(p, E, S, D, T)
           else == l[1]
           end == l[2]
           a == Gen(n.cond)
           b == Emit(<<Ins("cmp", rax, Imm(0)), Do1("je", else)>>)
           c == Gen(n.then)
           d == Emit(<<Do1("jmp", end), Do1("label", else)>>)
           other == GenAll(n.else)
           e == Emit(<<Do1("label", end)>>)
<1>1. /\ else \in AnyOperand /\ else \in T /\ ForConstruct(else) /\ else.n \in low .. high - 1
      /\ end \in AnyOperand /\ end \in T /\ ForConstruct(end) /\ end.n \in low .. high - 1
      /\ else # end
  OBVIOUS
<1>2. emitIfStmt(n, l) = (<<a, b, c, d>> \o other) \o <<e>>
  BY DEF emitIfStmt
<1> HIDE DEF else, end
<1>3. Brings(<<a>>, X, {}, low, high) /\ Brings(<<c>>, X, {}, low, high) /\ Brings(other, X, {}, low, high)
  BY NodesBring
<1>4. Brings(<<b>>, X, {}, low, high)
  BY <1>1, JumpsBring
<1>5. Brings(<<d>>, X, {else}, low, high) /\ Brings(<<e>>, X, {end}, low, high)
  BY <1>1, LabelsBring
<1> HIDE DEF X, a, b, c, d, e, other
<1>6. Brings(<<a>> \o <<b>>, X, {} \cup {}, low, high)
  BY <1>3, <1>4, BringsTogether
<1>7. Brings((<<a>> \o <<b>>) \o <<c>>, X, ({} \cup {}) \cup {}, low, high)
  BY <1>3, <1>6, BringsTogether
<1>8. Brings(((<<a>> \o <<b>>) \o <<c>>) \o <<d>>, X, (({} \cup {}) \cup {}) \cup {else}, low, high)
  BY <1>5, <1>7, BringsTogether
<1>9. (({} \cup {}) \cup {}) \cup {else} = {else}
  OBVIOUS
<1>10. ((<<a>> \o <<b>>) \o <<c>>) \o <<d>> = <<a, b, c, d>>
  BY FourInARow
<1>11. Brings(<<a, b, c, d>>, X, {else}, low, high)
  BY <1>8, <1>9, <1>10
<1> DEFINE head == <<a, b, c, d>>
<1> HIDE DEF head
<1>12. Brings(head \o other, X, {else} \cup {}, low, high)
  BY <1>3, <1>11, BringsTogether DEF head
<1>13. Brings((head \o other) \o <<e>>, X, ({else} \cup {}) \cup {end}, low, high)
  BY <1>1, <1>5, <1>12, BringsTogether
<1>14. ({else} \cup {}) \cup {end} = {else, end}
  OBVIOUS
<1>15. QED
  BY <1>2, <1>13, <1>14 DEF head, else, end, X

\* A loop brings the labels of its start and of its end.
LEMMA LoopBrings ==
    ASSUME NEW p, NEW E, NEW S, NEW D, NEW T, NEW low, NEW high, NEW n,
           n.cond \in E, n.body \in S,
           NEW start \in AnyOperand, start \in T, ForConstruct(start), start.n \in low .. high - 1,
           NEW end \in AnyOperand, end \in T, ForConstruct(end), end.n \in low .. high - 1,
           NEW again \in T
    PROVE  /\ Brings(LoopBody(n, start, again, end), Activations(p, E, S, D, T), {start}, low, high)
           /\ Brings(BackTo(start, end), Activations(p, E, S, D, T), {end}, low, high)
<1> DEFINE X == Activations(p, E, S, D, T)
           a == Emit(<<Do1("label", start)>>)
           b == Gen(n.cond)
           c == Emit(<<Ins("cmp", rax, Imm(0)), Do1("je", end)>>)
           loop == [breakLabel |-> end, continueLabel |-> again, body |-> n.body]
           d == Item("enterLoop", loop)
<1>1. LoopBody(n, start, again, end) = <<a, b, c, d>>
  BY DEF LoopBody
<1>2. Brings(<<a>>, X, {start}, low, high)
  BY LabelsBring
<1>3. Brings(<<b>>, X, {}, low, high)
  BY NodesBring
<1>4. Brings(<<c>>, X, {}, low, high)
  BY JumpsBring
<1>5. Brings(<<d>>, X, {}, low, high)
  BY EnteringBrings
<1>6. Brings(BackTo(start, end), X, {end}, low, high)
  BY LabelsBring DEF BackTo
<1> HIDE DEF X, a, b, c, d
<1>7. Brings(<<a>> \o <<b>>, X, {start} \cup {}, low, high)
  BY <1>2, <1>3, BringsTogether
<1>8. Brings((<<a>> \o <<b>>) \o <<c>>, X, ({start} \cup {}) \cup {}, low, high)
  BY <1>4, <1>7, BringsTogether
<1>9. Brings(((<<a>> \o <<b>>) \o <<c>>) \o <<d>>, X, (({start} \cup {}) \cup {}) \cup {}, low, high)
  BY <1>5, <1>8, BringsTogether
<1>10. (({start} \cup {}) \cup {}) \cup {} = {start}
  OBVIOUS
<1>11. ((<<a>> \o <<b>>) \o <<c>>) \o <<d>> = <<a, b, c, d>>
  BY FourInARow
<1>12. Brings(<<a, b, c, d>>, X, {start}, low, high)
  BY <1>9, <1>10, <1>11
<1>13. QED
  BY <1>1, <1>6, <1>12 DEF X

LEMMA WhileBrings ==
    ASSUME NEW p, NEW E, NEW S, NEW D, NEW T, NEW low, NEW high, NEW n,
           n.cond \in E, n.body \in S, NEW l,
           \A i \in 1 .. 2 : l[i] \in AnyOperand /\ ForConstruct(l[i]) /\ l[i].n \in low .. high - 1,
           l[1] \in T, l[2] \in T, l[1] # l[2]
    PROVE  Brings(emitWhileStmt(n, l), Activations(p, E, S, D, T), {l[1], l[2]}, low, high)
<1> DEFINE X == Activations(p, E, S, D, T)
           start == l[1]
           end == l[2]
<1>1. /\ start \in AnyOperand /\ start \in T /\ ForConstruct(start) /\ start.n \in low .. high - 1
      /\ end \in AnyOperand /\ end \in T /\ ForConstruct(end) /\ end.n \in low .. high - 1
      /\ start # end
  OBVIOUS
<1>2. emitWhileStmt(n, l) = LoopBody(n, start, start, end) \o BackTo(start, end)
  BY DEF emitWhileStmt
<1> HIDE DEF start, end
<1>3. /\ Brings(LoopBody(n, start, start, end), X, {start}, low, high)
      /\ Brings(BackTo(start, end), X, {end}, low, high)
  BY <1>1, LoopBrings
<1>4. Brings(LoopBody(n, start, start, end) \o BackTo(start, end), X, {start} \cup {end}, low, high)
  BY <1>1, <1>3, BringsTogether
<1>5. {start} \cup {end} = {start, end}
  OBVIOUS
<1>6. QED
  BY <1>2, <1>4, <1>5 DEF start, end

LEMMA RoundsBring ==
    ASSUME NEW p, NEW E, NEW S, NEW D, NEW T, NEW low, NEW high, NEW n,
           n.cond \in E, n.body \in S, n.update \in Seq(S), NEW l,
           \A i \in 1 .. 3 : l[i] \in AnyOperand /\ ForConstruct(l[i]) /\ l[i].n \in low .. high - 1,
           l[1] \in T, l[2] \in T, l[3] \in T, l[1] # l[2], l[1] # l[3], l[2] # l[3]
    PROVE  Brings(emitForRounds(n, l), Activations(p, E, S, D, T), {l[1], l[2], l[3]}, low, high)
<1> DEFINE X == Activations(p, E, S, D, T)
           start == l[1]
           update == l[2]
           end == l[3]
           body == LoopBody(n, start, update, end)
           mark == <<Emit(<<Do1("label", update)>>)>>
           step == GenAll(n.update)
           back == BackTo(start, end)
<1>1. /\ start \in AnyOperand /\ start \in T /\ ForConstruct(start) /\ start.n \in low .. high - 1
      /\ update \in AnyOperand /\ update \in T /\ ForConstruct(update) /\ update.n \in low .. high - 1
      /\ end \in AnyOperand /\ end \in T /\ ForConstruct(end) /\ end.n \in low .. high - 1
      /\ start # end /\ start # update /\ update # end
  OBVIOUS
<1>2. emitForRounds(n, l) = ((body \o mark) \o step) \o back
  BY DEF emitForRounds
<1> HIDE DEF start, update, end
<1>3. Brings(body, X, {start}, low, high) /\ Brings(back, X, {end}, low, high)
  BY <1>1, LoopBrings
<1>4. Brings(mark, X, {update}, low, high)
  BY <1>1, LabelsBring
<1>5. Brings(step, X, {}, low, high)
  BY NodesBring
<1> HIDE DEF X, body, mark, step, back
<1>6. Brings(body \o mark, X, {start} \cup {update}, low, high)
  BY <1>1, <1>3, <1>4, BringsTogether
<1>7. Brings((body \o mark) \o step, X, ({start} \cup {update}) \cup {}, low, high)
  BY <1>5, <1>6, BringsTogether
<1>8. Brings(((body \o mark) \o step) \o back, X, (({start} \cup {update}) \cup {}) \cup {end}, low, high)
  BY <1>1, <1>3, <1>7, BringsTogether
<1>9. (({start} \cup {update}) \cup {}) \cup {end} = {start, update, end}
  OBVIOUS
<1>10. QED
  BY <1>2, <1>8, <1>9 DEF start, update, end, X

LEMMA ReturnBrings ==
    ASSUME NEW p, NEW E, NEW S, NEW D, NEW T, NEW low, NEW high, NEW n, n.value \in Seq(E),
           endLabel \in AnyOperand, endLabel \in T
    PROVE  Brings(emitReturnStmt(n), Activations(p, E, S, D, T), {}, low, high)
<1> DEFINE X == Activations(p, E, S, D, T)
           zero == <<Emit(<<Mov(rax, Imm(0))>>)>>
           value == IF n.value # <<>> THEN GenAll(n.value) ELSE zero
           jump == <<Emit(<<Do1("jmp", endLabel)>>)>>
<1>1. Brings(jump, X, {}, low, high)
  BY JumpsBring
<1>2. Brings(GenAll(n.value), X, {}, low, high)
  BY NodesBring
<1>3. Brings(zero, X, {}, low, high)
  <2> DEFINE Q == Quiet(FunctionLabels(p), D)
             line == Mov(rax, Imm(0))
  <2>1. 0 \in Int \cup {IntWidth}
    OBVIOUS
  <2>2. Imm(0) \in NoLabel
    BY <2>1, OperandsHaveTypes
  <2>3. line \in Q
    BY <2>2, LinesAreQuiet, RegistersHaveTypes
  <2> HIDE DEF line, Q
  <2>4. <<line>> \in Seq(Q)
    BY <2>3
  <2>5. Emit(<<line>>) \in Plain(E, S, FunctionLabels(p), D)
    BY <2>4, PlainItems DEF Q
  <2>6. <<Emit(<<line>>)>> \in Seq(Plain(E, S, FunctionLabels(p), D))
    BY <2>5
  <2>7. QED
    BY <2>6, PlainBrings DEF line
<1>4. Brings(value, X, {}, low, high)
  BY <1>2, <1>3
<1>5. emitReturnStmt(n) = value \o jump
  BY DEF emitReturnStmt
<1> HIDE DEF value, jump, X
<1>6. Brings(value \o jump, X, {} \cup {}, low, high)
  BY <1>1, <1>4, BringsTogether
<1>7. {} \cup {} = {}
  OBVIOUS
<1>8. QED
  BY <1>5, <1>6, <1>7 DEF X

\* Which labels a method makes.
LEMMA BasesAre ==
    ASSUME NEW n
    PROVE  LET B == Bases(n)
           IN  /\ n.kind = "literal" /\ n.type = "string" => B = << <<"str">> >>
               /\ n.kind = "literal" /\ n.type = "float"  => B = << <<"flt">> >>
               /\ n.kind = "literal" /\ n.type \notin {"string", "float"} => B = <<>>
               /\ n.kind = "varDecl" /\ n.type = "string" /\ n.init = <<>> => B = << <<"str">> >>
               /\ n.kind = "varDecl" /\ ~(n.type = "string" /\ n.init = <<>>) => B = <<>>
               /\ n.kind = "builtin" /\ n.op = "Assert" /\ n.operand.type = "bool" =>
                     B = << Compound("assert", "fail"), Compound("assert", "end"), <<"str">> >>
               /\ n.kind = "builtin" /\ ~(n.op = "Assert" /\ n.operand.type = "bool") => B = <<>>
               /\ n.kind = "if" => B = << Compound("if", "else"), Compound("if", "end") >>
               /\ n.kind = "while" => B = << Compound("while", "start"), Compound("while", "end") >>
               /\ n.kind \notin {"literal", "varDecl", "builtin", "if", "while"} => B = <<>>
BY DEF Bases

LEMMA CompoundsAreWords == \A a, b \in Words : Compound(a, b) \in Seq(Words)
<1>1. Underscore \in Words
  BY DEF Words
<1>2. QED
  BY <1>1 DEF Compound

LEMMA BasesAreWords ==
    ASSUME NEW n
    PROVE  Bases(n) \in Seq(Seq(Words))
<1> DEFINE G == Seq(Words)
<1>1. /\ <<"str">> \in G /\ <<"flt">> \in G
      /\ Compound("assert", "fail") \in G /\ Compound("assert", "end") \in G
      /\ Compound("if", "else") \in G /\ Compound("if", "end") \in G
      /\ Compound("while", "start") \in G /\ Compound("while", "end") \in G
  <2>1. {"str", "flt", "assert", "fail", "end", "if", "else", "while", "start"} \subseteq Words
    BY DEF Words
  <2>2. <<"str">> \in G /\ <<"flt">> \in G
    BY <2>1
  <2>3. QED
    BY <2>1, <2>2, CompoundsAreWords
<1> HIDE DEF G
<1>2. /\ << <<"str">> >> \in Seq(G) /\ << <<"flt">> >> \in Seq(G) /\ <<>> \in Seq(G)
      /\ << Compound("assert", "fail"), Compound("assert", "end"), <<"str">> >> \in Seq(G)
      /\ << Compound("if", "else"), Compound("if", "end") >> \in Seq(G)
      /\ << Compound("while", "start"), Compound("while", "end") >> \in Seq(G)
  BY <1>1
<1>3. \/ Bases(n) = << <<"str">> >> \/ Bases(n) = << <<"flt">> >> \/ Bases(n) = <<>>
      \/ Bases(n) = << Compound("assert", "fail"), Compound("assert", "end"), <<"str">> >>
      \/ Bases(n) = << Compound("if", "else"), Compound("if", "end") >>
      \/ Bases(n) = << Compound("while", "start"), Compound("while", "end") >>
  BY BasesAre
<1>4. Bases(n) \in Seq(G)
  BY <1>2, <1>3
<1>5. QED
  BY <1>4 DEF G

LEMMA DataOfIsTyped ==
    ASSUME NEW E, NEW S, TreesOf(program, E, S), NEW n \in E \cup S, NEW l,
           l = makeLabels(Bases(n)), labelCounter \in Nat, data \in Seq(AnyDatum)
    PROVE  /\ data \o DataOf(n, l) \in Seq(AnyDatum)
           /\ DataLabels(data) \subseteq DataLabels(data \o DataOf(n, l))
           /\ n.kind = "literal" /\ n.type \in {"string", "float"} =>
                 l[1] \in DataLabels(data \o DataOf(n, l)) /\ l[1] \in AnyOperand
           /\ n.kind = "varDecl" /\ n.type = "string" /\ n.init = <<>> =>
                 l[1] \in DataLabels(data \o DataOf(n, l)) /\ l[1] \in AnyOperand
           /\ n.kind = "builtin" /\ n.op = "Assert" /\ n.operand.type = "bool" =>
                 l[3] \in DataLabels(data \o DataOf(n, l))
<1> DEFINE B == Bases(n)
           G == Seq(Words)
           dd == DataOf(n, l)
           all == data \o dd
<1>1. B \in Seq(G)
  BY BasesAreWords
<1>2. Len(l) = Len(B) /\ DOMAIN l = 1 .. Len(B) /\ \A i \in DOMAIN B : l[i] \in AnyOperand
  BY MadeLabels, BasesAreWords
<1>3. ASSUME NEW label \in AnyOperand, NEW text \in Seq(Nat), NEW number \in Int
      PROVE  /\ <<Datum(label, text, number)>> \in Seq(AnyDatum)
             /\ label \in DataLabels(<<Datum(label, text, number)>>)
  <2> DEFINE d == Datum(label, text, number)
             s == <<d>>
  <2>1. d \in AnyDatum /\ d.label = label
    BY DEF Datum, AnyDatum
  <2> HIDE DEF d
  <2>2. s \in Seq(AnyDatum) /\ 1 \in DOMAIN s /\ s[1] = d
    BY <2>1
  <2> HIDE DEF s
  <2>3. label \in DataLabels(s)
    BY <2>1, <2>2 DEF DataLabels
  <2>4. QED
    BY <2>2, <2>3 DEF s, d
<1>4. ASSUME n.kind = "literal", n.type \in {"string", "float"}
      PROVE  dd \in Seq(AnyDatum) /\ l[1] \in DataLabels(dd) /\ l[1] \in AnyOperand
  <2>1. Len(B) = 1
    BY <1>4, BasesAre
  <2>2. l[1] \in AnyOperand
    BY <1>1, <1>2, <2>1
  <2>3. n \in E
    BY <1>4 DEF TreesOf, StmtClosed
  <2>4. n.text \in Seq(Nat) /\ n.value \in Int
    BY <1>4, <2>3 DEF TreesOf, ExprClosed
  <2>5. dd = <<Datum(l[1], n.text, n.value)>>
    BY <1>4 DEF DataOf
  <2>6. QED
    BY <1>3, <2>2, <2>4, <2>5
<1>5. ASSUME n.kind = "varDecl"
      PROVE  /\ dd \in Seq(AnyDatum)
             /\ n.type = "string" /\ n.init = <<>> => l[1] \in DataLabels(dd) /\ l[1] \in AnyOperand
  <2>1. CASE n.type = "string" /\ n.init = <<>>
    <3>1. Len(B) = 1
      BY <1>5, <2>1, BasesAre
    <3>2. l[1] \in AnyOperand /\ l # <<>>
      BY <1>1, <1>2, <3>1
    <3>3. dd = <<Datum(l[1], <<>>, 0)>>
      BY <1>5, <3>2 DEF DataOf
    <3>4. <<>> \in Seq(Nat) /\ 0 \in Int
      OBVIOUS
    <3>5. QED
      BY <1>3, <3>2, <3>3, <3>4
  <2>2. CASE ~(n.type = "string" /\ n.init = <<>>)
    <3>1. B = <<>>
      BY <1>5, <2>2, BasesAre
    <3>2. l = <<>>
      BY <3>1 DEF makeLabels
    <3>3. dd = <<>>
      BY <1>5, <3>2 DEF DataOf
    <3>4. QED
      BY <2>2, <3>3
  <2>3. QED
    BY <2>1, <2>2
<1>6. ASSUME n.kind = "builtin"
      PROVE  /\ dd \in Seq(AnyDatum)
             /\ n.op = "Assert" /\ n.operand.type = "bool" => l[3] \in DataLabels(dd)
  <2>1. CASE n.op = "Assert" /\ n.operand.type = "bool"
    <3>1. Len(B) = 3
      BY <1>6, <2>1, BasesAre
    <3>2. l[3] \in AnyOperand /\ l # <<>>
      <4>1. 3 \in DOMAIN B
        <5> HIDE DEF B
        <5>1. QED
          BY <1>1, <3>1
      <4>2. Len(l) = 3 /\ Len(<<>>) = 0
        BY <1>2, <3>1
      <4>3. l # <<>>
        BY <4>2
      <4>4. QED
        BY <1>2, <4>1, <4>3
    <3>3. dd = <<Datum(l[3], AssertionFailed, 0)>>
      BY <1>6, <3>2 DEF DataOf
    <3>4. AssertionFailed \in Seq(Nat) /\ 0 \in Int
      BY DEF AssertionFailed
    <3>5. QED
      BY <1>3, <3>2, <3>3, <3>4
  <2>2. CASE ~(n.op = "Assert" /\ n.operand.type = "bool")
    <3>1. B = <<>>
      BY <1>6, <2>2, BasesAre
    <3>2. l = <<>>
      BY <3>1 DEF makeLabels
    <3>3. dd = <<>>
      BY <1>6, <3>2 DEF DataOf
    <3>4. QED
      BY <2>2, <3>3
  <2>3. QED
    BY <2>1, <2>2
<1>7. dd \in Seq(AnyDatum)
  <2>1. CASE n.kind \notin {"varDecl", "builtin"} /\ ~(n.kind = "literal" /\ n.type \in {"string", "float"})
    <3>1. dd = <<>>
      BY <2>1 DEF DataOf
    <3>2. QED
      BY <3>1
  <2>2. QED
    BY <1>4, <1>5, <1>6, <2>1
<1> HIDE DEF dd
<1>8. /\ all \in Seq(AnyDatum)
      /\ Len(all) = Len(data) + Len(dd)
      /\ \A i \in 1 .. Len(data) : all[i] = data[i]
      /\ \A i \in Len(data) + 1 .. Len(data) + Len(dd) : all[i] = dd[i - Len(data)]
  BY <1>7, ConcatElements
<1>9. /\ Len(data) \in Nat /\ Len(dd) \in Nat /\ DOMAIN data = 1 .. Len(data)
      /\ DOMAIN dd = 1 .. Len(dd) /\ DOMAIN all = 1 .. Len(all)
  BY <1>7, <1>8
<1> DEFINE a == Len(data)
           b == Len(dd)
<1> HIDE DEF all, a, b
<1>10. /\ a \in Nat /\ b \in Nat /\ DOMAIN data = 1 .. a /\ DOMAIN dd = 1 .. b /\ DOMAIN all = 1 .. a + b
       /\ \A i \in 1 .. a : all[i] = data[i]
       /\ \A i \in a + 1 .. a + b : all[i] = dd[i - a]
  BY <1>8, <1>9 DEF a, b
<1>11. \A i \in DOMAIN data : i \in DOMAIN all /\ all[i] = data[i]
  BY <1>10
<1>12. \A i \in DOMAIN dd : i + a \in DOMAIN all /\ all[i + a] = dd[i]
  BY <1>10
<1>13. DataLabels(data) \subseteq DataLabels(all) /\ DataLabels(dd) \subseteq DataLabels(all)
  BY <1>11, <1>12 DEF DataLabels
<1>14. QED
  BY <1>4, <1>5, <1>6, <1>8, <1>13 DEF all, dd

LEMMA PartsAre ==
    ASSUME NEW n, NEW l
    PROVE  LET P == Parts(n, l)
           IN  /\ n.kind = "literal" /\ n.type \in {"int", "uint"} => P = emitIntLiteralExpr(n)
               /\ n.kind = "literal" /\ n.type = "bool"   => P = emitBoolLiteralExpr(n)
               /\ n.kind = "literal" /\ n.type = "float"  => P = emitFloatLiteralExpr(n, l)
               /\ n.kind = "literal" /\ n.type = "string" => P = emitStringLiteralExpr(n, l)
               /\ n.kind = "variable"    => P = emitVariableExpr(n)
               /\ n.kind = "index"       => P = emitIndexExpr(n)
               /\ n.kind = "field"       => P = emitFieldAccessExpr(n)
               /\ n.kind = "call"        => P = emitCallExpr(n)
               /\ n.kind = "builtin"     => P = emitBuiltin(n, l)
               /\ n.kind \in {"binary", "logic"} => P = emitBinaryExpr(n)
               /\ n.kind = "unary"       => P = emitUnaryExpr(n)
               /\ n.kind = "cast"        => P = emitCastExpr(n)
               /\ n.kind = "block"       => P = GenAll(n.stmts)
               /\ n.kind = "varDecl"     => P = emitVarDeclStmt(n, l)
               /\ n.kind = "assign"      => P = emitAssignStmt(n)
               /\ n.kind = "arrayAssign" => P = emitArrayAssignStmt(n)
               /\ n.kind = "fieldAssign" => P = emitFieldAssignStmt(n)
               /\ n.kind = "if"          => P = emitIfStmt(n, l)
               /\ n.kind = "while"       => P = emitWhileStmt(n, l)
               /\ n.kind = "for"         => P = emitForStmt(n)
               /\ n.kind = "return"      => P = emitReturnStmt(n)
               /\ n.kind = "print"       => P = emitPrintStmt(n)
               /\ n.kind = "exprStmt"    => P = <<Gen(n.expr)>>
BY DEF Parts

\* What a method may leave: activations that bring labels of the numbers given.
Left(items, p, E, S, D, T, low, high) ==
    \E W : Brings(items, Activations(p, E, S, D, T \cup W), W, low, high)

LEMMA PlainIsLeft ==
    ASSUME NEW p, NEW E, NEW S, NEW D, NEW T, NEW low, NEW high,
           NEW items \in Seq(Plain(E, S, FunctionLabels(p), D))
    PROVE  Left(items, p, E, S, D, T, low, high)
<1>1. Brings(items, Activations(p, E, S, D, T \cup {}), {}, low, high)
  BY PlainBrings
<1>2. QED
  BY <1>1 DEF Left

\* Every method of an expression leaves activations that bring their labels.
LEMMA ExpressionsLeave ==
    ASSUME NEW E, NEW S, Resolvable(program, E, S), AreasOK, labelCounter \in Nat, data \in Seq(AnyDatum),
           NEW n \in E, n.kind \in Simple, NEW l, l = makeLabels(Bases(n)), NEW T
    PROVE  Left(Parts(n, l), program, E, S, DataLabels(data \o DataOf(n, l)), T,
                labelCounter, labelCounter + Len(l))
<1> DEFINE F == FunctionLabels(program)
           D == DataLabels(data \o DataOf(n, l))
           Lists == Seq(Plain(E, S, F, D))
           high == labelCounter + Len(l)
<1>1. TreesOf(program, E, S) /\ ExprClosed(E) /\ StmtClosed(S, E)
  BY DEF Resolvable, TreesOf
<1>2. n \in E \cup S
  OBVIOUS
<1>3. /\ n.kind = "literal" /\ n.type \in {"string", "float"} => l[1] \in D /\ l[1] \in AnyOperand
      /\ n.kind = "builtin" /\ n.op = "Assert" /\ n.operand.type = "bool" => l[3] \in D
  BY <1>1, <1>2, DataOfIsTyped
<1>4. SUFFICES Left(Parts(n, l), program, E, S, D, T, labelCounter, high)
  OBVIOUS
<1> HIDE DEF D, high
<1>5. ASSUME Parts(n, l) \in Lists PROVE Left(Parts(n, l), program, E, S, D, T, labelCounter, high)
  BY <1>5, PlainIsLeft
<1>6. CASE n.kind = "literal"
  <2>1. n.type \in Types \ {"array", "struct", "generic", "void"} /\ n.value \in Int
    BY <1>1, <1>6 DEF ExprClosed
  <2>2. n.type \in {"int", "uint"} \/ n.type = "bool" \/ n.type \in {"string", "float"}
    BY <2>1 DEF Types
  <2>3. CASE n.type \in {"int", "uint"}
    <3>1. Parts(n, l) = emitIntLiteralExpr(n)
      BY <1>6, <2>3, PartsAre
    <3>2. emitIntLiteralExpr(n) \in Lists
      BY <2>1, LiteralsArePlain
    <3>3. QED
      BY <1>5, <3>1, <3>2
  <2>4. CASE n.type = "bool"
    <3>1. Parts(n, l) = emitBoolLiteralExpr(n)
      BY <1>6, <2>4, PartsAre
    <3>2. emitBoolLiteralExpr(n) \in Lists
      BY <2>1, LiteralsArePlain
    <3>3. QED
      BY <1>5, <3>1, <3>2
  <2>5. CASE n.type \in {"string", "float"}
    <3>1. Parts(n, l) = emitFloatLiteralExpr(n, l) \/ Parts(n, l) = emitStringLiteralExpr(n, l)
      BY <1>6, <2>5, PartsAre
    <3>2. emitFloatLiteralExpr(n, l) \in Lists /\ emitStringLiteralExpr(n, l) \in Lists
      BY <1>3, <1>6, <2>5, DataLiteralsArePlain
    <3>3. QED
      BY <1>5, <3>1, <3>2
  <2>6. QED
    BY <2>2, <2>3, <2>4, <2>5
<1>7. CASE n.kind \in {"variable", "index", "field"}
  <2>1. n.slot \in Int /\ (n.kind = "field" => n.field \in Nat) /\ (n.kind = "index" => n.index \in E)
    BY <1>1, <1>7 DEF ExprClosed
  <2>2. emitVariableExpr(n) \in Lists
    BY <2>1, VariableIsPlain
  <2>3. n.kind = "index" => emitIndexExpr(n) \in Lists
    BY <2>1, IndexIsPlain
  <2>4. n.kind = "field" => emitFieldAccessExpr(n) \in Lists
    BY <2>1, FieldIsPlain
  <2>5. \/ n.kind = "variable" /\ Parts(n, l) = emitVariableExpr(n)
        \/ n.kind = "index" /\ Parts(n, l) = emitIndexExpr(n)
        \/ n.kind = "field" /\ Parts(n, l) = emitFieldAccessExpr(n)
    BY <1>7, PartsAre
  <2>6. QED
    BY <1>5, <2>2, <2>3, <2>4, <2>5
<1>8. CASE n.kind = "call"
  <2>1. n.args \in Seq(E) /\ n.function + 1 \in DOMAIN program
    BY <1>1, <1>8 DEF ExprClosed, Resolvable
  <2> DEFINE label == FunctionLabel(program[n.function + 1].path)
  <2>2. label \in F
    BY <2>1 DEF FunctionLabels
  <2>3. F \subseteq AnyOperand
    BY <1>1, FunctionLabelsHaveTypes
  <2> HIDE DEF F, label
  <2>4. Passed(n.args, label) \in Lists
    BY <2>1, <2>2, <2>3, PassedIsPlain
  <2>5. Parts(n, l) = Passed(n.args, label)
    BY <1>8, PartsAre DEF emitCallExpr, label
  <2>6. QED
    BY <1>5, <2>4, <2>5
<1>9. CASE n.kind = "builtin"
  <2>1. n.op \in UnaryBuiltins \ {"ToInt"} /\ n.operand \in E
    BY <1>1, <1>9 DEF ExprClosed, Resolvable
  <2>2. Parts(n, l) = emitBuiltin(n, l)
    BY <1>9, PartsAre
  <2>3. CASE ~(n.op = "Assert" /\ n.operand.type = "bool")
    <3>1. emitBuiltin(n, l) \in Lists
      BY <2>1, <2>3, BuiltinIsPlain
    <3>2. QED
      BY <1>5, <2>2, <3>1
  <2>4. CASE n.op = "Assert" /\ n.operand.type = "bool"
    <3>1. emitBuiltin(n, l) = emitAssert(n, l)
      BY <2>4 DEF emitBuiltin
    <3> DEFINE B == << Compound("assert", "fail"), Compound("assert", "end"), <<"str">> >>
    <3>2. Bases(n) = B /\ B \in Seq(Seq(Words))
      <4>1. Bases(n) = B
        BY <1>9, <2>4, BasesAre
      <4>2. QED
        BY <4>1, BasesAreWords
    <3>3. DOMAIN B = {1, 2, 3} /\ B[1] \in ConstructBases /\ B[2] \in ConstructBases
      BY DEF ConstructBases
    <3> HIDE DEF B
    <3>4. \A i \in {1, 2, 3} : /\ l[i] \in AnyOperand /\ l[i].n \in Nat /\ l[i] = Label(B[i], l[i].n)
                               /\ l[i].n \in labelCounter .. high - 1
                               /\ \A j \in {1, 2, 3} : l[i] = l[j] => i = j
      <4>1. B \in Seq(Seq(Words)) /\ l = makeLabels(B)
        BY <3>2
      <4>2. \A i \in DOMAIN B : /\ l[i] \in AnyOperand /\ l[i].n \in Nat /\ l[i] = Label(B[i], l[i].n)
                               /\ l[i].n \in labelCounter .. (labelCounter + Len(l)) - 1
                               /\ \A j \in DOMAIN B : l[i] = l[j] => i = j
        BY <4>1, MadeLabels
      <4>3. QED
        BY <3>3, <4>2 DEF high
    <3> DEFINE W == {l[1], l[2]}
               U == T \cup W
    <3>5. l[1] \in U /\ l[2] \in U /\ l[1] # l[2]
      BY <3>4
    <3>6. l[3] \in D
      BY <1>3, <1>9, <2>4
    <3>7. \A i \in 1 .. 3 : i \in {1, 2, 3}
      OBVIOUS
    <3>8. Brings(emitAssert(n, l), Activations(program, E, S, D, U), {l[1], l[2]}, labelCounter, high)
      <4> HIDE DEF U
      <4>1. \A i \in 1 .. 3 : l[i] \in AnyOperand /\ l[i].n \in labelCounter .. high - 1
        BY <3>4, <3>7
      <4>2. ForConstruct(l[1]) /\ ForConstruct(l[2])
        BY <3>3, <3>4 DEF ForConstruct
      <4>3. QED
        BY <2>1, <3>5, <3>6, <4>1, <4>2, AssertBrings
    <3>9. QED
      BY <2>2, <3>1, <3>8 DEF Left
  <2>5. QED
    BY <2>3, <2>4
<1>10. CASE n.kind \in {"binary", "logic"}
  <2>1. /\ n.left \in E /\ n.right \in E
        /\ \/ n.op \in ArithmeticOps
           \/ n.op \in ShortCircuitOps /\ n.left.type = "bool" /\ n.right.type = "bool"
    BY <1>1, <1>10 DEF ExprClosed, TreesOf
  <2>2. emitBinaryExpr(n) \in Lists
    BY <2>1, BinaryIsPlain
  <2>3. QED
    BY <1>5, <1>10, <2>2, PartsAre
<1>11. CASE n.kind = "unary"
  <2>1. n.operand \in E /\ n.op \in UnaryOps
    BY <1>1, <1>11 DEF ExprClosed
  <2>2. emitUnaryExpr(n) \in Lists
    BY <2>1, UnaryIsPlain
  <2>3. QED
    BY <1>5, <1>11, <2>2, PartsAre
<1>12. CASE n.kind = "cast"
  <2>1. n.operand \in E
    BY <1>1, <1>12 DEF ExprClosed
  <2>2. emitCastExpr(n) \in Lists
    BY <2>1, CastIsPlain
  <2>3. QED
    BY <1>5, <1>12, <2>2, PartsAre
<1>13. n.kind \in {"literal", "variable", "index", "field", "call", "builtin", "binary", "logic", "unary", "cast"}
  <2>1. n.kind \in {"literal", "variable", "binary", "logic", "unary", "cast", "call",
                    "builtin", "input", "arrayLiteral", "index", "structLiteral", "field"}
    BY <1>1 DEF ExprClosed
  <2>2. n.kind \notin {"input", "arrayLiteral", "structLiteral"}
    BY DEF Simple
  <2>3. QED
    BY <2>1, <2>2
<1>14. QED
  BY <1>6, <1>7, <1>8, <1>9, <1>10, <1>11, <1>12, <1>13

\* Every method of a statement does.
LEMMA StatementsLeave ==
    ASSUME NEW E, NEW S, Resolvable(program, E, S), AreasOK, labelCounter \in Nat, data \in Seq(AnyDatum),
           NEW n \in S, n.kind \in Simple, NEW l, l = makeLabels(Bases(n)), NEW T,
           endLabel \in AnyOperand, endLabel \in T
    PROVE  Left(Parts(n, l), program, E, S, DataLabels(data \o DataOf(n, l)), T,
                labelCounter, labelCounter + Len(l))
<1> DEFINE F == FunctionLabels(program)
           D == DataLabels(data \o DataOf(n, l))
           Lists == Seq(Plain(E, S, F, D))
           high == labelCounter + Len(l)
<1>1. TreesOf(program, E, S) /\ ExprClosed(E) /\ StmtClosed(S, E)
  BY DEF Resolvable, TreesOf
<1>2. n \in E \cup S
  OBVIOUS
<1>3. n.kind = "varDecl" /\ n.type = "string" /\ n.init = <<>> => l[1] \in D /\ l[1] \in AnyOperand
  BY <1>1, <1>2, DataOfIsTyped
<1>4. SUFFICES Left(Parts(n, l), program, E, S, D, T, labelCounter, high)
  OBVIOUS
<1> HIDE DEF D, high
<1>5. ASSUME Parts(n, l) \in Lists PROVE Left(Parts(n, l), program, E, S, D, T, labelCounter, high)
  BY <1>5, PlainIsLeft
<1>6. CASE n.kind \in {"block", "exprStmt"}
  <2>1. (n.kind = "block" => n.stmts \in Seq(S)) /\ (n.kind = "exprStmt" => n.expr \in E)
    BY <1>1, <1>6 DEF StmtClosed
  <2>2. n.kind = "block" => GenAll(n.stmts) \in Lists
    BY <2>1, GenAllIsPlain
  <2>3. n.kind = "exprStmt" => <<Gen(n.expr)>> \in Lists
    <3>1. n.kind = "exprStmt" => Gen(n.expr) \in Plain(E, S, F, D)
      BY <2>1, PlainItems
    <3>2. QED
      BY <3>1
  <2>4. \/ n.kind = "block" /\ Parts(n, l) = GenAll(n.stmts)
        \/ n.kind = "exprStmt" /\ Parts(n, l) = <<Gen(n.expr)>>
    BY <1>6, PartsAre
  <2>5. QED
    BY <1>5, <2>2, <2>3, <2>4
<1>7. CASE n.kind = "varDecl"
  <2>1. n.slot \in Int /\ n.init \in Seq(E)
    BY <1>1, <1>7 DEF StmtClosed
  <2>2. emitVarDeclStmt(n, l) \in Lists
    BY <1>1, <1>3, <1>7, <2>1, VarDeclIsPlain
  <2>3. QED
    BY <1>5, <1>7, <2>2, PartsAre
<1>8. CASE n.kind \in {"assign", "arrayAssign", "fieldAssign"}
  <2>1. /\ n.slot \in Int /\ n.value \in E
        /\ n.kind = "arrayAssign" => n.index \in E
        /\ n.kind = "fieldAssign" => n.field \in Nat
    BY <1>1, <1>8 DEF StmtClosed, Assignments
  <2>2. emitAssignStmt(n) \in Lists
    BY <2>1, AssignIsPlain
  <2>3. n.kind = "arrayAssign" => emitArrayAssignStmt(n) \in Lists
    BY <2>1, ArrayAssignIsPlain
  <2>4. n.kind = "fieldAssign" => emitFieldAssignStmt(n) \in Lists
    BY <2>1, FieldAssignIsPlain
  <2>5. \/ n.kind = "assign" /\ Parts(n, l) = emitAssignStmt(n)
        \/ n.kind = "arrayAssign" /\ Parts(n, l) = emitArrayAssignStmt(n)
        \/ n.kind = "fieldAssign" /\ Parts(n, l) = emitFieldAssignStmt(n)
    BY <1>8, PartsAre
  <2>6. QED
    BY <1>5, <2>2, <2>3, <2>4, <2>5
<1>9. CASE n.kind \in {"if", "while"}
  <2>1. /\ n.cond \in E
        /\ n.kind = "if" => n.then \in S /\ n.else \in Seq(S)
        /\ n.kind = "while" => n.body \in S
    BY <1>1, <1>9 DEF StmtClosed
  <2> DEFINE B == Bases(n)
  <2>2. B \in Seq(Seq(Words)) /\ Len(B) = 2 /\ B[1] \in ConstructBases /\ B[2] \in ConstructBases
    <3>1. \/ B = << Compound("if", "else"), Compound("if", "end") >>
          \/ B = << Compound("while", "start"), Compound("while", "end") >>
      BY <1>9, BasesAre
    <3>2. Len(B) = 2 /\ B[1] \in ConstructBases /\ B[2] \in ConstructBases
      BY <3>1 DEF ConstructBases
    <3>3. QED
      BY <3>2, BasesAreWords
  <2>3. DOMAIN B = {1, 2}
    <3> DEFINE G == Seq(Words)
    <3>1. B \in Seq(G)
      BY <2>2
    <3> HIDE DEF B, G
    <3>2. QED
      BY <2>2, <3>1
  <2>4. \A i \in {1, 2} : /\ l[i] \in AnyOperand /\ ForConstruct(l[i])
                          /\ l[i].n \in labelCounter .. high - 1
                          /\ \A j \in {1, 2} : l[i] = l[j] => i = j
    <3>1. B \in Seq(Seq(Words)) /\ l = makeLabels(B)
      BY <2>2
    <3>2. \A i \in DOMAIN B : /\ l[i] \in AnyOperand /\ l[i].n \in Nat /\ l[i] = Label(B[i], l[i].n)
                             /\ l[i].n \in labelCounter .. (labelCounter + Len(l)) - 1
                             /\ \A j \in DOMAIN B : l[i] = l[j] => i = j
      BY <3>1, MadeLabels
    <3>3. QED
      BY <2>2, <2>3, <3>2 DEF high, ForConstruct
  <2> DEFINE W == {l[1], l[2]}
             U == T \cup W
  <2>5. l[1] \in U /\ l[2] \in U /\ l[1] # l[2]
    BY <2>4
  <2>6. \A i \in 1 .. 2 : i \in {1, 2}
    OBVIOUS
  <2> HIDE DEF U
  <2>7. \A i \in 1 .. 2 : l[i] \in AnyOperand /\ ForConstruct(l[i]) /\ l[i].n \in labelCounter .. high - 1
    BY <2>4, <2>6
  <2>8. CASE n.kind = "if"
    <3>1. Brings(emitIfStmt(n, l), Activations(program, E, S, D, U), {l[1], l[2]}, labelCounter, high)
      BY <2>1, <2>5, <2>7, <2>8, IfBrings
    <3>2. Parts(n, l) = emitIfStmt(n, l)
      BY <2>8, PartsAre
    <3>3. QED
      BY <3>1, <3>2 DEF Left, U
  <2>9. CASE n.kind = "while"
    <3>1. Brings(emitWhileStmt(n, l), Activations(program, E, S, D, U), {l[1], l[2]}, labelCounter, high)
      BY <2>1, <2>5, <2>7, <2>9, WhileBrings
    <3>2. Parts(n, l) = emitWhileStmt(n, l)
      BY <2>9, PartsAre
    <3>3. QED
      BY <3>1, <3>2 DEF Left, U
  <2>10. QED
    BY <1>9, <2>8, <2>9
<1>10. CASE n.kind = "for"
  <2> DEFINE V == {x \in S : x.kind \in Assignments \cup {"varDecl"}}
  <2>1. n.init \in Seq(V)
    BY <1>1, <1>10 DEF StmtClosed
  <2>2. n.init \in Seq(S)
    <3>1. V \subseteq S
      OBVIOUS
    <3> HIDE DEF V
    <3>2. QED
      BY <2>1, <3>1, SeqMonotonic
  <2>3. GenAll(n.init) \in Lists
    BY <2>2, GenAllIsPlain
  <2>4. <<Item("rounds", n)>> \in Lists
    <3>1. Item("rounds", n) \in Plain(E, S, F, D)
      BY <1>10, PlainItems
    <3>2. QED
      BY <3>1
  <2>5. Parts(n, l) = GenAll(n.init) \o <<Item("rounds", n)>>
    BY <1>10, PartsAre DEF emitForStmt
  <2>6. GenAll(n.init) \o <<Item("rounds", n)>> \in Lists
    BY <2>3, <2>4, ConcatElements
  <2>7. QED
    BY <1>5, <2>5, <2>6
<1>11. CASE n.kind = "return"
  <2>1. n.value \in Seq(E)
    BY <1>1, <1>11 DEF StmtClosed
  <2>2. endLabel \in T \cup {}
    OBVIOUS
  <2> DEFINE U == T \cup {}
  <2> HIDE DEF U
  <2>3. Brings(emitReturnStmt(n), Activations(program, E, S, D, U), {}, labelCounter, high)
    BY <2>1, <2>2, ReturnBrings DEF U
  <2>4. Parts(n, l) = emitReturnStmt(n)
    BY <1>11, PartsAre
  <2>5. QED
    BY <2>3, <2>4 DEF Left, U
<1>12. CASE n.kind = "print"
  <2>1. n.args \in Seq(E)
    BY <1>1, <1>12 DEF StmtClosed
  <2>2. emitPrintStmt(n) \in Lists
    BY <2>1, PrintIsPlain
  <2>3. QED
    BY <1>5, <1>12, <2>2, PartsAre
<1>13. n.kind \in {"block", "exprStmt", "varDecl", "assign", "arrayAssign", "fieldAssign",
                   "if", "while", "for", "return", "print"}
  <2>1. n.kind \in {"block", "exprStmt", "varDecl", "assign", "arrayAssign", "fieldAssign",
                    "if", "while", "for", "switch", "return", "break", "continue", "print"}
    BY <1>1 DEF StmtClosed
  <2>2. n.kind \notin {"switch", "break", "continue"}
    BY DEF Simple
  <2>3. QED
    BY <2>1, <2>2
<1>14. QED
  BY <1>6, <1>7, <1>8, <1>9, <1>10, <1>11, <1>12, <1>13

-----------------------------------------------------------------------------
(* The steps that replace the top activation.                              *)

LEMMA TopIsTyped ==
    ASSUME NEW E, NEW S, Inv(E, S), work # <<>>
    PROVE  /\ Top \in Activations(program, E, S, DataLabels(data), AtHand(code, work, endLabel))
           /\ Len(work) \in DOMAIN work /\ Len(work) \in Nat /\ DOMAIN work = 1 .. Len(work)
<1> DEFINE A == Activations(program, E, S, DataLabels(data), AtHand(code, work, endLabel))
<1>1. work \in Seq(A)
  BY DEF Inv, Typed
<1> HIDE DEF A
<1>2. Len(work) \in DOMAIN work /\ Len(work) \in Nat /\ DOMAIN work = 1 .. Len(work)
  BY <1>1, TopOfStack
<1>3. Top \in A
  BY <1>1, <1>2 DEF Top
<1>4. QED
  BY <1>2, <1>3 DEF A

LEMMA NodeIsTyped ==
    ASSUME NEW E, NEW S, Inv(E, S), work # <<>>
    PROVE  /\ Top.task = "generate" => Node \in E \cup S
           /\ Top.task = "rounds" => Node \in S /\ Node.kind = "for"
           /\ Top.task = "refuse" => Node \in Messages
           /\ Top.task \in {"leaveLoop", "collect"} => Node \in S
           /\ Top.task = "enterLoop" =>
                 /\ Node.breakLabel \in AtHand(code, work, endLabel)
                 /\ Node.continueLabel \in AtHand(code, work, endLabel)
                 /\ Node.body \in S
           /\ Top.task = "emit" =>
                 Node \in Seq(Fits(FunctionLabels(program), DataLabels(data), AtHand(code, work, endLabel)))
<1> DEFINE T == AtHand(code, work, endLabel)
           D == DataLabels(data)
           F == FunctionLabels(program)
           G == Fits(F, D, T)
           Q == Quiet(F, D)
<1>1. Top \in Activations(program, E, S, D, T)
  BY TopIsTyped
<1>2. Seq(Q) \subseteq Seq(G)
  <2>1. Q \subseteq G
    BY DEF Quiet, Fits
  <2> HIDE DEF Q, G
  <2>2. QED
    BY <2>1, SeqMonotonic
<1> HIDE DEF T, D
<1>3. Top.task = "emit" => Top.node \in Seq(G)
  BY <1>1, <1>2 DEF Activations, Inside, Plain
<1> HIDE DEF G, Q
<1>4. /\ Top.task = "generate" => Node \in E \cup S
      /\ Top.task = "rounds" => Node \in S /\ Node.kind = "for"
      /\ Top.task = "refuse" => Node \in Messages
      /\ Top.task \in {"leaveLoop", "collect"} => Node \in S
      /\ Top.task = "enterLoop" => Node.breakLabel \in T /\ Node.continueLabel \in T /\ Node.body \in S
  BY <1>1 DEF Activations, Inside, Plain, Node
<1>5. QED
  BY <1>3, <1>4 DEF Node, T, D, G

\* What is owed is what the activations write, and the end of an open body.
LEMMA OwedIs ==
    ASSUME NEW w, NEW end
    PROVE  /\ InBody(w) => end \in Owed(w, end)
           /\ \A k \in DOMAIN w : Writes(w[k]) \subseteq Owed(w, end)
           /\ \A X : (InBody(w) => end \in X) /\ (\A k \in DOMAIN w : Writes(w[k]) \subseteq X) =>
                       Owed(w, end) \subseteq X
<1> DEFINE U == UNION {Writes(w[k]) : k \in DOMAIN w}
           V == IF InBody(w) THEN {end} ELSE {}
<1>1. Owed(w, end) = U \cup V
  BY Zenon DEF Owed
<1>2. (InBody(w) => end \in V) /\ \A k \in DOMAIN w : Writes(w[k]) \subseteq U
  OBVIOUS
<1>3. ASSUME NEW X, InBody(w) => end \in X, \A k \in DOMAIN w : Writes(w[k]) \subseteq X
      PROVE  U \subseteq X /\ V \subseteq X
  <2>1. U \subseteq X
    BY <1>3
  <2>2. V \subseteq X
    BY <1>3
  <2>3. QED
    BY <2>1, <2>2
<1> HIDE DEF U, V
<1>4. (InBody(w) => end \in Owed(w, end)) /\ \A k \in DOMAIN w : Writes(w[k]) \subseteq Owed(w, end)
  BY <1>1, <1>2
<1>5. \A X : (InBody(w) => end \in X) /\ (\A k \in DOMAIN w : Writes(w[k]) \subseteq X) =>
                Owed(w, end) \subseteq X
  BY <1>1, <1>3
<1>6. QED
  BY <1>4, <1>5

LEMMA BodyIsOpen ==
    ASSUME NEW E, NEW S, Inv(E, S), work # <<>>,
           Top.task \notin {"collect", "refuse", "prologue", "epilogue"}
    PROVE  InBody(work) /\ endLabel \in AtHand(code, work, endLabel) /\ endLabel \in AnyOperand
<1> DEFINE n == Len(work)
<1>1. n \in DOMAIN work /\ n \in Nat /\ DOMAIN work = 1 .. n
  BY TopIsTyped
<1>2. work[n].task \notin {"collect", "refuse", "prologue", "epilogue"}
  BY DEF Top
<1>3. Shape(program, work, next) /\ endLabel \in AnyOperand
  BY DEF Inv, Typed
<1> HIDE DEF n
<1>4. work[1].task = "epilogue"
  <2>1. work[1].task = "epilogue" \/ (work[1].task = "refuse" /\ n = 1)
    BY <1>3 DEF Shape, n
  <2>2. QED
    BY <1>2, <2>1
<1>5. ASSUME NEW k \in DOMAIN work, work[k].task = "prologue" PROVE FALSE
  <2>1. k # n
    BY <1>2, <1>5
  <2>2. n \in k + 1 .. n
    BY <1>1, <2>1
  <2>3. \A j \in k + 1 .. n : work[j].task \in {"collect", "refuse"}
    BY <1>3, <1>5 DEF Shape, n
  <2>4. QED
    BY <1>2, <2>2, <2>3
<1>6. InBody(work)
  BY <1>4, <1>5 DEF InBody
<1>7. endLabel \in Owed(work, endLabel)
  BY <1>6, OwedIs
<1>8. QED
  BY <1>3, <1>6, <1>7 DEF AtHand

LEMMA MethodKeepsInv ==
    ASSUME NEW E, NEW S, Inv(E, S), Method
    PROVE  Inv(E, S)'
<1> DEFINE l == makeLabels(Bases(Node))
           T == AtHand(code, work, endLabel)
           items == Parts(Node, l)
           dd == DataOf(Node, l)
<1>1. /\ work # <<>> /\ Top.task = "generate" /\ Node.kind \in Simple
      /\ work' = Replaced(work, items)
      /\ labelCounter' = labelCounter + Len(l)
      /\ data' = data \o dd
      /\ program' = program /\ code' = code /\ areas' = areas /\ stackSize' = stackSize
      /\ endLabel' = endLabel /\ loopStack' = loopStack /\ next' = next /\ diagnostic' = diagnostic
  BY DEF Method, Generating, Running, Then, frameVars
<1>2. /\ Resolvable(program, E, S) /\ labelCounter \in Nat /\ data \in Seq(AnyDatum) /\ AreasOK
      /\ TreesOf(program, E, S)
  BY DEF Inv, Typed, AreasOK, Resolvable
<1>3. Node \in E \cup S
  BY <1>1, NodeIsTyped
<1>4. endLabel \in T /\ endLabel \in AnyOperand
  BY <1>1, BodyIsOpen
<1>5. Len(l) \in Nat
  <2> DEFINE B == Bases(Node)
             G == Seq(Words)
  <2>1. Len(l) = Len(B) /\ B \in Seq(G)
    BY <1>2, BasesAreWords, MadeLabels
  <2> HIDE DEF B, G, l
  <2>2. QED
    BY <2>1
<1>6. data \o dd \in Seq(AnyDatum) /\ DataLabels(data) \subseteq DataLabels(data \o dd)
  BY <1>2, <1>3, DataOfIsTyped
<1>7. Left(items, program, E, S, DataLabels(data \o dd), T, labelCounter, labelCounter + Len(l))
  <2>1. CASE Node \in E
    BY <1>1, <1>2, <2>1, ExpressionsLeave
  <2>2. CASE Node \in S
    BY <1>1, <1>2, <1>4, <2>2, StatementsLeave
  <2>3. QED
    BY <1>3, <2>1, <2>2
<1> HIDE DEF items, dd, l
<1>8. PICK W : Brings(items, Activations(program, E, S, DataLabels(data \o dd), T \cup W), W,
                      labelCounter, labelCounter + Len(l))
  BY <1>7 DEF Left
<1>9. Brings(items, Activations(program, E, S, DataLabels(data'), T \cup W), W, labelCounter, labelCounter')
  BY <1>1, <1>8
<1>10. labelCounter' \in Nat /\ labelCounter <= labelCounter'
  BY <1>1, <1>2, <1>5
<1>11. QED
  BY <1>1, <1>6, <1>9, <1>10, BringsKeepsInv

LEMMA ForRoundsKeepsInv ==
    ASSUME NEW E, NEW S, Inv(E, S), ForRounds
    PROVE  Inv(E, S)'
<1> DEFINE B == << Compound("for", "start"), Compound("for", "update"), Compound("for", "end") >>
           l == makeLabels(B)
           T == AtHand(code, work, endLabel)
           items == emitForRounds(Node, l)
           high == labelCounter + Len(l)
           D == DataLabels(data)
<1>1. /\ work # <<>> /\ Top.task = "rounds"
      /\ work' = Replaced(work, items)
      /\ labelCounter' = labelCounter + Len(l)
      /\ program' = program /\ code' = code /\ areas' = areas /\ stackSize' = stackSize /\ data' = data
      /\ endLabel' = endLabel /\ loopStack' = loopStack /\ next' = next /\ diagnostic' = diagnostic
  BY DEF ForRounds, Running, Then, frameVars
<1>2. /\ StmtClosed(S, E) /\ labelCounter \in Nat /\ data \in Seq(AnyDatum)
  BY DEF Inv, Typed, Resolvable, TreesOf
<1>3. Node \in S /\ Node.kind = "for"
  BY <1>1, NodeIsTyped
<1>4. Node.cond \in E /\ Node.body \in S /\ Node.update \in Seq({x \in S : x.kind \in Assignments})
  BY <1>2, <1>3 DEF StmtClosed
<1>5. Node.update \in Seq(S)
  <2> DEFINE V == {x \in S : x.kind \in Assignments}
  <2>1. V \subseteq S /\ Node.update \in Seq(V)
    BY <1>4
  <2> HIDE DEF V
  <2>2. QED
    BY <2>1, SeqMonotonic
<1>6. /\ B \in Seq(Seq(Words)) /\ Len(B) = 3 /\ DOMAIN B = {1, 2, 3}
      /\ \A i \in {1, 2, 3} : B[i] \in ConstructBases
  <2> DEFINE G == Seq(Words)
  <2>1. Compound("for", "start") \in G /\ Compound("for", "update") \in G /\ Compound("for", "end") \in G
    <3>1. {"for", "start", "update", "end"} \subseteq Words
      BY DEF Words
    <3>2. QED
      BY <3>1, CompoundsAreWords
  <2> HIDE DEF G
  <2>2. B \in Seq(G)
    BY <2>1
  <2>3. \A i \in {1, 2, 3} : B[i] \in ConstructBases
    BY DEF ConstructBases
  <2>4. QED
    BY <2>2, <2>3 DEF G
<1> HIDE DEF B
<1>7. /\ Len(l) = 3
      /\ \A i \in {1, 2, 3} : /\ l[i] \in AnyOperand /\ ForConstruct(l[i])
                              /\ l[i].n \in labelCounter .. high - 1
                              /\ \A j \in {1, 2, 3} : l[i] = l[j] => i = j
  BY <1>2, <1>6, MadeLabels DEF ForConstruct
<1> HIDE DEF l
<1> DEFINE W == {l[1], l[2], l[3]}
           U == T \cup W
<1>8. /\ l[1] \in U /\ l[2] \in U /\ l[3] \in U
      /\ l[1] # l[2] /\ l[1] # l[3] /\ l[2] # l[3]
      /\ \A i \in 1 .. 3 : l[i] \in AnyOperand /\ ForConstruct(l[i]) /\ l[i].n \in labelCounter .. high - 1
  <2>1. \A i \in 1 .. 3 : i \in {1, 2, 3}
    OBVIOUS
  <2> HIDE DEF high
  <2>2. QED
    BY <1>7, <2>1
<1> HIDE DEF U, high, D
<1>9. Brings(items, Activations(program, E, S, D, U), W, labelCounter, high)
  BY <1>4, <1>5, <1>8, RoundsBring
<1> HIDE DEF items, W
<1>10. Brings(items, Activations(program, E, S, DataLabels(data'), T \cup W), W, labelCounter, labelCounter')
  BY <1>1, <1>9 DEF U, high, D
<1>11. labelCounter' \in Nat /\ labelCounter <= labelCounter'
  BY <1>1, <1>2, <1>7
<1>12. data' \in Seq(AnyDatum) /\ DataLabels(data) \subseteq DataLabels(data')
  BY <1>1, <1>2
<1>13. QED
  BY <1>1, <1>10, <1>11, <1>12, BringsKeepsInv

\* A step that leaves all but the work as it is.
LEMMA PlainStepKeepsInv ==
    ASSUME NEW E, NEW S, Inv(E, S), NEW items, work # <<>>, Top.task = "generate",
           Brings(items, Activations(program, E, S, DataLabels(data), AtHand(code, work, endLabel) \cup {}), {},
                  labelCounter, labelCounter),
           work' = Replaced(work, items),
           UNCHANGED <<program, code, data, labelCounter, areas, stackSize, endLabel, loopStack, next, diagnostic>>
    PROVE  Inv(E, S)'
<1>1. labelCounter \in Nat /\ data \in Seq(AnyDatum)
  BY DEF Inv, Typed
<1>2. Brings(items, Activations(program, E, S, DataLabels(data'), AtHand(code, work, endLabel) \cup {}), {},
             labelCounter, labelCounter')
  OBVIOUS
<1>3. /\ data' \in Seq(AnyDatum) /\ DataLabels(data) \subseteq DataLabels(data')
      /\ labelCounter' \in Nat /\ labelCounter <= labelCounter'
  BY <1>1
<1>4. QED
  BY <1>2, <1>3, BringsKeepsInv

LEMMA UnknownKeepsInv ==
    ASSUME NEW E, NEW S, Inv(E, S), Unknown
    PROVE  Inv(E, S)'
<1> DEFINE items == <<Refuse("this statement or expression")>>
<1>1. /\ work # <<>> /\ Top.task = "generate" /\ work' = Replaced(work, items)
      /\ UNCHANGED <<program, code, data, labelCounter, areas, stackSize, endLabel, loopStack, next, diagnostic>>
  BY DEF Unknown, Generating, Running, Then, frameVars
<1>2. "this statement or expression" \in Messages
  BY DEF Messages
<1>3. items \in Seq(Plain(E, S, FunctionLabels(program), DataLabels(data)))
  BY <1>2, RefusalIsPlain
<1> HIDE DEF items
<1>4. Brings(items, Activations(program, E, S, DataLabels(data), AtHand(code, work, endLabel) \cup {}), {},
             labelCounter, labelCounter)
  BY <1>3, PlainBrings
<1>5. QED
  BY <1>1, <1>4, PlainStepKeepsInv

LEMMA LeaveOrRepeatKeepsInv ==
    ASSUME NEW E, NEW S, Inv(E, S), LeaveOrRepeat
    PROVE  Inv(E, S)'
<1> DEFINE T == AtHand(code, work, endLabel)
           D == DataLabels(data)
           X == Activations(program, E, S, D, T \cup {})
           none == <<Refuse("break or continue outside loop")>>
           loop == Last(loopStack)
           to == IF Node.kind = "break" THEN loop.breakLabel ELSE loop.continueLabel
           jump == <<Emit(<<Do1("jmp", to)>>)>>
           items == IF loopStack = <<>> THEN none ELSE jump
<1>1. /\ work # <<>> /\ Top.task = "generate" /\ work' = Replaced(work, items)
      /\ UNCHANGED <<program, code, data, labelCounter, areas, stackSize, endLabel, loopStack, next, diagnostic>>
  BY DEF LeaveOrRepeat, Generating, Running, Then, frameVars
<1>2. Brings(none, X, {}, labelCounter, labelCounter)
  <2>1. "break or continue outside loop" \in Messages
    BY DEF Messages
  <2>2. none \in Seq(Plain(E, S, FunctionLabels(program), D))
    BY <2>1, RefusalIsPlain
  <2>3. QED
    BY <2>2, PlainBrings
<1>3. ASSUME loopStack # <<>> PROVE Brings(jump, X, {}, labelCounter, labelCounter)
  <2> DEFINE C == Contexts(T)
  <2>1. loopStack \in Seq(C)
    BY DEF Inv, Typed
  <2>2. loop \in C
    <3> HIDE DEF C
    <3>1. QED
      BY <1>3, <2>1 DEF Last
  <2>3. to \in T
    BY <2>2 DEF Contexts
  <2>4. T \subseteq AnyOperand
    <3>1. code \in Seq(AnyLine) /\ endLabel \in AnyOperand
      BY DEF Inv, Typed
    <3>2. \A i \in DOMAIN code : code[i].to \in AnyOperand
      <4>1. \A i \in DOMAIN code : code[i] \in AnyLine
        BY <3>1
      <4>2. \A x \in AnyLine : x.to \in AnyOperand
        BY DEF AnyLine
      <4>3. QED
        BY <4>1, <4>2
    <3>3. Placed(code) \subseteq AnyOperand
      BY <3>2 DEF Placed
    <3>4. \A k \in DOMAIN work : Writes(work[k]) \subseteq AnyOperand
      <4> DEFINE A == Activations(program, E, S, D, T)
                 G == Fits(FunctionLabels(program), D, T)
                 Q == Quiet(FunctionLabels(program), D)
      <4>1. work \in Seq(A)
        BY DEF Inv, Typed
      <4>2. \A it \in A : it.task = "emit" => it.node \in Seq(G) \cup Seq(Q)
        BY DEF Activations, Inside, Plain
      <4>3. Seq(G) \cup Seq(Q) \subseteq Seq(AnyLine)
        <5>1. G \subseteq AnyLine /\ Q \subseteq AnyLine
          BY DEF Fits, Quiet
        <5> HIDE DEF G, Q
        <5>2. Seq(G) \subseteq Seq(AnyLine) /\ Seq(Q) \subseteq Seq(AnyLine)
          BY <5>1, SeqMonotonic
        <5>3. QED
          BY <5>2
      <4>4. \A lines \in Seq(AnyLine) : LabelsOf(lines) \subseteq AnyOperand
        <5>1. \A lines \in Seq(AnyLine) : \A i \in DOMAIN lines : lines[i] \in AnyLine
          OBVIOUS
        <5>2. \A x \in AnyLine : x.to \in AnyOperand
          BY DEF AnyLine
        <5>3. QED
          BY <5>1, <5>2 DEF LabelsOf
      <4> HIDE DEF A
      <4>5. \A k \in DOMAIN work : work[k] \in A
        BY <4>1
      <4>6. QED
        BY <4>2, <4>3, <4>4, <4>5 DEF Writes
    <3>5. Owed(work, endLabel) \subseteq AnyOperand
      BY <3>1, <3>4, OwedIs
    <3>6. QED
      BY <3>3, <3>5 DEF AtHand
  <2>5. to \in AnyOperand /\ to \in T \cup {}
    BY <2>3, <2>4
  <2> DEFINE U == T \cup {}
  <2> HIDE DEF U, to
  <2>6. Brings(<<Emit(<<Do1("jmp", to)>>)>>, Activations(program, E, S, D, U), {}, labelCounter, labelCounter)
    BY <2>5, JumpsBring DEF U
  <2>7. QED
    BY <2>6 DEF U, to
<1> HIDE DEF X, none, jump
<1>4. Brings(items, X, {}, labelCounter, labelCounter)
  BY <1>2, <1>3
<1> HIDE DEF items
<1>5. QED
  BY <1>1, <1>4, PlainStepKeepsInv DEF X

LEMMA SetDiagnosticKeepsInv ==
    ASSUME NEW E, NEW S, Inv(E, S), SetDiagnostic
    PROVE  Inv(E, S)'
<1> DEFINE X == Activations(program, E, S, DataLabels(data), AtHand(code, Replaced(work, <<>>), endLabel))
<1>1. /\ work # <<>> /\ Top.task = "refuse" /\ work' = Replaced(work, <<>>)
      /\ diagnostic' = (IF diagnostic = "" THEN Node ELSE diagnostic)
      /\ UNCHANGED <<program, code, data, labelCounter, areas, stackSize, endLabel, loopStack, next>>
  BY DEF SetDiagnostic, Running, Then, frameVars
<1>2. /\ data' = data /\ labelCounter' = labelCounter /\ stackSize' = stackSize
  BY DEF SetDiagnostic, frameVars
<1>3. Node \in Messages
  BY <1>1, NodeIsTyped
<1>4. diagnostic' # ""
  <2>1. "" \notin Messages
    BY DEF Messages
  <2>2. QED
    BY <1>1, <1>3, <2>1
<1>5. /\ labelCounter \in Nat /\ data \in Seq(AnyDatum) /\ AreasOK /\ stackSize \in Int
  BY DEF Inv, Typed, AreasOK
<1>6. AreasOK'
  BY <1>1, <1>5 DEF AreasOK
<1>7. <<>> \in Seq(X) /\ DOMAIN <<>> = {}
  OBVIOUS
<1> HIDE DEF X
<1>8. /\ LoopsMatched'
      /\ loopStack' \in Seq(Contexts(AtHand(code, Replaced(work, <<>>), endLabel)))
  BY <1>1, <1>7, SameLoops
<1>9. Allowed(Top, <<>>, labelCounter, labelCounter')
  BY <1>7 DEF Allowed, WritesApart
<1>10. /\ data' \in Seq(AnyDatum) /\ DataLabels(data) \subseteq DataLabels(data')
      /\ labelCounter' \in Nat /\ labelCounter <= labelCounter' /\ stackSize' \in Int
  BY <1>5, <1>2
<1>11. <<>> \in Seq(Activations(program, E, S, DataLabels(data'), AtHand(code, Replaced(work, <<>>), endLabel)))
  BY <1>1, <1>7 DEF X
<1>12. QED
  BY <1>1, <1>4, <1>6, <1>8, <1>9, <1>10, <1>11, PushKeepsInv

LEMMA InnerStatements ==
    ASSUME NEW E, NEW S, StmtClosed(S, E), NEW n \in S
    PROVE  Inner(n) \in Seq(S)
<1>1. CASE n.kind = "block"
  <2>1. Inner(n) = n.stmts
    BY <1>1 DEF Inner
  <2>2. QED
    BY <1>1, <2>1 DEF StmtClosed
<1>2. CASE n.kind = "if"
  <2>1. n.then \in S /\ n.else \in Seq(S)
    BY <1>2 DEF StmtClosed
  <2>2. <<n.then>> \in Seq(S)
    BY <2>1
  <2>3. Inner(n) = <<n.then>> \o n.else
    BY <1>2 DEF Inner
  <2>4. QED
    BY <2>1, <2>2, <2>3, ConcatElements
<1>3. CASE n.kind = "while"
  <2>1. n.body \in S
    BY <1>3 DEF StmtClosed
  <2>2. Inner(n) = <<n.body>>
    BY <1>3 DEF Inner
  <2>3. QED
    BY <2>1, <2>2
<1>4. CASE n.kind = "for"
  <2> DEFINE V == {x \in S : x.kind \in Assignments \cup {"varDecl"}}
             U == {x \in S : x.kind \in Assignments}
  <2>1. n.body \in S /\ n.init \in Seq(V) /\ n.update \in Seq(U)
    BY <1>4 DEF StmtClosed
  <2>2. n.init \in Seq(S) /\ n.update \in Seq(S)
    <3>1. V \subseteq S /\ U \subseteq S
      OBVIOUS
    <3> HIDE DEF V, U
    <3>2. QED
      BY <2>1, <3>1, SeqMonotonic
  <2>3. <<n.body>> \in Seq(S)
    BY <2>1
  <2>4. (n.init \o n.update) \o <<n.body>> \in Seq(S)
    BY <2>2, <2>3, ConcatElements
  <2>5. Inner(n) = (n.init \o n.update) \o <<n.body>>
    BY <1>4 DEF Inner
  <2>6. QED
    BY <2>4, <2>5
<1>5. CASE n.kind = "switch"
  <2> DEFINE C == [value : Int, stmts : Seq(S)]
             bodies == [i \in DOMAIN n.cases |-> n.cases[i].stmts]
             G == Seq(S)
  <2>1. n.cases \in Seq(C) /\ n.default \in Seq(S)
    BY <1>5 DEF StmtClosed
  <2>2. DOMAIN n.cases = 1 .. Len(n.cases) /\ Len(n.cases) \in Nat /\ \A i \in DOMAIN n.cases : n.cases[i] \in C
    <3> HIDE DEF C
    <3>1. QED
      BY <2>1
  <2>3. \A i \in DOMAIN n.cases : bodies[i] \in G
    BY <2>2
  <2>4. bodies = [i \in 1 .. Len(n.cases) |-> bodies[i]]
    BY <2>2
  <2> DEFINE m == Len(n.cases)
  <2> HIDE DEF bodies, G, m
  <2>5. bodies \in Seq(G)
    <3>1. m \in Nat /\ bodies = [i \in 1 .. m |-> bodies[i]] /\ \A i \in 1 .. m : bodies[i] \in G
      BY <2>2, <2>3, <2>4 DEF m
    <3>2. QED
      BY <3>1
  <2>6. FlattenSeq(bodies) \in Seq(S)
    BY <2>5, FlattenedIsSeq DEF G
  <2>7. Inner(n) = FlattenSeq(bodies) \o n.default
    BY <1>5 DEF Inner, bodies
  <2>8. QED
    BY <2>1, <2>6, <2>7, ConcatElements
<1>6. CASE n.kind \notin {"block", "if", "while", "for", "switch"}
  <2>1. Inner(n) = <<>>
    BY <1>6 DEF Inner
  <2>2. QED
    BY <2>1
<1>7. QED
  BY <1>1, <1>2, <1>3, <1>4, <1>5, <1>6

\* A step on the statements before the code of a function, which brings no labels.
LEMMA CollectingKeepsInv ==
    ASSUME NEW E, NEW S, Inv(E, S), NEW items, work # <<>>, Top.task = "collect",
           items \in Seq(Activations(program, E, S, DataLabels(data), AtHand(code, work, endLabel))),
           \A k \in DOMAIN items : items[k].task \in {"collect", "refuse"},
           work' = Replaced(work, items), AreasOK', stackSize' \in Int,
           UNCHANGED <<program, code, data, labelCounter, endLabel, loopStack, next, diagnostic>>
    PROVE  Inv(E, S)'
<1> DEFINE T == AtHand(code, work, endLabel)
           T2 == AtHand(code, Replaced(work, items), endLabel)
           D == DataLabels(data)
           X == Activations(program, E, S, D, T)
<1>1. items \in Seq(X)
  OBVIOUS
<1> HIDE DEF X
<1>2. LoopsMatched' /\ loopStack' \in Seq(Contexts(T2)) /\ T \subseteq T2
  BY <1>1, SameLoops
<1>3. items \in Seq(Activations(program, E, S, D, T2))
  <2> HIDE DEF T, T2, D
  <2>1. QED
    BY <1>1, <1>2, ActivationsGrow DEF X
<1>4. \A k \in DOMAIN items : Writes(items[k]) = {} /\ items[k].task \notin {"emit", "prologue", "epilogue"}
  BY DEF Writes
<1>5. Allowed(Top, items, labelCounter, labelCounter')
  BY <1>4 DEF Allowed, WritesApart
<1>6. labelCounter \in Nat /\ data \in Seq(AnyDatum)
  BY DEF Inv, Typed
<1>7. /\ data' \in Seq(AnyDatum) /\ DataLabels(data) \subseteq DataLabels(data')
      /\ labelCounter' \in Nat /\ labelCounter <= labelCounter'
  BY <1>6
<1>8. items \in Seq(Activations(program, E, S, DataLabels(data'), T2))
  BY <1>3
<1>9. QED
  BY <1>2, <1>5, <1>7, <1>8, PushKeepsInv

LEMMA CollectInnerKeepsInv ==
    ASSUME NEW E, NEW S, Inv(E, S), CollectInner
    PROVE  Inv(E, S)'
<1> DEFINE items == CollectAll(Inner(Node))
           X == Activations(program, E, S, DataLabels(data), AtHand(code, work, endLabel))
           nodes == Inner(Node)
<1>1. /\ work # <<>> /\ Top.task = "collect" /\ work' = Replaced(work, items)
      /\ UNCHANGED <<program, code, data, labelCounter, areas, stackSize, endLabel, loopStack, next, diagnostic>>
  BY DEF CollectInner, Running, Then, frameVars
<1>2. Node \in S /\ StmtClosed(S, E)
  BY <1>1, NodeIsTyped DEF Inv, Resolvable, TreesOf
<1>3. nodes \in Seq(S)
  BY <1>2, InnerStatements
<1>4. \A s \in S : Collect(s) \in X
  BY DEF Activations, Collect, Item
<1> HIDE DEF X, nodes
<1>5. items \in Seq(X) /\ \A k \in DOMAIN items : items[k].task = "collect"
  <2>1. items = [i \in DOMAIN nodes |-> Collect(nodes[i])]
    BY DEF CollectAll, nodes
  <2>2. DOMAIN nodes = 1 .. Len(nodes) /\ Len(nodes) \in Nat /\ \A i \in DOMAIN nodes : nodes[i] \in S
    BY <1>3
  <2>3. \A i \in DOMAIN nodes : Collect(nodes[i]) \in X /\ Collect(nodes[i]).task = "collect"
    BY <1>4, <2>2 DEF Collect, Item
  <2> HIDE DEF items
  <2>4. QED
    BY <2>1, <2>2, <2>3
<1> HIDE DEF items
<1>6. AreasOK' /\ stackSize' \in Int
  <2>1. AreasOK /\ stackSize \in Int
    BY DEF Inv, Typed, AreasOK
  <2>2. QED
    BY <1>1, <2>1 DEF AreasOK
<1>7. QED
  BY <1>1, <1>5, <1>6, CollectingKeepsInv DEF X

LEMMA CollectAreaKeepsInv ==
    ASSUME NEW E, NEW S, Inv(E, S), CollectArea
    PROVE  Inv(E, S)'
<1> DEFINE X == Activations(program, E, S, DataLabels(data), AtHand(code, work, endLabel))
           none == <<Refuse("invalid local variable")>>
           wrong == Node.slot < 0 \/ (Node.type = "array" /\ Node.size <= 0)
           items == IF wrong THEN none ELSE <<>>
           area == [base |-> stackSize + 8, size |-> Node.size]
           new == [s \in DOMAIN areas \cup {Node.slot} |-> IF s = Node.slot THEN area ELSE areas[s]]
<1>1. /\ work # <<>> /\ Top.task = "collect" /\ work' = Replaced(work, items)
      /\ UNCHANGED <<program, code, data, labelCounter, endLabel, loopStack, next, diagnostic>>
      /\ wrong => areas' = areas /\ stackSize' = stackSize
      /\ ~wrong => areas' = new /\ stackSize' = stackSize + Node.size * 8
  BY DEF CollectArea, Running, Then
<1>2. Node \in S /\ StmtClosed(S, E) /\ Node.kind = "varDecl"
  BY <1>1, NodeIsTyped DEF Inv, Resolvable, TreesOf, CollectArea, DeclaresArea
<1>3. Node.size \in Int
  BY <1>2 DEF StmtClosed
<1>4. AreasOK /\ stackSize \in Int
  BY DEF Inv, Typed, AreasOK
<1>5. AreasOK' /\ stackSize' \in Int
  <2>1. CASE wrong
    BY <1>1, <1>4, <2>1 DEF AreasOK
  <2>2. CASE ~wrong
    <3>1. area \in [base : Int, size : Int]
      BY <1>3, <1>4
    <3> HIDE DEF area
    <3>2. \A s \in DOMAIN new : new[s] = area \/ (s \in DOMAIN areas /\ new[s] = areas[s])
      OBVIOUS
    <3>3. areas' = new /\ stackSize' = stackSize + Node.size * 8
      BY <1>1, <2>2
    <3> HIDE DEF new
    <3>4. AreasOK'
      BY <1>4, <3>1, <3>2, <3>3 DEF AreasOK
    <3>5. stackSize + Node.size * 8 \in Int
      BY <1>3, <1>4
    <3>6. QED
      BY <3>3, <3>4, <3>5
  <2>3. QED
    BY <2>1, <2>2
<1>6. items \in Seq(X) /\ \A k \in DOMAIN items : items[k].task = "refuse"
  <2>1. Refuse("invalid local variable") \in X
    <3>1. "invalid local variable" \in Messages
      BY DEF Messages
    <3>2. QED
      BY <3>1 DEF Activations, Inside, Plain, Refuse, Item
  <2> DEFINE it == Refuse("invalid local variable")
  <2>2. it.task = "refuse"
    BY DEF Refuse, Item
  <2> HIDE DEF X, it
  <2>3. <<it>> \in Seq(X) /\ \A k \in DOMAIN <<it>> : <<it>>[k] = it
    <3>1. it \in X
      BY <2>1 DEF it
    <3> DEFINE s == <<it>>
    <3>2. s \in Seq(X) /\ DOMAIN s = {1} /\ s[1] = it
      BY <3>1
    <3> HIDE DEF s
    <3>3. \A k \in DOMAIN s : s[k] = it
      BY <3>2
    <3>4. QED
      BY <3>2, <3>3 DEF s
  <2>4. CASE wrong
    <3>1. items = <<it>>
      BY <2>4 DEF it
    <3> HIDE DEF items
    <3>2. QED
      BY <2>2, <2>3, <3>1
  <2>5. CASE ~wrong
    <3>1. items = <<>>
      BY <2>5
    <3> HIDE DEF items
    <3>2. QED
      BY <3>1
  <2>6. QED
    BY <2>4, <2>5
<1> HIDE DEF items, X
<1>7. \A k \in DOMAIN items : items[k].task \in {"collect", "refuse"}
  BY <1>6
<1>8. QED
  BY <1>1, <1>5, <1>6, <1>7, CollectingKeepsInv DEF X

LEMMA EnterLoopKeepsInv ==
    ASSUME NEW E, NEW S, Inv(E, S), EnterLoop
    PROVE  Inv(E, S)'
<1> DEFINE T == AtHand(code, work, endLabel)
           D == DataLabels(data)
           A == Activations(program, E, S, D, T)
           a == Gen(Node.body)
           b == Item("leaveLoop", Node.body)
           items == <<a, b>>
           v == Replaced(work, items)
           T2 == AtHand(code, v, endLabel)
           C == Contexts(T)
           C2 == Contexts(T2)
           loop == [breakLabel |-> Node.breakLabel, continueLabel |-> Node.continueLabel]
           n == Len(work)
<1>1. /\ work # <<>> /\ Top.task = "enterLoop" /\ work' = v
      /\ loopStack' = Append(loopStack, loop)
      /\ program' = program /\ code' = code /\ data' = data /\ labelCounter' = labelCounter
      /\ areas' = areas /\ stackSize' = stackSize /\ endLabel' = endLabel /\ next' = next
      /\ diagnostic' = diagnostic
  BY DEF EnterLoop, Running, Then, frameVars
<1>2. Node.breakLabel \in T /\ Node.continueLabel \in T /\ Node.body \in S
  BY <1>1, NodeIsTyped
<1>3. /\ work \in Seq(A) /\ loopStack \in Seq(C) /\ LoopsMatched /\ AreasOK /\ stackSize \in Int
      /\ labelCounter \in Nat /\ data \in Seq(AnyDatum)
  BY DEF Inv, Typed, AreasOK
<1>4. a \in A /\ b \in A
  BY <1>2 DEF Gen, Item, Activations, Inside, Plain
<1>5. a.task = "generate" /\ b.task = "leaveLoop"
  BY DEF Gen, Item
<1>6. loop \in C
  BY <1>2 DEF Contexts
<1>7. n \in DOMAIN work /\ work[n].task = "enterLoop"
  BY <1>1, TopIsTyped DEF Top
<1> HIDE DEF A, a, b, n, loop
<1>8. items \in Seq(A) /\ Len(items) = 2 /\ DOMAIN items = {1, 2} /\ items[1] = a /\ items[2] = b
  BY <1>4
<1>9. \A k \in DOMAIN items :
         /\ items[k].task \in {"generate", "leaveLoop"}
         /\ Writes(items[k]) = {}
  BY <1>5, <1>8 DEF Writes
<1> HIDE DEF items
<1>10. T \subseteq T2
  <2>1. Writes(work[n]) = {} /\ work[n].task # "epilogue"
    BY <1>7 DEF Writes
  <2>2. \A k \in DOMAIN items : items[k].task # "prologue"
    BY <1>9
  <2>3. Owed(work, endLabel) \subseteq Owed(v, endLabel)
    BY <1>1, <1>3, <1>8, <2>1, <2>2, OwedGrows DEF n
  <2>4. QED
    BY <2>3 DEF AtHand
<1>11. loopStack' \in Seq(C2)
  <2>1. C \subseteq C2
    BY <1>10 DEF Contexts
  <2> HIDE DEF C, C2
  <2>2. loopStack \in Seq(C2) /\ loop \in C2
    BY <1>3, <1>6, <2>1, SeqMonotonic
  <2>3. QED
    BY <1>1, <2>2, AppendProperties
<1>12. LoopsMatched'
  <2>1. Count(v, {"leaveLoop"}) = Count(work, {"leaveLoop"}) + 1
    <3>1. \A i \in 1 .. Len(items) - 1 : items[i].task \notin {"leaveLoop"}
      <4>1. \A i \in 1 .. 2 - 1 : i = 1
        OBVIOUS
      <4>2. QED
        BY <1>5, <1>8, <4>1
    <3>2. Count(v, {"leaveLoop"}) = Count(work, {"leaveLoop"}) - One(work[n].task \in {"leaveLoop"})
                                        + One(LastIn(items, {"leaveLoop"}))
      BY <1>1, <1>3, <1>8, <3>1, CountReplaced DEF n
    <3>3. LastIn(items, {"leaveLoop"})
      BY <1>5, <1>8 DEF LastIn
    <3>4. One(work[n].task \in {"leaveLoop"}) = 0 /\ One(LastIn(items, {"leaveLoop"})) = 1
      BY <1>7, <3>3 DEF One
    <3>5. Count(work, {"leaveLoop"}) \in Nat
      BY <1>3, CountProperties
    <3>6. QED
      BY <3>2, <3>4, <3>5
  <2>2. Len(Append(loopStack, loop)) = Len(loopStack) + 1
    <3> HIDE DEF C
    <3>1. loopStack \in Seq(C) /\ loop \in C
      BY <1>3, <1>6
    <3>2. QED
      BY <3>1, AppendProperties
  <2>3. Len(loopStack) = Count(work, {"leaveLoop"})
    BY <1>3 DEF LoopsMatched, Count
  <2>4. Len(loopStack)' = Count(v, {"leaveLoop"})
    BY <1>1, <2>1, <2>2, <2>3
  <2>5. QED
    BY <1>1, <2>4 DEF LoopsMatched, Count
<1>13. items \in Seq(Activations(program, E, S, D, T2))
  <2> HIDE DEF T, T2, D
  <2>1. QED
    BY <1>8, <1>10, ActivationsGrow DEF A
<1>14. Allowed(Top, items, labelCounter, labelCounter')
  <2>1. \A k \in DOMAIN items : items[k].task \notin {"prologue", "epilogue", "collect", "emit"}
    BY <1>9
  <2>2. Top.task \notin {"refuse", "collect"}
    BY <1>1
  <2>3. QED
    BY <1>9, <2>1, <2>2 DEF Allowed, WritesApart
<1>15. AreasOK' /\ stackSize' \in Int /\ data' \in Seq(AnyDatum) /\ DataLabels(data) \subseteq DataLabels(data')
       /\ labelCounter' \in Nat /\ labelCounter <= labelCounter'
  BY <1>1, <1>3 DEF AreasOK
<1>16. items \in Seq(Activations(program, E, S, DataLabels(data'), T2))
  BY <1>1, <1>13
<1>17. diagnostic # "" \/ Top.task = "refuse" => diagnostic' # ""
  BY <1>1
<1>18. QED
  BY <1>1, <1>11, <1>12, <1>14, <1>15, <1>16, <1>17, PushKeepsInv

LEMMA LeaveLoopKeepsInv ==
    ASSUME NEW E, NEW S, Inv(E, S), LeaveLoop
    PROVE  Inv(E, S)'
<1> DEFINE T == AtHand(code, work, endLabel)
           D == DataLabels(data)
           A == Activations(program, E, S, D, T)
           v == Replaced(work, <<>>)
           T2 == AtHand(code, v, endLabel)
           C == Contexts(T)
           C2 == Contexts(T2)
           n == Len(work)
<1>1. /\ work # <<>> /\ Top.task = "leaveLoop" /\ work' = v
      /\ loopStack' = Front(loopStack)
      /\ program' = program /\ code' = code /\ data' = data /\ labelCounter' = labelCounter
      /\ areas' = areas /\ stackSize' = stackSize /\ endLabel' = endLabel /\ next' = next
      /\ diagnostic' = diagnostic
  BY DEF LeaveLoop, Running, Then, frameVars
<1>2. /\ work \in Seq(A) /\ loopStack \in Seq(C) /\ LoopsMatched /\ AreasOK /\ stackSize \in Int
      /\ labelCounter \in Nat /\ data \in Seq(AnyDatum)
  BY DEF Inv, Typed, AreasOK
<1>3. n \in DOMAIN work /\ work[n].task = "leaveLoop" /\ DOMAIN work = 1 .. n
  BY <1>1, TopIsTyped DEF Top
<1> HIDE DEF A, n
<1>4. <<>> \in Seq(A) /\ DOMAIN <<>> = {} /\ Len(<<>>) = 0
  OBVIOUS
<1>5. T \subseteq T2
  <2>1. Writes(work[n]) = {} /\ work[n].task # "epilogue"
    BY <1>3 DEF Writes
  <2>2. Owed(work, endLabel) \subseteq Owed(v, endLabel)
    BY <1>1, <1>2, <1>4, <2>1, OwedGrows DEF n
  <2>3. QED
    BY <2>2 DEF AtHand
<1>6. /\ Count(work, {"leaveLoop"}) \in Nat /\ Count(work, {"leaveLoop"}) # 0
      /\ Count(v, {"leaveLoop"}) = Count(work, {"leaveLoop"}) - 1
  <2>1. /\ Count(work, {"leaveLoop"}) \in Nat
        /\ Count(work, {"leaveLoop"}) = 0 <=> \A i \in 1 .. n : work[i].task \notin {"leaveLoop"}
    BY <1>2, CountProperties DEF n
  <2>2. Count(work, {"leaveLoop"}) # 0
    BY <1>3, <2>1
  <2>3. \A i \in 1 .. Len(<<>>) - 1 : <<>>[i].task \notin {"leaveLoop"}
    BY <1>4
  <2>4. Count(v, {"leaveLoop"}) = Count(work, {"leaveLoop"}) - One(work[n].task \in {"leaveLoop"})
                                      + One(LastIn(<<>>, {"leaveLoop"}))
    BY <1>1, <1>2, <1>4, <2>3, CountReplaced DEF n
  <2>5. One(work[n].task \in {"leaveLoop"}) = 1 /\ One(LastIn(<<>>, {"leaveLoop"})) = 0
    BY <1>3 DEF One, LastIn
  <2>6. QED
    BY <2>1, <2>2, <2>4, <2>5
<1>7. Len(loopStack) = Count(work, {"leaveLoop"})
  BY <1>2 DEF LoopsMatched, Count
<1>8. loopStack' \in Seq(C2) /\ Len(loopStack') = Len(loopStack) - 1
  <2>1. C \subseteq C2
    BY <1>5 DEF Contexts
  <2> DEFINE m == Len(loopStack) - 1
  <2>2. loopStack' = SubSeq(loopStack, 1, m)
    BY <1>1 DEF Front
  <2>3. m \in 0 .. Len(loopStack)
    BY <1>6, <1>7
  <2> HIDE DEF C, C2, m
  <2>4. SubSeq(loopStack, 1, m) \in Seq(C) /\ Len(SubSeq(loopStack, 1, m)) = m
    BY <1>2, <2>3, PrefixProperties
  <2>5. loopStack' \in Seq(C2)
    BY <2>1, <2>2, <2>4, SeqMonotonic
  <2>6. QED
    BY <2>2, <2>4, <2>5 DEF m
<1>9. LoopsMatched'
  BY <1>1, <1>6, <1>7, <1>8 DEF LoopsMatched, Count
<1>10. Allowed(Top, <<>>, labelCounter, labelCounter')
  BY <1>1, <1>4 DEF Allowed, WritesApart
<1>11. AreasOK' /\ stackSize' \in Int /\ data' \in Seq(AnyDatum) /\ DataLabels(data) \subseteq DataLabels(data')
       /\ labelCounter' \in Nat /\ labelCounter <= labelCounter'
  BY <1>1, <1>2 DEF AreasOK
<1>12. <<>> \in Seq(Activations(program, E, S, DataLabels(data'), T2))
  OBVIOUS
<1>13. diagnostic # "" \/ Top.task = "refuse" => diagnostic' # ""
  BY <1>1
<1>14. QED
  BY <1>1, <1>8, <1>9, <1>10, <1>11, <1>12, <1>13, PushKeepsInv

-----------------------------------------------------------------------------
(* The steps that write lines.                                             *)

LEMMA EmitLinesKeepsInv ==
    ASSUME NEW E, NEW S, Inv(E, S), EmitLines
    PROVE  Inv(E, S)'
<1> DEFINE T == AtHand(code, work, endLabel)
           D == DataLabels(data)
           A == Activations(program, E, S, D, T)
           lines == Node
           v == Replaced(work, <<>>)
           n == Len(work)
<1>1. /\ work # <<>> /\ Top.task = "emit" /\ work' = v /\ code' = code \o lines
      /\ UNCHANGED <<program, data, labelCounter, areas, stackSize, endLabel, loopStack, next, diagnostic>>
  BY DEF EmitLines, Running, Then, frameVars
<1>2. lines \in Seq(Fits(FunctionLabels(program), D, T))
  BY <1>1, NodeIsTyped
<1>3. /\ work \in Seq(A) /\ Apart /\ Shape(program, work, next)
  BY DEF Inv, Typed
<1>4. /\ n \in DOMAIN work /\ n \in Nat /\ DOMAIN work = 1 .. n
      /\ work[n].task = "emit" /\ work[n].node = lines
  BY <1>1, TopIsTyped DEF Top, Node
<1>5. InBody(work)
  BY <1>1, BodyIsOpen
<1> HIDE DEF A, n, lines
<1>6. <<>> \in Seq(A)
  OBVIOUS
<1>7. v \in Seq(A) /\ Splits(v, work, <<>>)
  BY <1>1, <1>3, <1>6, ReplacedSplits
<1>8. Writes(work[n]) = LabelsOf(lines)
  BY <1>4 DEF Writes
<1>9. LinesApart(lines) /\ \A l \in LabelsOf(lines) : l.n \in 0 .. labelCounter - 1
  BY <1>3, <1>4, <1>8 DEF Apart, WritesApart
<1>10. LabelsOf(code) \cap LabelsOf(lines) = {}
  BY <1>3, <1>4, <1>8 DEF Apart
<1>11. \A k \in DOMAIN work : k # n => Writes(work[k]) \cap LabelsOf(lines) = {}
  BY <1>3, <1>4, <1>8 DEF Apart, WritesApart
<1>12. endLabel \notin LabelsOf(lines)
  BY <1>3, <1>4, <1>5, <1>8 DEF Apart
<1> HIDE DEF v
<1>13. \A k \in DOMAIN work : k # n => k \in DOMAIN v /\ v[k] = work[k]
  BY <1>7 DEF Splits, n
<1>14. InBody(v)
  <2>1. 1 \in DOMAIN work /\ work[1].task = "epilogue" /\ \A k \in DOMAIN work : work[k].task # "prologue"
    BY <1>4, <1>5 DEF InBody
  <2>2. 1 # n
    BY <1>4, <2>1
  <2>3. 1 \in DOMAIN v /\ v[1].task = "epilogue"
    BY <1>13, <2>1, <2>2
  <2>4. \A k \in DOMAIN v : v[k].task # "prologue"
    <3>1. \A k \in DOMAIN v : k \in DOMAIN work /\ v[k] = work[k]
      BY <1>7 DEF Splits
    <3>2. QED
      BY <2>1, <3>1
  <2>5. v # <<>>
    BY <2>3
  <2>6. QED
    BY <2>3, <2>4, <2>5 DEF InBody
<1>15. Owed(work, endLabel) \subseteq Owed(v, endLabel) \cup LabelsOf(lines)
  <2> DEFINE X == Owed(v, endLabel) \cup LabelsOf(lines)
  <2>1. endLabel \in X
    BY <1>14, OwedIs
  <2>2. ASSUME NEW k \in DOMAIN work PROVE Writes(work[k]) \subseteq X
    <3>1. CASE k = n
      BY <1>8, <3>1
    <3>2. CASE k # n
      <4>1. k \in DOMAIN v /\ v[k] = work[k]
        BY <1>13, <3>2
      <4>2. QED
        BY <4>1, OwedIs
    <3>3. QED
      BY <3>1, <3>2
  <2> HIDE DEF X
  <2>3. Owed(work, endLabel) \subseteq X
    BY <2>1, <2>2, OwedIs
  <2>4. QED
    BY <2>3 DEF X
<1>16. Shape(program, v, next)
  <2>1. Allowed(work[n], <<>>, 0, 0)
    BY DEF Allowed, WritesApart
  <2>2. work[n].task \notin {"prologue", "epilogue"}
    BY <1>4
  <2>3. QED
    BY <1>1, <1>3, <1>6, <2>1, <2>2, ShapeKept DEF v, n
<1>17. InBody(v) => InBody(work) /\ endLabel \notin LabelsOf(lines)
  BY <1>5, <1>12
<1>18. QED
  BY <1>1, <1>2, <1>9, <1>10, <1>11, <1>15, <1>16, <1>17, AppendKeepsInv DEF v, n

LEMMA EpilogueKeepsInv ==
    ASSUME NEW E, NEW S, Inv(E, S), Based, Epilogue
    PROVE  Inv(E, S)' /\ LabelsOf(code') = LabelsOf(code) \cup {endLabel}
<1> DEFINE T == AtHand(code, work, endLabel)
           D == DataLabels(data)
           F == FunctionLabels(program)
           A == Activations(program, E, S, D, T)
           G == Fits(F, D, T)
           a == Mov(Result(Node.returnType), Imm(0))
           b == Do1("label", endLabel)
           c == Do("leave")
           d == Do("ret")
           lines == <<a, b, c, d>>
           v == Replaced(work, <<>>)
           n == Len(work)
<1>1. /\ work # <<>> /\ Top.task = "epilogue" /\ work' = v /\ code' = code \o lines
      /\ UNCHANGED <<program, data, labelCounter, areas, stackSize, endLabel, loopStack, next, diagnostic>>
  BY DEF Epilogue, Running, Then, frameVars
<1>2. /\ work \in Seq(A) /\ Apart /\ Shape(program, work, next) /\ endLabel \in AnyOperand
  BY DEF Inv, Typed
<1>3. /\ n \in DOMAIN work /\ n \in Nat /\ DOMAIN work = 1 .. n
      /\ work[n].task = "epilogue"
  BY <1>1, TopIsTyped DEF Top
<1> HIDE DEF A, n
<1>4. n = 1
  BY <1>2, <1>3 DEF Shape
<1>5. \A k \in DOMAIN work : k = 1 /\ Writes(work[k]) = {}
  BY <1>3, <1>4 DEF Writes
<1>6. InBody(work)
  BY <1>1, <1>3, <1>4, <1>5 DEF InBody
<1>7. endLabel.n \in 0 .. labelCounter - 1 /\ endLabel \notin LabelsOf(code)
  BY <1>2, <1>6 DEF Apart
<1>8. v = <<>>
  <2>1. <<>> \in Seq(A) /\ Len(<<>>) = 0
    OBVIOUS
  <2>2. v \in Seq(A) /\ Len(v) = Len(work) - 1 + Len(<<>>)
    BY <1>1, <1>2, <2>1, ReplacedProperties
  <2> HIDE DEF v
  <2>3. Len(v) = 0
    BY <1>4, <2>1, <2>2 DEF n
  <2>4. QED
    BY <2>2, <2>3
<1>9. endLabel \in T
  <2>1. endLabel \in Owed(work, endLabel)
    BY <1>6, OwedIs
  <2>2. QED
    BY <2>1 DEF AtHand
<1>10. a \in G /\ b \in G /\ c \in G /\ d \in G
  <2>1. 0 \in Int \cup {IntWidth}
    OBVIOUS
  <2>2. Imm(0) \in NoLabel
    BY <2>1, OperandsHaveTypes
  <2>3. "leave" \in Harmless /\ "ret" \in Harmless
    BY DEF Harmless, OpCodes, Jumps
  <2>4. a \in Quiet(F, D) /\ c \in Quiet(F, D) /\ d \in Quiet(F, D)
    BY <2>2, <2>3, LinesAreQuiet, ResultHasType
  <2>5. Quiet(F, D) \subseteq G
    BY <1>2, <1>9, JumpsFit
  <2>6. ForEnd(endLabel, F)
    BY <1>7 DEF Based, Unnumbered
  <2>7. b \in G
    BY <1>2, <1>9, <2>6, JumpsFit
  <2>8. QED
    BY <2>4, <2>5, <2>7
<1>11. a.op # "label" /\ b.op = "label" /\ b.to = endLabel /\ c.op # "label" /\ d.op # "label"
  BY DEF Mov, Do1, Do, Ins
<1> HIDE DEF G, a, b, c, d
<1>12. lines \in Seq(G) /\ DOMAIN lines = {1, 2, 3, 4}
       /\ lines[1] = a /\ lines[2] = b /\ lines[3] = c /\ lines[4] = d
  BY <1>10
<1> HIDE DEF lines
<1>13. {i \in DOMAIN lines : lines[i].op = "label"} = {2}
  BY <1>11, <1>12
<1>14. LabelsOf(lines) = {endLabel}
  BY <1>11, <1>12, <1>13 DEF LabelsOf
<1>15. LinesApart(lines)
  BY <1>13 DEF LinesApart
<1>16. Owed(work, endLabel) \subseteq Owed(v, endLabel) \cup LabelsOf(lines)
  <2> DEFINE X == Owed(v, endLabel) \cup LabelsOf(lines)
  <2>1. endLabel \in X /\ \A k \in DOMAIN work : Writes(work[k]) \subseteq X
    BY <1>5, <1>14
  <2> HIDE DEF X
  <2>2. Owed(work, endLabel) \subseteq X
    BY <2>1, OwedIs
  <2>3. QED
    BY <2>2 DEF X
<1>17. Shape(program, v, next) /\ ~InBody(v)
  <2> HIDE DEF v
  <2>1. ~InBody(v)
    BY <1>8 DEF InBody
  <2>2. DOMAIN v = {}
    BY <1>8
  <2>3. QED
    BY <1>8, <2>1, <2>2 DEF Shape
<1>18. /\ LabelsOf(code) \cap LabelsOf(lines) = {}
       /\ \A l \in LabelsOf(lines) : l.n \in 0 .. labelCounter - 1
       /\ \A k \in DOMAIN work : k # n => Writes(work[k]) \cap LabelsOf(lines) = {}
       /\ InBody(v) => InBody(work) /\ endLabel \notin LabelsOf(lines)
  BY <1>5, <1>7, <1>14, <1>17
<1> HIDE DEF v
<1>19. Inv(E, S)'
  BY <1>1, <1>12, <1>15, <1>16, <1>17, <1>18, AppendKeepsInv DEF v, n, G
<1>20. code \in Seq(AnyLine) /\ lines \in Seq(AnyLine)
  <2>1. G \subseteq AnyLine
    BY DEF G, Fits
  <2>2. QED
    BY <1>12, <2>1, SeqMonotonic DEF Inv, Typed
<1>21. LabelsOf(code') = LabelsOf(code) \cup {endLabel}
  BY <1>1, <1>14, <1>20, LabelsOfBoth
<1>22. QED
  BY <1>19, <1>21

-----------------------------------------------------------------------------
(* The texts of the labels in a file.                                      *)

\* The labels of the code of a program with the function labels F.
CodeLabel(x, F) == x \in HandlerLabels \cup F \/ ForConstruct(x) \/ ForEnd(x, F)

\* How the names of functions and handlers begin, and that those of handlers do
\* not end in a digit.
LEMMA NamesBegin ==
    ASSUME NEW p, NEW E, NEW S, TreesOf(p, E, S), NEW x \in HandlerLabels \cup FunctionLabels(p)
    PROVE  /\ x = Label(x.name, Unnumbered) /\ Text(x) = x.name
           /\ x.name \in Seq(Words) /\ Len(x.name) > 0 /\ x.name[1] \in {"ml", "main"}
           /\ x \in HandlerLabels => x.name[Len(x.name)] \notin Decimals
<1>1. CASE x \in HandlerLabels
  <2> DEFINE b == <<"ml", Underscore, "array", Underscore, "bounds", Underscore, "error">>
             s == <<"ml", Underscore, "shift", Underscore, "error">>
  <2>1. x = Label(b, Unnumbered) \/ x = Label(s, Unnumbered)
    BY <1>1 DEF HandlerLabels, BoundsError, ShiftError
  <2>2. {"ml", "array", "bounds", "shift", "error", Underscore} \subseteq Words
    BY DEF Words
  <2>3. b \in Seq(Words) /\ Len(b) = 7 /\ b[1] = "ml" /\ b[7] = "error"
    BY <2>2
  <2>4. s \in Seq(Words) /\ Len(s) = 5 /\ s[1] = "ml" /\ s[5] = "error"
    BY <2>2
  <2> HIDE DEF b, s
  <2>5. (x.name = b \/ x.name = s) /\ x = Label(x.name, Unnumbered) /\ x.n = Unnumbered
    BY <2>1 DEF Label, Operand
  <2>6. Text(x) = x.name
    BY <2>5 DEF Text
  <2>7. x.name \in Seq(Words) /\ Len(x.name) > 0 /\ x.name[1] = "ml" /\ x.name[Len(x.name)] = "error"
    <3> DEFINE m == x.name
               Good == m \in Seq(Words) /\ Len(m) > 0 /\ m[1] = "ml" /\ m[Len(m)] = "error"
    <3>1. m = b \/ m = s
      BY <2>5
    <3> HIDE DEF m
    <3>2. ASSUME m = b PROVE Good
      <4>1. Len(m) = 7 /\ m[Len(m)] = b[7] /\ m \in Seq(Words) /\ m[1] = b[1]
        BY <2>3, <3>2
      <4>2. QED
        BY <2>3, <4>1
    <3>3. ASSUME m = s PROVE Good
      <4>1. Len(m) = 5 /\ m[Len(m)] = s[5] /\ m \in Seq(Words) /\ m[1] = s[1]
        BY <2>4, <3>3
      <4>2. QED
        BY <2>4, <4>1
    <3>4. Good
      BY <3>1, <3>2, <3>3
    <3>5. QED
      BY <3>4 DEF m
  <2>8. QED
    BY <2>5, <2>6, <2>7, DigitsDiffer
<1>2. CASE x \in FunctionLabels(p) /\ x \notin HandlerLabels
  <2>1. PICK i \in DOMAIN p : x = FunctionLabel(p[i].path)
    BY <1>2 DEF FunctionLabels
  <2> DEFINE path == p[i].path
             rest == [j \in DOMAIN path |-> IF path[j] = ":" THEN Underscore ELSE path[j]]
             m == mangleFunctionName(path)
  <2>2. m \in Seq(Words) /\ path \in Seq(Strings)
    <3>1. FunctionLabel(path) \in AnyOperand
      BY <2>1, FunctionLabelsHaveTypes
    <3>2. FunctionLabel(path).name = m
      BY DEF FunctionLabel, Label, Operand
    <3> HIDE DEF path, m
    <3>3. m \in Seq(Words)
      BY <3>1, <3>2 DEF AnyOperand
    <3>4. path \in Seq(Strings)
      BY <2>1, Zenon DEF TreesOf, Strings, path
    <3>5. QED
      BY <3>3, <3>4
  <2>3. x = Label(m, Unnumbered)
    BY <2>1 DEF FunctionLabel
  <2>4. Len(m) > 0 /\ m[1] \in {"ml", "main"}
    <3>1. CASE path = <<"main">>
      <4>1. m = <<"main">>
        BY <3>1 DEF mangleFunctionName
      <4> HIDE DEF m
      <4>2. QED
        BY <4>1
    <3>2. CASE path # <<"main">>
      <4> DEFINE a == <<"ml", Underscore>>
      <4>1. m = a \o rest
        BY <3>2, Zenon DEF mangleFunctionName
      <4>2. a \in Seq(Words)
        <5>1. {"ml", Underscore} \subseteq Words
          BY DEF Words
        <5>2. QED
          BY <5>1
      <4>3. rest \in Seq(Words)
        <5> HIDE DEF path
        <5>1. {path[j] : j \in DOMAIN path} \subseteq Words /\ Underscore \in Words
          BY <2>2 DEF Words
        <5>2. \A j \in DOMAIN path : (IF path[j] = ":" THEN Underscore ELSE path[j]) \in Words
          BY <5>1
        <5>3. QED
          BY <2>2, <5>2
      <4>4. Len(a) = 2 /\ a[1] = "ml"
        OBVIOUS
      <4> HIDE DEF a, rest, m
      <4>5. Len(a \o rest) = Len(a) + Len(rest) /\ \A j \in 1 .. Len(a) : (a \o rest)[j] = a[j]
        BY <4>2, <4>3, ConcatElements
      <4>6. Len(rest) \in Nat /\ 1 \in 1 .. 2
        BY <4>3
      <4>7. QED
        BY <4>1, <4>4, <4>5, <4>6
    <3>3. QED
      BY <3>1, <3>2
  <2> HIDE DEF m
  <2>5. x.name = m /\ x.n = Unnumbered
    BY <2>3 DEF Label, Operand
  <2>6. Text(x) = x.name
    BY <2>5 DEF Text
  <2>7. QED
    BY <1>2, <2>2, <2>3, <2>4, <2>5, <2>6
<1>3. QED
  BY <1>1, <1>2

\* How the labels that are numbered begin, and that they end in a digit.
LEMMA NumberedBegin ==
    ASSUME NEW x, NEW base \in Seq(Words), Len(base) > 0, NEW n \in Nat, x = Label(base, n)
    PROVE  /\ Text(x)[1] = base[1]
           /\ Text(x)[Len(Text(x))] \in Decimals
<1> DEFINE s == Text(Label(base, n))
           k == Len(base) + 1
           c == Len(s)
<1>1. /\ k \in Nat /\ c \in Nat /\ c > k
      /\ \A i \in 1 .. Len(base) : s[i] = base[i]
      /\ \A i \in k + 1 .. c : s[i] \in Decimals
  BY TextIs
<1>2. Len(base) \in Nat /\ 1 \in 1 .. Len(base)
  OBVIOUS
<1> HIDE DEF s, k, c
<1>3. c \in k + 1 .. c
  BY <1>1
<1>4. s[1] = base[1] /\ s[c] \in Decimals
  BY <1>1, <1>2, <1>3
<1>5. QED
  BY <1>4 DEF s, c

\* The bases are sequences of symbols, and how they begin.
LEMMA BasesBegin ==
    /\ \A base \in ConstructBases : /\ base \in Seq(Words) /\ Len(base) > 0
                                    /\ base[1] \in {"assert", "if", "while", "for"}
    /\ \A base \in DataBases : base \in Seq(Words) /\ Len(base) > 0 /\ base[1] \in {"str", "flt"}
<1>1. {"assert", "fail", "end", "if", "else", "while", "start", "for", "update", "str", "flt"} \subseteq Words
  BY DEF Words
<1>2. \A a, b \in Words : Len(Compound(a, b)) = 3 /\ Compound(a, b)[1] = a
  BY DEF Compound
<1>3. ASSUME NEW base \in ConstructBases
      PROVE  \E a \in {"assert", "if", "while", "for"}, b \in Words : base = Compound(a, b)
  BY <1>1 DEF ConstructBases
<1>4. ASSUME NEW base \in ConstructBases
      PROVE  base \in Seq(Words) /\ Len(base) > 0 /\ base[1] \in {"assert", "if", "while", "for"}
  <2>1. PICK a \in {"assert", "if", "while", "for"}, b \in Words : base = Compound(a, b)
    BY <1>3, <1>4
  <2>2. a \in Words
    BY <1>1
  <2>3. Compound(a, b) \in Seq(Words) /\ Len(Compound(a, b)) = 3 /\ Compound(a, b)[1] = a
    BY <1>2, <2>2, CompoundsAreWords
  <2>4. QED
    BY <2>1, <2>3
<1>5. \A base \in DataBases : base \in Seq(Words) /\ Len(base) > 0 /\ base[1] \in {"str", "flt"}
  <2>1. <<"str">> \in Seq(Words) /\ <<"flt">> \in Seq(Words)
    BY <1>1
  <2>2. Len(<<"str">>) > 0 /\ <<"str">>[1] = "str" /\ Len(<<"flt">>) > 0 /\ <<"flt">>[1] = "flt"
    OBVIOUS
  <2>3. QED
    BY <2>1, <2>2 DEF DataBases
<1>6. QED
  BY <1>4, <1>5

\* The base of a function's end.
LEMMA EndBases ==
    ASSUME NEW p, NEW E, NEW S, TreesOf(p, E, S), NEW x, ForEnd(x, FunctionLabels(p))
    PROVE  \E i \in DOMAIN p, n \in Nat :
              LET base == EndBase(p[i].path)
              IN  /\ x = Label(base, n) /\ base \in Seq(Words)
                  /\ Len(base) > 0 /\ base[1] \in {"ml", "main"}
<1>1. PICK f \in FunctionLabels(p), n \in Nat : x = Label(f.name \o <<Underscore, "end">>, n)
  BY DEF ForEnd
<1>2. PICK i \in DOMAIN p : f = FunctionLabel(p[i].path)
  BY <1>1 DEF FunctionLabels
<1> DEFINE base == EndBase(p[i].path)
           e == <<Underscore, "end">>
           m == f.name
<1>3. m = mangleFunctionName(p[i].path)
  BY <1>2 DEF FunctionLabel, Label, Operand
<1>4. base = m \o e
  BY <1>3 DEF EndBase
<1>5. m \in Seq(Words) /\ Len(m) > 0 /\ m[1] \in {"ml", "main"}
  BY <1>1, NamesBegin
<1>6. e \in Seq(Words) /\ Len(e) = 2
  <2>1. {Underscore, "end"} \subseteq Words
    BY DEF Words
  <2>2. QED
    BY <2>1
<1> HIDE DEF m, e
<1>7. /\ m \o e \in Seq(Words) /\ Len(m \o e) = Len(m) + Len(e)
      /\ \A j \in 1 .. Len(m) : (m \o e)[j] = m[j]
  BY <1>5, <1>6, ConcatElements
<1>8. Len(m) \in Nat /\ 1 \in 1 .. Len(m)
  BY <1>5
<1>9. x = Label(m \o e, n)
  BY <1>1 DEF m, e
<1> HIDE DEF base
<1>10. base \in Seq(Words) /\ Len(base) > 0 /\ base[1] \in {"ml", "main"}
  BY <1>4, <1>5, <1>6, <1>7, <1>8
<1>11. QED
  BY <1>4, <1>9, <1>10 DEF base

\* A label that is written like one for a function's end is numbered like one.
LEMMA EndIsNumbered ==
    ASSUME NEW base \in Seq(Words), NEW n \in Nat
    PROVE  IsNumbered(Text(Label(base, n)), base)
<1> DEFINE s == Text(Label(base, n))
           Y == (Words \cup Decimals) \cup {Underscore}
           a == Len(base)
           k == a + 1
           c == Len(s)
           u == SubSeq(s, 1, k)
           v == Append(base, Underscore)
<1>1. /\ s \in Seq(Y) /\ k \in Nat /\ c \in Nat /\ c > k
      /\ \A i \in 1 .. a : s[i] = base[i]
      /\ s[k] = Underscore
      /\ \A i \in k + 1 .. c : s[i] \in Decimals
  BY TextIs
<1>2. a \in Nat
  OBVIOUS
<1>3. base \in Seq(Y) /\ Underscore \in Y
  <2>1. Words \subseteq Y /\ Underscore \in Y
    OBVIOUS
  <2> HIDE DEF Y
  <2>2. QED
    BY <2>1, SeqMonotonic
<1> HIDE DEF s, Y, c
<1>4. /\ u \in Seq(Y) /\ Len(u) = k
      /\ \A i \in 1 .. k : u[i] = s[i]
  <2>1. 1 \in Nat /\ k <= c /\ k \in Nat
    BY <1>1, <1>2
  <2>2. \A i \in 1 .. k : i \in 1 .. c
    BY <1>1, <1>2
  <2>3. /\ SubSeq(s, 1, k) \in Seq(Y) /\ Len(SubSeq(s, 1, k)) = k
        /\ \A i \in 1 .. k : SubSeq(s, 1, k)[i] = s[i]
    BY <1>1, <2>1, <2>2 DEF c
  <2>4. QED
    BY <2>3
<1>5. /\ v \in Seq(Y) /\ Len(v) = k
      /\ \A i \in 1 .. a : v[i] = base[i]
      /\ v[k] = Underscore
  BY <1>3, AppendProperties
<1> HIDE DEF u, v
<1>6. \A i \in 1 .. Len(u) : u[i] = v[i]
  <2>1. \A i \in 1 .. k : i \in 1 .. a \/ i = k
    BY <1>2
  <2>2. QED
    BY <1>1, <1>4, <1>5, <2>1
<1>7. u = v
  BY <1>4, <1>5, <1>6, SeqEqual
<1>8. \A i \in a + 2 .. c : s[i] \in Range(Digits)
  <2>1. \A i \in a + 2 .. c : i \in k + 1 .. c
    BY <1>1, <1>2
  <2>2. Decimals = Range(Digits)
    BY DEF Decimals, Range
  <2>3. QED
    BY <1>1, <2>1, <2>2
<1>9. QED
  BY <1>1, <1>7, <1>8 DEF IsNumbered, s, c, u, v

\* Labels of the code that are written alike are the same.
LEMMA TextsTellApart ==
    ASSUME NEW p, NEW E, NEW S, Resolvable(p, E, S), NEW x, NEW y,
           CodeLabel(x, FunctionLabels(p)), CodeLabel(y, FunctionLabels(p)), Text(x) = Text(y)
    PROVE  x = y
<1> DEFINE F == FunctionLabels(p)
<1>1. TreesOf(p, E, S)
  BY DEF Resolvable
<1>2. \A z : z \in HandlerLabels \cup F =>
         /\ z = Label(z.name, Unnumbered) /\ Text(z) = z.name
         /\ Text(z)[1] \in {"ml", "main"}
         /\ z \in HandlerLabels => Text(z)[Len(Text(z))] \notin Decimals
  BY <1>1, NamesBegin
<1>3. ASSUME NEW z, ForConstruct(z) PROVE Text(z)[1] \in {"assert", "if", "while", "for"}
  BY <1>3, BasesBegin, NumberedBegin DEF ForConstruct
<1>4. ASSUME NEW z, ForEnd(z, F)
      PROVE  Text(z)[1] \in {"ml", "main"} /\ Text(z)[Len(Text(z))] \in Decimals
  BY <1>1, <1>4, EndBases, NumberedBegin
<1>5. ASSUME NEW z, ForConstruct(z) \/ ForEnd(z, F)
      PROVE  \E base \in Seq(Words), n \in Nat : z = Label(base, n)
  <2>1. CASE ForConstruct(z)
    BY <2>1, BasesBegin DEF ForConstruct
  <2>2. CASE ForEnd(z, F)
    BY <1>1, <2>2, EndBases
  <2>3. QED
    BY <1>5, <2>1, <2>2
<1>6. ASSUME NEW a, NEW b, a \in HandlerLabels \cup F, ForEnd(b, F) PROVE Text(a) # Text(b)
  <2>1. CASE a \in HandlerLabels
    BY <1>2, <1>4, <1>6, <2>1
  <2>2. CASE a \in F
    <3>1. PICK i \in DOMAIN p : a = FunctionLabel(p[i].path)
      BY <2>2 DEF FunctionLabels
    <3>2. PICK j \in DOMAIN p, n \in Nat :
             b = Label(EndBase(p[j].path), n) /\ EndBase(p[j].path) \in Seq(Words)
      BY <1>1, <1>6, EndBases
    <3>3. IsNumbered(Text(b), EndBase(p[j].path))
      BY <3>2, EndIsNumbered
    <3>4. ~IsNumbered(a.name, EndBase(p[j].path))
      BY <3>1 DEF Resolvable
    <3>5. Text(a) = a.name
      BY <1>2, <2>2
    <3>6. QED
      BY <3>3, <3>4, <3>5
  <2>3. QED
    BY <1>6, <2>1, <2>2
<1>7. \A s \in {"ml", "main"} : s \notin {"assert", "if", "while", "for"}
  OBVIOUS
<1> HIDE DEF F
<1>8. CASE x \in HandlerLabels \cup F /\ y \in HandlerLabels \cup F
  BY <1>2, <1>8
<1>9. CASE (ForConstruct(x) \/ ForEnd(x, F)) /\ (ForConstruct(y) \/ ForEnd(y, F))
  <2>1. PICK b1 \in Seq(Words), n1 \in Nat : x = Label(b1, n1)
    BY <1>5, <1>9
  <2>2. PICK b2 \in Seq(Words), n2 \in Nat : y = Label(b2, n2)
    BY <1>5, <1>9
  <2>3. b1 = b2 /\ n1 = n2
    BY <2>1, <2>2, NumberedTextsDiffer
  <2>4. QED
    BY <2>1, <2>2, <2>3
<1>10. ASSUME NEW a, NEW b, a \in HandlerLabels \cup F, ForConstruct(b) \/ ForEnd(b, F), Text(a) = Text(b)
       PROVE  FALSE
  <2>1. ~ForEnd(b, F)
    BY <1>6, <1>10
  <2>2. Text(b)[1] \in {"assert", "if", "while", "for"}
    BY <1>3, <1>10, <2>1
  <2>3. Text(a)[1] \in {"ml", "main"}
    BY <1>2, <1>10
  <2>4. QED
    BY <1>7, <1>10, <2>2, <2>3
<1>11. CodeLabel(x, F) /\ CodeLabel(y, F)
  BY DEF F
<1>12. QED
  BY <1>8, <1>9, <1>10, <1>11 DEF CodeLabel

\* A label of the data is written like none of the code.
LEMMA DataTextsDiffer ==
    ASSUME NEW p, NEW E, NEW S, TreesOf(p, E, S), NEW x, NEW y, CodeLabel(x, FunctionLabels(p)), ForData(y)
    PROVE  Text(x) # Text(y)
<1>1. Text(y)[1] \in {"str", "flt"}
  BY BasesBegin, NumberedBegin DEF ForData
<1>2. x \in HandlerLabels \cup FunctionLabels(p) => Text(x)[1] \in {"ml", "main"}
  BY NamesBegin
<1>3. ForConstruct(x) => Text(x)[1] \in {"assert", "if", "while", "for"}
  BY BasesBegin, NumberedBegin DEF ForConstruct
<1>4. ForEnd(x, FunctionLabels(p)) => Text(x)[1] \in {"ml", "main"}
  BY EndBases, NumberedBegin
<1>5. Text(x)[1] \in {"ml", "main", "assert", "if", "while", "for"}
  BY <1>2, <1>3, <1>4 DEF CodeLabel
<1>6. \A s \in {"str", "flt"} : s \notin {"ml", "main", "assert", "if", "while", "for"}
  OBVIOUS
<1>7. QED
  BY <1>1, <1>5, <1>6

-----------------------------------------------------------------------------
(* The specification.                                                      *)

LEMMA HandlersHaveTypes ==
    /\ Handlers \in Seq(AnyLine)
    /\ Len(Handlers) = 6
    /\ LabelsOf(Handlers) = HandlerLabels
    /\ LinesApart(Handlers)
    /\ \A i \in DOMAIN Handlers :
          Handlers[i].op \notin Jumps \cup {"call", "lea", "load"}
    /\ \A l \in HandlerLabels : l \in AnyOperand /\ l.n = Unnumbered
<1>1. BoundsError \in AnyOperand /\ ShiftError \in AnyOperand
  <2>1. /\ <<"ml", Underscore, "array", Underscore, "bounds", Underscore, "error">> \in Seq(Words)
        /\ <<"ml", Underscore, "shift", Underscore, "error">> \in Seq(Words)
    BY DEF Words
  <2>2. Unnumbered \in Int
    BY DEF Unnumbered
  <2>3. QED
    BY <2>1, <2>2, OperandsHaveTypes DEF BoundsError, ShiftError
<1>2. BoundsError # ShiftError
  <2>1. BoundsError.name[3] = "array" /\ ShiftError.name[3] = "shift"
    BY DEF BoundsError, ShiftError, Label, Operand
  <2>2. QED
    BY <2>1
<1>3. BoundsError.n = Unnumbered /\ ShiftError.n = Unnumbered
  BY DEF BoundsError, ShiftError, Label, Operand
<1> DEFINE b == Do1("label", BoundsError)
           pb == printf("bounds")
           x == Do1("exit", Imm(1))
           s == Do1("label", ShiftError)
           ps == printf("shift")
<1>4. b \in AnyLine /\ x \in AnyLine /\ s \in AnyLine
  BY <1>1, OperandsHaveTypes DEF Do1, Ins, AnyLine, OpCodes, NoLabel
<1>5. pb \in AnyLine /\ ps \in AnyLine
  <2>1. <<"bounds">> \in Seq(Words) /\ <<"shift">> \in Seq(Words)
    BY DEF Words
  <2>2. QED
    BY <2>1, OperandsHaveTypes
       DEF printf, Do1, Ins, AnyLine, OpCodes, NoLabel, Operand, AnyOperand, Modes
<1>6. /\ b.op = "label" /\ b.to = BoundsError
      /\ s.op = "label" /\ s.to = ShiftError
      /\ x.op = "exit" /\ pb.op = "printf" /\ ps.op = "printf"
  BY DEF Do1, Ins, printf
<1>7. Handlers = <<b, pb, x, s, ps, x>>
  BY DEF Handlers
<1> HIDE DEF b, pb, x, s, ps
<1>8. /\ Handlers \in Seq(AnyLine)
      /\ Len(Handlers) = 6
      /\ DOMAIN Handlers = 1 .. 6
  BY <1>4, <1>5, <1>7
<1>9. /\ Handlers[1] = b /\ Handlers[2] = pb /\ Handlers[3] = x
      /\ Handlers[4] = s /\ Handlers[5] = ps /\ Handlers[6] = x
  BY <1>7
<1>10. \A i \in DOMAIN Handlers :
          /\ i \notin {1, 4} => Handlers[i].op \in {"printf", "exit"}
          /\ Handlers[i].op = "label" => i \in {1, 4}
          /\ Handlers[i].op \in {"label", "printf", "exit"}
  BY <1>6, <1>8, <1>9
<1>11. LabelsOf(Handlers) = HandlerLabels
  BY <1>6, <1>8, <1>9, <1>10 DEF LabelsOf, HandlerLabels
<1>12. LinesApart(Handlers)
  BY <1>2, <1>6, <1>9, <1>10 DEF LinesApart
<1>13. QED
  BY <1>1, <1>3, <1>8, <1>10, <1>11, <1>12 DEF HandlerLabels, Jumps

\* The generator begins with the handlers and nothing else.
LEMMA InitHolds ==
    ASSUME NEW E, NEW S, Resolvable(program, E, S), Init
    PROVE  Inv(E, S)
<1>1. /\ code = Handlers /\ data = <<>> /\ labelCounter = 0 /\ areas = <<>> /\ stackSize = 0
      /\ endLabel = Label(<<>>, Unnumbered) /\ loopStack = <<>> /\ next = 0 /\ work = <<>>
  BY DEF Init
<1>2. \A i \in DOMAIN work : FALSE
  BY <1>1
<1>3. ~InBody(work) /\ Begun(work, next) = 0 /\ 1 .. Begun(work, next) = {}
  BY <1>1 DEF InBody, Begun
<1>4. Typed(E, S)
  <2>1. Label(<<>>, Unnumbered) \in AnyOperand
    <3>1. <<>> \in Seq(Words)
      OBVIOUS
    <3>2. Unnumbered \in Int
      BY DEF Unnumbered
    <3>3. QED
      BY <3>1, <3>2, OperandsHaveTypes
  <2>2. Len(program) \in Nat
    BY DEF Resolvable, TreesOf
  <2> DEFINE C == Contexts(AtHand(code, work, endLabel))
             A == Activations(program, E, S, DataLabels(data), AtHand(code, work, endLabel))
  <2>3. loopStack \in Seq(C) /\ work \in Seq(A) /\ data \in Seq(AnyDatum)
    <3> HIDE DEF C, A
    <3>1. QED
      BY <1>1
  <2>4. \A s \in DOMAIN areas : areas[s] \in [base : Int, size : Int]
    BY <1>1
  <2>5. code \in Seq(AnyLine)
    BY <1>1, HandlersHaveTypes
  <2>6. endLabel \in AnyOperand /\ labelCounter \in Nat /\ stackSize \in Int /\ next \in 0 .. Len(program)
    BY <1>1, <2>1, <2>2
  <2>7. QED
    BY <2>3, <2>4, <2>5, <2>6 DEF Typed
<1>5. CodeFits
  BY <1>1, HandlersHaveTypes DEF CodeFits, FitsData
<1>6. Shape(program, work, next)
  BY <1>1 DEF Shape
<1>7. LoopsMatched
  <2>1. Pending(work, {"leaveLoop"}) = {}
    BY <1>1 DEF Pending
  <2>2. QED
    BY <1>1, <2>1, FS_EmptySet DEF LoopsMatched
<1>8. Apart
  BY <1>1, <1>2, <1>3, HandlersHaveTypes DEF Apart, WritesApart
<1>9. Named
  BY <1>1, <1>3, HandlersHaveTypes DEF Named
<1>10. QED
  BY <1>4, <1>5, <1>6, <1>7, <1>8, <1>9 DEF Inv

\* A step that changes nothing.
LEMMA StutterKeepsInv ==
    ASSUME NEW E, NEW S, Inv(E, S), UNCHANGED vars
    PROVE  Inv(E, S)'
<1>1. UNCHANGED <<program, code, data, labelCounter, areas, stackSize, endLabel, loopStack, next, work,
                  diagnostic>>
  BY DEF vars, frameVars
<1>2. Typed(E, S)' /\ CodeFits' /\ LoopsMatched' /\ Apart' /\ Named'
  BY <1>1 DEF Inv, Typed, CodeFits, LoopsMatched, Apart, Named, Doomed
<1>3. Resolvable(program, E, S)' /\ Shape(program, work, next)'
  BY <1>1 DEF Inv
<1>4. QED
  BY <1>2, <1>3 DEF Inv

\* What a node adds to the data: nothing, or a literal with one of the labels made
\* for the node.
LEMMA DataIs ==
    ASSUME labelCounter \in Nat, NEW n, NEW l, l = makeLabels(Bases(n))
    PROVE  \/ DataOf(n, l) = <<>>
           \/ \E d : /\ DataOf(n, l) = <<d>> /\ ForData(d.label)
                     /\ d.label.n \in labelCounter .. (labelCounter + Len(l)) - 1
<1> DEFINE B == Bases(n)
           high == (labelCounter + Len(l)) - 1
<1>1. B \in Seq(Seq(Words))
  BY BasesAreWords
<1>2. /\ Len(l) = Len(B)
      /\ \A i \in DOMAIN B : /\ l[i].n \in Nat /\ l[i] = Label(B[i], l[i].n)
                             /\ l[i].n \in labelCounter .. high
  BY <1>1, MadeLabels
<1>3. <<"str">> \in DataBases /\ <<"flt">> \in DataBases
  BY DEF DataBases
<1> DEFINE Suits(label) == ForData(label) /\ label.n \in labelCounter .. high
<1>4. ASSUME NEW i \in DOMAIN B, B[i] \in DataBases PROVE Suits(l[i])
  <2> HIDE DEF B, high
  <2>1. ForData(l[i])
    BY <1>2, <1>4 DEF ForData
  <2>2. QED
    BY <1>2, <2>1
<1>5. ASSUME NEW label, Suits(label), NEW text, NEW number, DataOf(n, l) = <<Datum(label, text, number)>>
      PROVE  \E d : DataOf(n, l) = <<d>> /\ Suits(d.label)
  <2>1. Datum(label, text, number).label = label
    BY DEF Datum
  <2> HIDE DEF Suits
  <2>2. QED
    BY <1>5, <2>1
<1>6. CASE n.kind = "literal" /\ n.type \in {"string", "float"}
  <2>1. B = << <<"str">> >> \/ B = << <<"flt">> >>
    BY <1>6, BasesAre
  <2> DEFINE b == <<"str">>
             c == <<"flt">>
  <2>2. b \in DataBases /\ c \in DataBases /\ (B = <<b>> \/ B = <<c>>)
    BY <1>3, <2>1
  <2> HIDE DEF B, b, c
  <2>3. 1 \in DOMAIN B /\ B[1] \in DataBases
    BY <2>2
  <2>4. DataOf(n, l) = <<Datum(l[1], n.text, n.value)>>
    BY <1>6 DEF DataOf
  <2> HIDE DEF Suits
  <2>5. Suits(l[1])
    BY <1>4, <2>3
  <2>6. \E d : DataOf(n, l) = <<d>> /\ Suits(d.label)
    BY <1>5, <2>4, <2>5
  <2>7. QED
    BY <2>6 DEF Suits
<1>7. CASE n.kind = "varDecl" /\ n.type = "string" /\ n.init = <<>>
  <2>1. B = << <<"str">> >>
    BY <1>7, BasesAre
  <2> DEFINE b == <<"str">>
  <2>2. b \in DataBases /\ B = <<b>>
    BY <1>3, <2>1
  <2> HIDE DEF B, b
  <2>3. 1 \in DOMAIN B /\ B[1] \in DataBases /\ Len(B) = 1
    BY <2>2
  <2>4. l # <<>>
    <3>1. Len(l) = Len(B) /\ Len(B) # 0 /\ Len(<<>>) = 0
      BY <1>2, <2>3
    <3> HIDE DEF B
    <3>2. QED
      BY <3>1
  <2>5. DataOf(n, l) = <<Datum(l[1], <<>>, 0)>>
    BY <1>7, <2>4 DEF DataOf
  <2> HIDE DEF Suits
  <2>6. Suits(l[1])
    BY <1>4, <2>3
  <2>7. \E d : DataOf(n, l) = <<d>> /\ Suits(d.label)
    BY <1>5, <2>5, <2>6
  <2>8. QED
    BY <2>7 DEF Suits
<1>8. CASE n.kind = "builtin" /\ n.op = "Assert" /\ n.operand.type = "bool"
  <2> DEFINE a == Compound("assert", "fail")
             b == Compound("assert", "end")
             c == <<"str">>
  <2>1. B = <<a, b, c>>
    BY <1>8, BasesAre
  <2>2. c \in DataBases
    BY <1>3
  <2> HIDE DEF B, a, b, c
  <2>3. 3 \in DOMAIN B /\ B[3] \in DataBases /\ Len(B) = 3
    BY <2>1, <2>2
  <2>4. l # <<>>
    <3>1. Len(l) = Len(B) /\ Len(B) # 0 /\ Len(<<>>) = 0
      BY <1>2, <2>3
    <3> HIDE DEF B
    <3>2. QED
      BY <3>1
  <2>5. DataOf(n, l) = <<Datum(l[3], AssertionFailed, 0)>>
    BY <1>8, <2>4 DEF DataOf
  <2> HIDE DEF Suits
  <2>6. Suits(l[3])
    BY <1>4, <2>3
  <2>7. \E d : DataOf(n, l) = <<d>> /\ Suits(d.label)
    BY <1>5, <2>5, <2>6
  <2>8. QED
    BY <2>7 DEF Suits
<1>9. CASE \/ n.kind = "varDecl" /\ ~(n.type = "string" /\ n.init = <<>>)
           \/ n.kind = "builtin" /\ ~(n.op = "Assert" /\ n.operand.type = "bool")
  <2>1. B = <<>>
    BY <1>9, BasesAre
  <2>2. l = <<>>
    BY <2>1 DEF makeLabels
  <2>3. DataOf(n, l) = <<>>
    BY <1>9, <2>2 DEF DataOf
  <2>4. QED
    BY <2>3
<1>10. CASE n.kind \notin {"varDecl", "builtin"} /\ ~(n.kind = "literal" /\ n.type \in {"string", "float"})
  <2>1. DataOf(n, l) = <<>>
    BY <1>10 DEF DataOf
  <2>2. QED
    BY <2>1
<1>11. QED
  BY <1>6, <1>7, <1>8, <1>9, <1>10

\* A step that writes no label and no data.
LEMMA NothingWritten ==
    ASSUME Based, labelCounter \in Nat, labelCounter' \in Nat, labelCounter <= labelCounter',
           UNCHANGED <<program, data, code, endLabel>>
    PROVE  Based'
<1>1. \A i \in DOMAIN data :
         ForData(data[i].label) /\ data[i].label.n \in Nat /\ data[i].label.n < labelCounter
  BY DEF Based
<1>2. \A k \in Nat : k < labelCounter => k < labelCounter'
  OBVIOUS
<1>3. \A i \in DOMAIN data : data[i].label.n < labelCounter'
  BY <1>1, <1>2
<1>4. QED
  BY <1>1, <1>3 DEF Based

LEMMA InitIsBased ==
    ASSUME Init
    PROVE  Based
<1>1. code = Handlers /\ data = <<>> /\ endLabel = Label(<<>>, Unnumbered)
  BY Zenon DEF Init
<1>2. endLabel.n = Unnumbered
  <2>1. \A base, n : Label(base, n).n = n
    BY DEF Label, Operand
  <2>2. QED
    BY <1>1, <2>1
<1>3. \A l \in LabelsOf(code) : l.n = Unnumbered
  BY <1>1, HandlersHaveTypes
<1>4. \A i \in DOMAIN data : FALSE
  BY <1>1
<1>5. QED
  BY <1>2, <1>3, <1>4 DEF Based

LEMMA MethodKeepsBased ==
    ASSUME NEW E, NEW S, Inv(E, S), Based, Method
    PROVE  Based'
<1> DEFINE l == makeLabels(Bases(Node))
           dd == DataOf(Node, l)
           all == data \o dd
           Good(d, high) == ForData(d.label) /\ d.label.n \in Nat /\ d.label.n < high
<1>1. /\ labelCounter' = labelCounter + Len(l) /\ data' = all
      /\ program' = program /\ code' = code /\ endLabel' = endLabel
  BY DEF Method, frameVars
<1>2. labelCounter \in Nat /\ data \in Seq(AnyDatum)
  BY DEF Inv, Typed
<1>3. Len(l) \in Nat
  <2> DEFINE B == Bases(Node)
             G == Seq(Words)
  <2>1. Len(l) = Len(B) /\ B \in Seq(G)
    BY <1>2, BasesAreWords, MadeLabels
  <2> HIDE DEF B, G, l
  <2>2. QED
    BY <2>1
<1>4. \/ dd = <<>>
      \/ \E d : /\ dd = <<d>> /\ ForData(d.label)
                /\ d.label.n \in labelCounter .. (labelCounter + Len(l)) - 1
  BY <1>2, DataIs
<1> HIDE DEF l, dd
<1>5. \A i, j \in DOMAIN data : Good(data[i], labelCounter) /\ (data[i].label.n = data[j].label.n => i = j)
  BY DEF Based
<1>6. \A k \in Nat : k < labelCounter => k < labelCounter'
  BY <1>1, <1>2, <1>3
<1>7. \A i, j \in DOMAIN all : Good(all[i], labelCounter') /\ (all[i].label.n = all[j].label.n => i = j)
  <2>1. CASE dd = <<>>
    <3>1. all = data
      BY <1>2, <2>1
    <3> HIDE DEF all
    <3>2. QED
      BY <1>5, <1>6, <3>1
  <2>2. CASE dd # <<>>
    <3>1. PICK d : /\ dd = <<d>> /\ ForData(d.label)
                   /\ d.label.n \in labelCounter .. (labelCounter + Len(l)) - 1
      BY <1>4, <2>2
    <3> DEFINE n == d.label.n
               c == Len(data)
    <3>2. n \in Nat /\ labelCounter <= n /\ n < labelCounter'
      <4> DEFINE m == Len(l)
      <4> HIDE DEF m, n
      <4>1. n \in labelCounter .. (labelCounter + m) - 1 /\ labelCounter' = labelCounter + m /\ m \in Nat
        BY <1>1, <1>3, <3>1 DEF m, n
      <4>2. QED
        BY <1>2, <4>1
    <3>3. all = Append(data, d)
      BY <1>2, <3>1
    <3> HIDE DEF all
    <3>4. /\ DOMAIN all = 1 .. c + 1 /\ c \in Nat /\ DOMAIN data = 1 .. c
          /\ all[c + 1] = d /\ \A i \in 1 .. c : all[i] = data[i]
      BY <1>2, <3>3
    <3> HIDE DEF c
    <3>5. \A i \in DOMAIN all : i = c + 1 \/ i \in DOMAIN data
      BY <3>4
    <3>6. Good(d, labelCounter')
      BY <3>1, <3>2
    <3>7. \A i \in DOMAIN data : all[i] = data[i] /\ data[i].label.n # n
      <4>1. \A k \in Nat : k < labelCounter => k # n
        BY <1>2, <3>2
      <4> HIDE DEF n
      <4>2. QED
        BY <1>5, <3>4, <4>1
    <3>8. \A i \in DOMAIN data : Good(data[i], labelCounter')
      BY <1>5, <1>6
    <3> HIDE DEF Good
    <3>9. \A i \in DOMAIN all : Good(all[i], labelCounter')
      BY <3>4, <3>5, <3>6, <3>7, <3>8
    <3>10. ASSUME NEW i \in DOMAIN all, NEW j \in DOMAIN all, all[i].label.n = all[j].label.n
           PROVE  i = j
      <4>1. CASE i \in DOMAIN data /\ j \in DOMAIN data
        BY <1>5, <3>7, <3>10, <4>1
      <4>2. CASE i = c + 1 /\ j \in DOMAIN data
        BY <3>4, <3>7, <3>10, <4>2
      <4>3. CASE i \in DOMAIN data /\ j = c + 1
        BY <3>4, <3>7, <3>10, <4>3
      <4>4. CASE i = c + 1 /\ j = c + 1
        BY <4>4
      <4>5. QED
        BY <3>5, <4>1, <4>2, <4>3, <4>4
    <3>11. QED
      BY <3>9, <3>10
  <2>3. QED
    BY <2>1, <2>2
<1> HIDE DEF all
<1>8. QED
  BY <1>1, <1>7 DEF Based

LEMMA EmitLinesKeepsBased ==
    ASSUME NEW E, NEW S, Inv(E, S), Based, EmitLines
    PROVE  Based'
<1> DEFINE F == FunctionLabels(program)
           G == Fits(F, DataLabels(data), AtHand(code, work, endLabel))
           lines == Node
<1>1. /\ code' = code \o lines
      /\ UNCHANGED <<program, data, labelCounter, endLabel>>
      /\ work # <<>> /\ Top.task = "emit"
  BY DEF EmitLines, Running, frameVars
<1>2. lines \in Seq(G)
  BY <1>1, NodeIsTyped
<1>3. G \subseteq AnyLine
  BY DEF Fits
<1>4. \A x \in G : x.op = "label" => ForConstruct(x.to) \/ ForEnd(x.to, F)
  BY DEF Fits
<1> HIDE DEF G, lines, F
<1>5. code \in Seq(AnyLine) /\ lines \in Seq(AnyLine)
  BY <1>2, <1>3, SeqMonotonic DEF Inv, Typed
<1>6. LabelsOf(code') = LabelsOf(code) \cup LabelsOf(lines)
  BY <1>1, <1>5, LabelsOfBoth
<1>7. \A l \in LabelsOf(lines) : ForConstruct(l) \/ ForEnd(l, F)
  <2>1. \A j \in DOMAIN lines : lines[j] \in G
    BY <1>2
  <2>2. QED
    BY <1>4, <2>1 DEF LabelsOf
<1>8. \A l \in LabelsOf(code') : l.n # Unnumbered => ForConstruct(l) \/ ForEnd(l, F)
  BY <1>6, <1>7 DEF Based, F
<1>9. QED
  BY <1>1, <1>8 DEF Based, F

LEMMA PrologueKeepsBased ==
    ASSUME NEW E, NEW S, Inv(E, S), Based, Prologue
    PROVE  Based'
<1>1. program' = program /\ data' = data /\ labelCounter' = labelCounter + 1
  BY DEF Prologue
<1>2. labelCounter \in Nat
  BY DEF Inv, Typed
<1>3. /\ \A l \in LabelsOf(code') : l \in LabelsOf(code) \/ l.n = Unnumbered
      /\ ForEnd(endLabel', FunctionLabels(program))
  BY PrologueKeepsInv
<1>4. \A i \in DOMAIN data :
         ForData(data[i].label) /\ data[i].label.n \in Nat /\ data[i].label.n < labelCounter'
  <2>1. \A k \in Nat : k < labelCounter => k < labelCounter'
    BY <1>1, <1>2
  <2>2. QED
    BY <2>1 DEF Based
<1>5. QED
  BY <1>1, <1>3, <1>4 DEF Based

LEMMA EpilogueKeepsBased ==
    ASSUME NEW E, NEW S, Inv(E, S), Based, Epilogue
    PROVE  Based'
<1>1. UNCHANGED <<program, data, labelCounter, endLabel>>
  BY DEF Epilogue, frameVars
<1>2. LabelsOf(code') = LabelsOf(code) \cup {endLabel}
  BY EpilogueKeepsInv
<1>3. QED
  BY <1>1, <1>2 DEF Based

\* Where the labels come from is kept by every action.
LEMMA NextKeepsBased ==
    ASSUME NEW E, NEW S, Inv(E, S), Based, [Next]_vars
    PROVE  Based'
<1>1. labelCounter \in Nat
  BY DEF Inv, Typed
<1>2. CASE Method
  BY <1>2, MethodKeepsBased
<1>3. CASE EmitLines
  BY <1>3, EmitLinesKeepsBased
<1>4. CASE Prologue
  BY <1>4, PrologueKeepsBased
<1>5. CASE Epilogue
  BY <1>5, EpilogueKeepsBased
<1>6. CASE ForRounds
  <2> DEFINE B == << Compound("for", "start"), Compound("for", "update"), Compound("for", "end") >>
             l == makeLabels(B)
  <2>1. UNCHANGED <<program, data, code, endLabel>> /\ labelCounter' = labelCounter + Len(l)
    BY <1>6 DEF ForRounds, frameVars
  <2>2. Len(l) = 3
    <3>1. {"for", "start", "update", "end"} \subseteq Words
      BY DEF Words
    <3> DEFINE W == Seq(Words)
    <3>2. Compound("for", "start") \in W /\ Compound("for", "update") \in W /\ Compound("for", "end") \in W
      BY <3>1, CompoundsAreWords
    <3> HIDE DEF W
    <3>3. B \in Seq(W) /\ Len(B) = 3
      BY <3>2
    <3> HIDE DEF B
    <3>4. QED
      BY <1>1, <3>3, MadeLabels DEF W
  <2> HIDE DEF l
  <2>3. labelCounter' \in Nat /\ labelCounter <= labelCounter'
    BY <1>1, <2>1, <2>2
  <2>4. QED
    BY <1>1, <2>1, <2>3, NothingWritten
<1> DEFINE Same == UNCHANGED <<program, data, code, endLabel, labelCounter>>
<1>7. Same => Based'
  BY <1>1, NothingWritten
<1>8. CASE EnterLoop \/ LeaveLoop \/ LeaveOrRepeat \/ Unknown
  <2>1. EnterLoop => Same
    BY DEF EnterLoop, frameVars
  <2>2. LeaveLoop => Same
    BY DEF LeaveLoop, frameVars
  <2>3. LeaveOrRepeat => Same
    BY Zenon DEF LeaveOrRepeat, frameVars
  <2>4. Unknown => Same
    BY Zenon DEF Unknown, frameVars
  <2> HIDE DEF Same
  <2>5. QED
    BY <1>7, <1>8, <2>1, <2>2, <2>3, <2>4
<1>9. CASE SetDiagnostic \/ RefuseFunction \/ StartFunction
  <2>1. SetDiagnostic => Same
    BY Zenon DEF SetDiagnostic, frameVars
  <2>2. RefuseFunction => Same
    BY Zenon DEF RefuseFunction, frameVars
  <2>3. StartFunction => Same
    BY DEF StartFunction, frameVars
  <2> HIDE DEF Same
  <2>4. QED
    BY <1>7, <1>9, <2>1, <2>2, <2>3
<1>10. CASE CollectInner \/ CollectArea
  <2>1. CollectInner => Same
    BY DEF CollectInner, frameVars
  <2>2. CollectArea => Same
    BY Zenon DEF CollectArea, frameVars
  <2> HIDE DEF Same
  <2>3. QED
    BY <1>7, <1>10, <2>1, <2>2
<1>11. CASE UNCHANGED vars
  <2>1. Same
    BY <1>11 DEF vars, frameVars
  <2>2. QED
    BY <1>7, <2>1
<1>12. QED
  BY <1>2, <1>3, <1>4, <1>5, <1>6, <1>8, <1>9, <1>10, <1>11 DEF Next

\* The invariant is inductive: each action of the generator keeps it.
LEMMA NextKeepsInv ==
    ASSUME NEW E, NEW S, Inv(E, S), Based, [Next]_vars
    PROVE  Inv(E, S)'
<1>1. CASE Method
  BY <1>1, MethodKeepsInv
<1>2. CASE ForRounds
  BY <1>2, ForRoundsKeepsInv
<1>3. CASE EmitLines
  BY <1>3, EmitLinesKeepsInv
<1>4. CASE EnterLoop
  BY <1>4, EnterLoopKeepsInv
<1>5. CASE LeaveLoop
  BY <1>5, LeaveLoopKeepsInv
<1>6. CASE LeaveOrRepeat
  BY <1>6, LeaveOrRepeatKeepsInv
<1>7. CASE Unknown
  BY <1>7, UnknownKeepsInv
<1>8. CASE SetDiagnostic
  BY <1>8, SetDiagnosticKeepsInv
<1>9. CASE RefuseFunction
  BY <1>9, RefuseFunctionKeepsInv
<1>10. CASE StartFunction
  BY <1>10, StartFunctionKeepsInv
<1>11. CASE CollectInner
  BY <1>11, CollectInnerKeepsInv
<1>12. CASE CollectArea
  BY <1>12, CollectAreaKeepsInv
<1>13. CASE Prologue
  BY <1>13, PrologueKeepsInv
<1>14. CASE Epilogue
  BY <1>14, EpilogueKeepsInv
<1>15. CASE UNCHANGED vars
  BY <1>15, StutterKeepsInv
<1>16. QED
  BY <1>1, <1>2, <1>3, <1>4, <1>5, <1>6, <1>7, <1>8, <1>9, <1>10, <1>11, <1>12, <1>13, <1>14, <1>15
     DEF Next

\* When nothing is left to do, nothing is owed: the labels are all in the code.
LEMMA InvImpliesLabels ==
    ASSUME NEW E, NEW S, Inv(E, S), Based
    PROVE  LabelsResolve
<1>1. SUFFICES ASSUME Generated, Accepted
               PROVE  /\ \A i, j \in LabelLines : Text(code[i].to) = Text(code[j].to) => i = j
                      /\ \A i, j \in DOMAIN data : Text(data[i].label) = Text(data[j].label) => i = j
                      /\ \A i \in LabelLines, j \in DOMAIN data : Text(code[i].to) # Text(data[j].label)
                      /\ \A i \in JumpLines :
                            \E j \in LabelLines :
                               /\ Text(code[j].to) = Text(code[i].to)
                               /\ code[i].op # "call" /\ ~ToHandler(i) => SameFunction(i, j)
                      /\ \A x \in DataRefs :
                            x.mode = "label" => \E i \in DOMAIN data : Text(data[i].label) = Text(x)
  BY DEF LabelsResolve
<1>2. work = <<>> /\ next = Len(program) /\ diagnostic = ""
  BY <1>1 DEF Generated, Accepted
<1>3. Typed(E, S) /\ CodeFits /\ Apart /\ Named /\ Resolvable(program, E, S)
  BY DEF Inv
<1>4. Owed(work, endLabel) = {} /\ Begun(work, next) = Len(program)
  BY <1>2, BetweenFunctions
<1> DEFINE F == FunctionLabels(program)
<1>5. \A i \in LabelLines : CodeLabel(code[i].to, F)
  <2>1. 1 .. Len(program) = DOMAIN program
    BY <1>3 DEF Resolvable, TreesOf
  <2>2. \A l \in LabelsOf(code) : l.n = Unnumbered => l \in HandlerLabels \cup F
    BY <1>3, <1>4, <2>1 DEF Named, FunctionLabels
  <2>3. \A l \in LabelsOf(code) : l.n # Unnumbered => ForConstruct(l) \/ ForEnd(l, F)
    BY DEF Based
  <2> HIDE DEF F
  <2>4. \A i \in LabelLines : code[i].to \in LabelsOf(code)
    BY DEF LabelLines, LabelsOf
  <2>5. QED
    BY <2>2, <2>3, <2>4 DEF CodeLabel
<1>6. ASSUME NEW label \in LabelsOf(code)
      PROVE  \E j \in LabelLines : code[j].to = label
  BY <1>6 DEF LabelsOf, LabelLines
<1>7. ASSUME NEW i \in JumpLines
      PROVE  \E j \in LabelLines :
                /\ code[j].to = code[i].to
                /\ code[i].op # "call" /\ ~ToHandler(i) => SameFunction(i, j)
  <2> HIDE DEF F
  <2>1. i \in DOMAIN code /\ code[i].op \in Jumps \cup {"call"}
    BY <1>7 DEF JumpLines, Jumps
  <2>2. CASE code[i].op = "call"
    <3>1. code[i].to \in FunctionLabels(program)
      BY <1>3, <2>1, <2>2 DEF CodeFits
    <3>2. PICK f \in DOMAIN program : code[i].to = FunctionLabel(program[f].path)
      BY <3>1 DEF FunctionLabels
    <3>3. f \in 1 .. Begun(work, next)
      BY <1>3, <1>4 DEF Resolvable, TreesOf
    <3>4. ~Doomed
      <4>1. work = <<>>
        BY <1>2
      <4>2. \A k \in DOMAIN work : FALSE
        BY <4>1
      <4>3. QED
        BY <1>2, <4>2 DEF Doomed
    <3>5. code[i].to \in LabelsOf(code)
      BY <1>3, <3>2, <3>3, <3>4 DEF Named
    <3>6. QED
      BY <1>6, <2>2, <3>5
  <2>3. CASE ToHandler(i)
    <3>1. code[i].to \in LabelsOf(code)
      BY <1>3, <2>3 DEF Named, ToHandler, HandlerLabels
    <3>2. QED
      BY <1>6, <2>3, <3>1
  <2>4. CASE code[i].op # "call" /\ ~ToHandler(i)
    <3>1. Arrives(code, i)
      BY <1>3, <1>4, <2>1, <2>4 DEF CodeFits, ToHandler, HandlerLabels
    <3>2. PICK j \in DOMAIN code :
             /\ code[j].op = "label" /\ code[j].to = code[i].to
             /\ \A k \in DOMAIN code :
                   code[k].op = "label" /\ ((i < k /\ k <= j) \/ (j < k /\ k <= i))
                      => code[k].to.n # Unnumbered
      BY <3>1 DEF Arrives
    <3>3. j \in LabelLines /\ SameFunction(i, j)
      BY <3>2 DEF LabelLines, SameFunction
    <3>4. QED
      BY <3>2, <3>3
  <2>5. QED
    BY <2>2, <2>3, <2>4
<1>8. ASSUME NEW x \in DataRefs, x.mode = "label"
      PROVE  \E i \in DOMAIN data : data[i].label = x
  <2>1. PICK i \in DOMAIN code : code[i].op \in {"lea", "load"} /\ code[i].from = x
    BY <1>8 DEF DataRefs
  <2>2. x \in DataLabels(data)
    BY <1>3, <1>8, <2>1 DEF CodeFits, FitsData
  <2>3. QED
    BY <2>2 DEF DataLabels
<1>9. ASSUME NEW i \in LabelLines, NEW j \in LabelLines, Text(code[i].to) = Text(code[j].to)
      PROVE  i = j
  <2>1. code[i].to = code[j].to
    BY <1>3, <1>5, <1>9, TextsTellApart
  <2>2. QED
    BY <1>3, <2>1 DEF Apart, LinesApart, LabelLines
<1>10. ASSUME NEW i \in DOMAIN data, NEW j \in DOMAIN data, Text(data[i].label) = Text(data[j].label)
       PROVE  i = j
  <2>1. ForData(data[i].label) /\ ForData(data[j].label)
    BY DEF Based
  <2>2. PICK a \in DataBases, m \in Nat : data[i].label = Label(a, m)
    BY <2>1 DEF ForData
  <2>3. PICK b \in DataBases, n \in Nat : data[j].label = Label(b, n)
    BY <2>1 DEF ForData
  <2>4. a = b /\ m = n
    <3>1. a \in Seq(Words) /\ b \in Seq(Words)
      BY BasesBegin
    <3>2. QED
      BY <1>10, <2>2, <2>3, <3>1, NumberedTextsDiffer
  <2>5. data[i].label.n = data[j].label.n
    BY <2>2, <2>3, <2>4
  <2>6. QED
    BY <2>5 DEF Based
<1>11. ASSUME NEW i \in LabelLines, NEW j \in DOMAIN data
       PROVE  Text(code[i].to) # Text(data[j].label)
  <2>1. ForData(data[j].label)
    BY DEF Based
  <2>2. TreesOf(program, E, S)
    BY <1>3 DEF Resolvable
  <2>3. QED
    BY <1>5, <2>1, <2>2, DataTextsDiffer
<1> HIDE DEF F
<1>12. ASSUME NEW i \in JumpLines
       PROVE  \E j \in LabelLines :
                 /\ Text(code[j].to) = Text(code[i].to)
                 /\ code[i].op # "call" /\ ~ToHandler(i) => SameFunction(i, j)
  <2>1. PICK j \in LabelLines :
           /\ code[j].to = code[i].to
           /\ code[i].op # "call" /\ ~ToHandler(i) => SameFunction(i, j)
    BY <1>7
  <2>2. Text(code[j].to) = Text(code[i].to)
    BY <2>1
  <2>3. QED
    BY <2>1, <2>2
<1>13. \A x \in DataRefs : x.mode = "label" => \E i \in DOMAIN data : Text(data[i].label) = Text(x)
  BY <1>8
<1>14. QED
  BY <1>9, <1>10, <1>11, <1>12, <1>13

\* Of every program whose trees are what the analyzer leaves and whose functions
\* have different mangled names, none of which is written like a handler's label or
\* like one for the end of a function (Resolvable), the file that is written without
\* a diagnostic can be assembled: each label, as it is written, stands at one line of
\* code or data, each jump, call and reference to data finds its own, and no jump but
\* one to a handler leaves its function.
THEOREM LabelsAreResolved ==
    ASSUME \A p \in Programs : \E E, S : Resolvable(p, E, S)
    PROVE  Spec => []LabelsResolve
<1> DEFINE IInv == \E E, S : Inv(E, S) /\ Based
<1>1. Init => IInv
  <2>1. SUFFICES ASSUME Init PROVE IInv
    OBVIOUS
  <2>2. PICK E, S : Resolvable(program, E, S)
    BY <2>1 DEF Init
  <2>3. Inv(E, S) /\ Based
    BY <2>1, <2>2, InitHolds, InitIsBased
  <2>4. QED
    BY <2>3
<1>2. IInv /\ [Next]_vars => IInv'
  <2>1. SUFFICES ASSUME IInv, [Next]_vars PROVE IInv'
    OBVIOUS
  <2>2. PICK E, S : Inv(E, S) /\ Based
    BY <2>1
  <2>3. Inv(E, S)' /\ Based'
    BY <2>1, <2>2, NextKeepsInv, NextKeepsBased
  <2>4. QED
    BY <2>3
<1>3. IInv => LabelsResolve
  <2>1. SUFFICES ASSUME IInv PROVE LabelsResolve
    OBVIOUS
  <2>2. PICK E, S : Inv(E, S) /\ Based
    BY <2>1
  <2>3. QED
    BY <2>2, InvImpliesLabels
<1>4. QED
  BY <1>1, <1>2, <1>3, PTL DEF Spec

-----------------------------------------------------------------------------
(* The other way behind the driver: the generator of bytecode and the      *)
(* machine, over trees of their own.                                       *)

CONSTANTS
    Width, FloatUnit, InputLines, MaxInputs, Exprs, Stmts   \* see MiniLang

VARIABLES
    phase, exitStatus, genCode, genFunctions, genEntry, switchBreakStack, bytecode, stack, frames, heap,
    ip, running, returnCode, error, input, output, bases    \* see MiniLang

Pipeline == INSTANCE MiniLang

\* What MiniLang assumes of its constants.
TreesAssumption ==
    /\ Pipeline!ExprsAssumption
    /\ Pipeline!StmtsAssumption
    /\ Pipeline!ProgramsAssumption
MachineAssumption == Pipeline!WidthAssumption /\ Pipeline!InputAssumption

\* The pipeline assumes what its components assume.
LEMMA GeneratorAssumes ==
    ASSUME TreesAssumption
    PROVE  /\ Pipeline!Generator!ExprsAssumption
           /\ Pipeline!Generator!StmtsAssumption
           /\ Pipeline!Generator!ProgramsAssumption
BY DEF TreesAssumption, Pipeline!ExprsAssumption, Pipeline!StmtsAssumption, Pipeline!ProgramsAssumption

LEMMA SameFormat ==
    ASSUME NEW b
    PROVE  /\ Pipeline!Generator!IsBytecode(b) <=> Pipeline!IsBytecode(b)
           /\ Pipeline!Machine!IsBytecode(b) <=> Pipeline!IsBytecode(b)
BY DEF Pipeline!Generator!IsBytecode, Pipeline!Generator!OpCode, Pipeline!Generator!Jumps,
       Pipeline!Generator!ReturnTypes, Pipeline!Generator!InFunction, Pipeline!Generator!Addresses,
       Pipeline!Generator!Functions, Pipeline!Generator!StaysInFunctions,
       Pipeline!Machine!IsBytecode, Pipeline!Machine!OpCode, Pipeline!Machine!Jumps,
       Pipeline!Machine!ReturnTypes, Pipeline!Machine!InFunction, Pipeline!Machine!Addresses,
       Pipeline!Machine!Functions, Pipeline!Machine!StaysInFunctions,
       Pipeline!IsBytecode, Pipeline!OpCode, Pipeline!Jumps,
       Pipeline!ReturnTypes, Pipeline!InFunction, Pipeline!Addresses,
       Pipeline!Functions, Pipeline!StaysInFunctions

\* The generator in the pipeline is the generator.
THEOREM ImplementsGenerator == Pipeline!Spec => Pipeline!Generator!Spec
<1>1. Pipeline!Init => Pipeline!Generator!Init
  BY DEF Pipeline!Init
<1>2. [Pipeline!Next]_(Pipeline!vars) => [Pipeline!Generator!Next]_(Pipeline!Generator!vars)
  <2>1. ASSUME Pipeline!Generate PROVE Pipeline!Generator!Next
    BY <2>1 DEF Pipeline!Generate
  <2>2. ASSUME Pipeline!Reject \/ Pipeline!Start \/ Pipeline!Execute \/ Pipeline!Finish
                   \/ UNCHANGED Pipeline!vars
        PROVE  UNCHANGED Pipeline!Generator!vars
    BY <2>2 DEF Pipeline!Reject, Pipeline!Start, Pipeline!Execute, Pipeline!Finish, Pipeline!vars,
                Pipeline!generatorVars, Pipeline!Generator!vars
  <2>3. QED
    BY <2>1, <2>2 DEF Pipeline!Next
<1>3. QED
  BY <1>1, <1>2, PTL DEF Pipeline!Spec, Pipeline!Generator!Spec

\* Whatever program is accepted, what the machine is given is bytecode.
THEOREM HandsOverBytecode ==
    ASSUME TreesAssumption
    PROVE  Pipeline!Spec =>
               [](Pipeline!Generator!Accepted => Pipeline!IsBytecode(Pipeline!Generator!bytecode))
<1>1. Pipeline!Generator!Spec =>
          [](Pipeline!Generator!Accepted => Pipeline!Generator!IsBytecode(Pipeline!Generator!bytecode))
  BY GeneratorAssumes, Pipeline!Generator!HandsOutBytecode
<1>2. Pipeline!Generator!IsBytecode(Pipeline!Generator!bytecode)
          => Pipeline!IsBytecode(Pipeline!Generator!bytecode)
  BY SameFormat
<1>3. QED
  BY <1>1, <1>2, ImplementsGenerator, PTL

LEMMA BytecodeIsBytecode ==
    ASSUME Pipeline!IsBytecode(Pipeline!Generator!bytecode)
    PROVE  Pipeline!Generator!bytecode \in Pipeline!AnyBytecode
<1> DEFINE b == Pipeline!Generator!bytecode
<1>1. b = [code |-> b.code, functions |-> b.functions, entry |-> b.entry]
  BY DEF Pipeline!Generator!bytecode
<1> HIDE DEF b
<1>2. /\ b.code \in Seq([op : Pipeline!OpCode, arg : Int, arg2 : Int, text : Seq(Nat)])
      /\ b.functions \in Seq([address : Pipeline!Addresses(b), params : Nat, locals : Nat,
                              returnType : Pipeline!ReturnTypes])
      /\ b.entry \in Pipeline!Functions(b)
  BY DEF Pipeline!IsBytecode, b
<1>3. b.functions \in Seq([address : Nat, params : Nat, locals : Nat,
                           returnType : Pipeline!ReturnTypes])
  <2> DEFINE Row(address) ==
        [address : address, params : Nat, locals : Nat, returnType : Pipeline!ReturnTypes]
  <2>1. Row(Pipeline!Addresses(b)) \subseteq Row(Nat)
    BY DEF Pipeline!Addresses
  <2>2. b.functions \in Seq(Row(Pipeline!Addresses(b)))
    BY <1>2
  <2> HIDE DEF Row
  <2>3. b.functions \in Seq(Row(Nat))
    BY <2>1, <2>2, SeqMonotonic
  <2>4. QED
    BY <2>3 DEF Row
<1>4. b.entry \in Nat
  BY <1>2 DEF Pipeline!Functions
<1>5. Pipeline!IsBytecode(b)
  BY DEF b
<1>6. b \in Pipeline!AnyBytecode
  BY <1>1, <1>2, <1>3, <1>4, <1>5 DEF Pipeline!AnyBytecode
<1>7. QED
  BY <1>6 DEF b

\* The machine in the pipeline is a machine that is given bytecode it may rely
\* on: the whole refines it, whatever the generator does before.
THEOREM ImplementsMachine ==
    ASSUME TreesAssumption
    PROVE  Pipeline!Spec => Pipeline!Machine!Spec
<1> DEFINE handed ==
        Pipeline!Generator!Accepted => Pipeline!IsBytecode(Pipeline!Generator!bytecode)
<1>1. Pipeline!Init => Pipeline!Machine!Init
  BY DEF Pipeline!Init
<1>2. handed /\ [Pipeline!Next]_(Pipeline!vars) => [Pipeline!Machine!Next]_(Pipeline!Machine!vars)
  <2>1. ASSUME Pipeline!Start, handed
        PROVE  Pipeline!Machine!Next
    <3>1. /\ Pipeline!Generator!bytecode \in Pipeline!AnyBytecode
          /\ Pipeline!Machine!Run(Pipeline!Generator!bytecode)
      BY <2>1, BytecodeIsBytecode DEF Pipeline!Start
    <3>2. QED
      BY <3>1 DEF Pipeline!Machine!Next
  <2>2. ASSUME Pipeline!Execute PROVE Pipeline!Machine!Next
    BY <2>2 DEF Pipeline!Execute, Pipeline!Machine!Next
  <2>3. ASSUME Pipeline!Generate \/ Pipeline!Reject \/ Pipeline!Finish \/ UNCHANGED Pipeline!vars
        PROVE  UNCHANGED Pipeline!Machine!vars
    BY <2>3 DEF Pipeline!Generate, Pipeline!Reject, Pipeline!Finish, Pipeline!vars, Pipeline!machineVars,
                Pipeline!Machine!vars
  <2>4. QED
    BY <2>1, <2>2, <2>3 DEF Pipeline!Next
<1>3. Pipeline!Spec => []handed
  BY HandsOverBytecode
<1>4. QED
  BY <1>1, <1>2, <1>3, PTL DEF Pipeline!Spec, Pipeline!Machine!Spec

LEMMA MachineAssumes ==
    ASSUME MachineAssumption
    PROVE  /\ Pipeline!Machine!WidthAssumption
           /\ Pipeline!Machine!BytecodesAssumption
           /\ Pipeline!Machine!InputAssumption
<1>1. \A b \in Pipeline!AnyBytecode : Pipeline!Machine!IsBytecode(b)
  BY SameFormat DEF Pipeline!AnyBytecode
<1>2. QED
  BY <1>1 DEF MachineAssumption, Pipeline!WidthAssumption, Pipeline!InputAssumption

\* Whatever program is translated, and whatever the user types, control stays in
\* the function of the current call.
THEOREM StaysInItsFunction ==
    ASSUME TreesAssumption, MachineAssumption
    PROVE  Pipeline!Spec => []Pipeline!StaysInFunction
<1>1. Pipeline!Machine!Spec => []Pipeline!Machine!StaysInFunction
  BY MachineAssumes, Pipeline!Machine!StaysInItsFunction
<1>2. Pipeline!Spec => Pipeline!Machine!Spec
  BY ImplementsMachine
<1>3. Pipeline!Machine!StaysInFunction => Pipeline!StaysInFunction
  BY DEF Pipeline!Machine!StaysInFunction, Pipeline!Machine!Addresses, Pipeline!Machine!Inside,
         Pipeline!Machine!InFunction, Pipeline!Machine!currentFrame, Pipeline!Machine!ControlErrors,
         Pipeline!StaysInFunction, Pipeline!Addresses, Pipeline!Inside, Pipeline!InFunction,
         Pipeline!currentFrame, Pipeline!ControlErrors
<1>4. QED
  BY <1>1, <1>2, <1>3, PTL

\* Every call returns behind the CALL that made it, and no step changes the
\* frame of a call that is not the current one, in every run of every program.
THEOREM CallsNest ==
    ASSUME TreesAssumption, MachineAssumption
    PROVE  Pipeline!Spec => []Pipeline!Machine!ReturnsToItsCall /\ Pipeline!Machine!CallersFrozen
<1>1. Pipeline!Machine!Spec => []Pipeline!Machine!ReturnsToItsCall
  BY MachineAssumes, Pipeline!Machine!ReturnsToTheCall
<1>2. Pipeline!Machine!Spec => Pipeline!Machine!CallersFrozen
  BY MachineAssumes, Pipeline!Machine!CallersStayFrozen
<1>3. Pipeline!Spec => Pipeline!Machine!Spec
  BY ImplementsMachine
<1>4. QED
  BY <1>1, <1>2, <1>3, PTL
=============================================================================
