------------------------------- MODULE Values -------------------------------
(***************************************************************************)
(* The values of the MiniLang virtual machine and the pure operations on   *)
(* them (src/vm.cpp): machine integers of a given width, floats, booleans, *)
(* strings and references to shared arrays and structs.                    *)
(*                                                                         *)
(* An operation returns a value, or Error(m) where the code throws a       *)
(* RuntimeError whose message is m.  "SIGFPE" stands for the trap of the   *)
(* x86 division instruction on the quotient that does not fit.             *)
(***************************************************************************)
EXTENDS Integers, Sequences, FiniteSetsExt

CONSTANTS
    Width,      \* bits of int and uint (32 in the code)
    FloatUnit   \* floats are multiples of 1/FloatUnit

ASSUME WidthAssumption ==
    /\ Width \in Nat \ {0}
    /\ FloatUnit \in Nat \ {0}

Half    == 2 ^ (Width - 1)
Modulus == 2 ^ Width

IntRange  == -Half .. Half - 1
UIntRange == 0 .. Modulus - 1

-----------------------------------------------------------------------------
(* Values.  A string is a sequence of character codes; arrays and structs  *)
(* are std::shared_ptr, so the value is a reference into the heap.         *)

MakeVoid      == [type |-> "void",   data |-> 0]
MakeInt(n)    == [type |-> "int",    data |-> n]
MakeUInt(n)   == [type |-> "uint",   data |-> n]
MakeFloat(x)  == [type |-> "float",  data |-> x]
MakeBool(b)   == [type |-> "bool",   data |-> IF b THEN 1 ELSE 0]
MakeString(s) == [type |-> "string", data |-> s]
ArrayRef(r)   == [type |-> "array",  data |-> r]
StructRef(r)  == [type |-> "struct", data |-> r]

Error(m) == [type |-> "error", data |-> m]

\* The messages of the operations.
OperationErrors == {"operand types", "division by zero", "modulo by zero", "SIGFPE",
                    "invalid shift count", "toInt cannot parse", "toInt out of range"}

IsError(v)     == v.type = "error"
IsTrue(v)      == v.data = 1
IsReference(v) == v.type \in {"array", "struct"}

\* The values that are no references.
Scalars ==
    [type : {"void"}, data : {0}]
        \cup [type : {"int"}, data : IntRange]
        \cup [type : {"uint"}, data : UIntRange]
        \cup [type : {"float"}, data : Int]
        \cup [type : {"bool"}, data : {0, 1}]
        \cup [type : {"string"}, data : Seq(Nat)]

Both(l, r, t) == l.type = t /\ r.type = t

-----------------------------------------------------------------------------
(* Integers of Width bits.  Signed overflow wraps around in the build.     *)

WrapInt(n)  == ((n + Half) % Modulus) - Half
WrapUInt(n) == n % Modulus

Magnitude(n)     == IF n < 0 THEN -n ELSE n
\* The quotient and remainder of C++: truncated towards zero.
Quotient(a, b)   == LET q == Magnitude(a) \div Magnitude(b)
                    IN  IF (a < 0) = (b < 0) THEN q ELSE -q
Remainder(a, b)  == a - b * Quotient(a, b)
\* The one quotient of two ints that does not fit an int.
QuotientTraps(a, b) == a = -Half /\ b = -1

Bit(n, i) == (n \div 2 ^ i) % 2

\* The word with these bits.
FromBits(bits) ==
    LET word[i \in 0 .. Width] == IF i = 0 THEN 0 ELSE word[i - 1] + bits[i - 1] * 2 ^ (i - 1)
    IN  word[Width]

\* The word whose i-th bit is f applied to the i-th bits of a and b.
BitByBit(a, b, f(_, _)) == FromBits([i \in 0 .. Width - 1 |-> f(Bit(a, i), Bit(b, i))])

BitOperation(op, a, b) ==
    CASE op = "BitAnd" -> BitByBit(a, b, LAMBDA x, y : x * y)
      [] op = "BitOr"  -> BitByBit(a, b, LAMBDA x, y : x + y - x * y)
      [] OTHER         -> BitByBit(a, b, LAMBDA x, y : (x + y) % 2)

-----------------------------------------------------------------------------
(* Binary arithmetic: both operands must have the same numeric type.       *)

Add(l, r) ==
    CASE Both(l, r, "int")    -> MakeInt(WrapInt(l.data + r.data))
      [] Both(l, r, "uint")   -> MakeUInt(WrapUInt(l.data + r.data))
      [] Both(l, r, "float")  -> MakeFloat(l.data + r.data)
      [] Both(l, r, "string") -> MakeString(l.data \o r.data)
      [] OTHER                -> Error("operand types")

Sub(l, r) ==
    CASE Both(l, r, "int")   -> MakeInt(WrapInt(l.data - r.data))
      [] Both(l, r, "uint")  -> MakeUInt(WrapUInt(l.data - r.data))
      [] Both(l, r, "float") -> MakeFloat(l.data - r.data)
      [] OTHER               -> Error("operand types")

Mul(l, r) ==
    CASE Both(l, r, "int")   -> MakeInt(WrapInt(l.data * r.data))
      [] Both(l, r, "uint")  -> MakeUInt(WrapUInt(l.data * r.data))
      [] Both(l, r, "float") -> MakeFloat(Quotient(l.data * r.data, FloatUnit))
      [] OTHER               -> Error("operand types")

Div(l, r) ==
    IF l.type # r.type \/ l.type \notin {"int", "uint", "float"} THEN Error("operand types")
    ELSE IF r.data = 0 THEN Error("division by zero")
    ELSE CASE l.type = "int"  -> IF QuotientTraps(l.data, r.data) THEN Error("SIGFPE")
                                 ELSE MakeInt(Quotient(l.data, r.data))
           [] l.type = "uint" -> MakeUInt(l.data \div r.data)
           [] OTHER           -> MakeFloat(Quotient(l.data * FloatUnit, r.data))

Mod(l, r) ==
    IF l.type # r.type \/ l.type \notin {"int", "uint"} THEN Error("operand types")
    ELSE IF r.data = 0 THEN Error("modulo by zero")
    ELSE IF l.type = "uint" THEN MakeUInt(l.data % r.data)
    ELSE IF QuotientTraps(l.data, r.data) THEN Error("SIGFPE")
    ELSE MakeInt(Remainder(l.data, r.data))

Compare(op, l, r) ==
    IF l.type = r.type /\ l.type \in {"int", "uint", "float"}
    THEN MakeBool(CASE op = "Less"         -> l.data < r.data
                    [] op = "Greater"      -> l.data > r.data
                    [] op = "LessEqual"    -> l.data <= r.data
                    [] OTHER               -> l.data >= r.data)
    ELSE Error("operand types")

Shift(op, l, r) ==
    IF r.type \notin {"int", "uint"} THEN Error("operand types")
    ELSE IF r.data \notin 0 .. Width - 1 THEN Error("invalid shift count")
    ELSE CASE l.type = "int" /\ op = "ShiftLeft"   -> MakeInt(WrapInt(l.data * 2 ^ r.data))
           [] l.type = "int" /\ op = "ShiftRight"  -> MakeInt(l.data \div 2 ^ r.data)
           [] l.type = "uint" /\ op = "ShiftLeft"  -> MakeUInt(WrapUInt(l.data * 2 ^ r.data))
           [] l.type = "uint" /\ op = "ShiftRight" -> MakeUInt(l.data \div 2 ^ r.data)
           [] OTHER -> Error("operand types")

Bitwise(op, l, r) ==
    CASE Both(l, r, "int")  -> MakeInt(WrapInt(BitOperation(op, l.data, r.data)))
      [] Both(l, r, "uint") -> MakeUInt(BitOperation(op, l.data, r.data))
      [] OTHER              -> Error("operand types")

-----------------------------------------------------------------------------
(* Unary operations and casts.                                             *)

BitNot(v) ==
    CASE v.type = "int"  -> MakeInt(-v.data - 1)
      [] v.type = "uint" -> MakeUInt(Modulus - 1 - v.data)
      [] OTHER           -> Error("operand types")

Neg(v) ==
    CASE v.type = "int"   -> MakeInt(WrapInt(-v.data))
      [] v.type = "float" -> MakeFloat(-v.data)
      [] OTHER            -> Error("operand types")

Not(v) == IF v.type = "bool" THEN MakeBool(~IsTrue(v)) ELSE Error("operand types")

\* A float outside the range of int converts to the least int (cvttsd2si);
\* outside the range of uint the build keeps the low bits.
Cast(op, v) ==
    LET truncated == Quotient(v.data, FloatUnit)
    IN  IF v.type \notin {"int", "uint", "float", "bool"} THEN Error("operand types")
        ELSE
        CASE op = "CastInt" /\ v.type = "float" ->
                MakeInt(IF truncated \in IntRange THEN truncated ELSE -Half)
          [] op = "CastInt" /\ v.type # "float" -> MakeInt(WrapInt(v.data))
          [] op = "CastUInt" /\ v.type = "float" -> MakeUInt(WrapUInt(truncated))
          [] op = "CastUInt" /\ v.type # "float" -> MakeUInt(WrapUInt(v.data))
          [] op = "CastFloat" ->
                MakeFloat(IF v.type = "float" THEN v.data ELSE v.data * FloatUnit)
          [] OTHER -> MakeBool(v.data # 0)

-----------------------------------------------------------------------------
(* toInt: strtol over the whole text, then the range of int.               *)

Blanks == 9 .. 13 \cup {32}
Minus == 45
Plus  == 43
Digit(c) == c \in 48 .. 57

\* The number a sequence of digits denotes.
Decimal(s) == MapThenSumSet(LAMBDA i : (s[i] - 48) * 10 ^ (Len(s) - i), DOMAIN s)

ToInt(v) ==
    IF v.type # "string" THEN Error("operand types")
    ELSE
    LET s      == v.data
        start  == IF \E i \in DOMAIN s : s[i] \notin Blanks
                  THEN CHOOSE i \in DOMAIN s : s[i] \notin Blanks /\ \A j \in 1 .. i - 1 : s[j] \in Blanks
                  ELSE Len(s) + 1
        text   == SubSeq(s, start, Len(s))
        signed == text # <<>> /\ text[1] \in {Minus, Plus}
        digits == IF signed THEN SubSeq(text, 2, Len(text)) ELSE text
        n      == IF signed /\ text[1] = Minus THEN -Decimal(digits) ELSE Decimal(digits)
    IN  IF digits = <<>> \/ \E i \in DOMAIN digits : ~Digit(digits[i])
        THEN Error("toInt cannot parse")
        ELSE IF n \notin IntRange THEN Error("toInt out of range")
        ELSE MakeInt(n)

=============================================================================
