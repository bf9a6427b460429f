------------------------------ MODULE VMProofs ------------------------------
(***************************************************************************)
(* Proofs about the machine, for every bytecode the generator may hand     *)
(* over and every width of its integers.                                   *)
(***************************************************************************)
EXTENDS VM, FiniteSetTheorems, FunctionTheorems, SequenceTheorems, WellFoundedInduction, TLAPS

-----------------------------------------------------------------------------
(* Machine integers.                                                       *)

LEMMA PowerPositive ==
    ASSUME NEW n \in Nat
    PROVE  2 ^ n \in Nat \ {0}
<1>1. IsFiniteSet(1 .. n) /\ Cardinality(1 .. n) = n
  BY FS_Interval
<1>2. IsFiniteSet(SUBSET (1 .. n)) /\ Cardinality(SUBSET (1 .. n)) = 2 ^ n
  BY <1>1, FS_SUBSET
<1>3. Cardinality(SUBSET (1 .. n)) \in Nat /\ Cardinality(SUBSET (1 .. n)) # 0
  <2>1. SUBSET (1 .. n) # {}
    OBVIOUS
  <2>2. QED
    BY <1>2, <2>1, FS_CardinalityType, FS_EmptySet
<1>4. QED
  BY <1>2, <1>3

\* A set of numbers up to n + 1 is one of numbers up to n, with n + 1 or without.
LEMMA PowerDoubles ==
    ASSUME NEW n \in Nat
    PROVE  2 ^ (n + 1) = 2 * 2 ^ n
<1> DEFINE A == SUBSET (1 .. n)
           B == {X \cup {n + 1} : X \in A}
           f == [X \in A |-> X \cup {n + 1}]
<1>1. IsFiniteSet(A) /\ Cardinality(A) = 2 ^ n
  <2>1. IsFiniteSet(1 .. n) /\ Cardinality(1 .. n) = n
    BY FS_Interval
  <2>2. QED
    BY <2>1, FS_SUBSET
<1>2. Cardinality(SUBSET (1 .. n + 1)) = 2 ^ (n + 1)
  <2>1. IsFiniteSet(1 .. n + 1) /\ Cardinality(1 .. n + 1) = n + 1
    BY FS_Interval
  <2>2. QED
    BY <2>1, FS_SUBSET
<1>3. IsFiniteSet(B) /\ Cardinality(B) = Cardinality(A)
  <2>1. f \in Bijection(A, B)
    <3>1. f \in [A -> B]
      OBVIOUS
    <3>2. \A X, Y \in A : f[X] = f[Y] => X = Y
      <4>1. SUFFICES ASSUME NEW X \in A, NEW Y \in A, f[X] = f[Y] PROVE X = Y
        OBVIOUS
      <4>2. n + 1 \notin X /\ n + 1 \notin Y
        OBVIOUS
      <4>3. X \cup {n + 1} = Y \cup {n + 1}
        BY <4>1
      <4>4. QED
        BY <4>2, <4>3
    <3>3. \A Z \in B : \E X \in A : f[X] = Z
      OBVIOUS
    <3>4. QED
      BY <3>1, <3>2, <3>3, Zenon DEF Bijection, Injection, IsInjective, Surjection
  <2>2. QED
    BY <1>1, <2>1, FS_Bijection DEF ExistsBijection
<1>4. SUBSET (1 .. n + 1) = A \cup B
  <2>1. ASSUME NEW X \in SUBSET (1 .. n + 1) PROVE X \in A \cup B
    <3>1. CASE n + 1 \in X
      <4>1. X \ {n + 1} \in A /\ X = (X \ {n + 1}) \cup {n + 1}
        BY <3>1
      <4>2. QED
        BY <4>1
    <3>2. CASE n + 1 \notin X
      <4>1. X \in A
        BY <3>2
      <4>2. QED
        BY <4>1
    <3>3. QED
      BY <3>1, <3>2
  <2>2. \A X \in A \cup B : X \in SUBSET (1 .. n + 1)
    OBVIOUS
  <2>3. QED
    BY <2>1, <2>2
<1>5. A \cap B = {}
  <2>1. \A X \in A : n + 1 \notin X
    OBVIOUS
  <2>2. QED
    BY <2>1
<1> HIDE DEF A, B
<1>6. Cardinality(A \cup B) = Cardinality(A) + Cardinality(B)
  <2>1. Cardinality(A \cup B) = Cardinality(A) + Cardinality(B) - Cardinality(A \cap B)
    BY <1>1, <1>3, FS_Union
  <2>2. Cardinality(A \cap B) = 0
    BY <1>5, FS_EmptySet
  <2>3. Cardinality(A) \in Nat /\ Cardinality(B) \in Nat
    BY <1>1, <1>3, FS_CardinalityType
  <2>4. QED
    BY <2>1, <2>2, <2>3
<1>7. 2 ^ n \in Nat /\ 2 ^ (n + 1) \in Nat
  BY PowerPositive
<1>8. 2 ^ (n + 1) = 2 ^ n + 2 ^ n
  BY <1>1, <1>2, <1>3, <1>4, <1>6, Zenon
<1>9. QED
  BY <1>7, <1>8

LEMMA Ranges ==
    /\ Half \in Nat \ {0}
    /\ Modulus \in Nat \ {0}
    /\ Modulus = 2 * Half
<1>1. Width - 1 \in Nat /\ Width \in Nat /\ (Width - 1) + 1 = Width
  BY WidthAssumption
<1>2. Half \in Nat \ {0} /\ Modulus \in Nat \ {0}
  BY <1>1, PowerPositive DEF Half, Modulus
<1>3. Modulus = 2 * Half
  BY <1>1, PowerDoubles, Zenon DEF Half, Modulus
<1>4. QED
  BY <1>2, <1>3

LEMMA Wrapped ==
    ASSUME NEW n \in Int
    PROVE  WrapInt(n) \in IntRange /\ WrapUInt(n) \in UIntRange
<1>1. (n + Half) % Modulus \in 0 .. Modulus - 1 /\ n % Modulus \in 0 .. Modulus - 1
  BY Ranges
<1>2. QED
  BY <1>1, Ranges DEF WrapInt, WrapUInt, IntRange, UIntRange

\* What the division of numbers that are not negative does.
LEMMA DivisionProperties ==
    ASSUME NEW a \in Nat, NEW m \in Nat \ {0}
    PROVE  /\ a \div m \in 0 .. a
           /\ a - m * (a \div m) \in 0 .. m - 1
           /\ m > 1 /\ a > 0 => a \div m < a
<1>1. a \div m \in Nat
  OBVIOUS
<1>2. a - m * (a \div m) \in 0 .. m - 1
  <2>1. a % m \in 0 .. m - 1 /\ a = m * (a \div m) + (a % m) /\ m * (a \div m) \in Int
    OBVIOUS
  <2>2. QED
    BY <2>1
<1> DEFINE q == a \div m
<1>3. m * q \in Nat /\ m * q <= a
  BY <1>1, <1>2
<1> HIDE DEF q
<1>4. q <= m * q /\ (m > 1 => 2 * q <= m * q)
  BY <1>1 DEF q
<1>5. q <= a /\ (m > 1 /\ a > 0 => q < a)
  BY <1>1, <1>3, <1>4 DEF q
<1>6. QED
  BY <1>1, <1>2, <1>5 DEF q

LEMMA QuotientProperties ==
    ASSUME NEW a \in Int, NEW b \in Int, b # 0
    PROVE  /\ Quotient(a, b) \in Int
           /\ a \in IntRange /\ b \in IntRange /\ ~QuotientTraps(a, b)
                 => Quotient(a, b) \in IntRange /\ Remainder(a, b) \in IntRange
<1> DEFINE A == Magnitude(a)
           B == Magnitude(b)
           q == A \div B
<1>1. A \in Nat /\ B \in Nat \ {0}
  BY DEF Magnitude
<1>2. /\ q \in 0 .. A
      /\ A - B * q \in 0 .. B - 1
      /\ B > 1 /\ A > 0 => q < A
  <2> HIDE DEF A, B
  <2>1. QED
    BY <1>1, DivisionProperties
<1>3. Quotient(a, b) = IF (a < 0) = (b < 0) THEN q ELSE -q
  BY DEF Quotient
<1> HIDE DEF q
<1>4. Quotient(a, b) \in Int
  BY <1>2, <1>3
<1>5. ASSUME a \in IntRange, b \in IntRange, ~QuotientTraps(a, b)
      PROVE  Quotient(a, b) \in IntRange
  <2>1. CASE a = -Half
    <3>1. A = Half /\ (b < 0 => B > 1)
      BY <1>5, <2>1, Ranges DEF Magnitude, QuotientTraps
    <3>2. QED
      BY <1>1, <1>2, <1>3, <2>1, <3>1, Ranges DEF IntRange
  <2>2. CASE a # -Half
    <3>1. A < Half
      BY <1>5, <2>2, Ranges DEF Magnitude, IntRange
    <3>2. QED
      BY <1>1, <1>2, <1>3, <3>1, Ranges DEF IntRange
  <2>3. QED
    BY <2>1, <2>2
<1>6. ASSUME b \in IntRange
      PROVE  Remainder(a, b) \in IntRange
  <2>1. Remainder(a, b) = IF a < 0 THEN -(A - B * q) ELSE A - B * q
    <3>1. Remainder(a, b) = a - b * Quotient(a, b)
      BY DEF Remainder
    <3>2. b * Quotient(a, b) = IF a < 0 THEN -(B * q) ELSE B * q
      <4>1. CASE a < 0 /\ b < 0
        BY <1>2, <1>3, <4>1 DEF Magnitude
      <4>2. CASE a < 0 /\ ~(b < 0)
        BY <1>2, <1>3, <4>2 DEF Magnitude
      <4>3. CASE ~(a < 0) /\ b < 0
        BY <1>2, <1>3, <4>3 DEF Magnitude
      <4>4. CASE ~(a < 0) /\ ~(b < 0)
        BY <1>2, <1>3, <4>4 DEF Magnitude
      <4>5. QED
        BY <4>1, <4>2, <4>3, <4>4
    <3>3. B * q \in Int
      BY <1>1, <1>2
    <3>4. QED
      BY <3>1, <3>2, <3>3 DEF Magnitude
  <2>2. B <= Half
    BY <1>6, Ranges DEF Magnitude, IntRange
  <2>3. QED
    BY <1>1, <1>2, <2>1, <2>2, Ranges DEF IntRange
<1>7. QED
  BY <1>4, <1>5, <1>6

\* The least of some numbers.
LEMMA Least ==
    ASSUME NEW T \in SUBSET Nat, T # {}
    PROVE  \E x \in T : \A y \in T : x <= y
<1> DEFINE R == OpToRel(<, Nat)
<1>1. IsWellFoundedOn(R, Nat)
  BY NatLessThanWellFounded
<1>2. ASSUME NEW i \in Nat, NEW j \in Nat, i < j PROVE <<i, j>> \in R
  <2>1. R = {ss \in Nat \X Nat : ss[1] < ss[2]}
    BY DEF OpToRel
  <2> HIDE DEF R
  <2>2. <<i, j>> \in Nat \X Nat /\ <<i, j>>[1] < <<i, j>>[2]
    BY <1>2
  <2>3. QED
    BY <2>1, <2>2, Zenon
<1> HIDE DEF R
<1>3. PICK x \in T : \A y \in T : <<y, x>> \notin R
  BY <1>1, WFMin
<1>4. ASSUME NEW y \in T PROVE x <= y
  <2>1. x \in Nat /\ y \in Nat
    OBVIOUS
  <2>2. ~(y < x)
    BY <1>2, <1>3, <2>1
  <2>3. QED
    BY <2>1, <2>2
<1>5. QED
  BY <1>4

\* The arithmetic shift to the right.
LEMMA ShiftedRight ==
    ASSUME NEW n \in Int, NEW m \in Nat \ {0}
    PROVE  /\ n \div m \in Int
           /\ n \in IntRange => n \div m \in IntRange
           /\ n \in UIntRange => n \div m \in UIntRange
<1> DEFINE q == n \div m
<1>1. q \in Int /\ n = m * q + (n % m) /\ n % m \in 0 .. m - 1
  OBVIOUS
<1> HIDE DEF q
<1>2. m * q \in Int /\ m * q <= n /\ n < m * q + m
  BY <1>1
<1>3. (q >= 0 => q <= m * q) /\ (q < 0 => m * q + m <= q + 1)
  <2>1. CASE q >= 0
    BY <1>1, <2>1
  <2>2. CASE q < 0
    <3>1. (m - 1) * (q + 1) <= 0
      BY <1>1, <2>2
    <3>2. (m - 1) * (q + 1) = m * q + m - q - 1
      BY <1>1
    <3>3. QED
      BY <1>1, <1>2, <2>2, <3>1, <3>2
  <2>3. QED
    BY <1>1, <2>1, <2>2
<1>4. n >= 0 => q >= 0
  <2>1. SUFFICES ASSUME n >= 0, q < 0 PROVE FALSE
    BY <1>1
  <2>2. QED
    BY <1>1, <1>2, <1>3, <2>1
<1>5. QED
  BY <1>1, <1>2, <1>3, <1>4, Ranges DEF IntRange, UIntRange, q

LEMMA BitProperties ==
    ASSUME NEW n \in Int, NEW i \in Nat
    PROVE  Bit(n, i) \in {0, 1}
<1>1. 2 ^ i \in Nat \ {0}
  BY PowerPositive
<1>2. n \div 2 ^ i \in Int
  BY <1>1
<1>3. QED
  BY <1>2 DEF Bit

\* A word of so many bits: the recursive definition of FromBits defines a
\* function, and its values have no more bits than that.
LEMMA FromBitsProperties ==
    ASSUME NEW bits \in [0 .. Width - 1 -> {0, 1}]
    PROVE  FromBits(bits) \in UIntRange
<1> DEFINE Word(n, w) ==
        w = [i \in 0 .. n |-> IF i = 0 THEN 0 ELSE w[i - 1] + bits[i - 1] * 2 ^ (i - 1)]
           Bounded(n, w) == \A i \in 0 .. n : w[i] \in 0 .. 2 ^ i - 1
<1>1. Width \in Nat
  BY WidthAssumption
<1>2. \A i \in Nat : 2 ^ i \in Nat \ {0}
  BY PowerPositive
<1>3. 2 ^ 0 = 1
  OBVIOUS
<1>4. ASSUME NEW n \in 0 .. Width, NEW w, Word(n, w)
      PROVE  Bounded(n, w)
  <2> DEFINE Large == {i \in 0 .. n : w[i] \notin 0 .. 2 ^ i - 1}
  <2>1. SUFFICES ASSUME Large # {} PROVE FALSE
    OBVIOUS
  <2>2. PICK i \in Large : \A j \in Large : i <= j
    <3>1. Large \in SUBSET Nat
      OBVIOUS
    <3> HIDE DEF Large
    <3>2. QED
      BY <2>1, <3>1, Least
  <2>3. i \in 0 .. n /\ i \in Nat /\ w[i] \notin 0 .. 2 ^ i - 1
    OBVIOUS
  <2>4. w[i] = IF i = 0 THEN 0 ELSE w[i - 1] + bits[i - 1] * 2 ^ (i - 1)
    BY <1>4, <2>3
  <2>5. i # 0
    <3>1. SUFFICES ASSUME i = 0 PROVE FALSE
      OBVIOUS
    <3>2. 2 ^ i = 1 /\ w[i] = 0
      BY <1>3, <2>4, <3>1, Zenon
    <3>3. QED
      BY <2>3, <3>2
  <2>6. i - 1 \in 0 .. n /\ i - 1 \in Nat /\ i - 1 \notin Large
    BY <2>2, <2>3, <2>5
  <2>7. w[i - 1] \in 0 .. 2 ^ (i - 1) - 1
    BY <2>6
  <2>8. bits[i - 1] \in {0, 1}
    BY <1>1, <2>3, <2>5
  <2>9. 2 ^ ((i - 1) + 1) = 2 * 2 ^ (i - 1)
    BY <2>6, PowerDoubles
  <2>10. (i - 1) + 1 = i
    BY <2>3
  <2>11. 2 ^ i = 2 * 2 ^ (i - 1) /\ 2 ^ (i - 1) \in Nat
    BY <1>2, <2>6, <2>9, <2>10, Zenon
  <2>12. bits[i - 1] * 2 ^ (i - 1) \in 0 .. 2 ^ (i - 1)
    BY <2>8, <2>11
  <2> HIDE DEF Large
  <2>13. QED
    BY <2>3, <2>4, <2>5, <2>7, <2>11, <2>12
<1>5. \A n \in 0 .. Width : \E w : Word(n, w)
  <2> DEFINE Undefined == {n \in 0 .. Width : ~ \E w : Word(n, w)}
  <2>1. SUFFICES ASSUME Undefined # {} PROVE FALSE
    OBVIOUS
  <2>2. PICK n \in Undefined : \A k \in Undefined : n <= k
    <3>1. Undefined \in SUBSET Nat
      OBVIOUS
    <3> HIDE DEF Undefined
    <3>2. QED
      BY <2>1, <3>1, Least
  <2>3. n \in 0 .. Width /\ ~ \E w : Word(n, w)
    OBVIOUS
  <2>4. CASE n = 0
    <3>1. Word(0, [i \in 0 .. 0 |-> 0])
      OBVIOUS
    <3>2. QED
      BY <2>3, <2>4, <3>1
  <2>5. CASE n # 0
    <3>1. n - 1 \in 0 .. Width /\ n - 1 \notin Undefined
      <4>1. n \in Nat \ {0} /\ n - 1 \in 0 .. Width /\ ~(n <= n - 1)
        BY <1>1, <2>3, <2>5
      <4> HIDE DEF Undefined
      <4>2. QED
        BY <2>2, <4>1
    <3>2. PICK v : Word(n - 1, v)
      BY <3>1
    <3> DEFINE last == v[n - 1] + bits[n - 1] * 2 ^ (n - 1)
               w == [i \in 0 .. n |-> IF i = n THEN last ELSE v[i]]
    <3>3. \A i \in 0 .. n : w[i] = IF i = 0 THEN 0 ELSE w[i - 1] + bits[i - 1] * 2 ^ (i - 1)
      <4>1. SUFFICES ASSUME NEW i \in 0 .. n
                     PROVE  w[i] = IF i = 0 THEN 0 ELSE w[i - 1] + bits[i - 1] * 2 ^ (i - 1)
        OBVIOUS
      <4>2. n \in Nat
        BY <1>1, <2>3
      <4>3. CASE i = n
        <5>1. w[i] = last /\ w[i - 1] = v[n - 1]
          BY <2>5, <4>2, <4>3
        <5>2. QED
          BY <2>5, <4>3, <5>1
      <4>4. CASE i # n
        <5>1. i \in 0 .. n - 1
          BY <4>2, <4>4
        <5>2. w[i] = v[i] /\ (i # 0 => w[i - 1] = v[i - 1])
          BY <4>2, <5>1
        <5>3. v[i] = IF i = 0 THEN 0 ELSE v[i - 1] + bits[i - 1] * 2 ^ (i - 1)
          BY <3>2, <5>1
        <5> HIDE DEF w
        <5>4. QED
          BY <5>2, <5>3
      <4>5. QED
        BY <4>3, <4>4
    <3>4. w = [i \in 0 .. n |-> w[i]]
      OBVIOUS
    <3> HIDE DEF w
    <3>5. Word(n, w)
      BY <3>3, <3>4
    <3>6. QED
      BY <2>3, <3>5
  <2>6. QED
    BY <2>4, <2>5
<1>6. FromBits(bits) \in 0 .. 2 ^ Width - 1
  <2> DEFINE word == CHOOSE w : Word(Width, w)
  <2>1. FromBits(bits) = word[Width]
    BY DEF FromBits
  <2>2. Word(Width, word)
    <3> HIDE DEF Word
    <3>1. \E w : Word(Width, w)
      BY <1>1, <1>5
    <3>2. QED
      BY <3>1, Zenon
  <2> HIDE DEF word, Word, Bounded
  <2>3. Bounded(Width, word)
    BY <1>1, <1>4, <2>2
  <2> USE DEF Bounded
  <2>4. QED
    BY <1>1, <2>1, <2>3
<1>7. QED
  BY <1>6 DEF UIntRange, Modulus

LEMMA BitOperationProperties ==
    ASSUME NEW op \in {"BitAnd", "BitOr", "BitXor"}, NEW a \in Int, NEW b \in Int
    PROVE  BitOperation(op, a, b) \in UIntRange
<1>1. \A i \in 0 .. Width - 1 : Bit(a, i) \in {0, 1} /\ Bit(b, i) \in {0, 1}
  <2>1. \A i \in 0 .. Width - 1 : i \in Nat
    BY WidthAssumption
  <2>2. QED
    BY <2>1, BitProperties
<1>2. CASE op = "BitAnd"
  <2>1. [i \in 0 .. Width - 1 |-> Bit(a, i) * Bit(b, i)] \in [0 .. Width - 1 -> {0, 1}]
    BY <1>1
  <2>2. QED
    BY <1>2, <2>1, FromBitsProperties DEF BitOperation, BitByBit
<1>3. CASE op = "BitOr"
  <2>1. [i \in 0 .. Width - 1 |-> Bit(a, i) + Bit(b, i) - Bit(a, i) * Bit(b, i)]
            \in [0 .. Width - 1 -> {0, 1}]
    BY <1>1
  <2>2. QED
    BY <1>3, <2>1, FromBitsProperties DEF BitOperation, BitByBit
<1>4. CASE op = "BitXor"
  <2>1. [i \in 0 .. Width - 1 |-> (Bit(a, i) + Bit(b, i)) % 2] \in [0 .. Width - 1 -> {0, 1}]
    BY <1>1
  <2>2. QED
    BY <1>4, <2>1, FromBitsProperties DEF BitOperation, BitByBit
<1>5. QED
  BY <1>2, <1>3, <1>4

-----------------------------------------------------------------------------
(* Values.                                                                 *)

Operands == Scalars \cup [type : {"array", "struct"}, data : Nat]

\* What an operation gives: a value without references, or an error message.
Outcomes == Scalars \cup [type : {"error"}, data : OperationErrors]

LEMMA OperandData ==
    ASSUME NEW v \in Operands
    PROVE  /\ v.type = "int" => v.data \in IntRange
           /\ v.type = "uint" => v.data \in UIntRange
           /\ v.type = "float" => v.data \in Int
           /\ v.type = "bool" => v.data \in {0, 1}
           /\ v.type = "string" => v.data \in Seq(Nat)
BY DEF Operands, Scalars

LEMMA IntegersInRange ==
    /\ \A n \in IntRange : n \in Int
    /\ \A n \in UIntRange : n \in Nat
BY Ranges DEF IntRange, UIntRange

LEMMA ScalarsMade ==
    /\ MakeVoid \in Scalars
    /\ \A n \in IntRange : MakeInt(n) \in Scalars
    /\ \A n \in UIntRange : MakeUInt(n) \in Scalars
    /\ \A x \in Int : MakeFloat(x) \in Scalars
    /\ \A b \in BOOLEAN : MakeBool(b) \in Scalars
    /\ \A s \in Seq(Nat) : MakeString(s) \in Scalars
BY DEF Scalars, MakeVoid, MakeInt, MakeUInt, MakeFloat, MakeBool, MakeString

LEMMA ErrorsMade ==
    ASSUME NEW m \in OperationErrors
    PROVE  Error(m) \in Outcomes
BY DEF Error, Outcomes

LEMMA ScalarOutcomes ==
    /\ \A v \in Scalars : v \in Outcomes
    /\ \A v \in Outcomes : IsError(v) => v.data \in OperationErrors
    /\ \A v \in Outcomes : ~IsError(v) => v \in Scalars
BY DEF Outcomes, Scalars, IsError

LEMMA Sums ==
    ASSUME NEW l \in Operands, NEW r \in Operands
    PROVE  /\ Add(l, r) \in Outcomes
           /\ Sub(l, r) \in Outcomes
           /\ Mul(l, r) \in Outcomes
<1>1. CASE Both(l, r, "int")
  <2>1. l.data \in Int /\ r.data \in Int
    BY <1>1, OperandData, IntegersInRange DEF Both
  <2>2. /\ l.data + r.data \in Int
        /\ l.data - r.data \in Int
        /\ l.data * r.data \in Int
    BY <2>1
  <2>3. /\ MakeInt(WrapInt(l.data + r.data)) \in Outcomes
        /\ MakeInt(WrapInt(l.data - r.data)) \in Outcomes
        /\ MakeInt(WrapInt(l.data * r.data)) \in Outcomes
    BY <2>2, Wrapped, ScalarsMade, ScalarOutcomes
  <2>4. QED
    BY <1>1, <2>3 DEF Add, Sub, Mul, Both
<1>2. CASE Both(l, r, "uint")
  <2>1. l.data \in Int /\ r.data \in Int
    BY <1>2, OperandData, IntegersInRange DEF Both
  <2>2. /\ l.data + r.data \in Int
        /\ l.data - r.data \in Int
        /\ l.data * r.data \in Int
    BY <2>1
  <2>3. /\ MakeUInt(WrapUInt(l.data + r.data)) \in Outcomes
        /\ MakeUInt(WrapUInt(l.data - r.data)) \in Outcomes
        /\ MakeUInt(WrapUInt(l.data * r.data)) \in Outcomes
    BY <2>2, Wrapped, ScalarsMade, ScalarOutcomes
  <2>4. QED
    BY <1>2, <2>3 DEF Add, Sub, Mul, Both
<1>3. CASE Both(l, r, "float")
  <2>1. l.data \in Int /\ r.data \in Int
    BY <1>3, OperandData DEF Both
  <2>2. FloatUnit \in Int /\ FloatUnit # 0 /\ l.data * r.data \in Int
    BY <2>1, WidthAssumption
  <2>3. /\ l.data + r.data \in Int
        /\ l.data - r.data \in Int
        /\ Quotient(l.data * r.data, FloatUnit) \in Int
    BY <2>1, <2>2, QuotientProperties
  <2>4. /\ MakeFloat(l.data + r.data) \in Outcomes
        /\ MakeFloat(l.data - r.data) \in Outcomes
        /\ MakeFloat(Quotient(l.data * r.data, FloatUnit)) \in Outcomes
    BY <2>3, ScalarsMade, ScalarOutcomes
  <2>5. QED
    BY <1>3, <2>4 DEF Add, Sub, Mul, Both
<1>4. Error("operand types") \in Outcomes
  BY ErrorsMade DEF OperationErrors
<1>5. CASE Both(l, r, "string")
  <2>1. l.data \o r.data \in Seq(Nat)
    BY <1>5, OperandData DEF Both
  <2>2. MakeString(l.data \o r.data) \in Outcomes
    BY <2>1, ScalarsMade, ScalarOutcomes
  <2>3. QED
    BY <1>4, <1>5, <2>2 DEF Add, Sub, Mul, Both
<1>6. CASE \A t \in {"int", "uint", "float", "string"} : ~Both(l, r, t)
  BY <1>4, <1>6 DEF Add, Sub, Mul
<1>7. QED
  BY <1>1, <1>2, <1>3, <1>5, <1>6

LEMMA Quotients ==
    ASSUME NEW l \in Operands, NEW r \in Operands
    PROVE  Div(l, r) \in Outcomes /\ Mod(l, r) \in Outcomes
<1>1. \A m \in OperationErrors : Error(m) \in Outcomes
  BY ErrorsMade
<1>2. CASE l.type # r.type \/ l.type \notin {"int", "uint", "float"} \/ r.data = 0
  <2>1. /\ Error("operand types") \in Outcomes
        /\ Error("division by zero") \in Outcomes
        /\ Error("modulo by zero") \in Outcomes
    BY <1>1 DEF OperationErrors
  <2>2. CASE l.type # r.type \/ l.type \notin {"int", "uint", "float"}
    BY <2>1, <2>2 DEF Div, Mod
  <2>3. CASE l.type = r.type /\ l.type \in {"int", "uint", "float"} /\ r.data = 0
    <3>1. Div(l, r) = Error("division by zero")
      BY <2>3 DEF Div
    <3>2. CASE l.type = "float"
      <4>1. Mod(l, r) = Error("operand types")
        BY <3>2 DEF Mod
      <4>2. QED
        BY <2>1, <3>1, <4>1
    <3>3. CASE l.type # "float"
      <4>1. Mod(l, r) = Error("modulo by zero")
        BY <2>3, <3>3 DEF Mod
      <4>2. QED
        BY <2>1, <3>1, <4>1
    <3>4. QED
      BY <2>1, <3>1, <3>2, <3>3
  <2>4. QED
    BY <1>2, <2>2, <2>3
<1>3. CASE Both(l, r, "int") /\ r.data # 0
  <2>1. l.data \in IntRange /\ r.data \in IntRange /\ l.data \in Int /\ r.data \in Int
    BY <1>3, OperandData, IntegersInRange DEF Both
  <2>2. CASE QuotientTraps(l.data, r.data)
    BY <1>1, <1>3, <2>2 DEF Div, Mod, Both, OperationErrors
  <2>3. CASE ~QuotientTraps(l.data, r.data)
    <3>1. Quotient(l.data, r.data) \in IntRange /\ Remainder(l.data, r.data) \in IntRange
      BY <1>3, <2>1, <2>3, QuotientProperties
    <3>2. /\ MakeInt(Quotient(l.data, r.data)) \in Outcomes
          /\ MakeInt(Remainder(l.data, r.data)) \in Outcomes
      BY <3>1, ScalarsMade, ScalarOutcomes
    <3>3. QED
      BY <1>3, <2>3, <3>2 DEF Div, Mod, Both, OperationErrors
  <2>4. QED
    BY <2>2, <2>3
<1>4. CASE Both(l, r, "uint") /\ r.data # 0
  <2>1. l.data \in UIntRange /\ r.data \in UIntRange
    BY <1>4, OperandData DEF Both
  <2>2. l.data \in Nat /\ r.data \in Nat \ {0}
    BY <1>4, <2>1, IntegersInRange
  <2>3. l.data \div r.data \in 0 .. l.data /\ l.data % r.data \in 0 .. r.data - 1
    <3>1. l.data % r.data \in 0 .. r.data - 1
      BY <2>2
    <3>2. l.data \div r.data \in 0 .. l.data
      BY <2>2, DivisionProperties
    <3>3. QED
      BY <3>1, <3>2
  <2>4. l.data \div r.data \in UIntRange /\ l.data % r.data \in UIntRange
    BY <2>1, <2>2, <2>3, Ranges DEF UIntRange
  <2>5. MakeUInt(l.data \div r.data) \in Outcomes /\ MakeUInt(l.data % r.data) \in Outcomes
    BY <2>4, ScalarsMade, ScalarOutcomes
  <2>6. QED
    BY <1>4, <2>5 DEF Div, Mod, Both, OperationErrors
<1>5. CASE Both(l, r, "float") /\ r.data # 0
  <2>1. l.data \in Int /\ r.data \in Int /\ l.data * FloatUnit \in Int
    BY <1>5, OperandData, WidthAssumption DEF Both
  <2>2. Quotient(l.data * FloatUnit, r.data) \in Int
    BY <1>5, <2>1, QuotientProperties
  <2>3. MakeFloat(Quotient(l.data * FloatUnit, r.data)) \in Outcomes
    BY <2>2, ScalarsMade, ScalarOutcomes
  <2>4. QED
    BY <1>1, <1>5, <2>3 DEF Div, Mod, Both, OperationErrors
<1>6. QED
  BY <1>2, <1>3, <1>4, <1>5 DEF Both

LEMMA Comparisons ==
    ASSUME NEW op, NEW l \in Operands, NEW r \in Operands
    PROVE  Compare(op, l, r) \in Outcomes
<1>1. \A m \in OperationErrors : Error(m) \in Outcomes
  BY ErrorsMade
<1>2. \A b : MakeBool(b) \in Outcomes
  BY DEF MakeBool, Outcomes, Scalars
<1>3. QED
  BY <1>1, <1>2 DEF Compare, OperationErrors

LEMMA BitwiseResults ==
    ASSUME NEW op \in {"BitAnd", "BitOr", "BitXor"}, NEW l \in Operands, NEW r \in Operands
    PROVE  Bitwise(op, l, r) \in Outcomes
<1>1. Error("operand types") \in Outcomes
  BY ErrorsMade DEF OperationErrors
<1>2. CASE Both(l, r, "int") \/ Both(l, r, "uint")
  <2>1. l.data \in Int /\ r.data \in Int
    BY <1>2, OperandData, IntegersInRange DEF Both
  <2>2. BitOperation(op, l.data, r.data) \in UIntRange
    BY <2>1, BitOperationProperties
  <2>3. WrapInt(BitOperation(op, l.data, r.data)) \in IntRange
    BY <2>2, Wrapped, IntegersInRange
  <2>4. /\ MakeUInt(BitOperation(op, l.data, r.data)) \in Outcomes
        /\ MakeInt(WrapInt(BitOperation(op, l.data, r.data))) \in Outcomes
    BY <2>2, <2>3, ScalarsMade, ScalarOutcomes
  <2>5. QED
    BY <1>2, <2>4 DEF Bitwise, Both, OperationErrors
<1>3. CASE ~(Both(l, r, "int") \/ Both(l, r, "uint"))
  BY <1>1, <1>3 DEF Bitwise, OperationErrors
<1>4. QED
  BY <1>2, <1>3

LEMMA Shifts ==
    ASSUME NEW op, NEW l \in Operands, NEW r \in Operands
    PROVE  Shift(op, l, r) \in Outcomes
<1>1. \A m \in OperationErrors : Error(m) \in Outcomes
  BY ErrorsMade
<1>2. CASE /\ l.type \in {"int", "uint"}
           /\ r.data \in 0 .. Width - 1
  <2> DEFINE power == 2 ^ r.data
  <2>1. r.data \in Nat /\ power \in Nat \ {0}
    <3>1. r.data \in Nat
      BY <1>2, WidthAssumption
    <3>2. QED
      BY <3>1, PowerPositive
  <2>2. l.data \in Int /\ (l.type = "int" => l.data \in IntRange) /\ (l.type = "uint" => l.data \in UIntRange)
    BY <1>2, OperandData, IntegersInRange
  <2> HIDE DEF power
  <2>3. l.data * power \in Int
    BY <2>1, <2>2
  <2>4. /\ WrapInt(l.data * power) \in IntRange
        /\ WrapUInt(l.data * power) \in UIntRange
        /\ l.type = "int" => l.data \div power \in IntRange
        /\ l.type = "uint" => l.data \div power \in UIntRange
    BY <2>1, <2>2, <2>3, Wrapped, ShiftedRight
  <2>5. /\ MakeInt(WrapInt(l.data * power)) \in Outcomes
        /\ MakeUInt(WrapUInt(l.data * power)) \in Outcomes
        /\ l.type = "int" => MakeInt(l.data \div power) \in Outcomes
        /\ l.type = "uint" => MakeUInt(l.data \div power) \in Outcomes
    BY <2>4, ScalarsMade, ScalarOutcomes
  <2>6. QED
    BY <1>1, <1>2, <2>5 DEF Shift, power, OperationErrors
<1>3. CASE ~(l.type \in {"int", "uint"} /\ r.data \in 0 .. Width - 1)
  <2>1. Error("operand types") \in Outcomes /\ Error("invalid shift count") \in Outcomes
    BY <1>1 DEF OperationErrors
  <2>2. CASE r.type \notin {"int", "uint"} \/ r.data \notin 0 .. Width - 1
    BY <2>1, <2>2 DEF Shift
  <2>3. CASE l.type \notin {"int", "uint"}
    BY <2>1, <2>3 DEF Shift
  <2>4. QED
    BY <1>3, <2>2, <2>3
<1>4. QED
  BY <1>2, <1>3

LEMMA UnaryResults ==
    ASSUME NEW op, NEW v \in Operands
    PROVE  /\ BitNot(v) \in Outcomes
           /\ Neg(v) \in Outcomes
           /\ Not(v) \in Outcomes
           /\ Cast(op, v) \in Outcomes
           /\ ToInt(v) \in Outcomes
<1>1. \A m \in OperationErrors : Error(m) \in Outcomes
  BY ErrorsMade
<1>2. \A b : MakeBool(b) \in Outcomes
  BY DEF MakeBool, Outcomes, Scalars
<1>3. BitNot(v) \in Outcomes
  <2>1. v.type = "int" => MakeInt(-v.data - 1) \in Outcomes
    <3>1. v.type = "int" => -v.data - 1 \in IntRange
      BY OperandData, Ranges DEF IntRange
    <3>2. QED
      BY <3>1, ScalarsMade, ScalarOutcomes
  <2>2. v.type = "uint" => MakeUInt(Modulus - 1 - v.data) \in Outcomes
    <3>1. v.type = "uint" => Modulus - 1 - v.data \in UIntRange
      BY OperandData, Ranges DEF UIntRange
    <3>2. QED
      BY <3>1, ScalarsMade, ScalarOutcomes
  <2>3. QED
    BY <1>1, <2>1, <2>2 DEF BitNot, OperationErrors
<1>4. Neg(v) \in Outcomes
  <2>1. v.type = "int" => MakeInt(WrapInt(-v.data)) \in Outcomes
    <3>1. v.type = "int" => -v.data \in Int
      BY OperandData, Ranges DEF IntRange
    <3>2. QED
      BY <3>1, Wrapped, ScalarsMade, ScalarOutcomes
  <2>2. v.type = "float" => MakeFloat(-v.data) \in Outcomes
    BY OperandData, ScalarsMade, ScalarOutcomes
  <2>3. QED
    BY <1>1, <2>1, <2>2 DEF Neg, OperationErrors
<1>5. Not(v) \in Outcomes
  BY <1>1, <1>2 DEF Not, OperationErrors
<1>6. Cast(op, v) \in Outcomes
  <2> DEFINE truncated == Quotient(v.data, FloatUnit)
  <2>1. CASE v.type \in {"int", "uint", "float", "bool"}
    <3>1. v.data \in Int
      BY <2>1, OperandData, IntegersInRange
    <3>2. truncated \in Int /\ v.data * FloatUnit \in Int
      BY <3>1, WidthAssumption, QuotientProperties
    <3> HIDE DEF truncated
    <3>3. -Half \in IntRange
      BY Ranges DEF IntRange
    <3>4. /\ (IF truncated \in IntRange THEN truncated ELSE -Half) \in IntRange
          /\ WrapInt(v.data) \in IntRange
          /\ WrapUInt(truncated) \in UIntRange
          /\ WrapUInt(v.data) \in UIntRange
          /\ (IF v.type = "float" THEN v.data ELSE v.data * FloatUnit) \in Int
      BY <3>1, <3>2, <3>3, Wrapped
    <3>5. /\ MakeInt(IF truncated \in IntRange THEN truncated ELSE -Half) \in Outcomes
          /\ MakeInt(WrapInt(v.data)) \in Outcomes
          /\ MakeUInt(WrapUInt(truncated)) \in Outcomes
          /\ MakeUInt(WrapUInt(v.data)) \in Outcomes
          /\ MakeFloat(IF v.type = "float" THEN v.data ELSE v.data * FloatUnit) \in Outcomes
      BY <3>4, ScalarsMade, ScalarOutcomes
    <3>6. QED
      BY <1>1, <1>2, <3>5 DEF Cast, truncated, OperationErrors
  <2>2. CASE v.type \notin {"int", "uint", "float", "bool"}
    <3>1. Error("operand types") \in Outcomes
      BY <1>1 DEF OperationErrors
    <3>2. QED
      BY <2>2, <3>1 DEF Cast
  <2>3. QED
    BY <2>1, <2>2
<1>7. ToInt(v) \in Outcomes
  <2>1. \A n \in IntRange : MakeInt(n) \in Outcomes
    BY ScalarsMade, ScalarOutcomes
  <2>2. QED
    BY <1>1, <2>1 DEF ToInt, OperationErrors
<1>8. QED
  BY <1>3, <1>4, <1>5, <1>6, <1>7

-----------------------------------------------------------------------------
(* The heap only grows, so what a slot holds stays a value.                *)

ValueOf(n)  == Scalars \cup [type : {"array", "struct"}, data : 1 .. n]
ObjectOf(n) == [name : Seq(Nat), elems : Seq(ValueOf(n))]
FrameOf(n)  == [functionIndex : Functions(bytecode), returnIp : -1 .. Len(code),
                locals : Seq(ValueOf(n))]

LEMMA ValuesStayValues ==
    ASSUME NEW m \in Nat, NEW n \in Nat, m <= n
    PROVE  /\ ValueOf(m) \subseteq ValueOf(n)
           /\ Seq(ValueOf(m)) \subseteq Seq(ValueOf(n))
           /\ Seq(ObjectOf(m)) \subseteq Seq(ObjectOf(n))
           /\ Seq(FrameOf(m)) \subseteq Seq(FrameOf(n))
<1>1. ValueOf(m) \subseteq ValueOf(n)
  BY DEF ValueOf
<1>2. Seq(ValueOf(m)) \subseteq Seq(ValueOf(n))
  BY <1>1, SeqMonotonic
<1>3. ObjectOf(m) \subseteq ObjectOf(n) /\ FrameOf(m) \subseteq FrameOf(n)
  BY <1>2 DEF ObjectOf, FrameOf
<1>4. QED
  BY <1>1, <1>2, <1>3, SeqMonotonic

LEMMA ValuesAreOperands ==
    ASSUME NEW n \in Nat
    PROVE  Scalars \subseteq ValueOf(n) /\ ValueOf(n) \subseteq Operands
BY DEF ValueOf, Operands

LEMMA StackParts ==
    ASSUME NEW S, stack \in Seq(S), NEW n \in 0 .. Len(stack)
    PROVE  /\ Below(n) \in Seq(S)
           /\ Len(Below(n)) = Len(stack) - n
           /\ \A i \in 1 .. Len(stack) - n : Below(n)[i] = stack[i]
           /\ Arguments(n) \in Seq(S)
           /\ Len(Arguments(n)) = n
           /\ \A i \in 0 .. n - 1 : Operand(i) \in S
<1>1. Len(stack) \in Nat /\ \A i \in 1 .. Len(stack) : stack[i] \in S
  OBVIOUS
<1>2. /\ SubSeq(stack, 1, Len(stack) - n) \in Seq(S)
      /\ Len(SubSeq(stack, 1, Len(stack) - n)) = Len(stack) - n
      /\ \A i \in 1 .. Len(stack) - n : SubSeq(stack, 1, Len(stack) - n)[i] = stack[i]
  OBVIOUS
<1>3. /\ SubSeq(stack, Len(stack) - n + 1, Len(stack)) \in Seq(S)
      /\ Len(SubSeq(stack, Len(stack) - n + 1, Len(stack))) = n
  OBVIOUS
<1>4. \A i \in 0 .. n - 1 : stack[Len(stack) - i] \in S
  BY <1>1
<1>5. QED
  BY <1>2, <1>3, <1>4 DEF Below, Arguments, Operand

-----------------------------------------------------------------------------
(* The inductive invariant.                                                *)

Loaded == frames # <<>> => bytecode \in Bytecodes

IInv == TypeOK /\ Loaded /\ StaysInFunction /\ ReturnsToItsCall

\* Where the machine is when it executes an instruction.
LEMMA AtInstruction ==
    ASSUME IInv, running
    PROVE  /\ IsBytecode(bytecode)
           /\ Len(frames) \in Nat \ {0}
           /\ currentFrame \in FrameOf(Len(heap))
           /\ Len(locals) = functions[currentFrame.functionIndex + 1].locals
           /\ ip \in Addresses(bytecode)
           /\ Inside(ip, currentFrame.functionIndex)
           /\ Instruction \in [op : OpCode, arg : Int, arg2 : Int, text : Seq(Nat)]
<1>1. bytecode \in Bytecodes /\ IsBytecode(bytecode)
  BY BytecodesAssumption DEF IInv, TypeOK, Loaded
<1>2. heap \in Seq([name : Seq(Nat), elems : Seq(Value)])
  BY DEF IInv, TypeOK
<1>3. frames \in Seq(FrameOf(Len(heap))) /\ frames # <<>>
  BY DEF IInv, TypeOK, FrameOf, Value, ValueOf
<1>4. Len(frames) \in Nat \ {0} /\ currentFrame \in FrameOf(Len(heap))
  BY <1>3 DEF currentFrame
<1>5. Len(locals) = functions[currentFrame.functionIndex + 1].locals
  <2>1. \A d \in DOMAIN frames :
            Len(frames[d].locals) = functions[frames[d].functionIndex + 1].locals
    BY DEF IInv, TypeOK
  <2>2. Len(frames) \in DOMAIN frames
    BY <1>3, <1>4
  <2>3. QED
    BY <2>1, <2>2 DEF currentFrame, locals
<1>6. ip \in Addresses(bytecode) /\ Inside(ip, currentFrame.functionIndex)
  BY DEF IInv, StaysInFunction
<1>7. Instruction \in [op : OpCode, arg : Int, arg2 : Int, text : Seq(Nat)]
  <2>1. code \in Seq([op : OpCode, arg : Int, arg2 : Int, text : Seq(Nat)])
    BY <1>1 DEF IsBytecode, code
  <2>2. ip + 1 \in 1 .. Len(code)
    BY <1>6, <2>1 DEF Addresses, code
  <2>3. QED
    BY <2>1, <2>2, ElementOfSeq DEF Instruction
<1>8. QED
  BY <1>1, <1>4, <1>5, <1>6, <1>7

\* Control leaves a function by calls and returns only.
LEMMA Targets ==
    ASSUME IInv, running
    PROVE  /\ Instruction.op # "Ret" =>
                  /\ ip + 1 \in Addresses(bytecode)
                  /\ Inside(ip + 1, currentFrame.functionIndex)
           /\ Instruction.op \in Jumps =>
                  /\ Instruction.arg \in Addresses(bytecode)
                  /\ Inside(Instruction.arg, currentFrame.functionIndex)
<1>1. /\ StaysInFunctions(bytecode)
      /\ ip \in Addresses(bytecode)
      /\ InFunction(bytecode, ip, currentFrame.functionIndex)
      /\ currentFrame.functionIndex \in Functions(bytecode)
  BY AtInstruction DEF IsBytecode, Inside, FrameOf
<1>2. QED
  BY <1>1 DEF StaysInFunctions, Instruction, code, Inside

-----------------------------------------------------------------------------
(* What the loop checks before it executes an instruction.                 *)

LEMMA FaultFree ==
    ASSUME IInv, running, Fault = ""
    PROVE  /\ ~LocalMissing(Instruction)
           /\ Instruction.op = "Call" => CallFault(Instruction) = ""
           /\ Instruction.op # "Call" =>
                  /\ Pops(Instruction) \in 0 .. Len(stack)
                  /\ OperandFault(Instruction) = ""
BY DEF Fault

LEMMA StackOfValues ==
    ASSUME IInv
    PROVE  /\ Len(heap) \in Nat
           /\ stack \in Seq(ValueOf(Len(heap)))
           /\ heap \in Seq(ObjectOf(Len(heap)))
<1>1. /\ stack \in Seq(Value)
      /\ heap \in Seq([name : Seq(Nat), elems : Seq(Value)])
  BY DEF IInv, TypeOK
<1>2. Value = ValueOf(Len(heap))
  BY DEF Value, ValueOf
<1>3. QED
  BY <1>1, <1>2 DEF ObjectOf

LEMMA OperandValues ==
    ASSUME IInv, NEW n \in 0 .. Len(stack)
    PROVE  \A i \in 0 .. n - 1 : Operand(i) \in ValueOf(Len(heap)) /\ Operand(i) \in Operands
<1>1. \A i \in 0 .. n - 1 : Operand(i) \in ValueOf(Len(heap))
  BY StackOfValues, StackParts
<1>2. QED
  BY <1>1, StackOfValues, ValuesAreOperands

LEMMA ResultProperties ==
    ASSUME IInv, running, Pops(Instruction) \in 0 .. Len(stack), Instruction.op # "Call"
    PROVE  Result(Instruction) \in Outcomes
<1> DEFINE op == Instruction.op
<1>1. CASE op \in BinaryOps
  <2>1. Operand(1) \in Operands /\ Operand(0) \in Operands
    <3>1. Pops(Instruction) = 2
      BY <1>1 DEF Pops, BinaryOps, ArithOps, OrderOps, BitOps, ShiftOps, EqualOps, PushOps
    <3>2. 2 \in 0 .. Len(stack)
      BY <3>1
    <3>3. QED
      BY <3>2, OperandValues
  <2>2. /\ Add(Operand(1), Operand(0)) \in Outcomes
        /\ Sub(Operand(1), Operand(0)) \in Outcomes
        /\ Mul(Operand(1), Operand(0)) \in Outcomes
        /\ Div(Operand(1), Operand(0)) \in Outcomes
        /\ Mod(Operand(1), Operand(0)) \in Outcomes
        /\ Compare(op, Operand(1), Operand(0)) \in Outcomes
        /\ Shift(op, Operand(1), Operand(0)) \in Outcomes
        /\ op \in BitOps => Bitwise(op, Operand(1), Operand(0)) \in Outcomes
    BY <2>1, Sums, Quotients, Comparisons, Shifts, BitwiseResults DEF BitOps
  <2>3. \A b : MakeBool(b) \in Outcomes
    BY DEF MakeBool, Outcomes, Scalars
  <2>4. QED
    BY <1>1, <2>2, <2>3 DEF Result, BinaryOps, ArithOps, OrderOps, BitOps, ShiftOps, EqualOps,
                            CastOps
<1>2. CASE op \in CastOps \cup {"BitNot", "Neg", "Not", "ToInt", "Len"}
  <2>1. Operand(0) \in Operands
    <3>1. Pops(Instruction) = 1
      BY <1>2 DEF Pops, BinaryOps, ArithOps, OrderOps, BitOps, ShiftOps, EqualOps, PushOps, CastOps
    <3>2. 1 \in 0 .. Len(stack)
      BY <3>1
    <3>3. QED
      BY <3>2, OperandValues
  <2>2. /\ BitNot(Operand(0)) \in Outcomes
        /\ Neg(Operand(0)) \in Outcomes
        /\ Not(Operand(0)) \in Outcomes
        /\ ToInt(Operand(0)) \in Outcomes
        /\ Cast(op, Operand(0)) \in Outcomes
    BY <2>1, UnaryResults
  <2>3. CASE op = "Len"
    <3>1. Error("operand types") \in Outcomes
      BY ErrorsMade DEF OperationErrors
    <3>2. Operand(0).type = "string" => MakeInt(WrapInt(Len(Operand(0).data))) \in Outcomes
      <4>1. Operand(0).type = "string" => Len(Operand(0).data) \in Int
        BY <2>1, OperandData
      <4>2. QED
        BY <4>1, Wrapped, ScalarsMade, ScalarOutcomes
    <3>3. Operand(0).type = "array" =>
              MakeInt(WrapInt(Len(heap[Operand(0).data].elems))) \in Outcomes
      <4>1. SUFFICES ASSUME Operand(0).type = "array"
                     PROVE  MakeInt(WrapInt(Len(heap[Operand(0).data].elems))) \in Outcomes
        OBVIOUS
      <4>2. 1 \in 0 .. Len(stack)
        BY <1>2 DEF Pops, BinaryOps, ArithOps, OrderOps, BitOps, ShiftOps, EqualOps, PushOps, CastOps
      <4>3. Operand(0) \in ValueOf(Len(heap))
        BY <4>2, OperandValues
      <4>4. Operand(0).data \in 1 .. Len(heap)
        BY <4>1, <4>3 DEF ValueOf, Scalars
      <4>5. heap[Operand(0).data] \in ObjectOf(Len(heap))
        BY <4>4, StackOfValues, ElementOfSeq
      <4>6. Len(heap[Operand(0).data].elems) \in Int
        BY <4>5 DEF ObjectOf
      <4>7. QED
        BY <4>6, Wrapped, ScalarsMade, ScalarOutcomes
    <3>4. QED
      BY <2>3, <3>1, <3>2, <3>3 DEF Result, OrderOps, BitOps, ShiftOps, CastOps
  <2>4. CASE op # "Len"
    BY <1>2, <2>2, <2>4 DEF Result, OrderOps, BitOps, ShiftOps, CastOps
  <2>5. QED
    BY <2>3, <2>4
<1>3. CASE op \notin BinaryOps \cup CastOps \cup {"BitNot", "Neg", "Not", "ToInt", "Len"}
  <2>1. Result(Instruction) = MakeVoid
    BY <1>3 DEF Result, BinaryOps, ArithOps, OrderOps, BitOps, ShiftOps, EqualOps, CastOps
  <2>2. QED
    BY <2>1, ScalarsMade, ScalarOutcomes
<1>4. QED
  BY <1>1, <1>2, <1>3

\* No instruction leads out of the code.
LEMMA FaultMessages ==
    ASSUME IInv, running
    PROVE  Fault \in (Messages \ ControlErrors) \cup {""}
<1> DEFINE Good == (Messages \ ControlErrors) \cup {""}
<1>1. IsBytecode(bytecode) /\ ip \in Addresses(bytecode) /\ Len(code) \in Nat
  BY AtInstruction DEF IsBytecode, code
<1>2. ip # Len(code) /\ ip \in 0 .. Len(code)
  BY <1>1 DEF Addresses, code
<1>3. CallFault(Instruction) \in Good
  <2>1. SUFFICES ASSUME Instruction.arg \in 0 .. Len(functions) - 1
                 PROVE  ~(functions[Instruction.arg + 1].address < 0)
    BY DEF CallFault, Raise, Messages, ControlErrors
  <2>2. functions \in Seq([address : Addresses(bytecode), params : Nat, locals : Nat,
                            returnType : ReturnTypes])
    BY <1>1 DEF IsBytecode, functions
  <2>3. functions[Instruction.arg + 1].address \in Addresses(bytecode)
    <3>1. Instruction.arg + 1 \in 1 .. Len(functions)
      BY <2>1, <2>2
    <3>2. functions[Instruction.arg + 1] \in
              [address : Addresses(bytecode), params : Nat, locals : Nat, returnType : ReturnTypes]
      BY <2>2, <3>1, ElementOfSeq
    <3>3. QED
      BY <3>2
  <2>4. QED
    BY <1>1, <2>3 DEF Addresses, code
<1>4. ASSUME Pops(Instruction) \in 0 .. Len(stack), Instruction.op # "Call"
      PROVE  OperandFault(Instruction) \in Good
  <2>1. IndexFault(Instruction) \in Good /\ FieldFault(Instruction) \in Good
    BY DEF IndexFault, FieldFault, Raise, Messages, ControlErrors, OperationErrors
  <2>2. Instruction.op \in Jumps => JumpFault(Instruction) \in Good
    <3>1. Instruction.op \in Jumps => Instruction.arg \in 0 .. Len(code)
      BY <1>1, Targets DEF Addresses, code
    <3>2. QED
      BY <3>1 DEF JumpFault, Raise, Messages, ControlErrors, OperationErrors
  <2>3. IsError(Result(Instruction)) => Result(Instruction).data \in Good
    <3>1. IsError(Result(Instruction)) => Result(Instruction).data \in OperationErrors
      BY <1>4, ResultProperties, ScalarOutcomes
    <3>2. OperationErrors \subseteq Good
      BY DEF Messages, ControlErrors, OperationErrors
    <3>3. QED
      BY <3>1, <3>2
  <2>4. {"operand types", "assertion failed", "panic", "RET from main", "SIGSEGV", ""} \subseteq Good
    BY DEF Messages, ControlErrors, OperationErrors
  <2> HIDE DEF Good
  <2>5. \A c, m : Raise(c, m) \in {m, ""}
    BY DEF Raise
  <2>6. QED
    BY <2>1, <2>2, <2>3, <2>4, <2>5
       DEF OperandFault, IndexOps, FieldOps, JumpIfOps, Jumps, EqualOps
<1>5. {"invalid local variable index", "stack underflow"} \subseteq Good
  BY DEF Messages, ControlErrors
<1> HIDE DEF Good
<1>6. Fault \in Good
  BY <1>2, <1>3, <1>4, <1>5 DEF Fault
<1>7. QED
  BY <1>6 DEF Good

-----------------------------------------------------------------------------
(* The steps of the machine inside the current call.                       *)

\* The open calls stay the same, but for the values in their slots.
SameCalls ==
    /\ frames' \in Seq(FrameOf(Len(heap')))
    /\ Len(frames') = Len(frames)
    /\ \A d \in 1 .. Len(frames) :
           /\ frames'[d].functionIndex = frames[d].functionIndex
           /\ frames'[d].returnIp = frames[d].returnIp
           /\ Len(frames'[d].locals) = Len(frames[d].locals)

LEMMA FramesOfCalls ==
    ASSUME IInv
    PROVE  frames \in Seq(FrameOf(Len(heap)))
BY DEF IInv, TypeOK, FrameOf, Value, ValueOf

LEMMA SequentialStep ==
    ASSUME IInv, running,
           UNCHANGED <<bytecode, running, returnCode, error, bases>>,
           SameCalls,
           Len(heap') \in Nat,
           heap' \in Seq(ObjectOf(Len(heap'))),
           stack' \in Seq(ValueOf(Len(heap'))),
           input' \in Seq(Seq(Nat)),
           \/ Instruction.op # "Ret" /\ ip' = ip + 1
           \/ Instruction.op \in Jumps /\ ip' = Instruction.arg
    PROVE  IInv'
<1>1. /\ bytecode' = bytecode /\ running' = TRUE
      /\ code' = code /\ functions' = functions
  BY DEF code, functions, IInv, TypeOK
<1>2. /\ frames \in Seq(FrameOf(Len(heap))) /\ frames # <<>> /\ Len(frames) \in Nat \ {0}
      /\ frames' # <<>> /\ Len(frames') = Len(frames)
      /\ DOMAIN frames' = 1 .. Len(frames) /\ DOMAIN frames = 1 .. Len(frames)
  BY FramesOfCalls, AtInstruction DEF SameCalls
<1>3. currentFrame'.functionIndex = currentFrame.functionIndex
  BY <1>2 DEF currentFrame, SameCalls
<1>4. StaysInFunction'
  <2>1. ip' \in Addresses(bytecode) /\ Inside(ip', currentFrame.functionIndex)
    BY Targets
  <2>2. error' \notin ControlErrors
    BY DEF IInv, StaysInFunction
  <2>3. QED
    BY <1>1, <1>3, <2>1, <2>2 DEF StaysInFunction, Inside
<1>5. TypeOK'
  <2>1. bytecode' \in Bytecodes \cup {NoBytecode}
    BY <1>1 DEF IInv, TypeOK
  <2>2. Value' = ValueOf(Len(heap'))
    BY DEF Value, ValueOf
  <2>3. stack' \in Seq(Value') /\ heap' \in Seq([name : Seq(Nat), elems : Seq(Value')])
    BY <2>2 DEF ObjectOf
  <2>4. frames' \in Seq([functionIndex : Functions(bytecode'), returnIp : -1 .. Len(code'),
                         locals : Seq(Value')])
    BY <1>1, <2>2 DEF SameCalls, FrameOf
  <2>5. \A d \in DOMAIN frames' :
            Len(frames'[d].locals) = functions'[frames'[d].functionIndex + 1].locals
    <3>1. \A d \in DOMAIN frames :
            Len(frames[d].locals) = functions[frames[d].functionIndex + 1].locals
      BY DEF IInv, TypeOK
    <3>2. QED
      BY <1>1, <1>2, <3>1 DEF SameCalls
  <2>6. ip' \in 0 .. Len(code')
    BY <1>1, <1>4 DEF StaysInFunction, Addresses, code
  <2>7. /\ running' \in BOOLEAN
        /\ running' => frames' # <<>>
    BY <1>1, <1>2
  <2>8. /\ returnCode' \in IntRange
        /\ error' \in Messages \cup {""}
        /\ bases' \in Seq(Nat)
        /\ Len(bases') = Len(frames')
    BY <1>2 DEF IInv, TypeOK
  <2>9. QED
    BY <2>1, <2>3, <2>4, <2>5, <2>6, <2>7, <2>8 DEF TypeOK
<1>6. Loaded'
  BY <1>1, <1>2 DEF IInv, Loaded
<1>7. ReturnsToItsCall'
  <2>1. SUFFICES ASSUME NEW d \in 1 .. Len(frames)
                 PROVE  IF d = 1 THEN frames'[d].returnIp = -1
                        ELSE /\ frames'[d].returnIp \in 1 .. Len(code)
                             /\ code[frames'[d].returnIp].op = "Call"
                             /\ code[frames'[d].returnIp].arg = frames'[d].functionIndex
                             /\ Inside(frames'[d].returnIp - 1, frames'[d - 1].functionIndex)
    BY <1>1, <1>2 DEF ReturnsToItsCall, Inside
  <2>2. IF d = 1 THEN frames[d].returnIp = -1
        ELSE /\ frames[d].returnIp \in 1 .. Len(code)
             /\ code[frames[d].returnIp].op = "Call"
             /\ code[frames[d].returnIp].arg = frames[d].functionIndex
             /\ Inside(frames[d].returnIp - 1, frames[d - 1].functionIndex)
    BY <1>2 DEF IInv, ReturnsToItsCall
  <2>3. d # 1 => d - 1 \in 1 .. Len(frames)
    BY <1>2
  <2>4. QED
    BY <2>2, <2>3 DEF SameCalls
<1>8. QED
  BY <1>4, <1>5, <1>6, <1>7 DEF IInv

LEMMA SameFrames ==
    ASSUME IInv, UNCHANGED frames, Len(heap') \in Nat, Len(heap) <= Len(heap')
    PROVE  SameCalls
<1>1. Len(heap) \in Nat
  BY StackOfValues
<1>2. frames \in Seq(FrameOf(Len(heap')))
  BY <1>1, FramesOfCalls, ValuesStayValues
<1>3. QED
  BY <1>2 DEF SameCalls

\* A step that leaves the heap and the frames alone.
LEMMA StackStep ==
    ASSUME IInv, running,
           UNCHANGED <<bytecode, frames, heap, running, returnCode, error, bases>>,
           stack' \in Seq(ValueOf(Len(heap))),
           input' \in Seq(Seq(Nat)),
           \/ Instruction.op # "Ret" /\ ip' = ip + 1
           \/ Instruction.op \in Jumps /\ ip' = Instruction.arg
    PROVE  IInv'
<1>1. /\ Len(heap) \in Nat /\ Len(heap') = Len(heap)
      /\ heap' \in Seq(ObjectOf(Len(heap')))
      /\ stack' \in Seq(ValueOf(Len(heap')))
  BY StackOfValues
<1>2. SameCalls
  BY <1>1, SameFrames
<1>3. QED
  BY <1>1, <1>2, SequentialStep

LEMMA Executed ==
    ASSUME IInv, NEW ops, Executing(ops)
    PROVE  /\ running
           /\ Instruction.op \in ops
           /\ ~LocalMissing(Instruction)
           /\ Instruction.op = "Call" => CallFault(Instruction) = ""
           /\ Instruction.op # "Call" =>
                  /\ Pops(Instruction) \in 0 .. Len(stack)
                  /\ OperandFault(Instruction) = ""
BY FaultFree DEF Executing

\* What Replace does to the operands.
LEMMA Replaces ==
    ASSUME IInv, NEW n \in 0 .. Len(stack), NEW m \in Nat, Len(heap) <= m, NEW v \in ValueOf(m)
    PROVE  /\ Append(Below(n), v) \in Seq(ValueOf(m))
           /\ Below(n) \in Seq(ValueOf(m))
<1>1. stack \in Seq(ValueOf(m))
  BY StackOfValues, ValuesStayValues
<1>2. Below(n) \in Seq(ValueOf(m))
  BY <1>1, StackParts
<1>3. QED
  BY <1>2

LEMMA InputLinesRead ==
    ASSUME IInv
    PROVE  input \in Seq(Seq(Nat))
BY DEF IInv, TypeOK


LEMMA PushConstantStep ==
    ASSUME IInv, PushConstant
    PROVE  IInv'
<1>1. running /\ Instruction.op \in PushOps
  BY Executed DEF PushConstant
<1>2. Instruction.op # "Ret"
  BY <1>1 DEF PushOps
<1> DEFINE v == CASE Instruction.op = "PushInt"    -> MakeInt(WrapInt(Instruction.arg))
                  [] Instruction.op = "PushUInt"   -> MakeUInt(WrapUInt(Instruction.arg))
                  [] Instruction.op = "PushFloat"  -> MakeFloat(Instruction.arg)
                  [] Instruction.op = "PushBool"   -> MakeBool(Instruction.arg # 0)
                  [] Instruction.op = "PushString" -> MakeString(Instruction.text)
                  [] OTHER                         -> MakeVoid
<1>3. v \in Scalars
  <2>1. Instruction.arg \in Int /\ Instruction.text \in Seq(Nat)
    BY <1>1, AtInstruction
  <2>2. WrapInt(Instruction.arg) \in IntRange /\ WrapUInt(Instruction.arg) \in UIntRange
    BY <2>1, Wrapped
  <2>3. MakeBool(Instruction.arg # 0) \in Scalars
    BY DEF MakeBool, Scalars
  <2>4. QED
    BY <2>1, <2>2, <2>3, ScalarsMade
<1> HIDE DEF v
<1>4. v \in ValueOf(Len(heap)) /\ Len(heap) \in Nat
  BY <1>3, StackOfValues, ValuesAreOperands
<1>5. stack' = Append(Below(0), v) /\ ip' = ip + 1
  BY DEF PushConstant, Replace, v
<1>6. Append(Below(0), v) \in Seq(ValueOf(Len(heap)))
  <2>1. 0 \in 0 .. Len(stack)
    BY StackOfValues
  <2>2. QED
    BY <1>4, <2>1, Replaces
<1>7. QED
  BY <1>1, <1>2, <1>5, <1>6, StackStep, InputLinesRead DEF PushConstant

LEMMA LoadStep ==
    ASSUME IInv, Load
    PROVE  IInv'
<1>1. running /\ Instruction.op = "Load" /\ ~LocalMissing(Instruction)
  BY FaultFree DEF Load, Executing
<1>2. Instruction.arg \in 0 .. Len(locals) - 1
  BY <1>1 DEF LocalMissing, FromStack, IndexOps
<1>3. locals[Instruction.arg + 1] \in ValueOf(Len(heap))
  <2>1. locals \in Seq(ValueOf(Len(heap)))
    BY <1>1, AtInstruction DEF locals, FrameOf
  <2>2. QED
    BY <1>2, <2>1
<1>4. Append(Below(0), locals[Instruction.arg + 1]) \in Seq(ValueOf(Len(heap)))
  BY <1>3, StackOfValues, Replaces
<1>5. QED
  BY <1>1, <1>4, StackStep, InputLinesRead DEF Load, Replace

\* A conditional jump pops its operand.
LEMMA JumpSteps ==
    ASSUME IInv, Jump \/ JumpIf
    PROVE  IInv'
<1>1. running /\ Instruction.op \in Jumps /\ Pops(Instruction) \in 0 .. Len(stack)
  <2>1. running /\ Instruction.op \in Jumps
    BY Executed DEF Jump, JumpIf, Jumps, JumpIfOps
  <2>2. QED
    BY <2>1, Executed DEF Jump, JumpIf, Jumps
<1>2. CASE Jump
  BY <1>1, <1>2, StackStep, StackOfValues, InputLinesRead DEF Jump
<1>3. CASE JumpIf
  <2>1. Instruction.op \in JumpIfOps
    BY <1>3, Executed DEF JumpIf
  <2>2. Pops(Instruction) = 1
    BY <2>1 DEF Pops, JumpIfOps, BinaryOps, ArithOps, OrderOps, BitOps, ShiftOps, EqualOps, PushOps
  <2>3. Below(1) \in Seq(ValueOf(Len(heap)))
    BY <1>1, <2>2, StackOfValues, StackParts
  <2>4. Instruction.op # "Ret"
    BY <1>1 DEF Jumps
  <2>5. QED
    BY <1>1, <1>3, <2>3, <2>4, StackStep, InputLinesRead DEF JumpIf
<1>4. QED
  BY <1>2, <1>3

\* The instructions that only pop operands.
LEMMA PopSteps ==
    ASSUME IInv, Pop \/ Assert \/ WriteLine
    PROVE  IInv'
<1>1. /\ running /\ Instruction.op \in {"Pop", "Assert", "Print"}
      /\ Pops(Instruction) \in 0 .. Len(stack)
      /\ Instruction.op # "Ret"
  BY FaultFree DEF Pop, Assert, WriteLine, Executing
<1>2. Below(Pops(Instruction)) \in Seq(ValueOf(Len(heap)))
  BY <1>1, StackOfValues, StackParts
<1>3. stack' = Below(Pops(Instruction))
  <2>1. Pops(Instruction) = IF Instruction.op = "Print" THEN Instruction.arg ELSE 1
    BY <1>1 DEF Pops, BinaryOps, ArithOps, OrderOps, BitOps, ShiftOps, EqualOps, PushOps
  <2>2. CASE Pop
    BY <2>1, <2>2 DEF Pop, Executing
  <2>3. CASE Assert
    BY <2>1, <2>3 DEF Assert, Executing
  <2>4. CASE WriteLine
    BY <2>1, <2>4 DEF WriteLine, Executing
  <2>5. QED
    BY <2>2, <2>3, <2>4
<1>4. QED
  BY <1>1, <1>2, <1>3, StackStep, InputLinesRead DEF Pop, Assert, WriteLine

LEMMA ComputeStep ==
    ASSUME IInv, Compute
    PROVE  IInv'
<1> DEFINE ops == BinaryOps \cup CastOps \cup {"BitNot", "Neg", "Not", "ToInt", "Len"}
<1>1. running /\ Instruction.op \in ops
  BY Executed DEF Compute
<1>2. Instruction.op \notin {"Call", "Ret", "Assert", "Panic", "Exit", "Print", "Jump"}
        \cup IndexOps \cup FieldOps \cup JumpIfOps
  BY <1>1 DEF BinaryOps, ArithOps, OrderOps, BitOps, ShiftOps, EqualOps, CastOps, IndexOps,
              FieldOps, JumpIfOps
<1>3. Pops(Instruction) \in 0 .. Len(stack) /\ OperandFault(Instruction) = ""
  BY <1>2, Executed DEF Compute
<1>4. Result(Instruction) \in Outcomes
  BY <1>1, <1>2, <1>3, ResultProperties
<1>5. ~IsError(Result(Instruction))
  <2>1. CASE Instruction.op \in EqualOps
    <3>1. \E b : Result(Instruction) = MakeBool(b)
      BY <2>1 DEF Result, EqualOps, OrderOps, BitOps, ShiftOps, CastOps
    <3>2. QED
      BY <3>1 DEF MakeBool, IsError
  <2>2. CASE Instruction.op \notin EqualOps
    <3>1. OperandFault(Instruction)
            = IF IsError(Result(Instruction)) THEN Result(Instruction).data ELSE ""
      BY <1>2, <2>2 DEF OperandFault
    <3>2. IsError(Result(Instruction)) => Result(Instruction).data \in OperationErrors
      BY <1>4, ScalarOutcomes
    <3>3. "" \notin OperationErrors
      BY DEF OperationErrors
    <3>4. QED
      BY <1>3, <3>1, <3>2, <3>3
  <2>3. QED
    BY <2>1, <2>2
<1>6. Result(Instruction) \in ValueOf(Len(heap))
  BY <1>4, <1>5, ScalarOutcomes, StackOfValues, ValuesAreOperands
<1>7. Append(Below(Pops(Instruction)), Result(Instruction)) \in Seq(ValueOf(Len(heap)))
  <2>1. Len(heap) \in Nat /\ Len(heap) <= Len(heap)
    BY StackOfValues
  <2>2. QED
    BY <1>3, <1>6, <2>1, Replaces
<1>8. QED
  BY <1>1, <1>2, <1>7, StackStep, InputLinesRead DEF Compute, Replace

LEMMA InputStep ==
    ASSUME IInv, Input
    PROVE  IInv'
<1>1. running /\ Instruction.op = "Input"
  BY FaultFree DEF Input, Executing
<1>2. PICK line \in Seq(Nat) : stack' = Append(Below(0), MakeString(line)) /\ ip' = ip + 1
                                 /\ input' = Append(input, line)
  <2>1. \A x \in IF Len(input) < MaxInputs THEN InputLines ELSE {<<>>} : x \in Seq(Nat)
    <3>1. <<>> \in Seq(Nat) /\ \A x \in InputLines : x \in Seq(Nat)
      BY InputAssumption
    <3>2. QED
      BY <3>1, Zenon
  <2>2. QED
    BY <2>1 DEF Input, Replace
<1>3. MakeString(line) \in ValueOf(Len(heap))
  BY ScalarsMade, StackOfValues, ValuesAreOperands
<1>4. Append(Below(0), MakeString(line)) \in Seq(ValueOf(Len(heap)))
  <2>1. Len(heap) \in Nat /\ Len(heap) <= Len(heap) /\ 0 \in 0 .. Len(stack)
    BY StackOfValues
  <2>2. QED
    BY <1>3, <2>1, Replaces
<1>5. input' \in Seq(Seq(Nat))
  BY <1>2, InputLinesRead
<1>6. QED
  BY <1>1, <1>2, <1>4, <1>5, StackStep DEF Input

\* A new object on the heap, with operands for elements.
LEMMA MakeSteps ==
    ASSUME IInv, MakeArray \/ MakeStruct
    PROVE  IInv'
<1> DEFINE n == Instruction.arg
           m == Len(heap) + 1
<1>1. /\ running /\ Instruction.op \in {"MakeArray", "MakeStruct"}
      /\ Pops(Instruction) \in 0 .. Len(stack)
  BY FaultFree DEF MakeArray, MakeStruct, Executing
<1>2. n \in 0 .. Len(stack)
  BY <1>1 DEF Pops, BinaryOps, ArithOps, OrderOps, BitOps, ShiftOps, EqualOps, PushOps
<1>3. PICK o, v : /\ heap' = Append(heap, o)
                  /\ o \in {[name |-> <<>>, elems |-> Arguments(n)],
                            [name |-> Instruction.text, elems |-> Arguments(n)]}
                  /\ v \in {ArrayRef(m), StructRef(m)}
                  /\ stack' = Append(Below(n), v)
                  /\ ip' = ip + 1
                  /\ UNCHANGED <<bytecode, frames, running, returnCode, error, input, bases>>
  BY DEF MakeArray, MakeStruct, Replace
<1>4. Len(heap) \in Nat /\ m \in Nat /\ Len(heap) <= m
  BY StackOfValues
<1>5. o \in ObjectOf(m)
  <2>1. Arguments(n) \in Seq(ValueOf(Len(heap)))
    BY <1>2, StackOfValues, StackParts
  <2>2. Arguments(n) \in Seq(ValueOf(m))
    BY <1>4, <2>1, ValuesStayValues
  <2>3. <<>> \in Seq(Nat) /\ Instruction.text \in Seq(Nat)
    BY <1>1, AtInstruction
  <2>4. QED
    <3> DEFINE elements == Arguments(n)
    <3>1. elements \in Seq(ValueOf(m))
      BY <2>2
    <3> HIDE DEF elements, m
    <3>2. /\ [name |-> <<>>, elems |-> elements] \in ObjectOf(m)
          /\ [name |-> Instruction.text, elems |-> elements] \in ObjectOf(m)
      BY <2>3, <3>1 DEF ObjectOf
    <3>3. QED
      BY <1>3, <3>2 DEF elements
<1>6. heap' \in Seq(ObjectOf(m)) /\ Len(heap') = m
  <2>1. heap \in Seq(ObjectOf(m))
    BY <1>4, StackOfValues, ValuesStayValues
  <2>2. QED
    BY <1>3, <1>5, <2>1
<1>7. stack' \in Seq(ValueOf(m))
  <2>1. v \in ValueOf(m)
    BY <1>3, <1>4 DEF ValueOf, ArrayRef, StructRef
  <2>2. QED
    BY <1>2, <1>3, <1>4, <2>1, Replaces
<1> HIDE DEF m, n
<1>8. SameCalls
  BY <1>3, <1>4, <1>6, SameFrames
<1>9. QED
  BY <1>1, <1>3, <1>4, <1>6, <1>7, <1>8, SequentialStep, InputLinesRead

\* An element of the object behind a reference.
LEMMA ObjectProperties ==
    ASSUME IInv, NEW v \in ValueOf(Len(heap)), v.type \in {"array", "struct"}
    PROVE  /\ v.data \in 1 .. Len(heap)
           /\ heap[v.data].elems \in Seq(ValueOf(Len(heap)))
<1>1. v.data \in 1 .. Len(heap)
  BY DEF ValueOf, Scalars
<1>2. heap[v.data] \in ObjectOf(Len(heap))
  BY <1>1, StackOfValues, ElementOfSeq
<1>3. QED
  BY <1>1, <1>2 DEF ObjectOf

LEMMA ObjectUpdate ==
    ASSUME IInv, NEW r \in 1 .. Len(heap), NEW k \in 1 .. Len(heap[r].elems),
           NEW v \in ValueOf(Len(heap)), NEW h, h = [heap EXCEPT ![r].elems[k] = v]
    PROVE  h \in Seq(ObjectOf(Len(heap))) /\ Len(h) = Len(heap)
<1>1. heap \in Seq(ObjectOf(Len(heap)))
  BY StackOfValues
<1>2. heap[r] \in ObjectOf(Len(heap))
  BY <1>1, ElementOfSeq
<1>3. [heap[r].elems EXCEPT ![k] = v] \in Seq(ValueOf(Len(heap)))
  <2>1. heap[r].elems \in Seq(ValueOf(Len(heap)))
    BY <1>2 DEF ObjectOf
  <2>2. QED
    BY <2>1, ExceptSeq
<1>4. [heap[r] EXCEPT !.elems = [heap[r].elems EXCEPT ![k] = v]] \in ObjectOf(Len(heap))
  BY <1>2, <1>3 DEF ObjectOf
<1>5. h = [heap EXCEPT ![r] = [heap[r] EXCEPT !.elems = [heap[r].elems EXCEPT ![k] = v]]]
  OBVIOUS
<1>6. QED
  BY <1>1, <1>4, <1>5, ExceptSeq

LEMMA LocalValues ==
    ASSUME IInv, running, Instruction.arg \in 0 .. Len(locals) - 1
    PROVE  locals[Instruction.arg + 1] \in ValueOf(Len(heap))
<1>1. locals \in Seq(ValueOf(Len(heap)))
  BY AtInstruction DEF locals, FrameOf
<1>2. QED
  BY <1>1

\* Positions count from 0 in the code, and from 1 in a sequence.
LEMMA Positions ==
    ASSUME NEW l \in Nat, NEW x \in 0 .. l - 1
    PROVE  x + 1 \in 1 .. l
OBVIOUS

LEMMA Amounts ==
    ASSUME NEW l \in Nat, NEW x \in 0 .. l
    PROVE  x \in {1, 2, 3} => x \in 1 .. l /\ x - 1 \in 0 .. x - 1
OBVIOUS

LEMMA IndexProperties ==
    ASSUME IInv, running, Fault = "", Instruction.op \in IndexOps
    PROVE  /\ Pops(Instruction) \in 1 .. Len(stack)
           /\ IndexedArray(Instruction).data \in 1 .. Len(heap)
           /\ Element(Instruction) \in Seq(ValueOf(Len(heap)))
           /\ IndexOperand(Instruction).data + 1 \in 1 .. Len(Element(Instruction))
<1>1. /\ Pops(Instruction) \in 0 .. Len(stack)
      /\ OperandFault(Instruction) = ""
      /\ ~LocalMissing(Instruction)
  BY FaultFree DEF IndexOps
<1>2. IndexFault(Instruction) = ""
  BY <1>1 DEF OperandFault, IndexOps, FieldOps, JumpIfOps, EqualOps
<1>3. /\ IndexOperand(Instruction).type = "int"
      /\ IndexedArray(Instruction).type = "array"
      /\ IndexOperand(Instruction).data \in 0 .. Len(Element(Instruction)) - 1
  BY <1>2 DEF IndexFault, Raise
<1>4. Pops(Instruction) \in 1 .. Len(stack) /\ Pops(Instruction) - 1 \in 0 .. Pops(Instruction) - 1
  <2>1. Pops(Instruction) \in {1, 2, 3}
    BY DEF Pops, IndexOps, BinaryOps, ArithOps, OrderOps, BitOps, ShiftOps, EqualOps, PushOps
  <2>2. Len(stack) \in Nat
    BY StackOfValues, LenProperties
  <2>3. QED
    BY <1>1, <2>1, <2>2, Amounts
<1>5. IndexedArray(Instruction) \in ValueOf(Len(heap))
  <2>1. CASE FromStack(Instruction)
    <3>1. Operand(Pops(Instruction) - 1) \in ValueOf(Len(heap))
      BY <1>1, <1>4, OperandValues
    <3>2. QED
      BY <2>1, <3>1 DEF IndexedArray
  <2>2. CASE ~FromStack(Instruction)
    <3>1. Instruction.arg \in 0 .. Len(locals) - 1
      BY <1>1, <2>2 DEF LocalMissing
    <3>2. QED
      BY <2>2, <3>1, LocalValues DEF IndexedArray
  <2>3. QED
    BY <2>1, <2>2
<1>6. /\ IndexedArray(Instruction).data \in 1 .. Len(heap)
      /\ Element(Instruction) \in Seq(ValueOf(Len(heap)))
  BY <1>3, <1>5, ObjectProperties DEF Element
<1>7. IndexOperand(Instruction).data + 1 \in 1 .. Len(Element(Instruction))
  <2>1. Len(Element(Instruction)) \in Nat
    BY <1>6, LenProperties
  <2>2. QED
    BY <1>3, <2>1, Positions
<1>8. QED
  BY <1>4, <1>6, <1>7

LEMMA FieldProperties ==
    ASSUME IInv, running, Fault = "", Instruction.op \in FieldOps
    PROVE  /\ locals[Instruction.arg + 1].data \in 1 .. Len(heap)
           /\ FieldObject(Instruction) \in Seq(ValueOf(Len(heap)))
           /\ Instruction.arg2 + 1 \in 1 .. Len(FieldObject(Instruction))
<1>1. /\ OperandFault(Instruction) = ""
      /\ ~LocalMissing(Instruction)
  BY FaultFree DEF FieldOps
<1>2. FieldFault(Instruction) = ""
  BY <1>1 DEF OperandFault, IndexOps, FieldOps, JumpIfOps, EqualOps
<1>3. /\ locals[Instruction.arg + 1].type = "struct"
      /\ Instruction.arg2 \in 0 .. Len(FieldObject(Instruction)) - 1
  BY <1>2 DEF FieldFault, Raise
<1>4. Instruction.arg \in 0 .. Len(locals) - 1
  BY <1>1 DEF LocalMissing, FromStack, IndexOps, FieldOps
<1>5. locals[Instruction.arg + 1] \in ValueOf(Len(heap))
  BY <1>4, LocalValues
<1>6. /\ locals[Instruction.arg + 1].data \in 1 .. Len(heap)
      /\ FieldObject(Instruction) \in Seq(ValueOf(Len(heap)))
  BY <1>3, <1>5, ObjectProperties DEF FieldObject
<1>7. Instruction.arg2 + 1 \in 1 .. Len(FieldObject(Instruction))
  <2>1. Len(FieldObject(Instruction)) \in Nat
    BY <1>6, LenProperties
  <2>2. QED
    BY <1>3, <2>1, Positions
<1>8. QED
  BY <1>6, <1>7

LEMMA ReadSteps ==
    ASSUME IInv, LoadIndex \/ LoadField
    PROVE  IInv'
<1>1. Len(heap) \in Nat /\ Len(heap) <= Len(heap)
  BY StackOfValues
<1>2. CASE LoadIndex
  <2>1. running /\ Fault = "" /\ Instruction.op = "LoadIndex"
    BY <1>2 DEF LoadIndex, Executing
  <2>2. Element(Instruction)[IndexOperand(Instruction).data + 1] \in ValueOf(Len(heap))
    BY <2>1, IndexProperties, ElementOfSeq DEF IndexOps
  <2>3. Pops(Instruction) \in 0 .. Len(stack)
    BY <2>1, FaultFree
  <2>4. stack' \in Seq(ValueOf(Len(heap)))
    BY <1>1, <1>2, <2>2, <2>3, Replaces DEF LoadIndex, Replace
  <2>5. QED
    BY <1>2, <2>1, <2>4, StackStep, InputLinesRead DEF LoadIndex, Replace
<1>3. CASE LoadField
  <2>1. running /\ Fault = "" /\ Instruction.op = "LoadField"
    BY <1>3 DEF LoadField, Executing
  <2>2. FieldObject(Instruction)[Instruction.arg2 + 1] \in ValueOf(Len(heap))
    BY <2>1, FieldProperties, ElementOfSeq DEF FieldOps
  <2>3. 0 \in 0 .. Len(stack)
    BY StackOfValues
  <2>4. stack' \in Seq(ValueOf(Len(heap)))
    BY <1>1, <1>3, <2>2, <2>3, Replaces DEF LoadField, Replace
  <2>5. QED
    BY <1>3, <2>1, <2>4, StackStep, InputLinesRead DEF LoadField, Replace
<1>4. QED
  BY <1>2, <1>3

\* A step that writes an element of an object.
LEMMA WriteStep ==
    ASSUME IInv, running, Instruction.op \in {"StoreIndex", "StoreField"},
           UNCHANGED <<bytecode, frames, running, returnCode, error, input, output, bases>>,
           NEW r \in 1 .. Len(heap), NEW k \in 1 .. Len(heap[r].elems),
           NEW v \in ValueOf(Len(heap)), heap' = [heap EXCEPT ![r].elems[k] = v],
           NEW n \in 0 .. Len(stack), stack' = Below(n),
           ip' = ip + 1
    PROVE  IInv'
<1>1. heap' \in Seq(ObjectOf(Len(heap))) /\ Len(heap') = Len(heap) /\ Len(heap) \in Nat
  BY ObjectUpdate, StackOfValues
<1>2. stack' \in Seq(ValueOf(Len(heap')))
  BY <1>1, StackOfValues, StackParts
<1>3. SameCalls
  BY <1>1, SameFrames
<1>4. QED
  BY <1>1, <1>2, <1>3, SequentialStep, InputLinesRead

LEMMA WriteSteps ==
    ASSUME IInv, StoreIndex \/ StoreField
    PROVE  IInv'
<1>1. CASE StoreIndex
  <2>1. running /\ Fault = "" /\ Instruction.op = "StoreIndex"
    BY <1>1 DEF StoreIndex, Executing
  <2>2. /\ Pops(Instruction) \in 1 .. Len(stack)
        /\ IndexedArray(Instruction).data \in 1 .. Len(heap)
        /\ IndexOperand(Instruction).data + 1 \in 1 .. Len(heap[IndexedArray(Instruction).data].elems)
    BY <2>1, IndexProperties DEF IndexOps, Element
  <2>3. Operand(0) \in ValueOf(Len(heap)) /\ Pops(Instruction) \in 0 .. Len(stack)
    BY <2>2, OperandValues
  <2>4. QED
    BY <1>1, <2>1, <2>2, <2>3, WriteStep DEF StoreIndex
<1>2. CASE StoreField
  <2>1. running /\ Fault = "" /\ Instruction.op = "StoreField"
    BY <1>2 DEF StoreField, Executing
  <2>2. /\ locals[Instruction.arg + 1].data \in 1 .. Len(heap)
        /\ Instruction.arg2 + 1 \in 1 .. Len(heap[locals[Instruction.arg + 1].data].elems)
    BY <2>1, FieldProperties DEF FieldOps, FieldObject
  <2>3. 1 \in 0 .. Len(stack)
    <3>1. Pops(Instruction) = 1
      BY <2>1 DEF Pops, BinaryOps, ArithOps, OrderOps, BitOps, ShiftOps, EqualOps, PushOps
    <3>2. QED
      BY <2>1, <3>1, FaultFree
  <2>4. Operand(0) \in ValueOf(Len(heap))
    BY <2>3, OperandValues
  <2>5. QED
    BY <1>2, <2>1, <2>2, <2>3, <2>4, WriteStep DEF StoreField
<1>3. QED
  BY <1>1, <1>2

LEMMA StoreStep ==
    ASSUME IInv, Store
    PROVE  IInv' /\ SameCalls /\ \A d \in 1 .. Len(frames) - 1 : frames'[d] = frames[d]
<1> DEFINE l == Len(frames)
           k == Instruction.arg + 1
           S == FrameOf(Len(heap))
           new == [locals EXCEPT ![k] = Operand(0)]
<1>1. running /\ Fault = "" /\ Instruction.op = "Store"
  BY DEF Store, Executing
<1>2. Pops(Instruction) \in 0 .. Len(stack) /\ ~LocalMissing(Instruction)
  BY <1>1, FaultFree
<1>3. 1 \in 0 .. Len(stack)
  BY <1>1, <1>2 DEF Pops, BinaryOps, ArithOps, OrderOps, BitOps, ShiftOps, EqualOps, PushOps
<1>4. Operand(0) \in ValueOf(Len(heap)) /\ Below(1) \in Seq(ValueOf(Len(heap)))
  BY <1>3, OperandValues, StackOfValues, StackParts
<1>5. locals \in Seq(ValueOf(Len(heap))) /\ Len(locals) \in Nat
  <2>1. currentFrame \in FrameOf(Len(heap))
    BY <1>1, AtInstruction
  <2>2. locals \in Seq(ValueOf(Len(heap)))
    BY <2>1 DEF locals, FrameOf
  <2>3. QED
    BY <2>2, LenProperties
<1>6. /\ frames \in Seq(S) /\ l \in 1 .. Len(frames) /\ l \in Nat
      /\ frames[l] \in S /\ frames[l].locals = locals
      /\ k \in 1 .. Len(locals)
  <2>1. Instruction.arg \in 0 .. Len(locals) - 1
    BY <1>1, <1>2 DEF LocalMissing, FromStack, IndexOps
  <2>2. k \in 1 .. Len(locals)
    BY <1>5, <2>1
  <2>3. l \in Nat \ {0} /\ frames[l] \in S
    BY <1>1, AtInstruction DEF currentFrame
  <2>4. l \in 1 .. Len(frames)
    BY <2>3
  <2>5. frames \in Seq(S) /\ frames[l].locals = locals
    BY FramesOfCalls DEF currentFrame, locals
  <2>6. QED
    BY <2>2, <2>3, <2>4, <2>5
<1>7. new \in Seq(ValueOf(Len(heap))) /\ Len(new) = Len(locals)
  <2> HIDE DEF k
  <2>1. QED
    BY <1>4, <1>5, <1>6, ExceptSeq
<1>8. frames' = [frames EXCEPT ![l] = [frames[l] EXCEPT !.locals = new]]
  BY <1>6 DEF Store
<1> HIDE DEF new
<1>9. /\ [frames[l] EXCEPT !.locals = new] \in S
      /\ [frames[l] EXCEPT !.locals = new].functionIndex = frames[l].functionIndex
      /\ [frames[l] EXCEPT !.locals = new].returnIp = frames[l].returnIp
      /\ [frames[l] EXCEPT !.locals = new].locals = new
  BY <1>6, <1>7 DEF FrameOf
<1>10. /\ frames' \in Seq(S) /\ Len(frames') = Len(frames)
       /\ \A d \in 1 .. Len(frames) :
              frames'[d] = IF d = l THEN [frames[l] EXCEPT !.locals = new] ELSE frames[d]
  <2> HIDE DEF S, l
  <2>1. QED
    BY <1>6, <1>8, <1>9, ExceptSeq
<1>11. heap' = heap
  BY DEF Store
<1>12. SameCalls
  BY <1>6, <1>7, <1>9, <1>10, <1>11 DEF SameCalls
<1>13. \A d \in 1 .. Len(frames) - 1 : frames'[d] = frames[d]
  BY <1>6, <1>10
<1>14. IInv'
  <2>1. /\ Len(heap') \in Nat
        /\ heap' \in Seq(ObjectOf(Len(heap')))
        /\ stack' \in Seq(ValueOf(Len(heap')))
    BY <1>4, <1>11, StackOfValues DEF Store
  <2>2. QED
    BY <1>1, <1>12, <2>1, SequentialStep, InputLinesRead DEF Store
<1>15. QED
  BY <1>12, <1>13, <1>14

-----------------------------------------------------------------------------
(* Calls and returns, and the beginning and the end of a run.              *)

Frozen == \A d \in 1 .. Len(frames) - 1 : d \in DOMAIN frames' /\ frames'[d] = frames[d]

LEMMA CallStep ==
    ASSUME IInv, Call
    PROVE  IInv' /\ Frozen
<1> DEFINE f == Instruction.arg
           n == functions[f + 1].params
           l == Len(frames)
           slots == [i \in DOMAIN NewLocals(f) |->
                        IF i <= n THEN Arguments(n)[i] ELSE NewLocals(f)[i]]
           frame == [functionIndex |-> f, returnIp |-> ip + 1, locals |-> slots]
           V == ValueOf(Len(heap))
           F == FrameOf(Len(heap))
<1>1. running /\ Fault = "" /\ Instruction.op = "Call"
  BY DEF Call, Executing
<1>2. /\ frames' = Append(frames, frame)
      /\ stack' = Below(n)
      /\ bases' = Append(bases, Len(stack) - n)
      /\ ip' = functions[f + 1].address
      /\ UNCHANGED <<bytecode, heap, running, returnCode, error, input, output>>
  BY DEF Call
<1>3. /\ IsBytecode(bytecode)
      /\ ip \in Addresses(bytecode)
      /\ Len(code) \in Nat /\ Len(heap) \in Nat /\ Len(stack) \in Nat
      /\ l \in Nat \ {0} /\ frames \in Seq(F)
      /\ Inside(ip, frames[l].functionIndex)
  <2>1. code \in Seq([op : OpCode, arg : Int, arg2 : Int, text : Seq(Nat)])
    BY <1>1, AtInstruction DEF IsBytecode, code
  <2>2. Len(code) \in Nat
    BY <2>1, LenProperties
  <2>3. Len(heap) \in Nat /\ Len(stack) \in Nat
    BY StackOfValues, LenProperties
  <2>4. QED
    BY <1>1, <2>2, <2>3, AtInstruction, FramesOfCalls DEF currentFrame
<1>4. /\ f \in Functions(bytecode) /\ f + 1 \in DOMAIN bytecode.functions
      /\ n \in Nat /\ n <= Len(stack)
      /\ functions[f + 1].locals \in Nat /\ n <= functions[f + 1].locals
      /\ functions[f + 1].address \in Addresses(bytecode)
  <2>1. /\ f \in 0 .. Len(functions) - 1
        /\ ~(n > Len(stack))
    BY <1>1, FaultFree DEF CallFault, Raise
  <2>2. functions \in Seq([address : Addresses(bytecode), params : Nat, locals : Nat,
                            returnType : ReturnTypes])
    BY <1>3 DEF IsBytecode, functions
  <2>3. Len(functions) \in Nat /\ f + 1 \in 1 .. Len(functions)
    BY <2>1, <2>2, LenProperties, Positions
  <2>4. functions[f + 1] \in [address : Addresses(bytecode), params : Nat, locals : Nat,
                              returnType : ReturnTypes]
    BY <2>2, <2>3, ElementOfSeq
  <2>5. n \in Nat /\ functions[f + 1].locals \in Nat /\ functions[f + 1].address \in Addresses(bytecode)
    BY <2>4
  <2>6. f + 1 \in DOMAIN bytecode.functions
    BY <2>2, <2>3 DEF functions
  <2>7. n <= functions[f + 1].locals
    BY <1>3, <2>6 DEF IsBytecode, functions
  <2>8. QED
    BY <1>3, <2>1, <2>5, <2>6, <2>7 DEF Functions, functions
<1>5. slots \in Seq(V) /\ Len(slots) = functions[f + 1].locals
  <2> DEFINE k == functions[f + 1].locals
  <2>1. Arguments(n) \in Seq(V) /\ Len(Arguments(n)) = n
    <3>1. n \in 0 .. Len(stack)
      BY <1>3, <1>4
    <3>2. QED
      BY <3>1, StackOfValues, StackParts
  <2>2. MakeInt(0) \in V
    <3>1. 0 \in IntRange
      BY Ranges DEF IntRange
    <3>2. QED
      BY <1>3, <3>1, ScalarsMade, ValuesAreOperands
  <2>3. slots = [i \in 1 .. k |-> IF i <= n THEN Arguments(n)[i] ELSE MakeInt(0)]
    BY DEF NewLocals
  <2>4. \A i \in 1 .. k : (IF i <= n THEN Arguments(n)[i] ELSE MakeInt(0)) \in V
    <3> DEFINE a == Arguments(n)
    <3> HIDE DEF a, V, k, n
    <3>1. \A i \in 1 .. n : a[i] \in V
      BY <2>1, ElementOfSeq DEF a
    <3>2. QED
      BY <1>4, <2>2, <3>1 DEF a, k
  <2>5. k \in Nat
    BY <1>4
  <2> DEFINE e(i) == IF i <= n THEN Arguments(n)[i] ELSE MakeInt(0)
  <2>6. /\ [i \in 1 .. k |-> e(i)] \in Seq(V)
        /\ Len([i \in 1 .. k |-> e(i)]) = k
    <3>1. \A i \in 1 .. k : e(i) \in V
      BY <2>4
    <3> HIDE DEF e, V, k, n
    <3>2. QED
      BY <2>5, <3>1
  <2>7. QED
    BY <2>3, <2>6
<1> HIDE DEF slots
<1>6. ip + 1 \in 1 .. Len(code)
  BY <1>3 DEF Addresses, code
<1>7. frame \in F
  BY <1>4, <1>5, <1>6 DEF FrameOf
<1>8. /\ frames' \in Seq(F) /\ Len(frames') = l + 1
      /\ \A d \in 1 .. l : frames'[d] = frames[d]
      /\ frames'[l + 1] = frame
  <2> HIDE DEF F, frame
  <2>1. QED
    BY <1>2, <1>3, <1>7
<1>9. DOMAIN frames = 1 .. l /\ DOMAIN frames' = 1 .. l + 1
  <2> HIDE DEF F
  <2>1. QED
    BY <1>3, <1>8, LenProperties
<1>10. Frozen
  BY <1>3, <1>8, <1>9 DEF Frozen
<1>11. code' = code /\ functions' = functions /\ bytecode' = bytecode /\ frames' # <<>>
  BY <1>2, <1>3, <1>8 DEF code, functions
<1>12. StaysInFunction'
  <2>1. currentFrame'.functionIndex = f
    BY <1>8 DEF currentFrame
  <2>2. Inside(functions[f + 1].address, f)
    <3>1. functions \in Seq([address : Addresses(bytecode), params : Nat, locals : Nat,
                              returnType : ReturnTypes])
      BY <1>3 DEF IsBytecode, functions
    <3>2. \A g \in DOMAIN functions : functions[g].address \in Int
      <4>1. ASSUME NEW g \in 1 .. Len(functions)
            PROVE  functions[g].address \in Addresses(bytecode)
        <5>1. functions[g] \in [address : Addresses(bytecode), params : Nat, locals : Nat,
                                 returnType : ReturnTypes]
          BY <3>1, ElementOfSeq
        <5>2. QED
          BY <5>1
      <4>2. QED
        BY <3>1, <4>1 DEF Addresses
    <3>3. QED
      BY <1>4, <3>2 DEF Inside, InFunction, functions
  <2>3. error' \notin ControlErrors
    BY <1>2 DEF IInv, StaysInFunction
  <2>4. QED
    BY <1>2, <1>4, <1>11, <2>1, <2>2, <2>3 DEF StaysInFunction, Inside
<1>13. ReturnsToItsCall'
  <2>1. SUFFICES ASSUME NEW d \in 1 .. l + 1
                 PROVE  IF d = 1 THEN frames'[d].returnIp = -1
                        ELSE /\ frames'[d].returnIp \in 1 .. Len(code)
                             /\ code[frames'[d].returnIp].op = "Call"
                             /\ code[frames'[d].returnIp].arg = frames'[d].functionIndex
                             /\ Inside(frames'[d].returnIp - 1, frames'[d - 1].functionIndex)
    BY <1>9, <1>11 DEF ReturnsToItsCall, Inside
  <2>2. CASE d = l + 1
    <3>1. d # 1 /\ d - 1 = l /\ l \in 1 .. l /\ (ip + 1) - 1 = ip
      BY <1>3, <2>2 DEF Addresses
    <3>2. frames'[d].returnIp = ip + 1 /\ frames'[d].functionIndex = f /\ frames'[d - 1] = frames[l]
      BY <1>8, <2>2, <3>1
    <3>3. code[ip + 1].op = "Call" /\ code[ip + 1].arg = f
      BY <1>1 DEF Instruction
    <3>4. QED
      BY <1>3, <1>6, <3>1, <3>2, <3>3
  <2>3. CASE d # l + 1
    <3>1. d \in 1 .. l /\ (d # 1 => d - 1 \in 1 .. l)
      BY <1>3, <2>3
    <3>2. IF d = 1 THEN frames[d].returnIp = -1
          ELSE /\ frames[d].returnIp \in 1 .. Len(code)
               /\ code[frames[d].returnIp].op = "Call"
               /\ code[frames[d].returnIp].arg = frames[d].functionIndex
               /\ Inside(frames[d].returnIp - 1, frames[d - 1].functionIndex)
      BY <1>9, <3>1 DEF IInv, ReturnsToItsCall
    <3>3. QED
      BY <1>8, <3>1, <3>2
  <2>4. QED
    BY <2>2, <2>3
<1>14. TypeOK'
  <2>1. /\ bytecode' \in Bytecodes \cup {NoBytecode}
        /\ heap' \in Seq([name : Seq(Nat), elems : Seq(Value')])
        /\ running' \in BOOLEAN
        /\ running' => frames' # <<>>
        /\ returnCode' \in IntRange
        /\ error' \in Messages \cup {""}
        /\ input' \in Seq(Seq(Nat))
    BY <1>2, <1>11 DEF IInv, TypeOK, Value
  <2>2. Value' = V
    BY <1>2 DEF Value, ValueOf
  <2>3. stack' \in Seq(Value')
    <3>1. n \in 0 .. Len(stack)
      BY <1>3, <1>4
    <3>2. QED
      BY <1>2, <2>2, <3>1, StackOfValues, StackParts
  <2>4. frames' \in Seq([functionIndex : Functions(bytecode'), returnIp : -1 .. Len(code'),
                         locals : Seq(Value')])
    BY <1>8, <1>11, <2>2 DEF FrameOf
  <2>5. \A d \in DOMAIN frames' :
            Len(frames'[d].locals) = functions'[frames'[d].functionIndex + 1].locals
    <3>1. \A d \in DOMAIN frames :
              Len(frames[d].locals) = functions[frames[d].functionIndex + 1].locals
      BY DEF IInv, TypeOK
    <3>2. SUFFICES ASSUME NEW d \in 1 .. l + 1
                   PROVE  Len(frames'[d].locals) = functions[frames'[d].functionIndex + 1].locals
      BY <1>9, <1>11
    <3>3. CASE d = l + 1
      BY <1>5, <1>8, <3>3
    <3>4. CASE d # l + 1
      <4>1. d \in 1 .. l
        BY <1>3, <3>4
      <4>2. QED
        BY <1>8, <1>9, <3>1, <4>1
    <3>5. QED
      BY <3>3, <3>4
  <2>6. ip' \in 0 .. Len(code')
    BY <1>2, <1>3, <1>4, <1>11 DEF Addresses, code
  <2>7. bases' \in Seq(Nat) /\ Len(bases') = Len(frames')
    <3>1. bases \in Seq(Nat) /\ Len(bases) = l
      BY DEF IInv, TypeOK
    <3>2. Len(stack) - n \in Nat
      BY <1>3, <1>4
    <3>3. QED
      BY <1>2, <1>8, <3>1, <3>2
  <2>8. QED
    BY <2>1, <2>3, <2>4, <2>5, <2>6, <2>7 DEF TypeOK
<1>15. Loaded'
  BY <1>1, <1>2 DEF IInv, Loaded, TypeOK
<1>16. QED
  BY <1>10, <1>12, <1>13, <1>14, <1>15 DEF IInv

LEMMA PrefixOf ==
    ASSUME NEW S, NEW s \in Seq(S), NEW n \in 0 .. Len(s)
    PROVE  /\ SubSeq(s, 1, n) \in Seq(S)
           /\ Len(SubSeq(s, 1, n)) = n
           /\ \A i \in 1 .. n : SubSeq(s, 1, n)[i] = s[i]
<1>1. SubSeq(s, 1, n) \in Seq(S)
  OBVIOUS
<1>2. Len(SubSeq(s, 1, n)) = n
  OBVIOUS
<1>3. \A i \in 1 .. n : SubSeq(s, 1, n)[i] = s[i]
  OBVIOUS
<1>4. QED
  BY <1>1, <1>2, <1>3

LEMMA CallerOfLast ==
    ASSUME NEW n \in Nat, n > 1
    PROVE  n # 1 /\ n \in 1 .. n /\ n - 1 # 0 /\ n - 1 \in 1 .. n /\ n - 1 \in 1 .. n - 1
OBVIOUS

LEMMA ReturnStep ==
    ASSUME IInv, ReturnToCaller
    PROVE  IInv' /\ Frozen
<1> DEFINE l == Len(frames)
           F == FrameOf(Len(heap))
<1>1. running /\ Fault = "" /\ l > 1
  BY DEF ReturnToCaller, Executing
<1>2. /\ ip' = frames[l].returnIp
      /\ frames' = SubSeq(frames, 1, l - 1)
      /\ bases' = SubSeq(bases, 1, Len(bases) - 1)
      /\ UNCHANGED <<bytecode, stack, heap, running, returnCode, error, input, output>>
  BY DEF ReturnToCaller, currentFrame
<1>3. /\ IsBytecode(bytecode) /\ Len(heap) \in Nat
      /\ l \in Nat \ {0} /\ frames \in Seq(F)
  BY <1>1, AtInstruction, FramesOfCalls, StackOfValues
<1>4. /\ frames' \in Seq(F) /\ Len(frames') = l - 1
      /\ \A d \in 1 .. l - 1 : frames'[d] = frames[d]
      /\ DOMAIN frames = 1 .. l /\ DOMAIN frames' = 1 .. l - 1
  <2> HIDE DEF F
  <2>1. l - 1 \in 0 .. Len(frames)
    BY <1>3
  <2> HIDE DEF l
  <2>2. /\ frames' \in Seq(F) /\ Len(frames') = l - 1
        /\ \A d \in 1 .. l - 1 : frames'[d] = frames[d]
    BY <1>2, <1>3, <2>1, PrefixOf
  <2>3. DOMAIN frames = 1 .. l /\ DOMAIN frames' = 1 .. l - 1
    BY <1>3, <2>2, LenProperties DEF l
  <2>4. QED
    BY <2>2, <2>3
<1>5. Frozen
  BY <1>4 DEF Frozen
<1>6. code' = code /\ functions' = functions /\ bytecode' = bytecode /\ frames' # <<>>
  <2>1. l - 1 # 0
    BY <1>1, <1>3, CallerOfLast
  <2>2. Len(<<>>) = 0
    OBVIOUS
  <2>3. QED
    BY <1>2, <1>4, <2>1, <2>2 DEF code, functions
<1>7. StaysInFunction'
  <2>1. /\ frames[l].returnIp \in 1 .. Len(code)
        /\ code[frames[l].returnIp].op = "Call"
        /\ Inside(frames[l].returnIp - 1, frames[l - 1].functionIndex)
    <3>1. l \in DOMAIN frames /\ l # 1
      BY <1>1, <1>3, <1>4, CallerOfLast
    <3> HIDE DEF l
    <3>2. QED
      BY <3>1 DEF IInv, ReturnsToItsCall
  <2>2. l - 1 \in 1 .. l /\ currentFrame'.functionIndex = frames[l - 1].functionIndex
    <3>1. l - 1 \in 1 .. l /\ l - 1 \in 1 .. l - 1
      BY <1>1, <1>3, CallerOfLast
    <3>2. currentFrame' = frames'[l - 1]
      BY <1>4 DEF currentFrame
    <3>3. QED
      BY <1>4, <3>1, <3>2
  <2>3. frames[l - 1].functionIndex \in Functions(bytecode)
    <3>1. frames[l - 1] \in F
      BY <1>3, <2>2, ElementOfSeq
    <3>2. QED
      BY <3>1 DEF FrameOf
  <2> DEFINE a == frames[l].returnIp - 1
             g == frames[l - 1].functionIndex
  <2>4. Len(code) \in Nat /\ a \in Addresses(bytecode) /\ a + 1 = frames[l].returnIp
    <3>1. code \in Seq([op : OpCode, arg : Int, arg2 : Int, text : Seq(Nat)])
      BY <1>3 DEF IsBytecode, code
    <3>2. Len(code) \in Nat
      BY <3>1, LenProperties
    <3>3. QED
      BY <2>1, <3>2 DEF Addresses, code
  <2>5. a + 1 \in Addresses(bytecode) /\ InFunction(bytecode, a + 1, g)
    <3>1. StaysInFunctions(bytecode) /\ InFunction(bytecode, a, g) /\ code[a + 1].op # "Ret"
      BY <1>3, <2>1, <2>4 DEF IsBytecode, Inside
    <3> HIDE DEF a, g
    <3>2. g \in Functions(bytecode)
      BY <2>3 DEF g
    <3>3. QED
      BY <2>4, <3>1, <3>2 DEF StaysInFunctions, code
  <2>6. error' \notin ControlErrors
    BY <1>2 DEF IInv, StaysInFunction
  <2>7. QED
    BY <1>2, <1>6, <2>2, <2>4, <2>5, <2>6 DEF StaysInFunction, Inside
<1>8. ReturnsToItsCall'
  <2>1. SUFFICES ASSUME NEW d \in 1 .. l - 1
                 PROVE  IF d = 1 THEN frames'[d].returnIp = -1
                        ELSE /\ frames'[d].returnIp \in 1 .. Len(code)
                             /\ code[frames'[d].returnIp].op = "Call"
                             /\ code[frames'[d].returnIp].arg = frames'[d].functionIndex
                             /\ Inside(frames'[d].returnIp - 1, frames'[d - 1].functionIndex)
    BY <1>4, <1>6 DEF ReturnsToItsCall, Inside
  <2>2. d \in 1 .. l /\ (d # 1 => d - 1 \in 1 .. l - 1)
    BY <1>3
  <2>3. IF d = 1 THEN frames[d].returnIp = -1
        ELSE /\ frames[d].returnIp \in 1 .. Len(code)
             /\ code[frames[d].returnIp].op = "Call"
             /\ code[frames[d].returnIp].arg = frames[d].functionIndex
             /\ Inside(frames[d].returnIp - 1, frames[d - 1].functionIndex)
    BY <1>4, <2>2 DEF IInv, ReturnsToItsCall
  <2>4. QED
    BY <1>4, <2>2, <2>3
<1>9. TypeOK'
  <2>1. /\ bytecode' \in Bytecodes \cup {NoBytecode}
        /\ stack' \in Seq(Value')
        /\ heap' \in Seq([name : Seq(Nat), elems : Seq(Value')])
        /\ running' \in BOOLEAN
        /\ running' => frames' # <<>>
        /\ returnCode' \in IntRange
        /\ error' \in Messages \cup {""}
        /\ input' \in Seq(Seq(Nat))
    BY <1>2, <1>6 DEF IInv, TypeOK, Value
  <2>2. Value' = ValueOf(Len(heap))
    BY <1>2 DEF Value, ValueOf
  <2>3. frames' \in Seq([functionIndex : Functions(bytecode'), returnIp : -1 .. Len(code'),
                         locals : Seq(Value')])
    BY <1>4, <1>6, <2>2 DEF FrameOf
  <2>4. \A d \in DOMAIN frames' :
            Len(frames'[d].locals) = functions'[frames'[d].functionIndex + 1].locals
    <3>1. \A d \in DOMAIN frames :
              Len(frames[d].locals) = functions[frames[d].functionIndex + 1].locals
      BY DEF IInv, TypeOK
    <3>2. \A d \in 1 .. l - 1 : d \in 1 .. l
      BY <1>3
    <3>3. QED
      BY <1>4, <1>6, <3>1, <3>2
  <2>5. ip' \in 0 .. Len(code')
    <3>1. running' /\ ip' \in 0 .. Len(bytecode.code) - 1
      BY <1>1, <1>2, <1>6, <1>7 DEF StaysInFunction, Addresses
    <3>2. QED
      BY <1>6, <3>1 DEF code
  <2>6. bases' \in Seq(Nat) /\ Len(bases') = Len(frames')
    <3>1. bases \in Seq(Nat) /\ Len(bases) = l
      BY DEF IInv, TypeOK
    <3>2. QED
      BY <1>2, <1>3, <1>4, <3>1
  <2>7. QED
    BY <2>1, <2>3, <2>4, <2>5, <2>6 DEF TypeOK
<1>10. Loaded'
  BY <1>1, <1>2 DEF IInv, Loaded, TypeOK
<1>11. QED
  BY <1>5, <1>7, <1>8, <1>9, <1>10 DEF IInv

\* RET in main, and EXIT anywhere.
LEMMA EndSteps ==
    ASSUME IInv, ReturnFromMain \/ Exit
    PROVE  IInv' /\ frames' = <<>>
<1>1. /\ running /\ Fault = "" /\ Instruction.op \in {"Ret", "Exit"}
      /\ Instruction.op = "Ret" => Len(frames) = 1
      /\ returnCode' = Operand(0).data
      /\ stack' = Below(1)
      /\ frames' = <<>>
      /\ bases' = <<>>
      /\ running' = FALSE
      /\ ip' = ip + 1
      /\ UNCHANGED <<bytecode, heap, error, input>>
  BY DEF ReturnFromMain, Exit, Executing
<1>2. Pops(Instruction) \in 0 .. Len(stack) /\ OperandFault(Instruction) = ""
  BY <1>1, FaultFree
<1>3. 1 \in 0 .. Len(stack)
  <2>1. Pops(Instruction) = 1
    BY <1>1 DEF Pops, BinaryOps, ArithOps, OrderOps, BitOps, ShiftOps, EqualOps, PushOps
  <2>2. QED
    BY <1>2, <2>1
<1>4. Operand(0).type = "int"
  BY <1>1, <1>2 DEF OperandFault, IndexOps, FieldOps, JumpIfOps, EqualOps, Raise
<1>5. returnCode' \in IntRange
  <2>1. 0 \in 0 .. 1 - 1
    OBVIOUS
  <2>2. Operand(0) \in Operands
    BY <1>3, <2>1, OperandValues
  <2>3. QED
    BY <1>1, <1>4, <2>2, OperandData
<1>6. stack' \in Seq(ValueOf(Len(heap)))
  BY <1>1, <1>3, StackOfValues, StackParts
<1>7. ip' \in 0 .. Len(code)
  <2>1. code \in Seq([op : OpCode, arg : Int, arg2 : Int, text : Seq(Nat)])
    BY <1>1, AtInstruction DEF IsBytecode, code
  <2>2. Len(code) \in Nat
    BY <2>1, LenProperties
  <2>3. ip \in 0 .. Len(code) - 1
    BY <1>1, AtInstruction DEF Addresses, code
  <2>4. \A n \in Nat : \A x \in 0 .. n - 1 : x + 1 \in 0 .. n
    OBVIOUS
  <2>5. QED
    BY <1>1, <2>2, <2>3, <2>4
<1>8. TypeOK'
  <2>1. Value' = ValueOf(Len(heap)) /\ Value = ValueOf(Len(heap))
    BY <1>1 DEF Value, ValueOf
  <2>2. /\ bytecode' \in Bytecodes \cup {NoBytecode}
        /\ heap' \in Seq([name : Seq(Nat), elems : Seq(Value')])
        /\ error' \in Messages \cup {""}
        /\ input' \in Seq(Seq(Nat))
    BY <1>1, <2>1 DEF IInv, TypeOK
  <2> DEFINE F == [functionIndex : Functions(bytecode'), returnIp : -1 .. Len(code'),
                   locals : Seq(Value')]
  <2>3. frames' \in Seq(F)
    <3>1. <<>> \in Seq(F)
      BY EmptySeq
    <3>2. QED
      BY <1>1, <3>1
  <2>4. /\ \A d \in DOMAIN frames' :
               Len(frames'[d].locals) = functions'[frames'[d].functionIndex + 1].locals
        /\ bases' \in Seq(Nat)
        /\ Len(bases') = Len(frames')
    <3>1. <<>> \in Seq(Nat) /\ DOMAIN <<>> = {}
      OBVIOUS
    <3>2. DOMAIN frames' = {}
      BY <1>1, <3>1
    <3>3. QED
      BY <1>1, <3>1, <3>2
  <2>5. ip' \in 0 .. Len(code')
    BY <1>1, <1>7 DEF code
  <2>6. QED
    BY <1>1, <1>5, <1>6, <2>1, <2>2, <2>3, <2>4, <2>5 DEF TypeOK
<1>9. Loaded' /\ ReturnsToItsCall'
  <2>1. DOMAIN <<>> = {}
    OBVIOUS
  <2>2. DOMAIN frames' = {}
    BY <1>1, <2>1
  <2>3. QED
    BY <1>1, <2>2 DEF Loaded, ReturnsToItsCall
<1>10. StaysInFunction'
  BY <1>1 DEF IInv, StaysInFunction
<1>11. IInv'
  BY <1>8, <1>9, <1>10 DEF IInv
<1>12. QED
  BY <1>1, <1>11

\* An error ends the run where it is.
LEMMA ThrowStep ==
    ASSUME IInv, Throw
    PROVE  IInv'
<1>1. /\ error' \in (Messages \ ControlErrors) \cup {""} /\ error' # ""
      /\ running' = FALSE
      /\ UNCHANGED <<bytecode, stack, frames, heap, ip, returnCode, input, output, bases>>
  BY FaultMessages DEF Throw
<1>2. code' = code /\ functions' = functions /\ Value' = Value
  BY <1>1 DEF code, functions, Value
<1>3. TypeOK'
  BY <1>1, <1>2 DEF IInv, TypeOK
<1>4. Loaded' /\ ReturnsToItsCall'
  BY <1>1, <1>2 DEF IInv, Loaded, ReturnsToItsCall, Inside
<1>5. StaysInFunction'
  BY <1>1 DEF StaysInFunction
<1>6. QED
  BY <1>3, <1>4, <1>5 DEF IInv

\* Nothing has run before the machine is given its bytecode.
LEMMA NothingLoaded ==
    ASSUME IInv, bytecode = NoBytecode
    PROVE  frames = <<>>
<1>1. ASSUME frames # <<>>
      PROVE  FALSE
  <2>1. IsBytecode(NoBytecode)
    BY <1>1, BytecodesAssumption DEF IInv, Loaded
  <2>2. NoBytecode.functions = <<>> /\ Len(<<>>) = 0
    BY DEF NoBytecode
  <2>3. NoBytecode.entry \in 0 .. 0 - 1
    BY <2>1, <2>2 DEF IsBytecode, Functions
  <2>4. QED
    BY <2>3
<1>2. QED
  BY <1>1

\* One frame with the entry function in it, at the start of its code.
LEMMA RunStep ==
    ASSUME IInv, NEW b \in Bytecodes, Run(b)
    PROVE  IInv' /\ frames = <<>>
<1> DEFINE main  == b.functions[b.entry + 1]
           V     == ValueOf(Len(heap))
           slots == [i \in 1 .. main.locals |-> MakeInt(0)]
           first == [functionIndex |-> b.entry, returnIp |-> -1, locals |-> slots]
           F     == [functionIndex : Functions(b), returnIp : -1 .. Len(b.code), locals : Seq(V)]
<1>1. /\ bytecode = NoBytecode /\ bytecode' = b
      /\ frames' = <<first>> /\ bases' = <<0>> /\ stack' = <<>>
      /\ ip' = main.address /\ running' = TRUE /\ returnCode' = 0
      /\ UNCHANGED <<heap, error, input, output>>
  BY DEF Run
<1>2. /\ IsBytecode(b) /\ Len(heap) \in Nat
      /\ b.code \in Seq([op : OpCode, arg : Int, arg2 : Int, text : Seq(Nat)])
      /\ b.functions \in Seq([address : Addresses(b), params : Nat, locals : Nat,
                              returnType : ReturnTypes])
      /\ b.entry \in Functions(b)
  BY BytecodesAssumption, StackOfValues DEF IsBytecode
<1>3. Len(b.code) \in Nat /\ Len(b.functions) \in Nat
  BY <1>2, LenProperties
<1>4. main \in [address : Addresses(b), params : Nat, locals : Nat, returnType : ReturnTypes]
  <2>1. b.entry + 1 \in 1 .. Len(b.functions)
    BY <1>2, <1>3, Positions DEF Functions
  <2>2. QED
    BY <1>2, <2>1, ElementOfSeq
<1>5. main.address \in Addresses(b) /\ main.locals \in Nat
  BY <1>4
<1>6. slots \in Seq(V) /\ Len(slots) = main.locals
  <2>1. 0 \in IntRange
    BY Ranges DEF IntRange
  <2>2. MakeInt(0) \in V
    BY <1>2, <2>1, ScalarsMade, ValuesAreOperands
  <2> HIDE DEF V
  <2>3. QED
    BY <1>5, <2>2
<1> HIDE DEF slots
<1>7. first \in F
  <2>1. -1 \in -1 .. Len(b.code)
    BY <1>3
  <2>2. QED
    BY <1>2, <1>6, <2>1
<1>8. frames' \in Seq(F) /\ Len(frames') = 1 /\ DOMAIN frames' = {1} /\ frames'[1] = first
  <2> HIDE DEF F, first
  <2>1. QED
    BY <1>1, <1>7
<1>9. code' = b.code /\ functions' = b.functions /\ frames' # <<>>
  BY <1>1, <1>8 DEF code, functions
<1>10. StaysInFunction'
  <2>1. currentFrame'.functionIndex = b.entry
    BY <1>8 DEF currentFrame
  <2>2. InFunction(b, main.address, b.entry)
    <3>1. ASSUME NEW g \in DOMAIN b.functions
          PROVE  b.functions[g].address \in Int
      <4>1. g \in 1 .. Len(b.functions)
        BY <1>2, LenProperties
      <4>2. b.functions[g] \in [address : Addresses(b), params : Nat, locals : Nat,
                                returnType : ReturnTypes]
        BY <1>2, <4>1, ElementOfSeq
      <4>3. QED
        BY <4>2 DEF Addresses
    <3>2. main.address \in Int
      BY <1>5 DEF Addresses
    <3>3. QED
      BY <3>1, <3>2 DEF InFunction
  <2>3. error' \notin ControlErrors
    BY <1>1 DEF IInv, StaysInFunction
  <2>4. QED
    BY <1>1, <1>5, <2>1, <2>2, <2>3 DEF StaysInFunction, Inside
<1>11. Loaded' /\ ReturnsToItsCall'
  BY <1>1, <1>8 DEF Loaded, ReturnsToItsCall
<1>12. TypeOK'
  <2>1. Value' = V
    BY <1>1 DEF Value, ValueOf
  <2>2. /\ bytecode' \in Bytecodes \cup {NoBytecode}
        /\ heap' \in Seq([name : Seq(Nat), elems : Seq(Value')])
        /\ running' \in BOOLEAN
        /\ running' => frames' # <<>>
        /\ error' \in Messages \cup {""}
        /\ input' \in Seq(Seq(Nat))
    <3>1. Value' = Value
      BY <1>1 DEF Value
    <3>2. QED
      BY <1>1, <1>9, <3>1 DEF IInv, TypeOK
  <2>3. returnCode' \in IntRange
    BY <1>1, Ranges DEF IntRange
  <2>4. stack' \in Seq(Value')
    BY <1>1, EmptySeq
  <2>5. frames' \in Seq([functionIndex : Functions(bytecode'), returnIp : -1 .. Len(code'),
                         locals : Seq(Value')])
    BY <1>1, <1>8, <1>9, <2>1
  <2>6. \A d \in DOMAIN frames' :
            Len(frames'[d].locals) = functions'[frames'[d].functionIndex + 1].locals
    BY <1>6, <1>8, <1>9
  <2>7. ip' \in 0 .. Len(code')
    BY <1>1, <1>3, <1>5, <1>9 DEF Addresses
  <2>8. bases' \in Seq(Nat) /\ Len(bases') = Len(frames')
    BY <1>1, <1>8
  <2>9. QED
    BY <2>2, <2>3, <2>4, <2>5, <2>6, <2>7, <2>8 DEF TypeOK
<1>13. QED
  BY <1>1, <1>10, <1>11, <1>12, NothingLoaded DEF IInv

-----------------------------------------------------------------------------
(* Every step.                                                             *)

LEMMA Initially ==
    ASSUME Init
    PROVE  IInv
<1>1. DOMAIN <<>> = {} /\ Len(<<>>) = 0 /\ \A S : <<>> \in Seq(S)
  BY EmptySeq
<1>2. /\ bytecode = NoBytecode /\ stack = <<>> /\ frames = <<>> /\ heap = <<>> /\ ip = 0
      /\ running = FALSE /\ returnCode = 0 /\ error = "" /\ input = <<>> /\ bases = <<>>
  BY DEF Init
<1>3. code = <<>> /\ DOMAIN frames = {} /\ 0 \in 0 .. 0
  <2>1. code = <<>>
    BY <1>2 DEF code, NoBytecode
  <2>2. DOMAIN frames = {}
    BY <1>1, <1>2
  <2>3. QED
    BY <2>1, <2>2
<1>4. returnCode \in IntRange
  <2>1. 0 \in IntRange
    BY Ranges DEF IntRange
  <2>2. QED
    BY <1>2, <2>1
<1>5. TypeOK
  BY <1>1, <1>2, <1>3, <1>4 DEF TypeOK
<1>6. Loaded /\ ReturnsToItsCall
  BY <1>2, <1>3 DEF Loaded, ReturnsToItsCall
<1>7. StaysInFunction
  BY <1>2 DEF StaysInFunction, ControlErrors
<1>8. QED
  BY <1>5, <1>6, <1>7 DEF IInv

\* The frames of the callers stay what they are, unless there are none.
Undisturbed == frames # <<>> /\ frames' # <<>> => Frozen

LEMMA Untouched ==
    ASSUME IInv, UNCHANGED frames
    PROVE  Undisturbed
<1>1. Len(frames) \in Nat /\ DOMAIN frames = 1 .. Len(frames)
  BY FramesOfCalls, LenProperties
<1>2. \A n \in Nat : \A d \in 1 .. n - 1 : d \in 1 .. n
  OBVIOUS
<1>3. \A d \in 1 .. Len(frames) - 1 : d \in DOMAIN frames
  BY <1>1, <1>2
<1>4. QED
  BY <1>3 DEF Undisturbed, Frozen

LEMMA EveryStep ==
    ASSUME IInv, Next
    PROVE  IInv' /\ Undisturbed
<1>1. CASE \E b \in Bytecodes : Run(b)
  BY <1>1, RunStep DEF Undisturbed
<1>2. CASE Throw
  BY <1>2, ThrowStep, Untouched DEF Throw
<1>3. CASE PushConstant
  BY <1>3, PushConstantStep, Untouched DEF PushConstant
<1>4. CASE Load
  BY <1>4, LoadStep, Untouched DEF Load
<1>5. CASE Store
  <2>1. /\ IInv' /\ SameCalls
        /\ \A d \in 1 .. Len(frames) - 1 : frames'[d] = frames[d]
    BY <1>5, StoreStep
  <2>2. Len(frames) \in Nat /\ DOMAIN frames' = 1 .. Len(frames)
    BY <2>1, FramesOfCalls, LenProperties DEF SameCalls
  <2>3. \A n \in Nat : \A d \in 1 .. n - 1 : d \in 1 .. n
    OBVIOUS
  <2>4. \A d \in 1 .. Len(frames) - 1 : d \in DOMAIN frames'
    BY <2>2, <2>3
  <2>5. QED
    BY <2>1, <2>4 DEF Undisturbed, Frozen
<1>6. CASE Pop \/ Assert \/ WriteLine
  BY <1>6, PopSteps, Untouched DEF Pop, Assert, WriteLine
<1>7. CASE Compute
  BY <1>7, ComputeStep, Untouched DEF Compute
<1>8. CASE MakeArray \/ MakeStruct
  BY <1>8, MakeSteps, Untouched DEF MakeArray, MakeStruct
<1>9. CASE LoadIndex \/ LoadField
  BY <1>9, ReadSteps, Untouched DEF LoadIndex, LoadField
<1>10. CASE StoreIndex \/ StoreField
  BY <1>10, WriteSteps, Untouched DEF StoreIndex, StoreField
<1>11. CASE Jump \/ JumpIf
  BY <1>11, JumpSteps, Untouched DEF Jump, JumpIf
<1>12. CASE Input
  BY <1>12, InputStep, Untouched DEF Input
<1>13. CASE Call
  BY <1>13, CallStep DEF Undisturbed
<1>14. CASE ReturnToCaller
  BY <1>14, ReturnStep DEF Undisturbed
<1>15. CASE ReturnFromMain \/ Exit
  BY <1>15, EndSteps DEF Undisturbed
<1>16. QED
  BY <1>1, <1>2, <1>3, <1>4, <1>5, <1>6, <1>7, <1>8, <1>9, <1>10, <1>11, <1>12, <1>13,
     <1>14, <1>15 DEF Next, execute

LEMMA Stutters ==
    ASSUME IInv, UNCHANGED vars
    PROVE  IInv'
<1>1. /\ UNCHANGED <<bytecode, stack, frames, heap, ip, running, returnCode, error,
                     input, output, bases>>
      /\ UNCHANGED <<code, functions, Value, currentFrame>>
  BY DEF vars, code, functions, Value, currentFrame
<1>2. TypeOK' /\ Loaded'
  BY <1>1 DEF IInv, TypeOK, Loaded
<1>3. StaysInFunction' /\ ReturnsToItsCall'
  BY <1>1 DEF IInv, StaysInFunction, ReturnsToItsCall, Inside
<1>4. QED
  BY <1>2, <1>3 DEF IInv

\* IInv holds throughout every behaviour of the machine.
THEOREM Invariance == Spec => []IInv
<1>1. Init => IInv
  BY Initially
<1>2. IInv /\ [Next]_vars => IInv'
  BY EveryStep, Stutters
<1>3. QED
  BY <1>1, <1>2, PTL DEF Spec

\* Every slot and every operand is a scalar in its range or refers to an
\* object that exists, and every frame has the slots of its function: the
\* machine of VM::run is never in a state its types do not describe.
THEOREM TypeCorrect == Spec => []TypeOK
<1>1. IInv => TypeOK
  BY DEF IInv
<1>2. QED
  BY Invariance, <1>1, PTL

\* Whatever bytecode the generator hands over, the loop of VM::run is at an
\* instruction of the function of the current call, and none of its errors
\* about instruction pointers, jump targets and function addresses comes up.
THEOREM StaysInItsFunction == Spec => []StaysInFunction
<1>1. IInv => StaysInFunction
  BY DEF IInv
<1>2. QED
  BY Invariance, <1>1, PTL

\* The return address of every open call is behind the CALL of this very
\* function, in the code of its caller.
THEOREM ReturnsToTheCall == Spec => []ReturnsToItsCall
<1>1. IInv => ReturnsToItsCall
  BY DEF IInv
<1>2. QED
  BY Invariance, <1>1, PTL

\* No instruction, STORE included, reaches the locals of a call that is not
\* the current one, nor its frame on the way in and out of calls.
THEOREM CallersStayFrozen == Spec => CallersFrozen
<1>1. IInv /\ [Next]_vars =>
        [ frames # <<>> /\ frames' # <<>> =>
            \A d \in 1 .. Len(frames) - 1 : d \in DOMAIN frames' /\ frames'[d] = frames[d] ]_vars
  <2>1. SUFFICES ASSUME IInv, Next
                 PROVE  frames # <<>> /\ frames' # <<>> =>
                            \A d \in 1 .. Len(frames) - 1 :
                                d \in DOMAIN frames' /\ frames'[d] = frames[d]
    OBVIOUS
  <2>2. QED
    BY <2>1, EveryStep DEF Undisturbed, Frozen
<1>2. QED
  BY Invariance, <1>1, PTL DEF Spec, CallersFrozen

=============================================================================
