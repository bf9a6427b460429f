-------------------------- MODULE CallStackProofs --------------------------
(***************************************************************************)
(* Lemmas about the stack of activations, and a few about numbers and      *)
(* sequences.                                                              *)
(***************************************************************************)
EXTENDS CallStack, FiniteSetTheorems, SequenceTheorems, WellFoundedInduction, TLAPS

\* The least of some numbers.
LEMMA Least ==
    ASSUME NEW T \in SUBSET Nat, T # {}
    PROVE  \E x \in T : \A y \in T : x <= y
<1> DEFINE R == OpToRel(<, Nat)
<1>1. IsWellFoundedOn(R, Nat)
  BY NatLessThanWellFounded
<1>2. ASSUME NEW i \in Nat, NEW j \in Nat, i < j PROVE <<i, j>> \in R
  <2>1. R = {ss \in Nat \X Nat : ss[1] < ss[2]}
    BY DEF OpToRel
  <2> HIDE DEF R
  <2>2. <<i, j>> \in Nat \X Nat /\ <<i, j>>[1] < <<i, j>>[2]
    BY <1>2
  <2>3. QED
    BY <2>1, <2>2, Zenon
<1> HIDE DEF R
<1>3. PICK x \in T : \A y \in T : <<y, x>> \notin R
  BY <1>1, WFMin
<1>4. ASSUME NEW y \in T PROVE x <= y
  <2>1. x \in Nat /\ y \in Nat
    OBVIOUS
  <2>2. ~(y < x)
    BY <1>2, <1>3, <2>1
  <2>3. QED
    BY <2>1, <2>2
<1>5. QED
  BY <1>4

\* The greatest of some numbers that have a bound.
LEMMA Greatest ==
    ASSUME NEW n \in Nat, NEW T \in SUBSET (1 .. n), T # {}
    PROVE  \E x \in T : \A y \in T : y <= x
<1> DEFINE D == {n - x : x \in T}
<1>1. D \in SUBSET Nat /\ D # {}
  <2>1. \A x \in T : n - x \in Nat
    OBVIOUS
  <2>2. QED
    BY <2>1
<1>2. PICK d \in D : \A e \in D : d <= e
  <2> HIDE DEF D
  <2>1. QED
    BY <1>1, Least
<1>3. PICK x \in T : d = n - x
  OBVIOUS
<1>4. ASSUME NEW y \in T PROVE y <= x
  <2>1. n - y \in D /\ n - y \in Nat /\ d <= n - y
    BY <1>1, <1>2
  <2>2. QED
    BY <1>3, <2>1
<1>5. QED
  BY <1>4

LEMMA PrefixProperties ==
    ASSUME NEW S, NEW s \in Seq(S), NEW n \in 0 .. Len(s)
    PROVE  /\ SubSeq(s, 1, n) \in Seq(S)
           /\ Len(SubSeq(s, 1, n)) = n
           /\ \A i \in 1 .. n : SubSeq(s, 1, n)[i] = s[i]
<1>1. SubSeq(s, 1, n) \in Seq(S)
  OBVIOUS
<1>2. Len(SubSeq(s, 1, n)) = n
  OBVIOUS
<1>3. \A i \in 1 .. n : SubSeq(s, 1, n)[i] = s[i]
  OBVIOUS
<1>4. QED
  BY <1>1, <1>2, <1>3

LEMMA ConcatElements ==
    ASSUME NEW S, NEW s \in Seq(S), NEW t \in Seq(S)
    PROVE  /\ s \o t \in Seq(S)
           /\ Len(s \o t) = Len(s) + Len(t)
           /\ \A i \in 1 .. Len(s) : (s \o t)[i] = s[i]
           /\ \A i \in Len(s) + 1 .. Len(s) + Len(t) : (s \o t)[i] = t[i - Len(s)]
<1>1. s \o t \in Seq(S)
  OBVIOUS
<1>2. Len(s \o t) = Len(s) + Len(t)
  OBVIOUS
<1>3. \A i \in 1 .. Len(s) : (s \o t)[i] = s[i]
  OBVIOUS
<1>4. \A i \in Len(s) + 1 .. Len(s) + Len(t) : (s \o t)[i] = t[i - Len(s)]
  OBVIOUS
<1>5. QED
  BY <1>1, <1>2, <1>3, <1>4

\* What Then does to the stack of activations: all but the top stay where they
\* are, and the new ones follow, the last of them first.
LEMMA ReplacedProperties ==
    ASSUME NEW S, NEW w \in Seq(S), w # <<>>, NEW items \in Seq(S)
    PROVE  /\ Replaced(w, items) \in Seq(S)
           /\ Len(Replaced(w, items)) = Len(w) - 1 + Len(items)
           /\ \A i \in 1 .. Len(w) - 1 : Replaced(w, items)[i] = w[i]
           /\ \A i \in Len(w) .. Len(Replaced(w, items)) :
                  Replaced(w, items)[i] = items[Len(items) + Len(w) - i]
<1> DEFINE front == SubSeq(w, 1, Len(w) - 1)
           back  == Reverse(items)
<1>1. Len(w) - 1 \in 0 .. Len(w)
  OBVIOUS
<1>2. /\ front \in Seq(S)
      /\ Len(front) = Len(w) - 1
      /\ \A i \in 1 .. Len(w) - 1 : front[i] = w[i]
  BY <1>1, PrefixProperties, Zenon
<1>3. /\ back \in Seq(S)
      /\ Len(back) = Len(items)
      /\ \A i \in 1 .. Len(items) : back[i] = items[Len(items) - i + 1]
  BY DEF Reverse
<1>4. Replaced(w, items) = front \o back
  BY DEF Replaced
<1> HIDE DEF front, back
<1>5. /\ front \o back \in Seq(S)
      /\ Len(front \o back) = Len(front) + Len(back)
      /\ \A i \in 1 .. Len(front) : (front \o back)[i] = front[i]
      /\ \A i \in Len(front) + 1 .. Len(front) + Len(back) :
             (front \o back)[i] = back[i - Len(front)]
  <2>1. front \in Seq(S) /\ back \in Seq(S)
    BY <1>2, <1>3
  <2>2. QED
    BY <2>1, ConcatElements
<1>6. \A i \in Len(w) .. Len(front \o back) : (front \o back)[i] = items[Len(items) + Len(w) - i]
  <2>1. SUFFICES ASSUME NEW i \in Len(w) .. Len(front \o back)
                 PROVE  (front \o back)[i] = items[Len(items) + Len(w) - i]
    OBVIOUS
  <2>2. /\ i \in Len(front) + 1 .. Len(front) + Len(back)
        /\ i - Len(front) \in 1 .. Len(items)
        /\ Len(items) - (i - Len(front)) + 1 = Len(items) + Len(w) - i
    BY <1>1, <1>2, <1>3, <1>5
  <2>3. (front \o back)[i] = back[i - Len(front)]
    BY <1>5, <2>2
  <2>4. QED
    BY <1>3, <2>2, <2>3
<1>7. QED
  BY <1>1, <1>2, <1>3, <1>4, <1>5, <1>6

\* How many items of the stack have one of some tasks, when at most the last
\* of the new ones has.
Count(w, tasks) == Cardinality(Pending(w, tasks))
One(condition) == IF condition THEN 1 ELSE 0
LastIn(items, tasks) == items # <<>> /\ items[Len(items)].task \in tasks

LEMMA CountProperties ==
    ASSUME NEW S, NEW w \in Seq(S), NEW tasks
    PROVE  /\ IsFiniteSet(Pending(w, tasks))
           /\ Count(w, tasks) \in Nat
           /\ Count(w, tasks) = 0 <=> \A i \in 1 .. Len(w) : w[i].task \notin tasks
<1>1. Pending(w, tasks) \in SUBSET (1 .. Len(w))
  BY DEF Pending
<1>2. IsFiniteSet(1 .. Len(w))
  BY FS_Interval
<1>3. IsFiniteSet(Pending(w, tasks))
  BY <1>1, <1>2, FS_Subset
<1>4. Count(w, tasks) \in Nat
  BY <1>3, FS_CardinalityType DEF Count
<1>5. Count(w, tasks) = 0 <=> Pending(w, tasks) = {}
  BY <1>3, FS_EmptySet DEF Count
<1>6. Pending(w, tasks) = {} <=> \A i \in 1 .. Len(w) : w[i].task \notin tasks
  BY DEF Pending
<1>7. QED
  BY <1>3, <1>4, <1>5, <1>6

LEMMA CountReplaced ==
    ASSUME NEW S, NEW w \in Seq(S), w # <<>>, NEW items \in Seq(S), NEW tasks,
           \A i \in 1 .. Len(items) - 1 : items[i].task \notin tasks
    PROVE  Count(Replaced(w, items), tasks)
             = Count(w, tasks) - One(w[Len(w)].task \in tasks) + One(LastIn(items, tasks))
<1> DEFINE new  == Replaced(w, items)
           kept == Pending(w, tasks) \ {Len(w)}
<1>1. /\ Len(w) \in Nat \ {0}
      /\ Len(items) \in Nat
  OBVIOUS
<1>2. /\ new \in Seq(S)
      /\ Len(new) = Len(w) - 1 + Len(items)
      /\ \A i \in 1 .. Len(w) - 1 : new[i] = w[i]
      /\ \A i \in Len(w) .. Len(new) : new[i] = items[Len(items) + Len(w) - i]
  BY ReplacedProperties
<1> HIDE DEF new
<1>3. \A i \in Len(w) + 1 .. Len(new) : new[i].task \notin tasks
  <2>1. SUFFICES ASSUME NEW i \in Len(w) + 1 .. Len(new) PROVE new[i].task \notin tasks
    OBVIOUS
  <2>2. Len(items) + Len(w) - i \in 1 .. Len(items) - 1
    BY <1>1, <1>2
  <2>3. QED
    BY <1>1, <1>2, <2>2
<1>4. Len(items) > 0 => Len(w) \in 1 .. Len(new) /\ new[Len(w)] = items[Len(items)]
  BY <1>1, <1>2
<1>5. items # <<>> <=> Len(items) > 0
  OBVIOUS
<1>6. Pending(new, tasks) = IF LastIn(items, tasks) THEN kept \cup {Len(w)} ELSE kept
  <2>1. \A i \in 1 .. Len(w) - 1 : i \in Pending(new, tasks) <=> i \in Pending(w, tasks)
    BY <1>1, <1>2 DEF Pending
  <2>2. \A i \in Pending(new, tasks) : i \in 1 .. Len(w)
    BY <1>1, <1>2, <1>3 DEF Pending
  <2>3. Len(w) \in Pending(new, tasks) <=> LastIn(items, tasks)
    BY <1>1, <1>2, <1>4, <1>5 DEF Pending, LastIn
  <2>4. \A i \in Pending(w, tasks) : i \in 1 .. Len(w)
    BY DEF Pending
  <2>5. QED
    BY <1>1, <2>1, <2>2, <2>3, <2>4
<1>7. Len(w) \in Pending(w, tasks) <=> w[Len(w)].task \in tasks
  BY <1>1 DEF Pending
<1>8. /\ IsFiniteSet(kept)
      /\ Cardinality(kept) = Count(w, tasks) - One(w[Len(w)].task \in tasks)
  <2>1. IsFiniteSet(Pending(w, tasks))
    BY CountProperties
  <2>2. /\ IsFiniteSet(kept)
        /\ Cardinality(kept) = IF Len(w) \in Pending(w, tasks)
                               THEN Cardinality(Pending(w, tasks)) - 1
                               ELSE Cardinality(Pending(w, tasks))
    BY <2>1, FS_RemoveElement, Zenon
  <2>3. Cardinality(Pending(w, tasks)) \in Nat
    BY <2>1, FS_CardinalityType
  <2>4. QED
    BY <1>7, <2>2, <2>3 DEF Count, One
<1>9. Cardinality(kept \cup {Len(w)}) = Cardinality(kept) + 1
  BY <1>8, FS_AddElement
<1>10. Count(w, tasks) \in Nat
  BY CountProperties
<1>11. QED
  BY <1>6, <1>8, <1>9, <1>10 DEF Count, One, new

=============================================================================
