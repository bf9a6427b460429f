--------------------------- MODULE OverloadsProofs ---------------------------
(***************************************************************************)
(* Theorems about Overloads, for every program the parser may hand over    *)
(* and every call in it.                                                   *)
(***************************************************************************)
EXTENDS Overloads, CallStackProofs

-----------------------------------------------------------------------------
(* Types, signatures and scores.                                           *)

\* Arguments make a sequence of types, and their positions a finite set.
LEMMA ArgumentsOfCall ==
    ASSUME NEW c \in Calls \cup {NoCall}
    PROVE  /\ c.arguments \in Seq(Types)
           /\ c.typeArguments \in Seq(Types)
           /\ IsFiniteSet(DOMAIN c.arguments)
<1>1. c.arguments \in Seq(Types) /\ c.typeArguments \in Seq(Types)
  <2>1. CASE c \in Calls
    BY <2>1, CallsAssumption
  <2>2. CASE c = NoCall
    <3>1. c.arguments = <<>> /\ c.typeArguments = <<>>
      BY <2>2 DEF NoCall
    <3>2. <<>> \in Seq(Types)
      OBVIOUS
    <3>. QED BY <3>1, <3>2
  <2>. QED BY <2>1, <2>2
<1>2. DOMAIN c.arguments = 1 .. Len(c.arguments) /\ Len(c.arguments) \in Nat
  BY <1>1
<1>3. IsFiniteSet(DOMAIN c.arguments)
  BY <1>2, FS_Interval
<1>. QED BY <1>1, <1>3

\* A score is a number; only a function without type parameters that takes all
\* arguments as they are costs nothing.
LEMMA ScoreIsNatural ==
    ASSUME NEW c \in Calls \cup {NoCall}, NEW f
    PROVE  /\ score(f, c) \in Nat
           /\ score(f, c) = 0 <=>
                  f.typeParameters = <<>> /\ \A i \in DOMAIN c.arguments : Exact(f, c, i)
<1>. DEFINE other == {i \in DOMAIN c.arguments : ~Exact(f, c, i)}
<1>1. IsFiniteSet(other)
  BY ArgumentsOfCall, FS_Subset
<1>2. Cardinality(other) \in Nat
  BY <1>1, FS_CardinalityType
<1>3. Cardinality(other) = 0 <=> other = {}
  BY <1>1, FS_EmptySet
<1>4. other = {} <=> \A i \in DOMAIN c.arguments : Exact(f, c, i)
  OBVIOUS
<1>5. score(f, c) = (IF f.typeParameters = <<>> THEN 0 ELSE 1) + 10 * Cardinality(other)
  BY DEF score
<1>. DEFINE number == Cardinality(other)
            generic == IF f.typeParameters = <<>> THEN 0 ELSE 1
<1>6. number \in Nat /\ score(f, c) = generic + 10 * number
  BY <1>2, <1>5
<1>7. generic \in {0, 1} /\ (generic = 0 <=> f.typeParameters = <<>>)
  OBVIOUS
<1>8. number = 0 <=> \A i \in DOMAIN c.arguments : Exact(f, c, i)
  BY <1>3, <1>4, Zenon
<1>. HIDE DEF number, generic
<1>9. score(f, c) \in Nat /\ (score(f, c) = 0 <=> generic = 0 /\ number = 0)
  BY <1>6, <1>7
<1>. QED BY <1>7, <1>8, <1>9, Zenon

\* Having the same signature does not depend on the order of the two.
LEMMA SignatureSymmetric ==
    ASSUME NEW f \in FunctionDecls, NEW g \in FunctionDecls, sameSignature(f, g)
    PROVE  sameSignature(g, f)
<1>1. f.parameters \in Seq(Types) /\ g.parameters \in Seq(Types)
  BY DEF FunctionDecls
<1>2. DOMAIN f.parameters = DOMAIN g.parameters
  BY <1>1 DEF sameSignature
<1>. QED BY <1>2 DEF sameSignature, sameConcreteType

\* What an index of the table stands for is a declaration.
LEMMA SymbolIsDeclaration ==
    ASSUME TypeOK, NEW j \in Declared
    PROVE  symbol(j) \in FunctionDecls /\ symbol(j).name \in Names
<1>1. program \in Seq(FunctionDecls) /\ j + 1 \in DOMAIN program
  BY ProgramsAssumption DEF TypeOK, Declared
<1>. QED BY <1>1 DEF symbol, Names

-----------------------------------------------------------------------------
(* Type correctness.                                                       *)

\* The analyzer starts with an empty table and no call.
LEMMA TypeInit == Init => TypeOK
<1>. SUFFICES ASSUME Init PROVE TypeOK
  OBVIOUS
<1>1. program \in Seq(FunctionDecls)
  BY ProgramsAssumption DEF Init
<1>2. Len(program) \in Nat /\ index = 0
  BY <1>1 DEF Init
<1>3. \A n \in Names : functions[n] \in Seq(FunctionIndexes)
  BY DEF Init
<1>4. resolved.functionIndex = -1
  BY DEF Init, Unresolved
<1>5. allowImplicit \in BOOLEAN /\ ambiguous \in BOOLEAN
  BY Zenon DEF Init
<1>. QED BY <1>2, <1>3, <1>4, <1>5 DEF Init, TypeOK, Messages

\* Every step keeps the types.
LEMMA TypeStep == TypeOK /\ [Next]_vars => TypeOK'
<1>. SUFFICES ASSUME TypeOK, [Next]_vars PROVE TypeOK'
  OBVIOUS
<1>. USE DEF TypeOK, tableVars, choiceVars, Names, FunctionIndexes, Messages
<1>p. program \in Seq(FunctionDecls) /\ Len(program) \in Nat
  BY ProgramsAssumption
<1>u. Unresolved.functionIndex = -1
  BY DEF Unresolved
<1>0. CASE UNCHANGED vars
  BY <1>0 DEF vars, overloads
<1>1. CASE Collect
  <2>1. index \in FunctionIndexes /\ index' \in 0 .. Len(program)
    BY <1>1, <1>p DEF Collect, Collecting
  <2>2. symbol(index).name \in Names
    BY <2>1, <1>p DEF symbol
  <2>3. \A n \in Names : functions'[n] = IF n = symbol(index).name THEN Append(functions[n], index)
                                         ELSE functions[n]
    BY <1>1, <2>2 DEF Collect
  <2>4. ASSUME NEW n \in Names PROVE functions'[n] \in Seq(FunctionIndexes)
    <3>. HIDE DEF FunctionIndexes, Names
    <3>1. functions[n] \in Seq(FunctionIndexes)
      OBVIOUS
    <3>2. Append(functions[n], index) \in Seq(FunctionIndexes)
      BY <2>1, <3>1
    <3>. QED BY <2>3, <3>1, <3>2
  <2>. QED BY <1>1, <2>1, <2>2, <2>4 DEF Collect, Collecting
<1>2. CASE CollectFails
  BY <1>2 DEF CollectFails, Collecting, Collected
<1>3. CASE CollectEnds
  BY <1>3 DEF CollectEnds, Collected
<1>4. ASSUME NEW c \in Calls, analyzeCallExpr(c) PROVE TypeOK'
  <2>1. 1 <= Len(functions[c.callee]) + 1
    BY <1>4 DEF analyzeCallExpr
  <2>2. allowImplicit' \in BOOLEAN /\ ambiguous' \in BOOLEAN
    BY <1>4, Zenon DEF analyzeCallExpr
  <2>. QED BY <1>4, <1>u, <2>1, <2>2 DEF analyzeCallExpr, overloads
<1>5. ASSUME NEW c \in Calls, NotDeclared(c) PROVE TypeOK'
  BY <1>5, <1>u DEF NotDeclared, Fail
<1>6. CASE DoesNotFit
  <2>1. candidate + 1 <= Len(overloads) + 1
    BY <1>6 DEF DoesNotFit, Trying, overloads
  <2>. QED BY <1>6, <2>1 DEF DoesNotFit, Trying, TryNext, overloads
<1>7. CASE FitsBetter
  <2>1. candidate + 1 <= Len(overloads) + 1
    BY <1>7 DEF FitsBetter, Trying, overloads
  <2>2. ambiguous' \in BOOLEAN
    BY <1>7, Zenon DEF FitsBetter
  <2>. QED BY <1>7, <2>1, <2>2 DEF FitsBetter, Trying, TryNext, overloads
<1>8. CASE FitsNoBetter
  <2>1. candidate + 1 <= Len(overloads) + 1
    BY <1>8 DEF FitsNoBetter, Trying, overloads
  <2>2. ambiguous' \in BOOLEAN
    BY <1>8, Zenon DEF FitsNoBetter
  <2>. QED BY <1>8, <2>1, <2>2 DEF FitsNoBetter, Trying, TryNext, overloads
<1>9. CASE TryConversions
  <2>1. 1 <= Len(overloads) + 1
    BY <1>9 DEF TryConversions, Tried, overloads
  <2>2. allowImplicit' \in BOOLEAN /\ ambiguous' \in BOOLEAN
    BY <1>9, Zenon DEF TryConversions
  <2>. QED BY <1>9, <2>1, <2>2 DEF TryConversions, Tried, overloads
<1>10. CASE Rejected
  BY <1>10 DEF Rejected, Tried, Fail
<1>11. CASE Resolve
  <2>1. overloads \in Seq(FunctionIndexes) /\ best \in DOMAIN overloads
    <3>1. Tried /\ best # 0
      BY <1>11 DEF Resolve
    <3>2. QED
      BY <3>1 DEF Tried, overloads
  <2>2. resolved'.functionIndex \in FunctionIndexes
    BY <1>11, <2>1 DEF Resolve
  <2>. QED BY <1>11, <2>2 DEF Resolve, Tried
<1>. QED BY <1>0, <1>1, <1>2, <1>3, <1>4, <1>5, <1>6, <1>7, <1>8, <1>9, <1>10, <1>11 DEF Next

\* The analyzer's state always has its types.
THEOREM TypeCorrect == Spec => []TypeOK
<1>. QED BY TypeInit, TypeStep, PTL DEF Spec

-----------------------------------------------------------------------------
(* The table.                                                              *)

\* Only Collect changes the table, and it appends a new function whose
\* signature is in none of the overloads before it.
LEMMA TableStep == TypeOK /\ TableOK /\ [Next]_vars => TableOK'
<1>. SUFFICES ASSUME TypeOK, TableOK, [Next]_vars PROVE TableOK'
  OBVIOUS
<1>1. CASE Collect
  <2>. DEFINE f == symbol(index)
  <2>1. /\ program \in Seq(FunctionDecls) /\ program' = program
        /\ index \in Nat /\ index' = index + 1 /\ index + 1 \in DOMAIN program
        /\ WellFormed(f) /\ ~Repeated(f)
        /\ functions' = [functions EXCEPT ![f.name] = Append(@, index)]
    BY <1>1, ProgramsAssumption DEF Collect, Collecting, TypeOK
  <2>2. f.name \in Names /\ Names' = Names
    BY <2>1 DEF symbol, Names
  <2>4. \A j : j \in Declared' <=> j \in Declared \/ j = index
    BY <2>1 DEF Declared
  <2>5. \A n \in Names : functions[n] \in Seq(FunctionIndexes)
    BY DEF TypeOK
  <2>6. \A n \in Names : n # f.name => functions'[n] = functions[n]
    BY <2>1, <2>2 DEF TypeOK
  <2>. DEFINE old == functions[f.name]
  <2>7. /\ functions'[f.name] = Append(old, index)
        /\ Len(old) \in Nat
        /\ DOMAIN old = 1 .. Len(old)
        /\ DOMAIN functions'[f.name] = 1 .. Len(old) + 1
        /\ \A k \in DOMAIN old : functions'[f.name][k] = old[k]
        /\ functions'[f.name][Len(old) + 1] = index
    <3>1. functions'[f.name] = Append(old, index)
      BY <2>1, <2>2 DEF TypeOK
    <3>2. old \in Seq(FunctionIndexes)
      BY <2>2, <2>5
    <3>. QED BY <3>1, <3>2
  <2>. HIDE DEF f, old
  <2>8. \A j \in Declared' : WellFormed(symbol(j))
    BY <2>1, <2>4 DEF TableOK, f
  <2>9. ASSUME NEW n \in Names, NEW k \in DOMAIN functions'[n]
        PROVE  functions'[n][k] \in Declared' /\ symbol(functions'[n][k]).name = n
    <3>1. CASE n # f.name
      BY <3>1, <2>4, <2>6, <2>9 DEF TableOK
    <3>2. CASE n = f.name /\ k \in DOMAIN old
      BY <3>2, <2>4, <2>7, <2>9 DEF TableOK, old
    <3>3. CASE n = f.name /\ k = Len(old) + 1
      BY <3>3, <2>4, <2>7 DEF f
    <3>. QED BY <3>1, <3>2, <3>3, <2>7
  <2>10. ASSUME NEW j \in Declared'
         PROVE  \E k \in DOMAIN functions'[symbol(j).name] : functions'[symbol(j).name][k] = j
    <3>1. CASE j = index
      BY <3>1, <2>7 DEF f
    <3>2. CASE j \in Declared
      <4>1. symbol(j).name \in Names
        BY <3>2, SymbolIsDeclaration
      <4>2. PICK k \in DOMAIN functions[symbol(j).name] : functions[symbol(j).name][k] = j
        BY <3>2 DEF TableOK
      <4>3. CASE symbol(j).name # f.name
        BY <4>1, <4>2, <4>3, <2>6
      <4>4. CASE symbol(j).name = f.name
        BY <4>2, <4>4, <2>7 DEF old
      <4>. QED BY <4>3, <4>4
    <3>. QED BY <3>1, <3>2, <2>4
  <2>11. ASSUME NEW n \in Names, NEW k \in DOMAIN functions'[n], NEW l \in DOMAIN functions'[n], k < l
         PROVE  /\ functions'[n][k] < functions'[n][l]
                /\ ~sameSignature(symbol(functions'[n][k]), symbol(functions'[n][l]))
    <3>1. CASE n # f.name
      BY <3>1, <2>6, <2>11 DEF TableOK
    <3>2. CASE n = f.name /\ l \in DOMAIN old
      <4>1. k \in DOMAIN old
        BY <3>2, <2>7, <2>11
      <4>. QED BY <3>2, <4>1, <2>7, <2>11 DEF TableOK, old
    <3>3. CASE n = f.name /\ l = Len(old) + 1
      <4>1. k \in DOMAIN old
        BY <3>3, <2>7, <2>11
      <4>2. old[k] \in Declared
        BY <4>1, <2>2 DEF TableOK, old
      <4>3. old[k] < index
        BY <4>2, <2>1 DEF Declared
      <4>4. ~sameSignature(symbol(old[k]), f)
        BY <2>1, <4>1 DEF Repeated, old
      <4>. QED BY <3>3, <4>1, <4>3, <4>4, <2>7 DEF f
    <3>. QED BY <3>1, <3>2, <3>3, <2>7
  <2>. QED BY <2>1, <2>2, <2>8, <2>9, <2>10, <2>11 DEF TableOK, symbol
<1>2. CASE UNCHANGED <<program, tableVars>>
  BY <1>2 DEF TableOK, tableVars, Declared, symbol, Names
<1>3. Collect \/ UNCHANGED <<program, tableVars>>
  BY DEF Next, vars, CollectFails, CollectEnds, Collected, analyzeCallExpr, NotDeclared, DoesNotFit,
         FitsBetter, FitsNoBetter, TryNext, TryConversions, Rejected, Resolve
<1>. QED BY <1>1, <1>2, <1>3

-----------------------------------------------------------------------------
(* The choice.                                                             *)

\* Inside a call the table lists exactly the overloads of its name, once each.
LEMMA OverloadsOfCall ==
    ASSUME TypeOK, TableOK, phase = "choose"
    PROVE  /\ overloads \in Seq(FunctionIndexes)
           /\ DOMAIN overloads = 1 .. Len(overloads)
           /\ \A k \in DOMAIN overloads : overloads[k] \in Overloads(call)
           /\ \A j \in Overloads(call) : \E k \in DOMAIN overloads : overloads[k] = j
           /\ \A k, l \in DOMAIN overloads : overloads[k] = overloads[l] => k = l
<1>1. call.callee \in Names
  BY DEF TypeOK
<1>2. overloads \in Seq(FunctionIndexes)
  BY <1>1 DEF TypeOK, overloads
<1>3. DOMAIN overloads = 1 .. Len(overloads) /\ Len(overloads) \in Nat
  BY <1>2
<1>4. \A k \in DOMAIN overloads : overloads[k] \in Overloads(call)
  BY <1>1 DEF TableOK, overloads, Overloads
<1>5. \A j \in Overloads(call) : \E k \in DOMAIN overloads : overloads[k] = j
  BY <1>1 DEF TableOK, overloads, Overloads
<1>6. ASSUME NEW k \in DOMAIN overloads, NEW l \in DOMAIN overloads, overloads[k] = overloads[l]
      PROVE  k = l
  <2>1. overloads[k] \in Int /\ overloads[l] \in Int
    BY <1>2 DEF FunctionIndexes
  <2>2. ~(k < l) /\ ~(l < k)
    BY <1>1, <1>6, <2>1 DEF TableOK, overloads
  <2>. QED BY <1>3, <2>2
<1>. QED BY <1>2, <1>3, <1>4, <1>5, <1>6

\* The prices that are compared are numbers.
LEMMA PriceIsNatural ==
    ASSUME TypeOK
    PROVE  /\ \A k : Price(k) \in Nat
           /\ score(Candidate, call) = Price(candidate)
           /\ score(Best, call) = Price(best)
<1>1. \A f : score(f, call) \in Nat
  BY ScoreIsNatural DEF TypeOK
<1>. QED BY <1>1 DEF Price, Candidate, Best

\* Each step of the loop keeps what the loop knows.
LEMMA ChoiceStep == TypeOK /\ TableOK /\ ChoiceOK /\ [Next]_vars => ChoiceOK'
<1>. SUFFICES ASSUME TypeOK, TableOK, ChoiceOK, [Next]_vars, phase' = "choose"
              PROVE  ChoiceOK'
  BY DEF ChoiceOK
<1>. DEFINE new(k) == k < candidate + 1 /\ tryCandidate(symbol(overloads[k]), call, allowImplicit)
<1>1. ASSUME Trying, TryNext,
             best' = 0 => ~ambiguous' /\ \A k \in DOMAIN overloads : ~new(k),
             best' # 0 => /\ new(best')
                          /\ \A k \in DOMAIN overloads : new(k) => Price(best') <= Price(k)
                          /\ ambiguous' <=> \E k \in DOMAIN overloads :
                                               k # best' /\ new(k) /\ Price(k) = Price(best')
      PROVE  ChoiceOK'
  BY <1>1 DEF ChoiceOK, Trying, TryNext, tableVars, overloads, symbol, Seen, Price
<1>2. ASSUME Trying
      PROVE  /\ candidate \in DOMAIN overloads
             /\ DOMAIN overloads = 1 .. Len(overloads)
             /\ \A k \in DOMAIN overloads : new(k) <=> Seen(k) \/ (k = candidate /\ Fits)
             /\ \A k : Seen(k) => k < candidate
             /\ best \in 0 .. candidate - 1 /\ candidate \in Nat
  <2>1. DOMAIN overloads = 1 .. Len(overloads) /\ candidate \in Nat \ {0} /\ best \in 0 .. candidate - 1
    BY <1>2, OverloadsOfCall DEF Trying, TypeOK
  <2>2. candidate \in DOMAIN overloads
    BY <1>2, <2>1, OverloadsOfCall DEF Trying
  <2>3. \A k \in DOMAIN overloads : k < candidate + 1 <=> k < candidate \/ k = candidate
    BY <2>1
  <2>. QED BY <2>1, <2>2, <2>3 DEF Seen, Fits, Candidate
<1>. HIDE DEF new
<1>3. CASE DoesNotFit
  <2>1. Trying /\ TryNext /\ best' = best /\ ambiguous' = ambiguous
    BY <1>3, Zenon DEF DoesNotFit
  <2>2. \A k \in DOMAIN overloads : new(k) <=> Seen(k)
    BY <1>2, <1>3 DEF DoesNotFit
  <2>3. best # 0 => best \in DOMAIN overloads
    BY <1>2, <2>1
  <2>4. best = 0 => ~ambiguous /\ \A k \in DOMAIN overloads : ~new(k)
    BY <2>1, <2>2, Zenon DEF ChoiceOK, Trying
  <2>5. best # 0 =>
            /\ new(best)
            /\ \A k \in DOMAIN overloads : new(k) => Price(best) <= Price(k)
    BY <2>1, <2>2, <2>3 DEF ChoiceOK, Trying
  <2>6. best # 0 =>
            (ambiguous <=> \E k \in DOMAIN overloads : k # best /\ new(k) /\ Price(k) = Price(best))
    BY <2>1, <2>2, Zenon DEF ChoiceOK, Trying
  <2>. QED BY <1>1, <2>1, <2>4, <2>5, <2>6, Zenon
<1>4. CASE FitsBetter
  <2>1. /\ Trying /\ Fits /\ best' = candidate /\ ~ambiguous' /\ TryNext
        /\ best # 0 => Price(candidate) < Price(best)
    BY <1>4, PriceIsNatural DEF FitsBetter, Better
  <2>2. \A k : Price(k) \in Nat
    BY PriceIsNatural
  <2>3. new(candidate) /\ candidate # 0
    BY <1>2, <2>1 DEF TypeOK
  <2>4. \A k \in DOMAIN overloads : new(k) /\ k # candidate => Price(candidate) < Price(k)
    BY <1>2, <2>1, <2>2 DEF ChoiceOK, Trying
  <2>5. \A k \in DOMAIN overloads : new(k) => Price(candidate) <= Price(k)
    BY <2>2, <2>4
  <2>6. ~\E k \in DOMAIN overloads : k # candidate /\ new(k) /\ Price(k) = Price(candidate)
    BY <2>2, <2>4
  <2>. QED BY <1>1, <2>1, <2>3, <2>5, <2>6
<1>5. CASE FitsNoBetter
  <2>1. /\ Trying /\ Fits /\ best' = best /\ TryNext /\ best # 0
        /\ Price(best) <= Price(candidate)
        /\ ambiguous' <=> ambiguous \/ Price(candidate) = Price(best)
    <3>1. ambiguous' = (ambiguous \/ Price(candidate) = Price(best))
      BY <1>5, PriceIsNatural, Zenon DEF FitsNoBetter
    <3>2. best # 0 /\ ~(Price(candidate) < Price(best))
      BY <1>5, PriceIsNatural DEF FitsNoBetter, Better
    <3>3. Price(best) <= Price(candidate)
      BY <3>2, PriceIsNatural
    <3>4. ambiguous' <=> ambiguous \/ Price(candidate) = Price(best)
      BY <3>1, Zenon
    <3>. QED BY <1>5, <3>2, <3>3, <3>4, Zenon DEF FitsNoBetter
  <2>2. Seen(best) /\ \A k \in DOMAIN overloads : Seen(k) => Price(best) <= Price(k)
    BY <2>1 DEF ChoiceOK, Trying
  <2>3. ambiguous <=> \E k \in DOMAIN overloads : k # best /\ Seen(k) /\ Price(k) = Price(best)
    BY <2>1, Zenon DEF ChoiceOK, Trying
  <2>4. best \in DOMAIN overloads /\ best # candidate
    BY <1>2, <2>1
  <2>5. new(best) /\ \A k \in DOMAIN overloads : new(k) => Price(best) <= Price(k)
    BY <1>2, <2>1, <2>2, <2>4
  <2>6. (\E k \in DOMAIN overloads : k # best /\ new(k) /\ Price(k) = Price(best))
          <=> \/ \E k \in DOMAIN overloads : k # best /\ Seen(k) /\ Price(k) = Price(best)
              \/ Price(candidate) = Price(best)
    BY <1>2, <2>1, <2>4, Zenon
  <2>7. ambiguous' <=> \E k \in DOMAIN overloads : k # best /\ new(k) /\ Price(k) = Price(best)
    BY <2>1, <2>3, <2>6, Zenon
  <2>. QED BY <1>1, <2>1, <2>5, <2>7
<1>6. CASE TryConversions
  <2>1. /\ phase = "choose" /\ Tried /\ best = 0 /\ best' = 0 /\ ~allowImplicit /\ ~ambiguous' /\ candidate' = 1
        /\ UNCHANGED <<program, functions, call, resolved>>
    BY <1>6 DEF TryConversions, Tried, tableVars
  <2>2. \A k \in DOMAIN overloads : ~tryCandidate(symbol(overloads[k]), call, FALSE)
    <3>1. \A k \in DOMAIN overloads : k < candidate
      BY <2>1, OverloadsOfCall DEF Tried, TypeOK
    <3>2. \A k \in DOMAIN overloads : ~tryCandidate(symbol(overloads[k]), call, allowImplicit)
      BY <2>1, <3>1 DEF ChoiceOK, Seen
    <3>3. allowImplicit = FALSE
      BY <2>1, Zenon DEF TypeOK
    <3>. QED BY <3>2, <3>3, Zenon
  <2>3. \A k \in DOMAIN overloads : ~(k < 1)
    BY <2>1, OverloadsOfCall
  <2>. QED BY <2>1, <2>2, <2>3 DEF ChoiceOK, Seen, overloads, symbol
<1>7. ASSUME NEW c \in Calls, analyzeCallExpr(c) PROVE ChoiceOK'
  <2>1. /\ best' = 0 /\ ~allowImplicit' /\ ~ambiguous' /\ candidate' = 1 /\ resolved' = Unresolved
        /\ call' = c /\ UNCHANGED <<program, functions>>
    BY <1>7 DEF analyzeCallExpr, tableVars
  <2>2. functions[c.callee] \in Seq(FunctionIndexes)
    BY <1>7 DEF analyzeCallExpr, TypeOK
  <2>3. \A k \in DOMAIN functions[c.callee] : ~(k < 1)
    BY <2>2
  <2>. QED BY <2>1, <2>3 DEF ChoiceOK, Seen, overloads
<1>8. CASE UNCHANGED vars
  BY <1>8 DEF vars, tableVars, choiceVars, ChoiceOK, Seen, Price, overloads, symbol
<1>9. phase' # "choose" \/ DoesNotFit \/ FitsBetter \/ FitsNoBetter \/ TryConversions
        \/ (\E c \in Calls : analyzeCallExpr(c)) \/ UNCHANGED vars
  BY DEF Next, Collect, Collecting, CollectFails, CollectEnds, Collected, NotDeclared, Rejected, Resolve
<1>. QED BY <1>3, <1>4, <1>5, <1>6, <1>7, <1>8, <1>9

\* When every overload has been tried, the positions the loop has seen are the
\* candidates the call may choose from, unless conversions are still to come.
LEMMA AbleWhenTried ==
    ASSUME TypeOK, TableOK, ChoiceOK, Tried, best # 0 \/ allowImplicit
    PROVE  /\ \A k \in DOMAIN overloads : Seen(k) <=> overloads[k] \in Able(call)
           /\ Able(call) \subseteq Overloads(call)
<1>1. \A k \in DOMAIN overloads : k < candidate
  BY OverloadsOfCall DEF Tried, TypeOK
<1>2. \A k \in DOMAIN overloads :
          Seen(k) <=> tryCandidate(symbol(overloads[k]), call, allowImplicit)
  BY <1>1 DEF Seen
<1>3. \A k \in DOMAIN overloads : Seen(k) <=> overloads[k] \in FitFor(call, allowImplicit)
  BY <1>2, OverloadsOfCall DEF FitFor, Tried
<1>4. CASE allowImplicit
  <2>1. allowImplicit = TRUE
    BY <1>4, Zenon DEF TypeOK
  <2>2. \A k \in DOMAIN overloads : ~tryCandidate(symbol(overloads[k]), call, FALSE)
    BY <1>4, Zenon DEF ChoiceOK, Tried
  <2>3. FitFor(call, FALSE) = {}
    BY <2>2, OverloadsOfCall DEF FitFor, Tried
  <2>4. Able(call) = FitFor(call, TRUE)
    BY <2>3 DEF Able
  <2>5. Able(call) = FitFor(call, allowImplicit)
    BY <2>1, <2>4, Zenon
  <2>. QED BY <1>3, <2>4, <2>5, Zenon DEF FitFor
<1>5. CASE ~allowImplicit
  <2>1. allowImplicit = FALSE
    BY <1>5, Zenon DEF TypeOK
  <2>2. Seen(best) /\ best \in DOMAIN overloads
    <3>1. best # 0 /\ phase = "choose"
      BY <1>5, Zenon DEF Tried
    <3>2. Seen(best)
      BY <3>1 DEF ChoiceOK
    <3>3. candidate <= Len(overloads) + 1 /\ best \in 1 .. candidate - 1 /\ candidate \in Nat
      BY <3>1 DEF TypeOK
    <3>4. Len(overloads) \in Nat /\ DOMAIN overloads = 1 .. Len(overloads)
      BY <3>1, OverloadsOfCall
    <3>. QED BY <3>2, <3>3, <3>4
  <2>3. overloads[best] \in FitFor(call, allowImplicit)
    BY <1>3, <2>2
  <2>4. overloads[best] \in FitFor(call, FALSE)
    BY <2>1, <2>3, Zenon
  <2>5. Able(call) = FitFor(call, FALSE)
    BY <2>4 DEF Able
  <2>6. Able(call) = FitFor(call, allowImplicit)
    BY <2>1, <2>5, Zenon
  <2>. QED BY <1>3, <2>5, <2>6, Zenon DEF FitFor
<1>. QED BY <1>4, <1>5

\* Without a candidate there is no cheapest one.
LEMMA NoneIsCheapest ==
    ASSUME TypeOK, TableOK, ChoiceOK, Tried, best = 0, allowImplicit
    PROVE  Cheapest(call) = {}
<1>1. \A k \in DOMAIN overloads : ~Seen(k)
  BY Zenon DEF ChoiceOK, Tried
<1>2. \A k \in DOMAIN overloads : overloads[k] \notin Able(call)
  BY <1>1, AbleWhenTried
<1>3. Able(call) = {}
  BY <1>2, AbleWhenTried, OverloadsOfCall DEF Tried
<1>. QED BY <1>3 DEF Cheapest

\* The best candidate is one of the cheapest, and the only one unless the
\* loop has noticed another.
LEMMA BestIsCheapest ==
    ASSUME TypeOK, TableOK, ChoiceOK, Tried, best # 0
    PROVE  /\ best \in DOMAIN overloads
           /\ overloads[best] \in Cheapest(call)
           /\ ambiguous <=> \E j \in Cheapest(call) : j # overloads[best]
<1>1. phase = "choose" /\ best # 0
  BY DEF Tried
<1>2. best \in DOMAIN overloads
  <2>1. candidate <= Len(overloads) + 1 /\ best \in 1 .. candidate - 1 /\ candidate \in Nat
    BY <1>1 DEF TypeOK
  <2>2. Len(overloads) \in Nat /\ DOMAIN overloads = 1 .. Len(overloads)
    BY <1>1, OverloadsOfCall
  <2>. QED BY <2>1, <2>2
<1>3. /\ Seen(best)
      /\ \A k \in DOMAIN overloads : Seen(k) => Price(best) <= Price(k)
  BY <1>1 DEF ChoiceOK
<1>4. ambiguous <=> \E k \in DOMAIN overloads : k # best /\ Seen(k) /\ Price(k) = Price(best)
  BY <1>1, Zenon DEF ChoiceOK
<1>5. \A k : Price(k) = score(symbol(overloads[k]), call) /\ Price(k) \in Nat
  BY PriceIsNatural DEF Price
<1>6. \A k \in DOMAIN overloads : Seen(k) <=> overloads[k] \in Able(call)
  BY AbleWhenTried
<1>7. \A j \in Able(call) : \E k \in DOMAIN overloads : overloads[k] = j
  BY <1>1, AbleWhenTried, OverloadsOfCall
<1>8. overloads[best] \in Cheapest(call)
  <2>1. ASSUME NEW j \in Able(call)
        PROVE  score(symbol(overloads[best]), call) <= score(symbol(j), call)
    BY <1>3, <1>5, <1>6, <1>7
  <2>. QED BY <1>2, <1>3, <1>6, <2>1 DEF Cheapest
<1>9. ASSUME NEW k \in DOMAIN overloads, k # best, Seen(k), Price(k) = Price(best)
      PROVE  \E j \in Cheapest(call) : j # overloads[best]
  <2>1. overloads[k] \in Able(call) /\ overloads[k] # overloads[best]
    BY <1>1, <1>2, <1>6, <1>9, OverloadsOfCall
  <2>2. overloads[k] \in Cheapest(call)
    BY <1>5, <1>8, <1>9, <2>1 DEF Cheapest
  <2>. QED BY <2>1, <2>2
<1>10. ASSUME NEW j \in Cheapest(call), j # overloads[best]
       PROVE  \E k \in DOMAIN overloads : k # best /\ Seen(k) /\ Price(k) = Price(best)
  <2>1. PICK k \in DOMAIN overloads : overloads[k] = j
    BY <1>7 DEF Cheapest
  <2>2. k # best /\ Seen(k)
    BY <1>6, <1>10, <2>1 DEF Cheapest
  <2>3. Price(k) <= Price(best) /\ Price(best) <= Price(k)
    BY <1>2, <1>3, <1>5, <1>6, <2>1, <2>2 DEF Cheapest
  <2>4. Price(k) = Price(best)
    BY <1>5, <2>3
  <2>. QED BY <2>2, <2>4
<1>. QED BY <1>2, <1>4, <1>8, <1>9, <1>10, Zenon

\* The cheapest candidates depend on the declarations and the call only.
LEMMA CheapestUnchanged ==
    ASSUME UNCHANGED <<program, index, call>>
    PROVE  Cheapest(call)' = Cheapest(call)
<1>1. Overloads(call)' = Overloads(call)
  BY DEF Overloads, Declared, symbol
<1>2. FitFor(call, TRUE)' = FitFor(call, TRUE) /\ FitFor(call, FALSE)' = FitFor(call, FALSE)
  BY <1>1 DEF FitFor, symbol
<1>3. Able(call)' = Able(call)
  BY <1>2 DEF Able
<1>. QED BY <1>3 DEF Cheapest, symbol

\* A call is answered as the candidates deserve.
LEMMA UniqueStep == Inv /\ [Next]_vars => UniqueCheapest'
<1>. SUFFICES ASSUME Inv, [Next]_vars, Answered' PROVE UniqueCheapest'
  BY DEF UniqueCheapest
<1>1. TypeOK /\ TableOK /\ ChoiceOK /\ UniqueCheapest
  BY DEF Inv
<1>2. CASE Resolve
  <2>1. /\ Tried /\ best # 0 /\ ~ambiguous /\ UNCHANGED <<program, index, call>>
        /\ resolved'.functionIndex = overloads[best]
    BY <1>2 DEF Resolve, tableVars
  <2>2. overloads[best] \in Cheapest(call) /\ ~\E j \in Cheapest(call) : j # overloads[best]
    BY <1>1, <2>1, BestIsCheapest
  <2>3. Cheapest(call) = {overloads[best]}
    BY <2>2
  <2>. QED BY <2>1, <2>3, CheapestUnchanged DEF UniqueCheapest
<1>3. CASE Rejected
  <2>1. /\ Tried /\ UNCHANGED <<program, index, call, resolved>> /\ diagnostic' # NoMessage
        /\ (best = 0 /\ allowImplicit) \/ (best # 0 /\ ambiguous)
    BY <1>3 DEF Rejected, Fail, NoMessage, tableVars, choiceVars
  <2>2. resolved = Unresolved
    BY <1>1, <2>1 DEF ChoiceOK, Tried
  <2>3. ~\E k \in Cheapest(call) : Cheapest(call) = {k}
    <3>1. CASE best = 0 /\ allowImplicit
      BY <1>1, <2>1, <3>1, NoneIsCheapest
    <3>2. CASE best # 0 /\ ambiguous
      <4>1. overloads[best] \in Cheapest(call) /\ \E j \in Cheapest(call) : j # overloads[best]
        BY <1>1, <2>1, <3>2, BestIsCheapest
      <4>. QED BY <4>1
    <3>. QED BY <2>1, <3>1, <3>2
  <2>. QED BY <2>1, <2>2, <2>3, CheapestUnchanged DEF UniqueCheapest
<1>4. ASSUME NEW c \in Calls, NotDeclared(c) PROVE UniqueCheapest'
  <2>1. /\ c.callee \in Names => functions[c.callee] = <<>>
        /\ call' = c /\ resolved' = Unresolved /\ UNCHANGED <<program, index>>
        /\ diagnostic' # NoMessage
    BY <1>4 DEF NotDeclared, Fail, NoMessage, tableVars
  <2>2. \A j \in Declared : symbol(j).name # c.callee
    <3>. SUFFICES ASSUME NEW j \in Declared, symbol(j).name = c.callee PROVE FALSE
      OBVIOUS
    <3>1. c.callee \in Names
      BY <1>1, SymbolIsDeclaration
    <3>2. \E k \in DOMAIN functions[c.callee] : functions[c.callee][k] = j
      BY <1>1 DEF TableOK
    <3>3. DOMAIN functions[c.callee] = {}
      BY <2>1, <3>1
    <3>. QED BY <3>2, <3>3
  <2>3. Overloads(call)' = {}
    BY <2>1, <2>2 DEF Overloads, Declared, symbol
  <2>4. Cheapest(call)' = {}
    BY <2>3 DEF Cheapest, Able, FitFor
  <2>. QED BY <2>1, <2>4 DEF UniqueCheapest
<1>5. CASE UNCHANGED vars
  <2>1. UNCHANGED <<program, phase, index, diagnostic, call, resolved>>
    BY <1>5 DEF vars, tableVars, choiceVars
  <2>. QED BY <1>1, <2>1, CheapestUnchanged DEF UniqueCheapest, Answered
<1>6. Resolve \/ Rejected \/ (\E c \in Calls : NotDeclared(c)) \/ UNCHANGED vars
  BY <1>1 DEF Answered, TypeOK, Next, Collect, Collecting, CollectFails, CollectEnds, Collected,
              analyzeCallExpr, Trying, Tried, DoesNotFit, FitsBetter, FitsNoBetter, TryNext,
              TryConversions, choiceVars
<1>. QED BY <1>2, <1>3, <1>4, <1>5, <1>6

\* The conjunction is inductive.
THEOREM Invariance == Spec => []Inv
<1>1. Init => Inv
  <2>. SUFFICES ASSUME Init PROVE Inv
    OBVIOUS
  <2>1. TypeOK
    BY TypeInit
  <2>2. Declared = {} /\ \A n \in Names : functions[n] = <<>>
    BY DEF Init, Declared
  <2>3. TableOK
    BY <2>2 DEF TableOK
  <2>4. ChoiceOK /\ UniqueCheapest
    BY DEF Init, ChoiceOK, UniqueCheapest, Answered
  <2>. QED BY <2>1, <2>3, <2>4 DEF Inv
<1>2. Inv /\ [Next]_vars => Inv'
  BY TypeStep, TableStep, ChoiceStep, UniqueStep DEF Inv
<1>. QED BY <1>1, <1>2, PTL DEF Spec

\* The loop over the overloads answers every call with the one cheapest
\* candidate, and with a diagnostic when there is none or more than one.
THEOREM ChoosesTheCheapest == Spec => []UniqueCheapest
<1>1. Inv => UniqueCheapest
  BY DEF Inv
<1>. QED BY <1>1, Invariance, PTL

-----------------------------------------------------------------------------
(* Calls with exactly the parameter types of a function.                   *)

\* In a function without type parameters no type is generic.
LEMMA NothingGeneric ==
    ASSUME NEW f \in FunctionDecls, WellFormed(f), f.typeParameters = <<>>
    PROVE  /\ f.returnType.type # "generic"
           /\ \A i \in DOMAIN f.parameters : f.parameters[i].type # "generic"
<1>1. DOMAIN f.typeParameters = {}
  OBVIOUS
<1>. QED BY <1>1 DEF WellFormed, Known

\* Among the overloads of a call with such types, the function is the one
\* cheapest candidate.
LEMMA OwnTypesAreCheapest ==
    ASSUME TypeOK, TableOK, NEW k \in Overloads(call), call.typeArguments = <<>>,
           symbol(k).typeParameters = <<>>, symbol(k).parameters = call.arguments
    PROVE  Cheapest(call) = {k}
<1>. DEFINE f == symbol(k)
<1>1. /\ k \in Declared /\ f \in FunctionDecls /\ WellFormed(f)
      /\ f.name \in Names /\ f.name = call.callee
  BY SymbolIsDeclaration DEF Overloads, TableOK
<1>2. /\ f.returnType.type # "generic"
      /\ \A i \in DOMAIN call.arguments : f.parameters[i].type # "generic"
  BY <1>1, NothingGeneric
<1>3. \A i \in DOMAIN call.arguments : Exact(f, call, i)
  BY <1>2 DEF Exact, Target, sameConcreteType
<1>4. tryCandidate(f, call, FALSE)
  BY <1>2, <1>3 DEF tryCandidate, TypeArgumentsFit, ReturnTypeBound
<1>. HIDE DEF f
<1>5. k \in FitFor(call, FALSE) /\ Able(call) = FitFor(call, FALSE)
  BY <1>4 DEF FitFor, Able, f
<1>6. \A g : score(g, call) \in Nat
             /\ (score(g, call) = 0 <=>
                     g.typeParameters = <<>> /\ \A i \in DOMAIN call.arguments : Exact(g, call, i))
  BY ScoreIsNatural DEF TypeOK
<1>7. score(f, call) = 0
  BY <1>3, <1>6 DEF f
<1>8. k \in Cheapest(call)
  <2>1. score(symbol(k), call) = 0
    BY <1>7 DEF f
  <2>2. \A j : score(symbol(j), call) \in Nat
    BY <1>6
  <2>3. \A j : score(symbol(k), call) <= score(symbol(j), call)
    BY <2>1, <2>2
  <2>. QED BY <1>4, <1>5, <2>3 DEF Cheapest
<1>9. ASSUME NEW j \in Cheapest(call) PROVE j = k
  <2>. DEFINE g == symbol(j)
  <2>1. j \in Able(call) /\ score(g, call) <= score(f, call)
    BY <1>5, <1>9 DEF Cheapest, f
  <2>2. j \in Overloads(call) /\ tryCandidate(g, call, FALSE)
    BY <1>5, <2>1 DEF FitFor
  <2>3. j \in Declared /\ g \in FunctionDecls /\ WellFormed(g) /\ g.name = call.callee
    BY <2>2, SymbolIsDeclaration DEF Overloads, TableOK
  <2>4. score(g, call) = 0
    BY <1>6, <1>7, <2>1
  <2>5. g.typeParameters = <<>> /\ \A i \in DOMAIN call.arguments : Exact(g, call, i)
    BY <1>6, <2>4
  <2>6. Len(call.arguments) = Len(g.parameters) /\ DOMAIN g.parameters = DOMAIN call.arguments
    <3>1. g.parameters \in Seq(Types) /\ call.arguments \in Seq(Types)
      BY <2>3, ArgumentsOfCall DEF FunctionDecls, TypeOK
    <3>. QED BY <2>2, <3>1 DEF tryCandidate
  <2>7. \A i \in DOMAIN g.parameters : g.parameters[i].type # "generic"
    BY <2>3, <2>5, NothingGeneric
  <2>8. sameSignature(g, f)
    BY <2>5, <2>6, <2>7 DEF sameSignature, Exact, Target, f
  <2>. HIDE DEF g
  <2>9. sameSignature(f, g)
    BY <1>1, <2>3, <2>8, SignatureSymmetric
  <2>10. PICK a \in DOMAIN functions[call.callee] : functions[call.callee][a] = k
    BY <1>1 DEF TableOK, f
  <2>11. PICK b \in DOMAIN functions[call.callee] : functions[call.callee][b] = j
    BY <2>3 DEF TableOK, g
  <2>12. ~(a < b) /\ ~(b < a)
    BY <1>1, <2>8, <2>9, <2>10, <2>11 DEF TableOK, f, g
  <2>13. a \in Nat /\ b \in Nat
    BY <1>1, <2>10, <2>11 DEF TypeOK
  <2>. QED BY <2>10, <2>11, <2>12, <2>13
<1>. QED BY <1>8, <1>9

\* No overload can hide a function without type parameters: arguments of
\* exactly its parameter types select it, in every program.
THEOREM OwnTypesSelect == Spec => []OwnTypesSelectIt
<1>1. Inv => OwnTypesSelectIt
  <2>. SUFFICES ASSUME Inv, Answered, call.typeArguments = <<>>, NEW k \in Overloads(call),
                       symbol(k).typeParameters = <<>>, symbol(k).parameters = call.arguments
                PROVE  resolved.functionIndex = k
    BY DEF OwnTypesSelectIt
  <2>1. Cheapest(call) = {k}
    BY OwnTypesAreCheapest DEF Inv
  <2>2. Cheapest(call) = {resolved.functionIndex}
    BY <2>1 DEF Inv, UniqueCheapest
  <2>. QED BY <2>1, <2>2
<1>. QED BY <1>1, Invariance, PTL

-----------------------------------------------------------------------------
(* What a call is resolved to.                                             *)

\* A type is its kind and its name; the name of most kinds is empty.
LEMMA SameType ==
    ASSUME NEW t \in Types, NEW u \in Types, t.type = u.type,
           typeNameMatters(t) => t.name = u.name
    PROVE  t = u
<1>1. t = [type |-> t.type, name |-> t.name] /\ u = [type |-> u.type, name |-> u.name]
  BY DEF Types
<1>2. t.name = u.name
  BY DEF Types, typeNameMatters
<1>. QED BY <1>1, <1>2

\* A type parameter is bound at the first parameter of that type.
LEMMA FirstOfItsType ==
    ASSUME NEW f \in FunctionDecls, NEW t, NEW i \in DOMAIN f.parameters, f.parameters[i] = t
    PROVE  \E m \in DOMAIN f.parameters :
               /\ f.parameters[m] = t
               /\ \A j \in 1 .. m - 1 : f.parameters[j] # f.parameters[m]
<1>. DEFINE S == {k \in DOMAIN f.parameters : f.parameters[k] = t}
<1>1. DOMAIN f.parameters = 1 .. Len(f.parameters) /\ Len(f.parameters) \in Nat
  BY DEF FunctionDecls
<1>2. S \in SUBSET Nat /\ S # {}
  BY <1>1
<1>3. PICK m \in S : \A k \in S : m <= k
  BY <1>2, Least
<1>4. \A j \in 1 .. m - 1 : j \in DOMAIN f.parameters /\ ~(m <= j)
  BY <1>1
<1>. QED BY <1>3, <1>4

\* A call has as many arguments as the function has parameters, and as many
\* type arguments, if any, as the function has type parameters.
Fitting(f, c) ==
    /\ Len(c.arguments) = Len(f.parameters)
    /\ c.typeArguments # <<>> => Len(c.typeArguments) = Len(f.typeParameters)
    /\ ReturnTypeBound(f, c)

\* A call that may be resolved to a function fits it.
LEMMA CandidateIsFitting ==
    ASSUME NEW f, NEW c, NEW implicit, tryCandidate(f, c, implicit)
    PROVE  Fitting(f, c)
<1>. QED BY DEF tryCandidate, TypeArgumentsFit, Fitting

\* Its arguments and parameters have the same positions, its type arguments and
\* type parameters too.
LEMMA FittingPositions ==
    ASSUME NEW f \in FunctionDecls, NEW c \in Calls \cup {NoCall}, Fitting(f, c)
    PROVE  /\ DOMAIN c.arguments = DOMAIN f.parameters
           /\ c.typeArguments # <<>> => DOMAIN c.typeArguments = DOMAIN f.typeParameters
           /\ \A i \in DOMAIN f.parameters : f.parameters[i] \in Types
           /\ \A i \in DOMAIN c.arguments : c.arguments[i] \in Types
           /\ \A i \in DOMAIN c.typeArguments : c.typeArguments[i] \in Types
           /\ f.returnType \in Types
<1>1. /\ f.parameters \in Seq(Types) /\ f.typeParameters \in Seq(STRING) /\ f.returnType \in Types
      /\ c.arguments \in Seq(Types) /\ c.typeArguments \in Seq(Types)
  BY ArgumentsOfCall DEF FunctionDecls
<1>2. DOMAIN c.arguments = DOMAIN f.parameters
  BY <1>1 DEF Fitting
<1>3. c.typeArguments # <<>> => DOMAIN c.typeArguments = DOMAIN f.typeParameters
  BY <1>1 DEF Fitting
<1>. QED BY <1>1, <1>2, <1>3

\* The position at which a type parameter is declared.
DeclaredAt(f, n) == CHOOSE i \in DOMAIN f.typeParameters : f.typeParameters[i] = n
\* The position of the first parameter of that type.
BoundAt(f, n) ==
    CHOOSE i \in DOMAIN f.parameters :
        /\ f.parameters[i] = [type |-> "generic", name |-> n]
        /\ \A j \in 1 .. i - 1 : f.parameters[j] # f.parameters[i]

\* A type parameter that the signature names has these positions.
LEMMA DeterminedPositions ==
    ASSUME NEW f \in FunctionDecls, WellFormed(f), NEW c \in Calls \cup {NoCall}, Fitting(f, c),
           NEW n \in Determined(f)
    PROVE  /\ c.typeArguments # <<>> =>
                  DeclaredAt(f, n) \in DOMAIN f.typeParameters /\ f.typeParameters[DeclaredAt(f, n)] = n
           /\ c.typeArguments = <<>> =>
                  /\ BoundAt(f, n) \in DOMAIN f.parameters
                  /\ f.parameters[BoundAt(f, n)] = [type |-> "generic", name |-> n]
           /\ GenericBinding(f, c, n) = IF c.typeArguments # <<>> THEN c.typeArguments[DeclaredAt(f, n)]
                                        ELSE c.arguments[BoundAt(f, n)]
<1>1. PICK t \in {f.parameters[i] : i \in DOMAIN f.parameters} \cup {f.returnType} :
          t.type = "generic" /\ t.name = n
  BY DEF Determined
<1>2. t \in Types
  BY <1>1, FittingPositions
<1>3. t = [type |-> "generic", name |-> n]
  BY <1>1, <1>2 DEF Types
<1>4. \E i \in DOMAIN f.typeParameters : f.typeParameters[i] = n
  BY <1>1 DEF WellFormed, Known
<1>5. DeclaredAt(f, n) \in DOMAIN f.typeParameters /\ f.typeParameters[DeclaredAt(f, n)] = n
  BY <1>4 DEF DeclaredAt
<1>6. ASSUME c.typeArguments = <<>>
      PROVE  /\ BoundAt(f, n) \in DOMAIN f.parameters
             /\ f.parameters[BoundAt(f, n)] = [type |-> "generic", name |-> n]
  <2>1. \E i \in DOMAIN f.parameters : f.parameters[i] = t
    BY <1>1, <1>6 DEF Fitting, ReturnTypeBound
  <2>2. \E m \in DOMAIN f.parameters :
            /\ f.parameters[m] = [type |-> "generic", name |-> n]
            /\ \A j \in 1 .. m - 1 : f.parameters[j] # f.parameters[m]
    BY <1>3, <2>1, FirstOfItsType
  <2>. QED BY <2>2 DEF BoundAt
<1>7. GenericBinding(f, c, n) = IF c.typeArguments # <<>> THEN c.typeArguments[DeclaredAt(f, n)]
                                ELSE c.arguments[BoundAt(f, n)]
  BY DEF GenericBinding, DeclaredAt, BoundAt
<1>. QED BY <1>5, <1>6, <1>7

\* The choice of the type parameters that the analyzer makes.
Binding(f, c) == [n \in Determined(f) |-> GenericBinding(f, c, n)]

\* It chooses among the types of the call, and is what targets and the type of
\* the result are made from.
LEMMA BoundOnce ==
    ASSUME NEW f \in FunctionDecls, WellFormed(f), NEW c \in Calls \cup {NoCall}, Fitting(f, c)
    PROVE  /\ Binding(f, c) \in Bindings(f, TypesOf(c))
           /\ \A i \in DOMAIN f.parameters :
                  Target(f, c, i) = Substituted(f.parameters[i], Binding(f, c))
           /\ returnType(f, c) = Substituted(f.returnType, Binding(f, c))
<1>1. ASSUME NEW n \in Determined(f) PROVE GenericBinding(f, c, n) \in TypesOf(c)
  <2>1. CASE c.typeArguments # <<>>
    <3>1. DeclaredAt(f, n) \in DOMAIN c.typeArguments
      BY <2>1, DeterminedPositions, FittingPositions
    <3>2. GenericBinding(f, c, n) = c.typeArguments[DeclaredAt(f, n)]
      BY <2>1, DeterminedPositions
    <3>. QED BY <3>1, <3>2 DEF TypesOf
  <2>2. CASE c.typeArguments = <<>>
    <3>1. BoundAt(f, n) \in DOMAIN c.arguments
      BY <2>2, DeterminedPositions, FittingPositions
    <3>2. GenericBinding(f, c, n) = c.arguments[BoundAt(f, n)]
      BY <2>2, DeterminedPositions
    <3>. QED BY <3>1, <3>2 DEF TypesOf
  <2>. QED BY <2>1, <2>2
<1>2. Binding(f, c) \in Bindings(f, TypesOf(c))
  BY <1>1 DEF Binding, Bindings
<1>3. ASSUME NEW i \in DOMAIN f.parameters
      PROVE  Target(f, c, i) = Substituted(f.parameters[i], Binding(f, c))
  <2>1. f.parameters[i].type = "generic" => f.parameters[i].name \in Determined(f)
    BY DEF Determined
  <2>. QED BY <2>1 DEF Target, Substituted, Binding
<1>4. returnType(f, c) = Substituted(f.returnType, Binding(f, c))
  <2>1. f.returnType.type = "generic" => f.returnType.name \in Determined(f)
    BY DEF Determined
  <2>. QED BY <2>1 DEF returnType, Substituted, Binding
<1>. QED BY <1>2, <1>3, <1>4

\* Targets are types.
LEMMA TargetIsType ==
    ASSUME NEW f \in FunctionDecls, WellFormed(f), NEW c \in Calls \cup {NoCall}, Fitting(f, c),
           NEW i \in DOMAIN f.parameters
    PROVE  Target(f, c, i) \in Types
<1>1. TypesOf(c) \subseteq Types
  BY FittingPositions DEF TypesOf
<1>2. f.parameters[i].type = "generic" => f.parameters[i].name \in Determined(f)
  BY DEF Determined
<1>3. \A n \in Determined(f) : Binding(f, c)[n] \in TypesOf(c)
  BY BoundOnce DEF Bindings
<1>4. Target(f, c, i) = Substituted(f.parameters[i], Binding(f, c))
  BY BoundOnce
<1>. QED BY <1>1, <1>2, <1>3, <1>4, FittingPositions DEF Substituted

\* An argument that is not of its target's type is a number for a number.
LEMMA LetThrough ==
    ASSUME NEW f \in FunctionDecls, WellFormed(f), NEW c \in Calls \cup {NoCall},
           NEW implicit \in BOOLEAN, tryCandidate(f, c, implicit), NEW i \in DOMAIN c.arguments
    PROVE  \/ Target(f, c, i) = c.arguments[i]
           \/ implicit /\ {Target(f, c, i).type, c.arguments[i].type} \subseteq Numeric
<1>1. Fitting(f, c)
  BY CandidateIsFitting
<1>2. Target(f, c, i) \in Types /\ c.arguments[i] \in Types
  BY <1>1, FittingPositions, TargetIsType
<1>3. CASE Exact(f, c, i)
  <2>1. Target(f, c, i) = c.arguments[i]
    BY <1>2, <1>3, SameType DEF Exact, sameConcreteType
  <2>. QED BY <2>1
<1>4. CASE implicit /\ Converts(f, c, i)
  <2>1. CASE c.arguments[i].type = Target(f, c, i).type
    <3>1. Target(f, c, i) = c.arguments[i]
      BY <1>2, <1>4, <2>1, SameType DEF Converts
    <3>. QED BY <3>1
  <2>2. CASE {c.arguments[i].type, Target(f, c, i).type} \subseteq Numeric
    BY <1>4, <2>2
  <2>. QED BY <1>4, <2>1, <2>2 DEF Converts, canImplicitlyConvert
<1>. QED BY <1>3, <1>4 DEF tryCandidate

\* A call that has been resolved is resolved to a declared function that fits it.
ResolvedOK ==
    Answered /\ resolved # Unresolved =>
        /\ resolved.functionIndex \in Declared
        /\ \E implicit \in BOOLEAN : tryCandidate(symbol(resolved.functionIndex), call, implicit)
        /\ resolved.targets = targetTypes(symbol(resolved.functionIndex), call)
        /\ resolved.type = returnType(symbol(resolved.functionIndex), call)

\* Only Resolve writes into a call, and what it writes comes from the best
\* overload the loop has seen.
LEMMA ResolvedStep == Inv /\ ResolvedOK /\ [Next]_vars => ResolvedOK'
<1>. SUFFICES ASSUME Inv, ResolvedOK, [Next]_vars PROVE ResolvedOK'
  OBVIOUS
<1>1. TypeOK /\ TableOK /\ ChoiceOK
  BY DEF Inv
<1>2. CASE Resolve
  <2>1. /\ Tried /\ best # 0 /\ phase = "choose" /\ UNCHANGED <<program, index, call>>
        /\ resolved'.functionIndex = overloads[best]
        /\ resolved'.targets = targetTypes(Best, call)
        /\ resolved'.type = returnType(Best, call)
    BY <1>2 DEF Resolve, Tried, tableVars
  <2>2. overloads[best] \in Overloads(call)
    BY <1>1, <2>1, BestIsCheapest, OverloadsOfCall
  <2>3. tryCandidate(Best, call, allowImplicit) /\ allowImplicit \in BOOLEAN
    BY <1>1, <2>1 DEF ChoiceOK, Seen, Best, TypeOK
  <2>4. \E implicit \in BOOLEAN : tryCandidate(Best, call, implicit)
    BY <2>3
  <2>5. Best = symbol(overloads[best]) /\ overloads[best] \in Declared
    BY <2>2 DEF Best, Overloads
  <2>. QED BY <2>1, <2>4, <2>5 DEF ResolvedOK, Declared, symbol
<1>3. CASE Rejected
  <2>1. resolved' = Unresolved
    BY <1>1, <1>3 DEF Rejected, Tried, ChoiceOK, choiceVars
  <2>. QED BY <2>1 DEF ResolvedOK, Unresolved
<1>4. ASSUME NEW c \in Calls, NotDeclared(c) PROVE ResolvedOK'
  <2>1. resolved' = Unresolved
    BY <1>4 DEF NotDeclared
  <2>. QED BY <2>1 DEF ResolvedOK, Unresolved
<1>5. CASE UNCHANGED vars
  <2>1. UNCHANGED <<program, phase, index, call, resolved>>
    BY <1>5 DEF vars, tableVars, choiceVars
  <2>. QED BY <2>1 DEF ResolvedOK, Answered, Declared, symbol, Unresolved
<1>6. Resolve \/ Rejected \/ (\E c \in Calls : NotDeclared(c)) \/ UNCHANGED vars \/ ~Answered'
  BY <1>1 DEF Answered, TypeOK, Next, Collect, Collecting, CollectFails, CollectEnds, Collected,
              analyzeCallExpr, Trying, Tried, DoesNotFit, FitsBetter, FitsNoBetter, TryNext,
              TryConversions, choiceVars
<1>7. CASE ~Answered'
  BY <1>7 DEF ResolvedOK
<1>. QED BY <1>2, <1>3, <1>4, <1>5, <1>6, <1>7

\* What is written into a call follows from the one choice of the type
\* parameters.
LEMMA ResolvedIsTyped == Inv /\ ResolvedOK => TypedByOneBinding
<1>. SUFFICES ASSUME Inv, ResolvedOK, Answered, resolved # Unresolved
              PROVE  TypedByOneBinding
  BY DEF TypedByOneBinding
<1>. DEFINE f == symbol(resolved.functionIndex)
<1>1. /\ resolved.functionIndex \in Declared
      /\ resolved.targets = targetTypes(f, call)
      /\ resolved.type = returnType(f, call)
  BY DEF ResolvedOK
<1>2. PICK implicit \in BOOLEAN : tryCandidate(f, call, implicit)
  BY DEF ResolvedOK
<1>3. f \in FunctionDecls /\ WellFormed(f) /\ call \in Calls \cup {NoCall}
  BY <1>1, SymbolIsDeclaration DEF Inv, TypeOK, TableOK
<1>. HIDE DEF f
<1>4. Fitting(f, call)
  BY <1>2, CandidateIsFitting
<1>5. DOMAIN call.arguments = DOMAIN f.parameters
  BY <1>3, <1>4, FittingPositions
<1>6. /\ Binding(f, call) \in Bindings(f, TypesOf(call))
      /\ \A i \in DOMAIN f.parameters :
             Target(f, call, i) = Substituted(f.parameters[i], Binding(f, call))
      /\ returnType(f, call) = Substituted(f.returnType, Binding(f, call))
  BY <1>3, <1>4, BoundOnce
<1>7. resolved.targets = [i \in DOMAIN f.parameters |-> Substituted(f.parameters[i], Binding(f, call))]
  BY <1>1, <1>5, <1>6 DEF targetTypes
<1>8. \E binding \in Bindings(f, TypesOf(call)) :
          /\ resolved.targets = [i \in DOMAIN f.parameters |-> Substituted(f.parameters[i], binding)]
          /\ resolved.type = Substituted(f.returnType, binding)
  BY <1>1, <1>6, <1>7
<1>9. ASSUME NEW i \in DOMAIN call.arguments
      PROVE  \/ resolved.targets[i] = call.arguments[i]
             \/ {resolved.targets[i].type, call.arguments[i].type} \subseteq Numeric
  <2>1. resolved.targets[i] = Target(f, call, i)
    BY <1>1 DEF targetTypes
  <2>2. \/ Target(f, call, i) = call.arguments[i]
        \/ {Target(f, call, i).type, call.arguments[i].type} \subseteq Numeric
    BY <1>2, <1>3, LetThrough
  <2>. QED BY <2>1, <2>2
<1>. QED BY <1>8, <1>9 DEF TypedByOneBinding, f

\* A resolved call is the chosen function at one choice of its type parameters,
\* and only a number is let through for a number of another type.
THEOREM TypedByABinding == Spec => []TypedByOneBinding
<1>1. Init => ResolvedOK
  BY DEF Init, ResolvedOK, Unresolved
<1>2. Inv /\ ResolvedOK /\ [Next]_vars => ResolvedOK'
  BY ResolvedStep
<1>3. Inv /\ ResolvedOK => TypedByOneBinding
  BY ResolvedIsTyped
<1>. QED BY <1>1, <1>2, <1>3, Invariance, PTL DEF Spec

-----------------------------------------------------------------------------
(* Functions that take the arguments as they are.                          *)

\* A choice that makes the parameters the arguments is the analyzer's choice,
\* as far as parameters name the type parameters.
LEMMA TakenAsBound ==
    ASSUME NEW f \in FunctionDecls, WellFormed(f), NEW c \in Calls \cup {NoCall},
           NEW binding \in Bindings(f, TypesOf(c)), TakesAll(f, c, binding),
           NEW n \in Determined(f)
    PROVE  binding[n] = GenericBinding(f, c, n)
<1>1. Fitting(f, c)
  BY DEF Fitting, TakesAll
<1>2. CASE c.typeArguments # <<>>
  <2>1. DeclaredAt(f, n) \in DOMAIN c.typeArguments /\ f.typeParameters[DeclaredAt(f, n)] = n
    BY <1>1, <1>2, DeterminedPositions, FittingPositions
  <2>2. GenericBinding(f, c, n) = c.typeArguments[DeclaredAt(f, n)]
    BY <1>1, <1>2, DeterminedPositions
  <2>. QED BY <1>2, <2>1, <2>2 DEF TakesAll
<1>3. CASE c.typeArguments = <<>>
  <2>1. /\ BoundAt(f, n) \in DOMAIN c.arguments
        /\ f.parameters[BoundAt(f, n)] = [type |-> "generic", name |-> n]
    BY <1>1, <1>3, DeterminedPositions, FittingPositions
  <2>2. GenericBinding(f, c, n) = c.arguments[BoundAt(f, n)]
    BY <1>1, <1>3, DeterminedPositions
  <2>3. Substituted(f.parameters[BoundAt(f, n)], binding) = c.arguments[BoundAt(f, n)]
    BY <2>1 DEF TakesAll
  <2>4. Substituted(f.parameters[BoundAt(f, n)], binding) = binding[n]
    BY <2>1 DEF Substituted
  <2>. QED BY <2>2, <2>3, <2>4
<1>. QED BY <1>2, <1>3

\* The type arguments that a call may have.
Allowed(c) ==
    \A i \in DOMAIN c.typeArguments : c.typeArguments[i].type \notin {"void", "unknown", "generic"}

\* A function that takes all arguments at some choice is one that fits without
\* a conversion.
LEMMA TakerFits ==
    ASSUME NEW f \in FunctionDecls, WellFormed(f), NEW c \in Calls \cup {NoCall}, Allowed(c),
           NEW binding \in Bindings(f, TypesOf(c)), TakesAll(f, c, binding)
    PROVE  tryCandidate(f, c, FALSE)
<1>1. Fitting(f, c)
  BY DEF Fitting, TakesAll
<1>2. ASSUME NEW i \in DOMAIN c.arguments PROVE Exact(f, c, i)
  <2>1. i \in DOMAIN f.parameters
    BY <1>1, FittingPositions
  <2>2. f.parameters[i].type = "generic" => f.parameters[i].name \in Determined(f)
    BY <2>1 DEF Determined
  <2>3. Target(f, c, i) = Substituted(f.parameters[i], binding)
    BY <2>2, TakenAsBound DEF Target, Substituted
  <2>4. Target(f, c, i) = c.arguments[i]
    BY <2>3 DEF TakesAll
  <2>. QED BY <2>4 DEF Exact, sameConcreteType
<1>3. TypeArgumentsFit(f, c)
  BY <1>1 DEF Fitting, TypeArgumentsFit, Allowed
<1>. QED BY <1>1, <1>2, <1>3 DEF tryCandidate, Fitting

\* A function that fits without a conversion takes all arguments at the
\* analyzer's choice.
LEMMA FittingTakes ==
    ASSUME NEW f \in FunctionDecls, WellFormed(f), NEW c \in Calls \cup {NoCall},
           tryCandidate(f, c, FALSE)
    PROVE  Binding(f, c) \in Bindings(f, TypesOf(c)) /\ TakesAll(f, c, Binding(f, c))
<1>1. Fitting(f, c)
  BY CandidateIsFitting
<1>2. /\ Binding(f, c) \in Bindings(f, TypesOf(c))
      /\ \A i \in DOMAIN f.parameters :
             Target(f, c, i) = Substituted(f.parameters[i], Binding(f, c))
  BY <1>1, BoundOnce
<1>3. ASSUME NEW i \in DOMAIN c.arguments
      PROVE  Substituted(f.parameters[i], Binding(f, c)) = c.arguments[i]
  <2>1. Target(f, c, i) = c.arguments[i]
    BY LetThrough
  <2>. QED BY <1>1, <1>2, <2>1, FittingPositions
<1>4. ASSUME c.typeArguments # <<>>, NEW i \in DOMAIN c.typeArguments,
             f.typeParameters[i] \in Determined(f)
      PROVE  Binding(f, c)[f.typeParameters[i]] = c.typeArguments[i]
  <2>. DEFINE n == f.typeParameters[i]
  <2>1. DeclaredAt(f, n) \in DOMAIN f.typeParameters /\ f.typeParameters[DeclaredAt(f, n)] = n
    BY <1>1, <1>4, DeterminedPositions
  <2>2. i \in DOMAIN f.typeParameters
    BY <1>1, <1>4, FittingPositions
  <2>3. DeclaredAt(f, n) = i
    BY <2>1, <2>2 DEF WellFormed
  <2>4. GenericBinding(f, c, n) = c.typeArguments[DeclaredAt(f, n)]
    BY <1>1, <1>4, DeterminedPositions
  <2>. QED BY <1>4, <2>3, <2>4 DEF Binding
<1>. QED BY <1>1, <1>2, <1>3, <1>4 DEF TakesAll, Fitting

\* The first pass of the loop finds exactly these functions.
LEMMA FirstPassFindsTakers ==
    ASSUME TypeOK, TableOK, Allowed(call)
    PROVE  Takers(call) = FitFor(call, FALSE)
<1>1. ASSUME NEW k \in Overloads(call)
      PROVE  symbol(k) \in FunctionDecls /\ WellFormed(symbol(k)) /\ call \in Calls \cup {NoCall}
  BY <1>1, SymbolIsDeclaration DEF Overloads, TableOK, TypeOK
<1>2. ASSUME NEW k \in Overloads(call)
      PROVE  (\E binding \in Bindings(symbol(k), TypesOf(call)) : TakesAll(symbol(k), call, binding))
                 <=> tryCandidate(symbol(k), call, FALSE)
  <2>1. ASSUME NEW binding \in Bindings(symbol(k), TypesOf(call)), TakesAll(symbol(k), call, binding)
        PROVE  tryCandidate(symbol(k), call, FALSE)
    BY <1>1, <2>1, TakerFits
  <2>2. ASSUME tryCandidate(symbol(k), call, FALSE)
        PROVE  \E binding \in Bindings(symbol(k), TypesOf(call)) : TakesAll(symbol(k), call, binding)
    BY <1>1, <2>2, FittingTakes
  <2>. QED BY <2>1, <2>2
<1>. QED BY <1>2 DEF Takers, FitFor

\* When one of them is the cheapest candidate or there are others of its cost.
LEMMA TakersComeFirst ==
    ASSUME Inv, Answered, Takers(call) # {}, Allowed(call)
    PROVE  \/ resolved.functionIndex \in Takers(call)
           \/ resolved = Unresolved /\ Cardinality(Takers(call)) > 1
<1>1. TypeOK /\ TableOK /\ UniqueCheapest
  BY DEF Inv
<1>2. Able(call) = Takers(call)
  BY <1>1, FirstPassFindsTakers DEF Able
<1>3. Cheapest(call) \subseteq Takers(call)
  BY <1>2 DEF Cheapest
<1>4. CASE \E k \in Cheapest(call) : Cheapest(call) = {k}
  <2>1. Cheapest(call) = {resolved.functionIndex}
    BY <1>1, <1>4 DEF UniqueCheapest
  <2>. QED BY <1>3, <2>1
<1>5. CASE ~\E k \in Cheapest(call) : Cheapest(call) = {k}
  <2>1. resolved = Unresolved
    BY <1>1, <1>5 DEF UniqueCheapest
  <2>2. PICK j \in Takers(call) : TRUE
    OBVIOUS
  <2>3. \E k \in Takers(call) : k # j
    <3>. SUFFICES ASSUME Takers(call) = {j} PROVE FALSE
      BY <2>2
    <3>1. score(symbol(j), call) \in Nat
      BY <1>1, ScoreIsNatural DEF TypeOK
    <3>2. Cheapest(call) = {j}
      BY <1>2, <3>1 DEF Cheapest
    <3>. QED BY <1>5, <3>2
  <2>4. PICK k \in Takers(call) : k # j
    BY <2>3
  <2>5. IsFiniteSet(Takers(call))
    <3>1. index \in Nat /\ Takers(call) \subseteq Declared
      BY <1>1, ProgramsAssumption DEF TypeOK, Takers, Overloads
    <3>2. IsFiniteSet(Declared)
      BY <3>1, FS_Interval DEF Declared
    <3>. QED BY <3>1, <3>2, FS_Subset
  <2>6. IsFiniteSet({j}) /\ Cardinality({j}) = 1
    BY FS_Singleton
  <2>7. {j, k} = {j} \cup {k} /\ Cardinality({j} \cup {k}) = 2 /\ IsFiniteSet({j} \cup {k})
    BY <2>4, <2>6, FS_AddElement
  <2>8. Cardinality({j, k}) <= Cardinality(Takers(call))
    BY <2>2, <2>4, <2>5, FS_Subset
  <2>9. Cardinality(Takers(call)) \in Nat
    BY <2>5, FS_CardinalityType
  <2>10. Cardinality(Takers(call)) > 1
    BY <2>7, <2>8, <2>9
  <2>. QED BY <2>1, <2>10
<1>. QED BY <1>4, <1>5

\* A function that takes the arguments as they are is never passed over for one
\* that needs a conversion, in every program.
THEOREM ExactComesFirst == Spec => []ExactBeforeConverted
<1>1. Inv => ExactBeforeConverted
  BY TakersComeFirst DEF ExactBeforeConverted, Allowed
<1>. QED BY <1>1, Invariance, PTL
=============================================================================
