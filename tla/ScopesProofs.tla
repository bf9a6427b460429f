---------------------------- MODULE ScopesProofs ----------------------------
(***************************************************************************)
(* Theorems about Scopes, for all functions the parser may hand over.      *)
(***************************************************************************)
EXTENDS Scopes, CallStackProofs, TLAPS

\* An open function has an activation that will end it, below all others, and
\* its parameters have got their slots.
FunctionOpen ==
    work # <<>> =>
        /\ Len(analyzed) < Len(program)
        /\ work[1].task = "endFunction"
        /\ \A i \in 2 .. Len(work) : work[i].task # "endFunction"
        /\ Len(Function.parameters) <= nextLocalIndex

Inv == TypeOK /\ ContextsMatched /\ FunctionOpen /\ SlotsApart /\ SlotsExist

Enders == LoopEnds \cup SwitchEnds \cup ScopeEnds

-----------------------------------------------------------------------------
(* Scopes.                                                                 *)

LEMMA ScopeFacts ==
    ASSUME NEW n \in Nat, NEW sc \in ScopesBelow(n)
    PROVE  /\ DOMAIN sc \in SUBSET Names
           /\ \A m \in DOMAIN sc : /\ sc[m].type \in ValueTypes
                                   /\ sc[m].localIndex \in 0 .. n - 1
                                   /\ sc[m].isMutable \in BOOLEAN
<1>1. PICK D \in SUBSET Names :
          sc \in [D -> [type : ValueTypes, localIndex : 0 .. n - 1, isMutable : BOOLEAN]]
  BY DEF ScopesBelow
<1>2. QED
  BY <1>1

\* A scope is one for every greater bound, too.
LEMMA ScopesGrow ==
    ASSUME NEW n \in Nat, NEW m \in Nat, n <= m
    PROVE  ScopesBelow(n) \subseteq ScopesBelow(m)
<1>1. SUFFICES ASSUME NEW sc \in ScopesBelow(n) PROVE sc \in ScopesBelow(m)
  OBVIOUS
<1>2. PICK D \in SUBSET Names :
          sc \in [D -> [type : ValueTypes, localIndex : 0 .. n - 1, isMutable : BOOLEAN]]
  BY <1>1 DEF ScopesBelow
<1>3. 0 .. n - 1 \subseteq 0 .. m - 1
  OBVIOUS
<1>4. sc \in [D -> [type : ValueTypes, localIndex : 0 .. m - 1, isMutable : BOOLEAN]]
  BY <1>2, <1>3
<1>5. QED
  BY <1>2, <1>4 DEF ScopesBelow

\* A name that is visible is found, and its symbol is typed.
LEMMA FindVariable ==
    ASSUME NEW name, nextLocalIndex \in Nat, scopes \in Seq(ScopesBelow(nextLocalIndex)),
           Visible(name)
    PROVE  /\ findVariable(name).type \in ValueTypes
           /\ findVariable(name).localIndex \in 0 .. nextLocalIndex - 1
           /\ findVariable(name).isMutable \in BOOLEAN
<1> DEFINE T == {i \in 1 .. Len(scopes) : name \in DOMAIN scopes[i]}
           P(i) == /\ name \in DOMAIN scopes[i]
                   /\ \A j \in i + 1 .. Len(scopes) : name \notin DOMAIN scopes[j]
<1>1. Len(scopes) \in Nat /\ DOMAIN scopes = 1 .. Len(scopes)
  OBVIOUS
<1>2. T # {}
  BY <1>1 DEF Visible
<1>3. PICK x \in T : \A y \in T : y <= x
  <2>1. T \in SUBSET (1 .. Len(scopes))
    OBVIOUS
  <2>2. QED
    BY <1>1, <1>2, <2>1, Greatest
<1>4. x \in DOMAIN scopes /\ P(x)
  BY <1>1, <1>3
<1>5. PICK c \in DOMAIN scopes : P(c) /\ findVariable(name) = scopes[c][name]
  <2> HIDE DEF P
  <2>1. (CHOOSE i \in DOMAIN scopes : P(i)) \in DOMAIN scopes /\ P(CHOOSE i \in DOMAIN scopes : P(i))
    BY <1>4, Zenon
  <2>2. findVariable(name) = scopes[CHOOSE i \in DOMAIN scopes : P(i)][name]
    BY DEF findVariable, P
  <2>3. QED
    BY <2>1, <2>2, Zenon
<1>6. scopes[c] \in ScopesBelow(nextLocalIndex) /\ name \in DOMAIN scopes[c]
  BY <1>1, <1>5
<1>7. QED
  BY <1>5, <1>6, ScopeFacts

-----------------------------------------------------------------------------
(* Expressions.                                                            *)

\* The type of an expression, and the slots of one that has a type.
LEMMA ExprOK ==
    ASSUME NEW e \in Exprs, nextLocalIndex \in Nat, scopes \in Seq(ScopesBelow(nextLocalIndex))
    PROVE  /\ analyzeExpr(e) \in Types
           /\ analyzeExpr(e) # "unknown" => SlotsOf(e) \in Seq(0 .. nextLocalIndex - 1)
<1>1. CASE e \in [kind : {"literal"}, type : {"int", "bool", "string"}]
  <2>1. e.kind = "literal" /\ e.type \in Types
    BY <1>1 DEF Types
  <2>2. analyzeExpr(e) = e.type /\ SlotsOf(e) = <<>>
    BY <2>1 DEF analyzeExpr, SlotsOf
  <2>3. QED
    BY <2>1, <2>2
<1>2. CASE e \in [kind : {"variable"}, name : Names]
  <2>1. e.kind = "variable"
    BY <1>2
  <2>2. CASE Visible(e.name)
    <3>1. /\ findVariable(e.name).type \in ValueTypes
          /\ findVariable(e.name).localIndex \in 0 .. nextLocalIndex - 1
      BY <2>2, FindVariable
    <3>2. analyzeExpr(e) = findVariable(e.name).type /\ SlotsOf(e) = <<findVariable(e.name).localIndex>>
      BY <2>1, <2>2 DEF analyzeExpr, SlotsOf
    <3>3. QED
      BY <3>1, <3>2 DEF ValueTypes
  <2>3. CASE ~Visible(e.name)
    <3>1. analyzeExpr(e) = "unknown"
      BY <2>1, <2>3 DEF analyzeExpr
    <3>2. QED
      BY <3>1 DEF Types
  <2>4. QED
    BY <2>2, <2>3
<1>3. CASE e \in [kind : {"operation"}, operands : Seq([name : Names, type : ValueTypes]),
                  type : Types \ {"unknown"}]
  <2>1. /\ e.kind = "operation"
        /\ e.operands \in Seq([name : Names, type : ValueTypes])
        /\ e.type \in Types
    BY <1>3
  <2>2. "unknown" \in Types
    BY DEF Types
  <2>3. analyzeExpr(e) \in {e.type, "unknown"}
    BY <2>1 DEF analyzeExpr
  <2>4. ASSUME analyzeExpr(e) # "unknown"
        PROVE  SlotsOf(e) \in Seq(0 .. nextLocalIndex - 1)
    <3>1. \A i \in DOMAIN e.operands : Visible(e.operands[i].name)
      BY <2>1, <2>4 DEF analyzeExpr
    <3>2. \A i \in DOMAIN e.operands :
              findVariable(e.operands[i].name).localIndex \in 0 .. nextLocalIndex - 1
      BY <3>1, FindVariable
    <3>3. SlotsOf(e) = [i \in DOMAIN e.operands |-> findVariable(e.operands[i].name).localIndex]
      BY <2>1 DEF SlotsOf
    <3>4. DOMAIN e.operands = 1 .. Len(e.operands) /\ Len(e.operands) \in Nat
      BY <2>1
    <3>5. QED
      BY <3>2, <3>3, <3>4
  <2>5. QED
    BY <2>1, <2>2, <2>3, <2>4
<1>4. QED
  BY <1>1, <1>2, <1>3 DEF Exprs

-----------------------------------------------------------------------------
(* What holds when an activation runs.                                     *)

LEMMA Running_ ==
    ASSUME Inv, work # <<>>
    PROVE  /\ Len(work) \in Nat \ {0}
           /\ Top \in Items /\ Top.task \in Tasks
           /\ Top.index \in Nat \ {0}
           /\ Len(analyzed) \in Nat
           /\ Len(scopes) \in Nat \ {0}
           /\ Len(analyzed) + 1 \in 1 .. Len(program)
           /\ nextLocalIndex \in Nat
<1>1. work \in Seq(Items) /\ Len(work) \in Nat \ {0}
  BY DEF Inv, TypeOK
<1>2. Top \in Items
  BY <1>1 DEF Top
<1>3. Top.task \in Tasks /\ Top.index \in Nat \ {0}
  BY <1>2 DEF Items
<1>4. Len(analyzed) \in Nat /\ Len(program) \in Nat
  <2>1. analyzed \in Seq([localCount : Nat, slots : Seq(Nat)])
    BY DEF Inv, TypeOK
  <2>2. program \in Programs
    BY DEF Inv, TypeOK
  <2>3. program \in Seq([parameters : Seq(Parameters), returnType : Types \ {"unknown"},
                         body : {s \in Stmts : s.kind = "block"}])
    BY <2>2, ProgramsAssumption
  <2>4. QED
    BY <2>1, <2>3
<1>5. Len(analyzed) < Len(program) /\ work[1].task = "endFunction"
  BY DEF Inv, FunctionOpen
<1>6. Count(work, ScopeEnds) \in Nat /\ Count(work, ScopeEnds) # 0
  <2>1. 1 \in 1 .. Len(work) /\ work[1].task \in ScopeEnds
    BY <1>1, <1>5 DEF ScopeEnds
  <2>2. QED
    BY <1>1, <2>1, CountProperties
<1>7. Len(scopes) \in Nat /\ Len(scopes) >= Count(work, ScopeEnds) /\ nextLocalIndex \in Nat
  BY DEF Inv, TypeOK, ContextsMatched, Count
<1>8. QED
  BY <1>1, <1>2, <1>3, <1>4, <1>5, <1>6, <1>7

\* The function that is open.
LEMMA FunctionTyped ==
    ASSUME TypeOK, Len(analyzed) < Len(program)
    PROVE  /\ Function.parameters \in Seq(Parameters)
           /\ Function.returnType \in Types \ {"unknown"}
           /\ Function.body \in Stmts /\ Function.body.kind = "block"
<1>1. program \in Seq([parameters : Seq(Parameters), returnType : Types \ {"unknown"},
                       body : {s \in Stmts : s.kind = "block"}])
  BY ProgramsAssumption DEF TypeOK
<1>2. Len(analyzed) \in Nat
  BY DEF TypeOK
<1>3. Len(analyzed) + 1 \in 1 .. Len(program)
  BY <1>1, <1>2
<1>4. Function \in [parameters : Seq(Parameters), returnType : Types \ {"unknown"},
                    body : {s \in Stmts : s.kind = "block"}]
  <2> DEFINE F == [parameters : Seq(Parameters), returnType : Types \ {"unknown"},
                   body : {s \in Stmts : s.kind = "block"}]
  <2>1. program \in Seq(F)
    BY <1>1
  <2> HIDE DEF F
  <2>2. program[Len(analyzed) + 1] \in F
    BY <1>3, <2>1
  <2>3. QED
    BY <2>2 DEF Function, F
<1>5. QED
  BY <1>4

\* A statement of an activation has its fields.
LEMMA NodeTyped ==
    ASSUME Inv, work # <<>>, Top.task # "endFunction"
    PROVE  Node \in Stmts /\ StmtClosed(Node) /\ Node.kind # NoMessage
<1>1. Top \in Items /\ Top.task \in Tasks
  BY Running_
<1>2. Node \in Stmts
  BY <1>1 DEF Items, ItemOK, Tasks, Node
<1>3. StmtClosed(Node)
  BY <1>2, StmtsAssumption
<1>4. QED
  BY <1>2, <1>3 DEF StmtClosed, NoMessage

\* A step on an activation that does not end the function: the stack stays
\* typed, scopes and depths change with what the items are to end, and the rest
\* of the invariant is kept by its assumptions.
LEMMA Step ==
    ASSUME Inv, work # <<>>, Top.task # "endFunction",
           NEW items \in Seq(Items), Then(items),
           \A i \in 1 .. Len(items) - 1 : items[i].task \notin Enders,
           \A i \in 1 .. Len(items) : items[i].task # "endFunction",
           UNCHANGED <<program, analyzed>>,
           nextLocalIndex' \in Nat, nextLocalIndex' >= nextLocalIndex,
           scopes' \in Seq(ScopesBelow(nextLocalIndex')),
           slots' \in Seq(0 .. nextLocalIndex' - 1),
           hasReturn' \in BOOLEAN,
           loopDepth' = loopDepth - One(Top.task \in LoopEnds) + One(LastIn(items, LoopEnds)),
           switchDepth' = switchDepth - One(Top.task \in SwitchEnds) + One(LastIn(items, SwitchEnds)),
           Len(scopes') >= Len(scopes) - One(Top.task \in ScopeEnds) + One(LastIn(items, ScopeEnds)),
           diagnostic' = NoMessage =>
               /\ diagnostic = NoMessage
               /\ Len(scopes') = Len(scopes) - One(Top.task \in ScopeEnds)
                                    + One(LastIn(items, ScopeEnds)),
           SlotsApart'
    PROVE  Inv'
<1>1. work \in Seq(Items) /\ Len(work) \in Nat \ {0} /\ Len(items) \in Nat
  BY Running_ DEF Inv, TypeOK
<1>2. work' = Replaced(work, items)
  BY DEF Then
<1>3. /\ work' \in Seq(Items)
      /\ Len(work') = Len(work) - 1 + Len(items)
      /\ \A i \in 1 .. Len(work) - 1 : work'[i] = work[i]
      /\ \A i \in Len(work) .. Len(work') : work'[i] = items[Len(items) + Len(work) - i]
  <2> DEFINE new == Replaced(work, items)
  <2>1. /\ new \in Seq(Items)
        /\ Len(new) = Len(work) - 1 + Len(items)
        /\ \A i \in 1 .. Len(work) - 1 : new[i] = work[i]
        /\ \A i \in Len(work) .. Len(new) : new[i] = items[Len(items) + Len(work) - i]
    BY <1>1, ReplacedProperties
  <2>2. work' = new
    BY <1>2
  <2> HIDE DEF new
  <2>3. QED
    BY <2>1, <2>2
<1>4. ASSUME NEW tasks \in {LoopEnds, SwitchEnds, ScopeEnds}
      PROVE  /\ Count(work, tasks) \in Nat
             /\ Count(work', tasks)
                  = Count(work, tasks) - One(Top.task \in tasks) + One(LastIn(items, tasks))
             /\ Count(work', tasks) \in Nat
  <2>1. \A i \in 1 .. Len(items) - 1 : items[i].task \notin tasks
    BY DEF Enders
  <2>2. Count(work', tasks) = Count(work, tasks) - One(work[Len(work)].task \in tasks)
                                + One(LastIn(items, tasks))
    BY <1>1, <1>2, <2>1, CountReplaced
  <2>3. QED
    BY <1>1, <1>3, <2>2, CountProperties DEF Top
<1>5. ContextsMatched'
  <2>1. /\ loopDepth = Count(work, LoopEnds)
        /\ switchDepth = Count(work, SwitchEnds)
        /\ Len(scopes) >= Count(work, ScopeEnds)
        /\ diagnostic = NoMessage => Len(scopes) = Count(work, ScopeEnds)
    BY DEF Inv, ContextsMatched, Count
  <2>2. Len(scopes) \in Nat /\ Len(scopes') \in Nat
    BY Running_
  <2>3. One(Top.task \in ScopeEnds) \in {0, 1} /\ One(LastIn(items, ScopeEnds)) \in {0, 1}
    BY DEF One
  <2>4. /\ loopDepth' = Count(work', LoopEnds)
        /\ switchDepth' = Count(work', SwitchEnds)
    BY <1>4, <2>1
  <2>5. /\ Len(scopes') >= Count(work', ScopeEnds)
        /\ diagnostic' = NoMessage => Len(scopes') = Count(work', ScopeEnds)
    <3>1. /\ Count(work, ScopeEnds) \in Nat
          /\ Count(work', ScopeEnds) = Count(work, ScopeEnds) - One(Top.task \in ScopeEnds)
                                         + One(LastIn(items, ScopeEnds))
      BY <1>4
    <3> DEFINE a == One(Top.task \in ScopeEnds)
               b == One(LastIn(items, ScopeEnds))
               c == Count(work, ScopeEnds)
               d == Count(work', ScopeEnds)
    <3>2. a \in {0, 1} /\ b \in {0, 1} /\ c \in Nat /\ d = c - a + b
      BY <2>3, <3>1
    <3>3. /\ Len(scopes') >= Len(scopes) - a + b
          /\ diagnostic' = NoMessage => diagnostic = NoMessage /\ Len(scopes') = Len(scopes) - a + b
          /\ Len(scopes) >= c
          /\ diagnostic = NoMessage => Len(scopes) = c
      BY <2>1
    <3> HIDE DEF a, b, c, d
    <3>4. Len(scopes') >= d /\ (diagnostic' = NoMessage => Len(scopes') = d)
      BY <2>2, <3>2, <3>3
    <3>5. QED
      BY <3>4 DEF d
  <2>6. QED
    BY <2>4, <2>5 DEF ContextsMatched, Count
<1>6. TypeOK'
  <2>1. loopDepth' \in Nat /\ switchDepth' \in Nat
    BY <1>4, <1>5 DEF ContextsMatched, Count
  <2>2. QED
    BY <1>3, <2>1 DEF Inv, TypeOK
<1>7. FunctionOpen'
  <2>1. /\ Len(analyzed) < Len(program)
        /\ work[1].task = "endFunction"
        /\ \A i \in 2 .. Len(work) : work[i].task # "endFunction"
        /\ Len(Function.parameters) <= nextLocalIndex
    BY DEF Inv, FunctionOpen
  <2>2. Len(work) # 1
    BY <2>1 DEF Top
  <2>3. work'[1].task = "endFunction"
    <3>1. 1 \in 1 .. Len(work) - 1
      <4>1. ASSUME NEW n \in Nat \ {0}, n # 1 PROVE 1 \in 1 .. n - 1
        BY <4>1
      <4>2. Len(work) \in Nat \ {0}
        BY <1>1
      <4>3. QED
        BY <2>2, <4>1, <4>2
    <3>2. QED
      BY <1>3, <2>1, <3>1
  <2>4. ASSUME NEW i \in 2 .. Len(work') PROVE work'[i].task # "endFunction"
    <3>1. CASE i < Len(work)
      <4>1. i \in 1 .. Len(work) - 1 /\ i \in 2 .. Len(work)
        BY <1>1, <1>3, <3>1
      <4>2. QED
        BY <1>3, <2>1, <4>1
    <3>2. CASE i >= Len(work)
      <4>1. i \in Len(work) .. Len(work') /\ Len(items) + Len(work) - i \in 1 .. Len(items)
        BY <1>1, <1>3, <3>2
      <4>2. QED
        BY <1>3, <4>1
    <3>3. QED
      BY <1>1, <1>3, <3>1, <3>2
  <2>5. Function' = Function
    BY DEF Function
  <2>6. Len(Function.parameters) \in Nat
    BY <2>1, FunctionTyped DEF Inv
  <2>7. Len(Function.parameters)' <= nextLocalIndex'
    BY <2>1, <2>5, <2>6, Running_
  <2>8. QED
    BY <2>1, <2>3, <2>4, <2>7 DEF FunctionOpen
<1>8. SlotsExist'
  BY DEF Inv, SlotsExist
<1>9. QED
  BY <1>5, <1>6, <1>7, <1>8 DEF Inv

-----------------------------------------------------------------------------
(* Activations and scopes that are opened and closed.                      *)

LEMMA AnalyzeOK ==
    ASSUME NEW nodes \in Seq(Stmts)
    PROVE  /\ AnalyzeAll(nodes) \in Seq(Items)
           /\ Len(AnalyzeAll(nodes)) = Len(nodes)
           /\ \A i \in 1 .. Len(AnalyzeAll(nodes)) : AnalyzeAll(nodes)[i].task = "analyzeStmt"
<1>1. DOMAIN nodes = 1 .. Len(nodes) /\ Len(nodes) \in Nat
  OBVIOUS
<1>2. \A i \in 1 .. Len(nodes) : nodes[i] \in Stmts
  OBVIOUS
<1>3. \A n \in Stmts : Analyze(n) \in Items /\ Analyze(n).task = "analyzeStmt"
  BY DEF Analyze, Item, Items, ItemOK, Tasks
<1>4. AnalyzeAll(nodes) = [i \in 1 .. Len(nodes) |-> Analyze(nodes[i])]
  BY <1>1 DEF AnalyzeAll
<1>5. AnalyzeAll(nodes) \in [1 .. Len(nodes) -> Items]
  BY <1>2, <1>3, <1>4
<1>6. Len(AnalyzeAll(nodes)) = Len(nodes)
  BY <1>1, <1>4
<1>7. \A i \in 1 .. Len(nodes) : AnalyzeAll(nodes)[i] = Analyze(nodes[i])
  BY <1>4
<1>8. QED
  BY <1>1, <1>2, <1>3, <1>5, <1>6, <1>7

\* Activations of statements, and one that ends something behind them.
LEMMA EndsWith ==
    ASSUME NEW front \in Seq(Items), \A i \in 1 .. Len(front) : front[i].task = "analyzeStmt",
           NEW last \in Items, last.task # "endFunction"
    PROVE  /\ front \o <<last>> \in Seq(Items)
           /\ \A i \in 1 .. Len(front \o <<last>>) - 1 : (front \o <<last>>)[i].task \notin Enders
           /\ \A i \in 1 .. Len(front \o <<last>>) : (front \o <<last>>)[i].task # "endFunction"
           /\ \A tasks : LastIn(front \o <<last>>, tasks) <=> last.task \in tasks
<1> DEFINE all == front \o <<last>>
<1>1. Len(front) \in Nat /\ <<last>> \in Seq(Items) /\ Len(<<last>>) = 1 /\ <<last>>[1] = last
  OBVIOUS
<1>2. /\ all \in Seq(Items)
      /\ Len(all) = Len(front) + 1
      /\ \A i \in 1 .. Len(front) : all[i] = front[i]
      /\ \A i \in Len(front) + 1 .. Len(front) + 1 : all[i] = <<last>>[i - Len(front)]
  BY <1>1, ConcatElements
<1> HIDE DEF all
<1>3. all[Len(all)] = last
  BY <1>1, <1>2
<1>4. \A i \in 1 .. Len(all) - 1 : all[i].task = "analyzeStmt"
  BY <1>1, <1>2
<1>5. "analyzeStmt" \notin Enders /\ "analyzeStmt" # "endFunction"
  BY DEF Enders, LoopEnds, SwitchEnds, ScopeEnds
<1>6. \A i \in 1 .. Len(all) : all[i].task # "endFunction"
  BY <1>1, <1>2, <1>3, <1>4
<1>7. all # <<>>
  BY <1>1, <1>2
<1>8. \A tasks : LastIn(all, tasks) <=> last.task \in tasks
  BY <1>3, <1>7 DEF LastIn
<1>9. QED
  BY <1>2, <1>4, <1>5, <1>6, <1>8 DEF all

LEMMA Pushed ==
    ASSUME Inv, work # <<>>, beginScope
    PROVE  /\ scopes' \in Seq(ScopesBelow(nextLocalIndex))
           /\ Len(scopes') = Len(scopes) + 1
           /\ SlotsApart'
<1> DEFINE empty == [n \in {} |-> 0]
<1>1. scopes \in Seq(ScopesBelow(nextLocalIndex)) /\ Len(scopes) \in Nat
  BY DEF Inv, TypeOK
<1>2. empty \in ScopesBelow(nextLocalIndex)
  <2>1. empty \in [{} -> [type : ValueTypes, localIndex : 0 .. nextLocalIndex - 1, isMutable : BOOLEAN]]
    OBVIOUS
  <2>2. {} \in SUBSET Names
    OBVIOUS
  <2>3. QED
    BY <2>1, <2>2 DEF ScopesBelow
<1>3. DOMAIN empty = {}
  OBVIOUS
<1> HIDE DEF empty
<1>4. scopes' = Append(scopes, empty)
  BY DEF beginScope, empty
<1>5. /\ scopes' \in Seq(ScopesBelow(nextLocalIndex))
      /\ Len(scopes') = Len(scopes) + 1
      /\ \A i \in 1 .. Len(scopes) : scopes'[i] = scopes[i]
      /\ scopes'[Len(scopes) + 1] = empty
  BY <1>1, <1>2, <1>4
<1>6. SlotsApart'
  <2>1. DOMAIN scopes = 1 .. Len(scopes) /\ DOMAIN scopes' = 1 .. Len(scopes) + 1
    BY <1>1, <1>5
  <2>2. \A i \in DOMAIN scopes' : \A m \in DOMAIN scopes'[i] :
            i \in DOMAIN scopes /\ scopes'[i] = scopes[i] /\ m \in DOMAIN scopes[i]
    BY <1>1, <1>3, <1>5, <2>1
  <2>3. SlotsApart
    BY DEF Inv
  <2>4. QED
    BY <2>2, <2>3 DEF SlotsApart
<1>7. QED
  BY <1>5, <1>6

LEMMA Popped ==
    ASSUME Inv, work # <<>>, endScope
    PROVE  /\ scopes' \in Seq(ScopesBelow(nextLocalIndex))
           /\ Len(scopes') = Len(scopes) - 1
           /\ SlotsApart'
<1>1. scopes \in Seq(ScopesBelow(nextLocalIndex)) /\ Len(scopes) \in Nat \ {0}
  BY Running_ DEF Inv, TypeOK
<1>2. scopes' = SubSeq(scopes, 1, Len(scopes) - 1) /\ Len(scopes) - 1 \in 0 .. Len(scopes)
  BY <1>1 DEF endScope
<1>3. /\ scopes' \in Seq(ScopesBelow(nextLocalIndex))
      /\ Len(scopes') = Len(scopes) - 1
      /\ \A i \in 1 .. Len(scopes) - 1 : scopes'[i] = scopes[i]
  <2> DEFINE new == SubSeq(scopes, 1, Len(scopes) - 1)
  <2>1. /\ new \in Seq(ScopesBelow(nextLocalIndex))
        /\ Len(new) = Len(scopes) - 1
        /\ \A i \in 1 .. Len(scopes) - 1 : new[i] = scopes[i]
    BY <1>1, <1>2, PrefixProperties
  <2>2. QED
    BY <1>2, <2>1
<1>4. SlotsApart'
  <2>1. DOMAIN scopes = 1 .. Len(scopes) /\ DOMAIN scopes' = 1 .. Len(scopes) - 1
    BY <1>1, <1>3
  <2>2. \A i \in DOMAIN scopes' : i \in DOMAIN scopes /\ scopes'[i] = scopes[i]
    BY <1>1, <1>3, <2>1
  <2>3. SlotsApart
    BY DEF Inv
  <2>4. QED
    BY <2>2, <2>3 DEF SlotsApart
<1>5. QED
  BY <1>3, <1>4

\* The slots that an accepted expression adds.
LEMMA SlotsAdded ==
    ASSUME Inv, work # <<>>, NEW e \in Exprs, analyzeExpr(e) # "unknown"
    PROVE  slots \o SlotsOf(e) \in Seq(0 .. nextLocalIndex - 1)
<1>1. slots \in Seq(0 .. nextLocalIndex - 1)
  BY DEF Inv, TypeOK
<1>2. SlotsOf(e) \in Seq(0 .. nextLocalIndex - 1)
  BY ExprOK DEF Inv, TypeOK
<1>3. QED
  BY <1>1, <1>2, ConcatElements

LEMMA SlotsOfAllAdded ==
    ASSUME Inv, work # <<>>, NEW values \in Seq(Exprs),
           values # <<>> => analyzeExpr(values[1]) # "unknown"
    PROVE  slots \o SlotsOfAll(values) \in Seq(0 .. nextLocalIndex - 1)
<1>1. slots \in Seq(0 .. nextLocalIndex - 1)
  BY DEF Inv, TypeOK
<1>2. CASE values = <<>>
  <2>1. SlotsOfAll(values) = <<>> /\ <<>> \in Seq(0 .. nextLocalIndex - 1)
    BY <1>2 DEF SlotsOfAll
  <2>2. QED
    BY <1>1, <2>1, ConcatElements
<1>3. CASE values # <<>>
  <2>1. values[1] \in Exprs /\ SlotsOfAll(values) = SlotsOf(values[1])
    BY <1>3 DEF SlotsOfAll
  <2>2. QED
    BY <1>3, <2>1, SlotsAdded
<1>4. QED
  BY <1>2, <1>3

\* An expression that fits has a type.
LEMMA FittingKnown ==
    ASSUME NEW e \in Exprs, NEW type, type # "unknown", Fits(e, type)
    PROVE  analyzeExpr(e) # "unknown"
<1>1. CASE analyzeExpr(e) = type
  BY <1>1
<1>2. CASE e.kind = "literal" /\ e.type = "int"
  BY <1>2 DEF analyzeExpr
<1>3. QED
  BY <1>1, <1>2 DEF Fits

\* A step that leaves the scopes and the depths alone.
LEMMA PlainStep ==
    ASSUME Inv, work # <<>>, Top.task # "endFunction", Top.task \notin Enders,
           NEW items \in Seq(Items), Then(items),
           \A i \in 1 .. Len(items) : items[i].task \notin Enders,
           UNCHANGED <<program, analyzed, tableVars, depthVars>>,
           slots' \in Seq(0 .. nextLocalIndex - 1),
           hasReturn' \in BOOLEAN,
           diagnostic' = NoMessage => diagnostic = NoMessage
    PROVE  Inv'
<1>1. UNCHANGED <<program, analyzed>> /\ scopes' = scopes /\ nextLocalIndex' = nextLocalIndex
      /\ loopDepth' = loopDepth /\ switchDepth' = switchDepth
  BY DEF tableVars, depthVars
<1>2. Len(items) \in Nat /\ (items # <<>> => Len(items) \in 1 .. Len(items))
  OBVIOUS
<1>3. \A tasks \in {LoopEnds, SwitchEnds, ScopeEnds} : ~LastIn(items, tasks) /\ Top.task \notin tasks
  BY <1>2 DEF LastIn, Enders
<1>4. One(FALSE) = 0
  BY DEF One
<1>5. \A tasks \in {LoopEnds, SwitchEnds, ScopeEnds} :
          One(LastIn(items, tasks)) = 0 /\ One(Top.task \in tasks) = 0
  BY <1>3 DEF One
<1>6. /\ loopDepth \in Nat /\ switchDepth \in Nat /\ nextLocalIndex \in Nat /\ Len(scopes) \in Nat
      /\ scopes \in Seq(ScopesBelow(nextLocalIndex)) /\ SlotsApart
  BY DEF Inv, TypeOK
<1>7. SlotsApart'
  BY <1>1, <1>6 DEF SlotsApart
<1>8. "endFunction" \in Enders
  BY DEF Enders, ScopeEnds
<1>9. /\ \A i \in 1 .. Len(items) - 1 : items[i].task \notin Enders
      /\ \A i \in 1 .. Len(items) : items[i].task # "endFunction"
  BY <1>2, <1>8
<1>10. /\ loopDepth' = loopDepth - One(Top.task \in LoopEnds) + One(LastIn(items, LoopEnds))
       /\ switchDepth' = switchDepth - One(Top.task \in SwitchEnds) + One(LastIn(items, SwitchEnds))
       /\ Len(scopes') = Len(scopes) - One(Top.task \in ScopeEnds) + One(LastIn(items, ScopeEnds))
       /\ Len(scopes') >= Len(scopes) - One(Top.task \in ScopeEnds) + One(LastIn(items, ScopeEnds))
       /\ nextLocalIndex' >= nextLocalIndex
  BY <1>1, <1>5, <1>6
<1>11. QED
  BY <1>1, <1>6, <1>7, <1>9, <1>10, Step

-----------------------------------------------------------------------------
(* The steps that leave the scopes alone.                                  *)

LEMMA NoItems ==
    /\ <<>> \in Seq(Items)
    /\ \A i \in 1 .. Len(<<>>) : FALSE
    /\ \A tasks : ~LastIn(<<>>, tasks)
  BY DEF LastIn

LEMMA AnalyzingFacts ==
    ASSUME Inv, NEW kind, Analyzing(kind)
    PROVE  /\ work # <<>>
           /\ Top.task = "analyzeStmt"
           /\ Top.task # "endFunction" /\ Top.task \notin Enders
           /\ Node.kind = kind
           /\ Accepted(Node)
           /\ Node \in Stmts /\ StmtClosed(Node)
<1>1. work # <<>> /\ Top.task = "analyzeStmt" /\ Node.kind = kind /\ Accepted(Node)
  BY DEF Analyzing, Running
<1>2. Top.task # "endFunction" /\ Top.task \notin Enders
  BY <1>1 DEF Enders, LoopEnds, SwitchEnds, ScopeEnds
<1>3. QED
  BY <1>1, <1>2, NodeTyped

\* A statement that is done with: slots and return apart nothing changes.
LEMMA DoneStep ==
    ASSUME Inv, work # <<>>, Top.task # "endFunction", Top.task \notin Enders, Then(<<>>),
           UNCHANGED <<program, analyzed, tableVars, depthVars>>,
           slots' \in Seq(0 .. nextLocalIndex - 1),
           hasReturn' \in BOOLEAN,
           diagnostic' = NoMessage => diagnostic = NoMessage
    PROVE  Inv'
<1>1. \A i \in 1 .. Len(<<>>) : <<>>[i].task \notin Enders
  OBVIOUS
<1>2. QED
  BY <1>1, NoItems, PlainStep

LEMMA Kept ==
    ASSUME Inv
    PROVE  slots \in Seq(0 .. nextLocalIndex - 1) /\ hasReturn \in BOOLEAN
  BY DEF Inv, TypeOK

LEMMA RefuseStep == ASSUME Inv, Refuse PROVE Inv'
<1>1. work # <<>> /\ Top.task = "analyzeStmt" /\ Fail(Node.kind) /\ Then(<<>>)
      /\ UNCHANGED <<program, analyzed, tableVars, depthVars>> /\ UNCHANGED <<hasReturn, slots>>
  BY DEF Refuse, Running
<1>2. Top.task # "endFunction" /\ Top.task \notin Enders
  BY <1>1 DEF Enders, LoopEnds, SwitchEnds, ScopeEnds
<1>3. Node.kind # NoMessage
  BY <1>1, <1>2, NodeTyped
<1>4. diagnostic' = NoMessage => diagnostic = NoMessage
  BY <1>1, <1>3 DEF Fail
<1>5. QED
  BY <1>1, <1>2, <1>4, Kept, DoneStep

LEMMA NothingStep == ASSUME Inv, Nothing PROVE Inv'
<1>1. PICK kind \in {"empty", "break", "continue"} : Analyzing(kind)
  BY DEF Nothing
<1>2. Then(<<>>) /\ UNCHANGED <<program, analyzed, tableVars, depthVars>>
      /\ UNCHANGED <<hasReturn, diagnostic, slots>>
  BY DEF Nothing
<1>3. QED
  BY <1>1, <1>2, AnalyzingFacts, Kept, DoneStep

LEMMA ExprStmtStep == ASSUME Inv, analyzeExprStmt PROVE Inv'
<1>1. Analyzing("exprStmt") /\ slots' = slots \o SlotsOf(Node.value) /\ Then(<<>>)
      /\ UNCHANGED <<program, analyzed, tableVars, depthVars>> /\ UNCHANGED <<hasReturn, diagnostic>>
  BY DEF analyzeExprStmt
<1>2. /\ work # <<>> /\ Top.task # "endFunction" /\ Top.task \notin Enders
      /\ Node.kind = "exprStmt" /\ Accepted(Node) /\ StmtClosed(Node)
  BY <1>1, AnalyzingFacts
<1>3. Node.value \in Exprs /\ analyzeExpr(Node.value) # "unknown"
  BY <1>2 DEF StmtClosed, Accepted
<1>4. slots' \in Seq(0 .. nextLocalIndex - 1)
  BY <1>1, <1>2, <1>3, SlotsAdded
<1>5. QED
  BY <1>1, <1>2, <1>4, Kept, DoneStep

LEMMA AssignStep == ASSUME Inv, analyzeAssignStmt PROVE Inv'
<1>1. /\ Analyzing("assign") /\ Then(<<>>)
      /\ slots' = slots \o SlotsOf(Node.value) \o <<findVariable(Node.name).localIndex>>
      /\ UNCHANGED <<program, analyzed, tableVars, depthVars>> /\ UNCHANGED <<hasReturn, diagnostic>>
  BY DEF analyzeAssignStmt
<1>2. /\ work # <<>> /\ Top.task # "endFunction" /\ Top.task \notin Enders
      /\ Node.kind = "assign" /\ Accepted(Node) /\ StmtClosed(Node)
  BY <1>1, AnalyzingFacts
<1>3. /\ Node.value \in Exprs
      /\ Visible(Node.name)
      /\ Fits(Node.value, findVariable(Node.name).type)
  BY <1>2 DEF StmtClosed, Accepted, Assigns
<1>4. /\ findVariable(Node.name).type \in ValueTypes
      /\ findVariable(Node.name).localIndex \in 0 .. nextLocalIndex - 1
  BY <1>3, FindVariable DEF Inv, TypeOK
<1>5. analyzeExpr(Node.value) # "unknown"
  BY <1>3, <1>4, FittingKnown DEF ValueTypes
<1>6. slots \o SlotsOf(Node.value) \in Seq(0 .. nextLocalIndex - 1)
  BY <1>2, <1>3, <1>5, SlotsAdded
<1>7. slots' \in Seq(0 .. nextLocalIndex - 1)
  <2>1. <<findVariable(Node.name).localIndex>> \in Seq(0 .. nextLocalIndex - 1)
    BY <1>4
  <2>2. QED
    BY <1>1, <1>6, <2>1, ConcatElements
<1>8. QED
  BY <1>1, <1>2, <1>7, Kept, DoneStep

LEMMA IfStep == ASSUME Inv, analyzeIfStmt PROVE Inv'
<1>1. Analyzing("if") /\ slots' = slots \o SlotsOf(Node.value) /\ Then(AnalyzeAll(Node.body))
      /\ UNCHANGED <<program, analyzed, tableVars, depthVars>> /\ UNCHANGED <<hasReturn, diagnostic>>
  BY DEF analyzeIfStmt
<1>2. /\ work # <<>> /\ Top.task # "endFunction" /\ Top.task \notin Enders
      /\ Node.kind = "if" /\ Accepted(Node) /\ StmtClosed(Node)
  BY <1>1, AnalyzingFacts
<1>3. Node.value \in Exprs /\ Node.body \in Seq(Stmts) /\ analyzeExpr(Node.value) # "unknown"
  BY <1>2 DEF StmtClosed, Accepted
<1>4. slots' \in Seq(0 .. nextLocalIndex - 1)
  BY <1>1, <1>2, <1>3, SlotsAdded
<1>5. /\ AnalyzeAll(Node.body) \in Seq(Items)
      /\ \A i \in 1 .. Len(AnalyzeAll(Node.body)) : AnalyzeAll(Node.body)[i].task \notin Enders
  <2>1. "analyzeStmt" \notin Enders
    BY DEF Enders, LoopEnds, SwitchEnds, ScopeEnds
  <2>2. QED
    BY <1>3, <2>1, AnalyzeOK
<1>6. QED
  BY <1>1, <1>2, <1>4, <1>5, Kept, PlainStep

LEMMA ReturnStep == ASSUME Inv, analyzeReturnStmt PROVE Inv'
<1>1. Analyzing("return") /\ slots' = slots \o SlotsOfAll(Node.values) /\ hasReturn' = TRUE /\ Then(<<>>)
      /\ UNCHANGED <<program, analyzed, tableVars, depthVars>> /\ UNCHANGED diagnostic
  BY DEF analyzeReturnStmt
<1>2. /\ work # <<>> /\ Top.task # "endFunction" /\ Top.task \notin Enders
      /\ Node.kind = "return" /\ Accepted(Node) /\ StmtClosed(Node)
  BY <1>1, AnalyzingFacts
<1>3. Node.values \in Seq(Exprs) /\ Returns(Node)
  BY <1>2 DEF StmtClosed, Accepted
<1>4. Function.returnType # "unknown"
  <2>1. Len(analyzed) < Len(program) /\ TypeOK
    BY <1>2 DEF Inv, FunctionOpen
  <2>2. QED
    BY <2>1, FunctionTyped
<1>5. ASSUME Node.values # <<>> PROVE analyzeExpr(Node.values[1]) # "unknown"
  <2>1. Fits(Node.values[1], Function.returnType)
    BY <1>3, <1>5 DEF Returns
  <2>2. Node.values[1] \in Exprs
    BY <1>3, <1>5
  <2>3. QED
    BY <1>4, <2>1, <2>2, FittingKnown
<1>6. slots' \in Seq(0 .. nextLocalIndex - 1)
  BY <1>1, <1>2, <1>3, <1>5, SlotsOfAllAdded
<1>7. QED
  BY <1>1, <1>2, <1>6, DoneStep

LEMMA PrintStep == ASSUME Inv, analyzePrintStmt PROVE Inv'
<1>1. Analyzing("print") /\ Then(<<Item("printArgument", Node)>>)
      /\ UNCHANGED <<program, analyzed, tableVars, depthVars>> /\ UNCHANGED <<hasReturn, diagnostic, slots>>
  BY DEF analyzePrintStmt
<1>2. /\ work # <<>> /\ Top.task # "endFunction" /\ Top.task \notin Enders
      /\ Node.kind = "print" /\ Node \in Stmts
  BY <1>1, AnalyzingFacts
<1> DEFINE items == <<Item("printArgument", Node)>>
<1>3. Item("printArgument", Node) \in Items /\ Item("printArgument", Node).task = "printArgument"
  BY <1>2 DEF Item, Items, ItemOK, Tasks
<1>4. "printArgument" \notin Enders
  BY DEF Enders, LoopEnds, SwitchEnds, ScopeEnds
<1>5. items \in Seq(Items) /\ \A i \in 1 .. Len(items) : items[i].task \notin Enders
  BY <1>3, <1>4
<1>6. QED
  BY <1>1, <1>2, <1>5, Kept, PlainStep

LEMMA PrintingFacts ==
    ASSUME Inv, Running("printArgument")
    PROVE  /\ work # <<>>
           /\ Top.task # "endFunction" /\ Top.task \notin Enders
           /\ Top \in Items /\ Top.index \in Nat \ {0}
           /\ Top.task = "printArgument"
           /\ Node \in Stmts /\ Node.kind = "print" /\ Node.values \in Seq(Exprs)
<1>1. work # <<>> /\ Top.task = "printArgument"
  BY DEF Running
<1>2. Top.task # "endFunction" /\ Top.task \notin Enders
  BY <1>1 DEF Enders, LoopEnds, SwitchEnds, ScopeEnds
<1>3. Top \in Items /\ Top.index \in Nat \ {0}
  BY <1>1, Running_
<1>4. Node.kind = "print"
  BY <1>1, <1>3 DEF Items, ItemOK, Node
<1>5. Node \in Stmts /\ StmtClosed(Node)
  BY <1>1, <1>2, NodeTyped
<1>6. Node.values \in Seq(Exprs)
  BY <1>4, <1>5 DEF StmtClosed
<1>7. QED
  BY <1>1, <1>2, <1>3, <1>4, <1>5, <1>6

LEMMA PrintArgumentStep == ASSUME Inv, PrintArgument PROVE Inv'
<1> DEFINE next == [Top EXCEPT !.index = @ + 1]
           items == <<next>>
<1>1. /\ Running("printArgument") /\ Top.index <= Len(Node.values)
      /\ analyzeExpr(Argument) \in ValueTypes
      /\ slots' = slots \o SlotsOf(Argument) /\ Then(items)
      /\ UNCHANGED <<program, analyzed, tableVars, depthVars>> /\ UNCHANGED <<hasReturn, diagnostic>>
  BY DEF PrintArgument, Printing
<1>2. /\ work # <<>> /\ Top.task # "endFunction" /\ Top.task \notin Enders
      /\ Top \in Items /\ Top.index \in Nat \ {0} /\ Node.values \in Seq(Exprs)
  BY <1>1, PrintingFacts
<1>3. Argument \in Exprs /\ analyzeExpr(Argument) # "unknown"
  BY <1>1, <1>2 DEF Argument, ValueTypes
<1>4. slots' \in Seq(0 .. nextLocalIndex - 1)
  BY <1>1, <1>2, <1>3, SlotsAdded
<1>5. next \in Items /\ next.task = Top.task
  BY <1>2 DEF Items, ItemOK
<1> HIDE DEF next
<1>6. items \in Seq(Items) /\ \A i \in 1 .. Len(items) : items[i].task \notin Enders
  BY <1>2, <1>5
<1>7. QED
  BY <1>1, <1>2, <1>4, <1>6, Kept, PlainStep

LEMMA PrintArgumentFailsStep == ASSUME Inv, PrintArgumentFails PROVE Inv'
<1>1. /\ Running("printArgument") /\ Fail("print") /\ Then(<<>>)
      /\ UNCHANGED <<program, analyzed, tableVars, depthVars>> /\ UNCHANGED <<hasReturn, slots>>
  BY DEF PrintArgumentFails, Printing
<1>2. diagnostic' = NoMessage => diagnostic = NoMessage
  BY <1>1 DEF Fail, NoMessage
<1>3. QED
  BY <1>1, <1>2, PrintingFacts, Kept, DoneStep

LEMMA PrintedStep == ASSUME Inv, Printed PROVE Inv'
<1>1. /\ Running("printArgument") /\ Then(<<>>)
      /\ UNCHANGED <<program, analyzed, tableVars, depthVars>>
      /\ UNCHANGED <<hasReturn, diagnostic, slots>>
  BY DEF Printed
<1>2. QED
  BY <1>1, PrintingFacts, Kept, DoneStep

-----------------------------------------------------------------------------
(* The declaration of a variable.                                          *)

\* The declared variable has a type, and the initializer one that goes with it.
LEMMA DeclaredTyped ==
    ASSUME Inv, Analyzing("varDecl")
    PROVE  /\ DeclaredType(Node) \in ValueTypes
           /\ slots \o SlotsOfAll(Node.values) \in Seq(0 .. nextLocalIndex - 1)
<1>1. work # <<>> /\ Node.kind = "varDecl" /\ Accepted(Node) /\ StmtClosed(Node)
  BY AnalyzingFacts
<1>2. Node.values \in Seq(Exprs) /\ Node.type \in Types /\ Declares(Node)
  BY <1>1 DEF StmtClosed, Accepted
<1>3. CASE Node.type = "unknown"
  <2>1. Node.values # <<>> /\ analyzeExpr(Node.values[1]) \notin {"unknown", "void"}
    BY <1>2, <1>3 DEF Declares
  <2>2. Node.values[1] \in Exprs
    BY <1>2, <2>1
  <2>3. analyzeExpr(Node.values[1]) \in Types
    BY <2>2, ExprOK DEF Inv, TypeOK
  <2>4. QED
    BY <1>1, <1>2, <1>3, <2>1, <2>3, SlotsOfAllAdded DEF DeclaredType, ValueTypes
<1>4. CASE Node.type # "unknown"
  <2>1. DeclaredType(Node) \in ValueTypes
    BY <1>2, <1>4 DEF DeclaredType, Declares, ValueTypes
  <2>2. ASSUME Node.values # <<>> PROVE analyzeExpr(Node.values[1]) # "unknown"
    <3>1. Node.values[1] \in Exprs /\ Fits(Node.values[1], Node.type)
      BY <1>2, <1>4, <2>2 DEF Declares
    <3>2. QED
      BY <1>4, <3>1, FittingKnown
  <2>3. QED
    BY <1>1, <1>2, <2>1, <2>2, SlotsOfAllAdded
<1>5. QED
  BY <1>3, <1>4

\* The new symbol goes into the last scope, and no other has its slot.
LEMMA Declared ==
    ASSUME Inv, work # <<>>, NEW name \in Names, NEW type \in ValueTypes, NEW isMutable \in BOOLEAN,
           declareVariable(name, type, isMutable)
    PROVE  /\ nextLocalIndex' = nextLocalIndex + 1
           /\ scopes' \in Seq(ScopesBelow(nextLocalIndex'))
           /\ Len(scopes') = Len(scopes)
           /\ SlotsApart'
<1> DEFINE n == nextLocalIndex
           old == scopes[Len(scopes)]
           new == [m \in DOMAIN old \cup {name} |->
                      IF m = name THEN Symbol(type, n, isMutable) ELSE old[m]]
           R   == [type : ValueTypes, localIndex : 0 .. n, isMutable : BOOLEAN]
<1>1. /\ scopes \in Seq(ScopesBelow(n)) /\ Len(scopes) \in Nat \ {0} /\ n \in Nat
      /\ DOMAIN scopes = 1 .. Len(scopes)
  BY Running_ DEF Inv, TypeOK
<1>2. scopes' = [scopes EXCEPT ![Len(scopes)] = new] /\ nextLocalIndex' = n + 1
  BY DEF declareVariable
<1>3. old \in ScopesBelow(n)
  BY <1>1
<1>4. /\ DOMAIN old \in SUBSET Names
      /\ \A m \in DOMAIN old : old[m] \in R /\ old[m].localIndex \in 0 .. n - 1
  <2>1. PICK D \in SUBSET Names :
            old \in [D -> [type : ValueTypes, localIndex : 0 .. n - 1, isMutable : BOOLEAN]]
    BY <1>3 DEF ScopesBelow
  <2> HIDE DEF old
  <2>2. \A m \in D : old[m] \in [type : ValueTypes, localIndex : 0 .. n - 1, isMutable : BOOLEAN]
    BY <2>1
  <2>3. 0 .. n - 1 \subseteq 0 .. n
    BY <1>1
  <2>4. \A m \in D : old[m] \in R /\ old[m].localIndex \in 0 .. n - 1
    BY <2>2, <2>3
  <2>5. DOMAIN old = D
    BY <2>1
  <2>6. QED
    BY <2>4, <2>5
<1>5. Symbol(type, n, isMutable) \in R /\ Symbol(type, n, isMutable).localIndex = n
  BY <1>1 DEF Symbol
<1>6. /\ DOMAIN new = DOMAIN old \cup {name}
      /\ \A m \in DOMAIN new : new[m] = IF m = name THEN Symbol(type, n, isMutable) ELSE old[m]
  OBVIOUS
<1>7. \A m \in DOMAIN new : new[m] \in R
  <2> HIDE DEF new, old, R
  <2>1. QED
    BY <1>4, <1>5, <1>6
<1>8. new \in ScopesBelow(n + 1)
  <2>1. new = [m \in DOMAIN new |-> new[m]]
    BY <1>6
  <2> HIDE DEF new, old
  <2>2. DOMAIN new \in SUBSET Names
    BY <1>4, <1>6
  <2>3. new \in [DOMAIN new -> R]
    BY <1>7, <2>1
  <2>4. 0 .. n = 0 .. (n + 1) - 1
    BY <1>1
  <2>5. R = [type : ValueTypes, localIndex : 0 .. (n + 1) - 1, isMutable : BOOLEAN]
    BY <2>4, Zenon
  <2> HIDE DEF R
  <2>6. QED
    BY <2>2, <2>3, <2>5, Zenon DEF ScopesBelow
<1>9. scopes \in Seq(ScopesBelow(n + 1))
  <2>1. ScopesBelow(n) \subseteq ScopesBelow(n + 1)
    BY <1>1, ScopesGrow
  <2>2. QED
    BY <1>1, <2>1, SeqMonotonic
<1> HIDE DEF new
<1>10. /\ scopes' \in Seq(ScopesBelow(n + 1))
       /\ Len(scopes') = Len(scopes)
       /\ \A i \in DOMAIN scopes : scopes'[i] = IF i = Len(scopes) THEN new ELSE scopes[i]
       /\ DOMAIN scopes' = DOMAIN scopes
  BY <1>1, <1>2, <1>8, <1>9
<1>11. ASSUME NEW i \in DOMAIN scopes', NEW m \in DOMAIN scopes'[i]
       PROVE  \/ i = Len(scopes) /\ m = name /\ scopes'[i][m].localIndex = n
              \/ /\ i \in DOMAIN scopes /\ m \in DOMAIN scopes[i]
                 /\ scopes'[i][m].localIndex = scopes[i][m].localIndex
                 /\ scopes[i][m].localIndex \in 0 .. n - 1
  <2>1. i \in DOMAIN scopes /\ scopes[i] \in ScopesBelow(n)
    BY <1>1, <1>10
  <2>2. CASE i # Len(scopes)
    BY <1>1, <1>10, <2>1, <2>2, ScopeFacts
  <2>3. CASE i = Len(scopes)
    <3>1. scopes'[i] = new /\ scopes[i] = old
      BY <1>10, <2>1, <2>3
    <3> HIDE DEF old
    <3>2. CASE m = name
      BY <1>5, <1>6, <2>3, <3>1, <3>2
    <3>3. CASE m # name
      <4>1. m \in DOMAIN old /\ new[m] = old[m]
        BY <1>6, <3>1, <3>3
      <4>2. old[m].localIndex \in 0 .. n - 1
        BY <1>4, <4>1
      <4>3. QED
        BY <2>1, <3>1, <4>1, <4>2
    <3>4. QED
      BY <3>2, <3>3
  <2>4. QED
    BY <2>2, <2>3
<1>12. SlotsApart'
  <2>1. SUFFICES ASSUME NEW i \in DOMAIN scopes', NEW j \in DOMAIN scopes',
                        NEW m \in DOMAIN scopes'[i], NEW k \in DOMAIN scopes'[j],
                        scopes'[i][m].localIndex = scopes'[j][k].localIndex
                 PROVE  i = j /\ m = k
    BY DEF SlotsApart
  <2>2. SlotsApart
    BY DEF Inv
  <2>3. \A x \in 0 .. n - 1 : x # n
    BY <1>1
  <2>4. QED
    BY <1>11, <2>1, <2>2, <2>3 DEF SlotsApart
<1>13. QED
  BY <1>2, <1>10, <1>12

LEMMA VarDeclStep == ASSUME Inv, analyzeVarDeclStmt PROVE Inv'
<1>1. /\ Analyzing("varDecl") /\ Then(<<>>)
      /\ declareVariable(Node.name, DeclaredType(Node), Node.isMutable)
      /\ slots' = slots \o SlotsOfAll(Node.values) \o <<nextLocalIndex>>
      /\ UNCHANGED <<program, analyzed, depthVars>> /\ UNCHANGED <<hasReturn, diagnostic>>
  BY DEF analyzeVarDeclStmt
<1>2. /\ work # <<>> /\ Top.task # "endFunction" /\ Top.task \notin Enders
      /\ Node.kind = "varDecl" /\ StmtClosed(Node)
  BY <1>1, AnalyzingFacts
<1>3. Node.name \in Names /\ Node.isMutable \in BOOLEAN
  BY <1>2 DEF StmtClosed
<1>4. /\ DeclaredType(Node) \in ValueTypes
      /\ slots \o SlotsOfAll(Node.values) \in Seq(0 .. nextLocalIndex - 1)
  BY <1>1, DeclaredTyped
<1>5. /\ nextLocalIndex' = nextLocalIndex + 1
      /\ scopes' \in Seq(ScopesBelow(nextLocalIndex'))
      /\ Len(scopes') = Len(scopes)
      /\ SlotsApart'
  BY <1>1, <1>2, <1>3, <1>4, Declared
<1>6. nextLocalIndex \in Nat /\ Len(scopes) \in Nat /\ loopDepth \in Nat /\ switchDepth \in Nat
  BY <1>2, Running_ DEF Inv, TypeOK
<1>7. slots' \in Seq(0 .. nextLocalIndex' - 1)
  <2> DEFINE front == slots \o SlotsOfAll(Node.values)
  <2>1. front \in Seq(0 .. nextLocalIndex - 1)
    BY <1>4
  <2>2. 0 .. nextLocalIndex - 1 \subseteq 0 .. nextLocalIndex' - 1 /\ nextLocalIndex \in 0 .. nextLocalIndex' - 1
    BY <1>5, <1>6
  <2> HIDE DEF front
  <2>3. front \in Seq(0 .. nextLocalIndex' - 1)
    BY <2>1, <2>2, SeqMonotonic
  <2>4. <<nextLocalIndex>> \in Seq(0 .. nextLocalIndex' - 1)
    BY <2>2
  <2>5. front \o <<nextLocalIndex>> \in Seq(0 .. nextLocalIndex' - 1)
    BY <2>3, <2>4, ConcatElements
  <2>6. QED
    BY <1>1, <2>5 DEF front
<1>8. loopDepth' = loopDepth /\ switchDepth' = switchDepth
  BY <1>1 DEF depthVars
<1>9. \A tasks \in {LoopEnds, SwitchEnds, ScopeEnds} :
          One(LastIn(<<>>, tasks)) = 0 /\ One(Top.task \in tasks) = 0
  BY <1>2, NoItems DEF One, Enders
<1>10. /\ loopDepth' = loopDepth - One(Top.task \in LoopEnds) + One(LastIn(<<>>, LoopEnds))
       /\ switchDepth' = switchDepth - One(Top.task \in SwitchEnds) + One(LastIn(<<>>, SwitchEnds))
       /\ Len(scopes') = Len(scopes) - One(Top.task \in ScopeEnds) + One(LastIn(<<>>, ScopeEnds))
       /\ Len(scopes') >= Len(scopes) - One(Top.task \in ScopeEnds) + One(LastIn(<<>>, ScopeEnds))
       /\ nextLocalIndex' >= nextLocalIndex /\ nextLocalIndex' \in Nat
  BY <1>5, <1>6, <1>8, <1>9
<1>11. /\ \A i \in 1 .. Len(<<>>) - 1 : <<>>[i].task \notin Enders
       /\ \A i \in 1 .. Len(<<>>) : <<>>[i].task # "endFunction"
  OBVIOUS
<1>12. hasReturn' \in BOOLEAN /\ (diagnostic' = NoMessage => diagnostic = NoMessage)
  BY <1>1, Kept
<1>13. UNCHANGED <<program, analyzed>>
  BY <1>1
<1>14. QED
  BY <1>1, <1>2, <1>5, <1>7, <1>10, <1>11, <1>12, <1>13, NoItems, Step

-----------------------------------------------------------------------------
(* The steps that open and close scopes, loops and switches.               *)

\* A step that adds no variable: Step, with what stays the same worked out.
LEMMA ContextStep ==
    ASSUME Inv, work # <<>>, Top.task # "endFunction",
           NEW items \in Seq(Items), Then(items),
           \A i \in 1 .. Len(items) - 1 : items[i].task \notin Enders,
           \A i \in 1 .. Len(items) : items[i].task # "endFunction",
           UNCHANGED <<program, analyzed, nextLocalIndex, hasReturn>>,
           scopes' \in Seq(ScopesBelow(nextLocalIndex)), SlotsApart',
           slots' \in Seq(0 .. nextLocalIndex - 1),
           loopDepth' = loopDepth - One(Top.task \in LoopEnds) + One(LastIn(items, LoopEnds)),
           switchDepth' = switchDepth - One(Top.task \in SwitchEnds) + One(LastIn(items, SwitchEnds)),
           diagnostic' = NoMessage => diagnostic = NoMessage,
           Len(scopes') >= Len(scopes) - One(Top.task \in ScopeEnds) + One(LastIn(items, ScopeEnds)),
           diagnostic' = NoMessage =>
               Len(scopes') = Len(scopes) - One(Top.task \in ScopeEnds)
                                + One(LastIn(items, ScopeEnds))
    PROVE  Inv'
<1>1. nextLocalIndex \in Nat /\ hasReturn \in BOOLEAN
  BY DEF Inv, TypeOK
<1>2. /\ nextLocalIndex' = nextLocalIndex /\ nextLocalIndex' \in Nat /\ nextLocalIndex' >= nextLocalIndex
      /\ hasReturn' \in BOOLEAN
      /\ UNCHANGED <<program, analyzed>>
  BY <1>1
<1>3. QED
  BY <1>2, Step

LEMMA Depths ==
    ASSUME Inv
    PROVE  loopDepth \in Nat /\ switchDepth \in Nat /\ Len(scopes) \in Nat
           /\ scopes \in Seq(ScopesBelow(nextLocalIndex)) /\ SlotsApart
  BY DEF Inv, TypeOK

LEMMA BlockStep == ASSUME Inv, analyzeBlock PROVE Inv'
<1> DEFINE items == AnalyzeAll(Node.body) \o <<Item("endBlock", Node)>>
<1>1. /\ Analyzing("block") /\ beginScope /\ Then(items)
      /\ UNCHANGED <<program, analyzed, nextLocalIndex, hasReturn>>
      /\ UNCHANGED <<loopDepth, switchDepth>> /\ UNCHANGED <<diagnostic, slots>>
  BY DEF analyzeBlock, depthVars
<1>2. work # <<>> /\ Top.task = "analyzeStmt" /\ Node \in Stmts /\ Node.body \in Seq(Stmts)
  BY <1>1, AnalyzingFacts DEF StmtClosed
<1>3. Item("endBlock", Node) \in Items /\ Item("endBlock", Node).task = "endBlock"
  BY <1>2 DEF Item, Items, ItemOK, Tasks
<1>4. /\ items \in Seq(Items)
      /\ \A i \in 1 .. Len(items) - 1 : items[i].task \notin Enders
      /\ \A i \in 1 .. Len(items) : items[i].task # "endFunction"
      /\ \A tasks : LastIn(items, tasks) <=> "endBlock" \in tasks
  BY <1>2, <1>3, AnalyzeOK, EndsWith
<1> HIDE DEF items
<1>5. /\ ~LastIn(items, LoopEnds) /\ ~LastIn(items, SwitchEnds) /\ LastIn(items, ScopeEnds)
      /\ Top.task \notin LoopEnds /\ Top.task \notin SwitchEnds /\ Top.task \notin ScopeEnds
  BY <1>2, <1>4 DEF LoopEnds, SwitchEnds, ScopeEnds
<1>6. /\ loopDepth' = loopDepth - One(Top.task \in LoopEnds) + One(LastIn(items, LoopEnds))
      /\ switchDepth' = switchDepth - One(Top.task \in SwitchEnds) + One(LastIn(items, SwitchEnds))
  BY <1>1, <1>5, Depths DEF One
<1>7. scopes' \in Seq(ScopesBelow(nextLocalIndex)) /\ Len(scopes') = Len(scopes) + 1 /\ SlotsApart'
  BY <1>1, <1>2, Pushed
<1>8. Len(scopes') = Len(scopes) - One(Top.task \in ScopeEnds) + One(LastIn(items, ScopeEnds))
  BY <1>5, <1>7, Depths DEF One
<1>9. Len(scopes') >= Len(scopes) - One(Top.task \in ScopeEnds) + One(LastIn(items, ScopeEnds))
  BY <1>7, <1>8, Depths
<1>10. QED
  BY <1>1, <1>2, <1>4, <1>6, <1>7, <1>8, <1>9, Kept, ContextStep

LEMMA EndBlockStep == ASSUME Inv, EndBlock PROVE Inv'
<1>1. /\ work # <<>> /\ Top.task = "endBlock" /\ endScope /\ Then(<<>>)
      /\ UNCHANGED <<program, analyzed, nextLocalIndex, hasReturn>>
      /\ UNCHANGED <<loopDepth, switchDepth>> /\ UNCHANGED <<diagnostic, slots>>
  BY DEF EndBlock, Running, depthVars
<1>2. /\ ~LastIn(<<>>, LoopEnds) /\ ~LastIn(<<>>, SwitchEnds) /\ ~LastIn(<<>>, ScopeEnds)
      /\ Top.task \notin LoopEnds /\ Top.task \notin SwitchEnds /\ Top.task \in ScopeEnds
  BY <1>1, NoItems DEF LoopEnds, SwitchEnds, ScopeEnds
<1>3. /\ loopDepth' = loopDepth - One(Top.task \in LoopEnds) + One(LastIn(<<>>, LoopEnds))
      /\ switchDepth' = switchDepth - One(Top.task \in SwitchEnds) + One(LastIn(<<>>, SwitchEnds))
  BY <1>1, <1>2, Depths DEF One
<1>4. scopes' \in Seq(ScopesBelow(nextLocalIndex)) /\ Len(scopes') = Len(scopes) - 1 /\ SlotsApart'
  BY <1>1, Popped
<1>5. Len(scopes') = Len(scopes) - One(Top.task \in ScopeEnds) + One(LastIn(<<>>, ScopeEnds))
  BY <1>2, <1>4, Depths DEF One
<1>6. Len(scopes') >= Len(scopes) - One(Top.task \in ScopeEnds) + One(LastIn(<<>>, ScopeEnds))
  BY <1>4, <1>5, Depths
<1>7. /\ \A i \in 1 .. Len(<<>>) - 1 : <<>>[i].task \notin Enders
      /\ \A i \in 1 .. Len(<<>>) : <<>>[i].task # "endFunction"
  OBVIOUS
<1>8. QED
  BY <1>1, <1>3, <1>4, <1>5, <1>6, <1>7, Kept, NoItems, ContextStep

LEMMA WhileStep == ASSUME Inv, analyzeWhileStmt PROVE Inv'
<1> DEFINE items == <<Analyze(Node.body), Item("endWhile", Node)>>
<1>1. /\ Analyzing("while")
      /\ scopes' = scopes /\ Then(items) /\ slots' = slots \o SlotsOf(Node.value)
      /\ UNCHANGED <<program, analyzed, nextLocalIndex, hasReturn>>
      /\ loopDepth' = loopDepth + 1 /\ switchDepth' = switchDepth
      /\ UNCHANGED <<diagnostic>>
  BY DEF analyzeWhileStmt, depthVars, tableVars
<1>2. /\ work # <<>> /\ Top.task = "analyzeStmt" /\ Node \in Stmts
      /\ Node.kind = "while" /\ Node.body \in Stmts /\ Node.value \in Exprs /\ analyzeExpr(Node.value) # "unknown"
  BY <1>1, AnalyzingFacts DEF StmtClosed, Accepted
<1>3. Item("endWhile", Node) \in Items /\ Item("endWhile", Node).task = "endWhile"
  BY <1>2 DEF Item, Items, ItemOK, Tasks
<1>4. /\ items \in Seq(Items)
      /\ \A i \in 1 .. Len(items) - 1 : items[i].task \notin Enders
      /\ \A i \in 1 .. Len(items) : items[i].task # "endFunction"
      /\ \A tasks : LastIn(items, tasks) <=> "endWhile" \in tasks
  <2> DEFINE first == Analyze(Node.body)
             last  == Item("endWhile", Node)
  <2>1. /\ first \in Items /\ first.task = "analyzeStmt"
        /\ last \in Items /\ last.task = "endWhile"
    BY <1>2, <1>3 DEF Analyze, Item, Items, ItemOK, Tasks
  <2>2. "analyzeStmt" \notin Enders
    BY DEF Enders, LoopEnds, SwitchEnds, ScopeEnds
  <2>3. items = <<first, last>>
    OBVIOUS
  <2> HIDE DEF items, first, last
  <2>4. /\ items \in Seq(Items) /\ Len(items) = 2 /\ items # <<>>
        /\ items[1] = first /\ items[2] = last
    BY <2>1, <2>3
  <2>5. QED
    BY <2>1, <2>2, <2>4 DEF LastIn
<1> HIDE DEF items
<1>5. /\ LastIn(items, LoopEnds) /\ ~LastIn(items, SwitchEnds) /\ ~LastIn(items, ScopeEnds)
      /\ Top.task \notin LoopEnds /\ Top.task \notin SwitchEnds /\ Top.task \notin ScopeEnds
      /\ Top.task # "endFunction"
  BY <1>2, <1>4 DEF LoopEnds, SwitchEnds, ScopeEnds
<1>6. /\ loopDepth' = loopDepth - One(Top.task \in LoopEnds) + One(LastIn(items, LoopEnds))
      /\ switchDepth' = switchDepth - One(Top.task \in SwitchEnds) + One(LastIn(items, SwitchEnds))
  BY <1>1, <1>5, Depths DEF One
<1>7. scopes' \in Seq(ScopesBelow(nextLocalIndex)) /\ Len(scopes') = Len(scopes) /\ SlotsApart'
  BY <1>1, Depths DEF SlotsApart
<1>8. Len(scopes') = Len(scopes) - One(Top.task \in ScopeEnds) + One(LastIn(items, ScopeEnds))
  BY <1>5, <1>7, Depths DEF One
<1>9. Len(scopes') >= Len(scopes) - One(Top.task \in ScopeEnds) + One(LastIn(items, ScopeEnds))
  BY <1>7, <1>8, Depths
<1>10. slots' \in Seq(0 .. nextLocalIndex - 1)
  BY <1>1, <1>2, SlotsAdded
<1>11. QED
  BY <1>1, <1>2, <1>4, <1>5, <1>6, <1>7, <1>8, <1>9, <1>10, ContextStep

LEMMA EndWhileStep == ASSUME Inv, EndWhile PROVE Inv'
<1>1. /\ work # <<>> /\ Top.task = "endWhile"
      /\ scopes' = scopes /\ Then(<<>>)
      /\ UNCHANGED <<program, analyzed, nextLocalIndex, hasReturn>>
      /\ loopDepth' = loopDepth - 1 /\ switchDepth' = switchDepth
      /\ UNCHANGED <<diagnostic, slots>>
  BY DEF EndWhile, depthVars, tableVars, Running
<1>2. work # <<>> /\ Top.task = "endWhile"
  BY <1>1
<1>4. /\ \A i \in 1 .. Len(<<>>) - 1 : <<>>[i].task \notin Enders
      /\ \A i \in 1 .. Len(<<>>) : <<>>[i].task # "endFunction"
  OBVIOUS
<1>5. /\ ~LastIn(<<>>, LoopEnds) /\ ~LastIn(<<>>, SwitchEnds) /\ ~LastIn(<<>>, ScopeEnds)
      /\ Top.task \in LoopEnds /\ Top.task \notin SwitchEnds /\ Top.task \notin ScopeEnds
      /\ Top.task # "endFunction"
  BY <1>2, NoItems DEF LoopEnds, SwitchEnds, ScopeEnds
<1>6. /\ loopDepth' = loopDepth - One(Top.task \in LoopEnds) + One(LastIn(<<>>, LoopEnds))
      /\ switchDepth' = switchDepth - One(Top.task \in SwitchEnds) + One(LastIn(<<>>, SwitchEnds))
  BY <1>1, <1>5, Depths DEF One
<1>7. scopes' \in Seq(ScopesBelow(nextLocalIndex)) /\ Len(scopes') = Len(scopes) /\ SlotsApart'
  BY <1>1, Depths DEF SlotsApart
<1>8. Len(scopes') = Len(scopes) - One(Top.task \in ScopeEnds) + One(LastIn(<<>>, ScopeEnds))
  BY <1>5, <1>7, Depths DEF One
<1>9. Len(scopes') >= Len(scopes) - One(Top.task \in ScopeEnds) + One(LastIn(<<>>, ScopeEnds))
  BY <1>7, <1>8, Depths
<1>10. slots' \in Seq(0 .. nextLocalIndex - 1)
  BY <1>1, Kept
<1>11. QED
  BY <1>1, <1>2, <1>4, <1>5, <1>6, <1>7, <1>8, <1>9, <1>10, NoItems, ContextStep

LEMMA ForStep == ASSUME Inv, analyzeForStmt PROVE Inv'
<1> DEFINE items == AnalyzeAll(Node.initializer) \o <<Item("forCondition", Node)>>
<1>1. /\ Analyzing("for")
      /\ beginScope /\ Then(items)
      /\ UNCHANGED <<program, analyzed, nextLocalIndex, hasReturn>>
      /\ UNCHANGED <<loopDepth, switchDepth>>
      /\ UNCHANGED <<diagnostic, slots>>
  BY DEF analyzeForStmt, depthVars, tableVars
<1>2. /\ work # <<>> /\ Top.task = "analyzeStmt" /\ Node \in Stmts
      /\ Node.kind = "for" /\ Node.initializer \in Seq(Stmts)
  BY <1>1, AnalyzingFacts DEF StmtClosed, Accepted
<1>3. Item("forCondition", Node) \in Items /\ Item("forCondition", Node).task = "forCondition"
  BY <1>2 DEF Item, Items, ItemOK, Tasks
<1>4. /\ items \in Seq(Items)
      /\ \A i \in 1 .. Len(items) - 1 : items[i].task \notin Enders
      /\ \A i \in 1 .. Len(items) : items[i].task # "endFunction"
      /\ \A tasks : LastIn(items, tasks) <=> "forCondition" \in tasks
  BY <1>2, <1>3, AnalyzeOK, EndsWith
<1> HIDE DEF items
<1>5. /\ ~LastIn(items, LoopEnds) /\ ~LastIn(items, SwitchEnds) /\ LastIn(items, ScopeEnds)
      /\ Top.task \notin LoopEnds /\ Top.task \notin SwitchEnds /\ Top.task \notin ScopeEnds
      /\ Top.task # "endFunction"
  BY <1>2, <1>4 DEF LoopEnds, SwitchEnds, ScopeEnds
<1>6. /\ loopDepth' = loopDepth - One(Top.task \in LoopEnds) + One(LastIn(items, LoopEnds))
      /\ switchDepth' = switchDepth - One(Top.task \in SwitchEnds) + One(LastIn(items, SwitchEnds))
  BY <1>1, <1>5, Depths DEF One
<1>7. scopes' \in Seq(ScopesBelow(nextLocalIndex)) /\ Len(scopes') = Len(scopes) + 1 /\ SlotsApart'
  BY <1>1, <1>2, Pushed
<1>8. Len(scopes') = Len(scopes) - One(Top.task \in ScopeEnds) + One(LastIn(items, ScopeEnds))
  BY <1>5, <1>7, Depths DEF One
<1>9. Len(scopes') >= Len(scopes) - One(Top.task \in ScopeEnds) + One(LastIn(items, ScopeEnds))
  BY <1>7, <1>8, Depths
<1>10. slots' \in Seq(0 .. nextLocalIndex - 1)
  BY <1>1, Kept
<1>11. QED
  BY <1>1, <1>2, <1>4, <1>5, <1>6, <1>7, <1>8, <1>9, <1>10, ContextStep

LEMMA ForConditionStep == ASSUME Inv, ForCondition PROVE Inv'
<1> DEFINE items == <<Analyze(Node.body)>> \o AnalyzeAll(Node.update) \o <<Item("endFor", Node)>>
<1>1. /\ work # <<>> /\ Top.task = "forCondition" /\ analyzeExpr(Node.value) = "bool"
      /\ scopes' = scopes /\ Then(items) /\ slots' = slots \o SlotsOf(Node.value)
      /\ UNCHANGED <<program, analyzed, nextLocalIndex, hasReturn>>
      /\ loopDepth' = loopDepth + 1 /\ switchDepth' = switchDepth
      /\ UNCHANGED <<diagnostic>>
  BY DEF ForCondition, depthVars, tableVars, Running
<1>2. /\ work # <<>> /\ Node \in Stmts /\ Node.kind = "for" /\ Node.value \in Exprs
      /\ Node.body \in Stmts /\ Node.update \in Seq(Stmts)
  <2>1. Node \in Stmts /\ StmtClosed(Node)
    BY <1>1, NodeTyped
  <2>2. Node.kind = "for"
    BY <1>1, Running_ DEF Items, ItemOK, Node
  <2>3. QED
    BY <1>1, <2>1, <2>2 DEF StmtClosed
<1>3. Item("endFor", Node) \in Items /\ Item("endFor", Node).task = "endFor"
  BY <1>2 DEF Item, Items, ItemOK, Tasks
<1>4. /\ items \in Seq(Items)
      /\ \A i \in 1 .. Len(items) - 1 : items[i].task \notin Enders
      /\ \A i \in 1 .. Len(items) : items[i].task # "endFunction"
      /\ \A tasks : LastIn(items, tasks) <=> "endFor" \in tasks
  <2> DEFINE first == AnalyzeAll(<<Node.body>>)
             rest  == AnalyzeAll(Node.update)
  <2>1. <<Node.body>> \in Seq(Stmts) /\ first = <<Analyze(Node.body)>>
    BY <1>2 DEF AnalyzeAll
  <2>2. items = (first \o rest) \o <<Item("endFor", Node)>>
    BY <2>1
  <2>3. /\ first \in Seq(Items) /\ \A i \in 1 .. Len(first) : first[i].task = "analyzeStmt"
        /\ rest \in Seq(Items) /\ \A i \in 1 .. Len(rest) : rest[i].task = "analyzeStmt"
    BY <1>2, <2>1, AnalyzeOK
  <2> HIDE DEF items, first, rest
  <2>4. /\ first \o rest \in Seq(Items)
        /\ \A i \in 1 .. Len(first \o rest) : (first \o rest)[i].task = "analyzeStmt"
    <3>1. /\ first \o rest \in Seq(Items)
          /\ Len(first \o rest) = Len(first) + Len(rest)
          /\ \A i \in 1 .. Len(first) : (first \o rest)[i] = first[i]
          /\ \A i \in Len(first) + 1 .. Len(first) + Len(rest) :
                 (first \o rest)[i] = rest[i - Len(first)]
      BY <2>3, ConcatElements
    <3>2. Len(first) \in Nat /\ Len(rest) \in Nat
      BY <2>3
    <3>3. QED
      BY <2>3, <3>1, <3>2
  <2>5. Item("endFor", Node).task # "endFunction"
    BY <1>3
  <2> DEFINE front == first \o rest
             last  == Item("endFor", Node)
  <2>6. /\ front \in Seq(Items) /\ \A i \in 1 .. Len(front) : front[i].task = "analyzeStmt"
        /\ last \in Items /\ last.task = "endFor" /\ last.task # "endFunction"
        /\ items = front \o <<last>>
    BY <1>3, <2>2, <2>4, <2>5
  <2> HIDE DEF front, last
  <2>7. QED
    BY <2>6, EndsWith
<1> HIDE DEF items
<1>5. /\ LastIn(items, LoopEnds) /\ ~LastIn(items, SwitchEnds) /\ LastIn(items, ScopeEnds)
      /\ Top.task \notin LoopEnds /\ Top.task \notin SwitchEnds /\ Top.task \in ScopeEnds
      /\ Top.task # "endFunction"
  BY <1>1, <1>4 DEF LoopEnds, SwitchEnds, ScopeEnds
<1>6. /\ loopDepth' = loopDepth - One(Top.task \in LoopEnds) + One(LastIn(items, LoopEnds))
      /\ switchDepth' = switchDepth - One(Top.task \in SwitchEnds) + One(LastIn(items, SwitchEnds))
  BY <1>1, <1>5, Depths DEF One
<1>7. scopes' \in Seq(ScopesBelow(nextLocalIndex)) /\ Len(scopes') = Len(scopes) /\ SlotsApart'
  BY <1>1, Depths DEF SlotsApart
<1>8. Len(scopes') = Len(scopes) - One(Top.task \in ScopeEnds) + One(LastIn(items, ScopeEnds))
  BY <1>5, <1>7, Depths DEF One
<1>9. Len(scopes') >= Len(scopes) - One(Top.task \in ScopeEnds) + One(LastIn(items, ScopeEnds))
  BY <1>7, <1>8, Depths
<1>10. slots' \in Seq(0 .. nextLocalIndex - 1)
  BY <1>1, <1>2, SlotsAdded
<1>11. QED
  BY <1>1, <1>2, <1>4, <1>5, <1>6, <1>7, <1>8, <1>9, <1>10, ContextStep

LEMMA ForConditionFailsStep == ASSUME Inv, ForConditionFails PROVE Inv'
<1>1. /\ work # <<>> /\ Top.task = "forCondition" /\ Fail("for")
      /\ scopes' = scopes /\ Then(<<>>)
      /\ UNCHANGED <<program, analyzed, nextLocalIndex, hasReturn>>
      /\ UNCHANGED <<loopDepth, switchDepth>>
      /\ UNCHANGED <<slots>>
  BY DEF ForConditionFails, depthVars, tableVars, Running
<1>2. work # <<>> /\ Top.task = "forCondition"
  BY <1>1
<1>4. /\ \A i \in 1 .. Len(<<>>) - 1 : <<>>[i].task \notin Enders
      /\ \A i \in 1 .. Len(<<>>) : <<>>[i].task # "endFunction"
  OBVIOUS
<1>5. /\ ~LastIn(<<>>, LoopEnds) /\ ~LastIn(<<>>, SwitchEnds) /\ ~LastIn(<<>>, ScopeEnds)
      /\ Top.task \notin LoopEnds /\ Top.task \notin SwitchEnds /\ Top.task \in ScopeEnds
      /\ Top.task # "endFunction"
  BY <1>2, NoItems DEF LoopEnds, SwitchEnds, ScopeEnds
<1>6. /\ loopDepth' = loopDepth - One(Top.task \in LoopEnds) + One(LastIn(<<>>, LoopEnds))
      /\ switchDepth' = switchDepth - One(Top.task \in SwitchEnds) + One(LastIn(<<>>, SwitchEnds))
  BY <1>1, <1>5, Depths DEF One
<1>7. scopes' \in Seq(ScopesBelow(nextLocalIndex)) /\ Len(scopes') = Len(scopes) /\ SlotsApart'
  BY <1>1, Depths DEF SlotsApart
<1>8. Len(scopes') >= Len(scopes) - One(Top.task \in ScopeEnds) + One(LastIn(<<>>, ScopeEnds))
  BY <1>5, <1>7, Depths DEF One
<1>9. diagnostic' # NoMessage
  BY <1>1 DEF Fail, NoMessage
<1>10. slots' \in Seq(0 .. nextLocalIndex - 1)
  BY <1>1, Kept
<1>11. QED
  BY <1>1, <1>2, <1>4, <1>5, <1>6, <1>7, <1>8, <1>9, <1>10, NoItems, ContextStep

LEMMA EndForStep == ASSUME Inv, EndFor PROVE Inv'
<1>1. /\ work # <<>> /\ Top.task = "endFor"
      /\ endScope /\ Then(<<>>)
      /\ UNCHANGED <<program, analyzed, nextLocalIndex, hasReturn>>
      /\ loopDepth' = loopDepth - 1 /\ switchDepth' = switchDepth
      /\ UNCHANGED <<diagnostic, slots>>
  BY DEF EndFor, depthVars, tableVars, Running
<1>2. work # <<>> /\ Top.task = "endFor"
  BY <1>1
<1>4. /\ \A i \in 1 .. Len(<<>>) - 1 : <<>>[i].task \notin Enders
      /\ \A i \in 1 .. Len(<<>>) : <<>>[i].task # "endFunction"
  OBVIOUS
<1>5. /\ ~LastIn(<<>>, LoopEnds) /\ ~LastIn(<<>>, SwitchEnds) /\ ~LastIn(<<>>, ScopeEnds)
      /\ Top.task \in LoopEnds /\ Top.task \notin SwitchEnds /\ Top.task \in ScopeEnds
      /\ Top.task # "endFunction"
  BY <1>2, NoItems DEF LoopEnds, SwitchEnds, ScopeEnds
<1>6. /\ loopDepth' = loopDepth - One(Top.task \in LoopEnds) + One(LastIn(<<>>, LoopEnds))
      /\ switchDepth' = switchDepth - One(Top.task \in SwitchEnds) + One(LastIn(<<>>, SwitchEnds))
  BY <1>1, <1>5, Depths DEF One
<1>7. scopes' \in Seq(ScopesBelow(nextLocalIndex)) /\ Len(scopes') = Len(scopes) - 1 /\ SlotsApart'
  BY <1>1, <1>2, Popped
<1>8. Len(scopes') = Len(scopes) - One(Top.task \in ScopeEnds) + One(LastIn(<<>>, ScopeEnds))
  BY <1>5, <1>7, Depths DEF One
<1>9. Len(scopes') >= Len(scopes) - One(Top.task \in ScopeEnds) + One(LastIn(<<>>, ScopeEnds))
  BY <1>7, <1>8, Depths
<1>10. slots' \in Seq(0 .. nextLocalIndex - 1)
  BY <1>1, Kept
<1>11. QED
  BY <1>1, <1>2, <1>4, <1>5, <1>6, <1>7, <1>8, <1>9, <1>10, NoItems, ContextStep

LEMMA SwitchStep == ASSUME Inv, analyzeSwitchStmt PROVE Inv'
<1> DEFINE items == AnalyzeAll(Node.body) \o <<Item("endSwitch", Node)>>
<1>1. /\ Analyzing("switch")
      /\ beginScope /\ Then(items) /\ slots' = slots \o SlotsOf(Node.value)
      /\ UNCHANGED <<program, analyzed, nextLocalIndex, hasReturn>>
      /\ switchDepth' = switchDepth + 1 /\ loopDepth' = loopDepth
      /\ UNCHANGED <<diagnostic>>
  BY DEF analyzeSwitchStmt, depthVars, tableVars
<1>2. /\ work # <<>> /\ Top.task = "analyzeStmt" /\ Node \in Stmts
      /\ Node.kind = "switch" /\ Node.body \in Seq(Stmts) /\ Node.value \in Exprs /\ analyzeExpr(Node.value) # "unknown"
  BY <1>1, AnalyzingFacts DEF StmtClosed, Accepted
<1>3. Item("endSwitch", Node) \in Items /\ Item("endSwitch", Node).task = "endSwitch"
  BY <1>2 DEF Item, Items, ItemOK, Tasks
<1>4. /\ items \in Seq(Items)
      /\ \A i \in 1 .. Len(items) - 1 : items[i].task \notin Enders
      /\ \A i \in 1 .. Len(items) : items[i].task # "endFunction"
      /\ \A tasks : LastIn(items, tasks) <=> "endSwitch" \in tasks
  BY <1>2, <1>3, AnalyzeOK, EndsWith
<1> HIDE DEF items
<1>5. /\ ~LastIn(items, LoopEnds) /\ LastIn(items, SwitchEnds) /\ LastIn(items, ScopeEnds)
      /\ Top.task \notin LoopEnds /\ Top.task \notin SwitchEnds /\ Top.task \notin ScopeEnds
      /\ Top.task # "endFunction"
  BY <1>2, <1>4 DEF LoopEnds, SwitchEnds, ScopeEnds
<1>6. /\ loopDepth' = loopDepth - One(Top.task \in LoopEnds) + One(LastIn(items, LoopEnds))
      /\ switchDepth' = switchDepth - One(Top.task \in SwitchEnds) + One(LastIn(items, SwitchEnds))
  BY <1>1, <1>5, Depths DEF One
<1>7. scopes' \in Seq(ScopesBelow(nextLocalIndex)) /\ Len(scopes') = Len(scopes) + 1 /\ SlotsApart'
  BY <1>1, <1>2, Pushed
<1>8. Len(scopes') = Len(scopes) - One(Top.task \in ScopeEnds) + One(LastIn(items, ScopeEnds))
  BY <1>5, <1>7, Depths DEF One
<1>9. Len(scopes') >= Len(scopes) - One(Top.task \in ScopeEnds) + One(LastIn(items, ScopeEnds))
  BY <1>7, <1>8, Depths
<1>10. slots' \in Seq(0 .. nextLocalIndex - 1)
  BY <1>1, <1>2, SlotsAdded
<1>11. QED
  BY <1>1, <1>2, <1>4, <1>5, <1>6, <1>7, <1>8, <1>9, <1>10, ContextStep

LEMMA EndSwitchStep == ASSUME Inv, EndSwitch PROVE Inv'
<1>1. /\ work # <<>> /\ Top.task = "endSwitch"
      /\ endScope /\ Then(<<>>)
      /\ UNCHANGED <<program, analyzed, nextLocalIndex, hasReturn>>
      /\ switchDepth' = switchDepth - 1 /\ loopDepth' = loopDepth
      /\ UNCHANGED <<diagnostic, slots>>
  BY DEF EndSwitch, depthVars, tableVars, Running
<1>2. work # <<>> /\ Top.task = "endSwitch"
  BY <1>1
<1>4. /\ \A i \in 1 .. Len(<<>>) - 1 : <<>>[i].task \notin Enders
      /\ \A i \in 1 .. Len(<<>>) : <<>>[i].task # "endFunction"
  OBVIOUS
<1>5. /\ ~LastIn(<<>>, LoopEnds) /\ ~LastIn(<<>>, SwitchEnds) /\ ~LastIn(<<>>, ScopeEnds)
      /\ Top.task \notin LoopEnds /\ Top.task \in SwitchEnds /\ Top.task \in ScopeEnds
      /\ Top.task # "endFunction"
  BY <1>2, NoItems DEF LoopEnds, SwitchEnds, ScopeEnds
<1>6. /\ loopDepth' = loopDepth - One(Top.task \in LoopEnds) + One(LastIn(<<>>, LoopEnds))
      /\ switchDepth' = switchDepth - One(Top.task \in SwitchEnds) + One(LastIn(<<>>, SwitchEnds))
  BY <1>1, <1>5, Depths DEF One
<1>7. scopes' \in Seq(ScopesBelow(nextLocalIndex)) /\ Len(scopes') = Len(scopes) - 1 /\ SlotsApart'
  BY <1>1, <1>2, Popped
<1>8. Len(scopes') = Len(scopes) - One(Top.task \in ScopeEnds) + One(LastIn(<<>>, ScopeEnds))
  BY <1>5, <1>7, Depths DEF One
<1>9. Len(scopes') >= Len(scopes) - One(Top.task \in ScopeEnds) + One(LastIn(<<>>, ScopeEnds))
  BY <1>7, <1>8, Depths
<1>10. slots' \in Seq(0 .. nextLocalIndex - 1)
  BY <1>1, Kept
<1>11. QED
  BY <1>1, <1>2, <1>4, <1>5, <1>6, <1>7, <1>8, <1>9, <1>10, NoItems, ContextStep

-----------------------------------------------------------------------------
(* The steps that open and close a function.                               *)

\* Each parameter has the slot of its first place.
LEMMA ParameterScopeOK ==
    ASSUME NEW ps \in Seq(Parameters)
    PROVE  /\ ParameterScope(ps) \in ScopesBelow(Len(ps))
           /\ \A m, n \in DOMAIN ParameterScope(ps) :
                  ParameterScope(ps)[m].localIndex = ParameterScope(ps)[n].localIndex => m = n
<1> DEFINE D == {ps[i].name : i \in DOMAIN ps}
           First(n, i) == ps[i].name = n /\ \A j \in 1 .. i - 1 : ps[j].name # n
           Place(n) == CHOOSE i \in DOMAIN ps : First(n, i)
           R == [type : ValueTypes, localIndex : 0 .. Len(ps) - 1, isMutable : BOOLEAN]
           sc == [n \in D |-> Symbol(ps[Place(n)].type, Place(n) - 1, TRUE)]
<1>1. DOMAIN ps = 1 .. Len(ps) /\ Len(ps) \in Nat
  OBVIOUS
<1>2. \A i \in DOMAIN ps : ps[i] \in Parameters
  OBVIOUS
<1>3. \A i \in DOMAIN ps : ps[i].name \in Names /\ ps[i].type \in ValueTypes
  BY <1>2 DEF Parameters
<1>4. ASSUME NEW n \in D
      PROVE  Place(n) \in DOMAIN ps /\ First(n, Place(n))
  <2> DEFINE T == {i \in 1 .. Len(ps) : ps[i].name = n}
  <2>1. \E i \in DOMAIN ps : First(n, i)
    <3>1. T # {} /\ T \in SUBSET Nat
      BY <1>1
    <3>2. PICK x \in T : \A y \in T : x <= y
      BY <3>1, Least
    <3>3. First(n, x)
      <4>1. ASSUME NEW j \in 1 .. x - 1 PROVE ps[j].name # n
        <5>1. j \in 1 .. Len(ps) /\ ~(x <= j)
          BY <1>1, <3>2
        <5>2. QED
          BY <3>2, <5>1
      <4>2. QED
        BY <3>2, <4>1
    <3>4. QED
      BY <1>1, <3>2, <3>3
  <2> HIDE DEF First
  <2>2. QED
    BY <2>1, Zenon
<1>5. ParameterScope(ps) = sc
  BY DEF ParameterScope
<1> HIDE DEF Place
<1>6. ASSUME NEW n \in D
      PROVE  sc[n] \in R /\ sc[n].localIndex = Place(n) - 1
  <2>1. Place(n) \in 1 .. Len(ps) /\ Place(n) - 1 \in 0 .. Len(ps) - 1
    BY <1>1, <1>4
  <2>2. ps[Place(n)].type \in ValueTypes
    BY <1>1, <1>3, <2>1
  <2>3. sc[n] = Symbol(ps[Place(n)].type, Place(n) - 1, TRUE)
    OBVIOUS
  <2>4. QED
    BY <2>1, <2>2, <2>3 DEF Symbol
<1>7. D \in SUBSET Names /\ DOMAIN sc = D
  BY <1>3
<1>8. sc \in [D -> R]
  <2>1. sc = [n \in D |-> sc[n]]
    OBVIOUS
  <2> HIDE DEF sc, D, R
  <2>2. QED
    BY <1>6, <2>1
<1>9. sc \in ScopesBelow(Len(ps))
  <2> HIDE DEF sc, D
  <2>1. QED
    BY <1>7, <1>8 DEF ScopesBelow
<1>10. ASSUME NEW m \in D, NEW n \in D, sc[m].localIndex = sc[n].localIndex
       PROVE  m = n
  <2>1. Place(m) \in 1 .. Len(ps) /\ Place(n) \in 1 .. Len(ps)
    BY <1>1, <1>4
  <2>2. Place(m) - 1 = Place(n) - 1
    BY <1>6, <1>10
  <2>3. Place(m) = Place(n)
    BY <2>1, <2>2
  <2>4. ps[Place(m)].name = m /\ ps[Place(n)].name = n
    BY <1>4
  <2>5. QED
    BY <2>3, <2>4
<1>11. \A m, n \in DOMAIN sc : sc[m].localIndex = sc[n].localIndex => m = n
  BY <1>7, <1>10
<1> HIDE DEF sc
<1>12. QED
  BY <1>5, <1>9, <1>11

\* A stack that only the end of a function is on, and a statement above it.
LEMMA FreshCounts ==
    ASSUME NEW w \in Seq(Items), Len(w) = 2, w[1].task = "endFunction", w[2].task = "analyzeStmt"
    PROVE  /\ Cardinality(Pending(w, LoopEnds)) = 0
           /\ Cardinality(Pending(w, SwitchEnds)) = 0
           /\ Cardinality(Pending(w, ScopeEnds)) = 1
<1>1. \A i \in DOMAIN w : i = 1 \/ i = 2
  OBVIOUS
<1>2. 1 \in DOMAIN w
  OBVIOUS
<1>3. Pending(w, LoopEnds) = {} /\ Pending(w, SwitchEnds) = {}
  BY <1>1 DEF Pending, LoopEnds, SwitchEnds
<1>4. Pending(w, ScopeEnds) = {1}
  BY <1>1, <1>2 DEF Pending, ScopeEnds
<1>5. Cardinality({}) = 0
  BY FS_EmptySet
<1>6. Cardinality({1}) = 1
  BY FS_Singleton
<1>7. QED
  BY <1>3, <1>4, <1>5, <1>6

LEMMA FunctionStep == ASSUME Inv, analyzeFunction PROVE Inv'
<1> DEFINE ps == Function.parameters
           bottom == Item("endFunction", NoNode)
           body   == Analyze(Function.body)
<1>1. /\ work = <<>> /\ Len(analyzed) < Len(program)
      /\ scopes' = <<ParameterScope(ps)>> /\ nextLocalIndex' = Len(ps)
      /\ loopDepth' = 0 /\ switchDepth' = 0 /\ hasReturn' = FALSE /\ slots' = <<>>
      /\ diagnostic' = diagnostic \/ (diagnostic' # NoMessage)
      /\ work' = <<bottom, body>>
      /\ UNCHANGED <<program, analyzed>>
  BY DEF analyzeFunction, Fail, NoMessage
<1>2. TypeOK /\ SlotsExist
  BY DEF Inv
<1>3. ps \in Seq(Parameters) /\ Function.body \in Stmts
  BY <1>1, <1>2, FunctionTyped
<1>4. Len(ps) \in Nat
  BY <1>3
<1>5. /\ bottom \in Items /\ bottom.task = "endFunction"
      /\ body \in Items /\ body.task = "analyzeStmt"
  BY <1>3 DEF Item, Analyze, Items, ItemOK, Tasks
<1> HIDE DEF bottom, body
<1>6. /\ work' \in Seq(Items) /\ Len(work') = 2
      /\ work'[1].task = "endFunction" /\ work'[2].task = "analyzeStmt"
  BY <1>1, <1>5
<1>7. ParameterScope(ps) \in ScopesBelow(Len(ps))
  BY <1>3, ParameterScopeOK
<1>8. /\ scopes' \in Seq(ScopesBelow(nextLocalIndex')) /\ Len(scopes') = 1
      /\ scopes'[1] = ParameterScope(ps) /\ DOMAIN scopes' = {1}
  <2> DEFINE sc == ParameterScope(ps)
  <2> HIDE DEF sc, ps
  <2>1. sc \in ScopesBelow(nextLocalIndex') /\ scopes' = <<sc>>
    BY <1>1, <1>7 DEF sc
  <2>2. QED
    BY <2>1 DEF sc
<1>9. TypeOK'
  <2>1. /\ program' \in Programs
        /\ analyzed' \in Seq([localCount : Nat, slots : Seq(Nat)])
        /\ Len(analyzed') <= Len(program')
    BY <1>1, <1>2 DEF TypeOK
  <2>2. /\ nextLocalIndex' \in Nat /\ loopDepth' \in Nat /\ switchDepth' \in Nat
        /\ hasReturn' \in BOOLEAN
    BY <1>1, <1>4
  <2>3. slots' \in Seq(0 .. nextLocalIndex' - 1)
    BY <1>1
  <2>4. QED
    BY <1>6, <1>8, <2>1, <2>2, <2>3 DEF TypeOK
<1>10. ContextsMatched'
  <2>1. /\ Cardinality(Pending(work', LoopEnds)) = 0
        /\ Cardinality(Pending(work', SwitchEnds)) = 0
        /\ Cardinality(Pending(work', ScopeEnds)) = 1
    BY <1>6, FreshCounts
  <2>2. QED
    BY <1>1, <1>8, <2>1 DEF ContextsMatched
<1>11. FunctionOpen'
  <2>1. Len(ps)' <= nextLocalIndex'
    BY <1>1, <1>4 DEF Function
  <2>2. \A i \in 2 .. Len(work') : work'[i].task # "endFunction"
    BY <1>6
  <2>3. QED
    BY <1>1, <1>6, <2>1, <2>2 DEF FunctionOpen
<1>12. SlotsApart'
  <2>1. \A m, n \in DOMAIN ParameterScope(ps) :
            ParameterScope(ps)[m].localIndex = ParameterScope(ps)[n].localIndex => m = n
    BY <1>3, ParameterScopeOK
  <2>2. QED
    BY <1>8, <2>1 DEF SlotsApart
<1>13. SlotsExist'
  BY <1>1, <1>2 DEF SlotsExist
<1>14. QED
  BY <1>9, <1>10, <1>11, <1>12, <1>13 DEF Inv

LEMMA EndFunctionStep == ASSUME Inv, EndFunction PROVE Inv'
<1> DEFINE returns == Function.returnType = "void" \/ hasReturn
           entry   == [localCount |-> IF returns THEN nextLocalIndex ELSE 0, slots |-> slots]
           n       == Len(analyzed)
<1>1. /\ work # <<>> /\ Top.task = "endFunction"
      /\ endScope /\ Then(<<>>)
      /\ analyzed' = Append(analyzed, entry)
      /\ IF returns THEN diagnostic' = diagnostic ELSE diagnostic' # NoMessage
      /\ UNCHANGED <<program, nextLocalIndex, loopDepth, switchDepth, hasReturn, slots>>
  BY DEF EndFunction, Running, Fail, NoMessage, depthVars
<1>2. /\ work \in Seq(Items) /\ Len(work) \in Nat \ {0}
      /\ n \in Nat /\ nextLocalIndex \in Nat /\ n < Len(program) /\ Len(scopes) \in Nat \ {0}
      /\ \A i \in 2 .. Len(work) : work[i].task # "endFunction"
      /\ Len(Function.parameters) <= nextLocalIndex
      /\ slots \in Seq(0 .. nextLocalIndex - 1)
      /\ analyzed \in Seq([localCount : Nat, slots : Seq(Nat)])
  BY <1>1, Running_ DEF Inv, TypeOK, FunctionOpen
<1>3. Len(work) = 1
  <2>1. work[Len(work)].task = "endFunction"
    BY <1>1 DEF Top
  <2>2. Len(work) \notin 2 .. Len(work)
    BY <1>2, <2>1
  <2>3. ASSUME NEW m \in Nat \ {0}, m \notin 2 .. m PROVE m = 1
    BY <2>3
  <2>4. Len(work) \in Nat \ {0}
    BY <1>2
  <2>5. QED
    BY <2>2, <2>3, <2>4, Zenon
<1>4. work' = <<>>
  <2>1. work' = Replaced(work, <<>>)
    BY <1>1 DEF Then
  <2>2. Replaced(work, <<>>) \in Seq(Items) /\ Len(Replaced(work, <<>>)) = 0
    <3>1. <<>> \in Seq(Items) /\ Len(<<>>) = 0
      OBVIOUS
    <3>2. work # <<>> /\ work \in Seq(Items)
      BY <1>1, <1>2
    <3>3. ASSUME NEW items \in Seq(Items)
          PROVE  /\ Replaced(work, items) \in Seq(Items)
                 /\ Len(Replaced(work, items)) = Len(work) - 1 + Len(items)
      BY <3>2, ReplacedProperties
    <3>4. /\ Replaced(work, <<>>) \in Seq(Items)
          /\ Len(Replaced(work, <<>>)) = Len(work) - 1 + Len(<<>>)
      BY <3>1, <3>3, Zenon
    <3>5. QED
      BY <1>3, <3>1, <3>4
  <2>3. QED
    BY <2>1, <2>2
<1>5. /\ scopes' \in Seq(ScopesBelow(nextLocalIndex)) /\ Len(scopes') = Len(scopes) - 1
      /\ SlotsApart'
  BY <1>1, Popped
<1>6. entry \in [localCount : Nat, slots : Seq(Nat)]
  <2>1. slots \in Seq(Nat)
    <3>1. 0 .. nextLocalIndex - 1 \subseteq Nat
      BY <1>2
    <3>2. QED
      BY <1>2, <3>1, SeqMonotonic
  <2>2. QED
    BY <1>2, <2>1
<1> HIDE DEF entry
<1>7. /\ analyzed' \in Seq([localCount : Nat, slots : Seq(Nat)])
      /\ Len(analyzed') = n + 1
      /\ \A k \in 1 .. n : analyzed'[k] = analyzed[k]
      /\ analyzed'[n + 1] = entry
  BY <1>1, <1>2, <1>6
<1>8. TypeOK'
  <2>1. work' \in Seq(Items)
    BY <1>4
  <2>2. Len(program) \in Nat
    BY <1>1, Running_, ProgramsAssumption DEF Inv, TypeOK
  <2>3. Len(analyzed') <= Len(program')
    BY <1>1, <1>2, <1>7, <2>2
  <2>4. /\ program' \in Programs /\ nextLocalIndex' \in Nat
        /\ scopes' \in Seq(ScopesBelow(nextLocalIndex'))
        /\ slots' \in Seq(0 .. nextLocalIndex' - 1)
        /\ loopDepth' \in Nat /\ switchDepth' \in Nat /\ hasReturn' \in BOOLEAN
    BY <1>1, <1>2, <1>5 DEF Inv, TypeOK
  <2>5. QED
    BY <1>7, <2>1, <2>3, <2>4 DEF TypeOK
<1>9. ContextsMatched'
  <2>1. /\ Pending(work, LoopEnds) = {} /\ Pending(work, SwitchEnds) = {}
        /\ Pending(work, ScopeEnds) = {1}
    <3>1. \A i \in DOMAIN work : i = 1
      BY <1>2, <1>3
    <3>2. work[1].task = "endFunction" /\ 1 \in DOMAIN work
      BY <1>1, <1>2, <1>3 DEF Top
    <3>3. QED
      BY <3>1, <3>2 DEF Pending, LoopEnds, SwitchEnds, ScopeEnds
  <2>2. /\ Pending(work', LoopEnds) = {} /\ Pending(work', SwitchEnds) = {}
        /\ Pending(work', ScopeEnds) = {}
    BY <1>4 DEF Pending
  <2>3. Cardinality({}) = 0 /\ Cardinality({1}) = 1
    BY FS_EmptySet, FS_Singleton
  <2>4. /\ loopDepth = 0 /\ switchDepth = 0
        /\ diagnostic = NoMessage => Len(scopes) = 1
    BY <2>1, <2>3 DEF Inv, ContextsMatched
  <2>5. diagnostic' = NoMessage => diagnostic = NoMessage
    BY <1>1
  <2>6. Len(scopes') >= 0 /\ (diagnostic' = NoMessage => Len(scopes') = 0)
    BY <1>2, <1>5, <2>4, <2>5
  <2>7. loopDepth' = 0 /\ switchDepth' = 0
    BY <1>1, <2>4
  <2>8. QED
    BY <2>2, <2>3, <2>6, <2>7 DEF ContextsMatched
<1>10. FunctionOpen'
  BY <1>4 DEF FunctionOpen
<1>11. SlotsExist'
  <2>1. SUFFICES ASSUME diagnostic' = NoMessage, NEW k \in DOMAIN analyzed'
                 PROVE  /\ Len(program'[k].parameters) <= analyzed'[k].localCount
                        /\ \A i \in DOMAIN analyzed'[k].slots :
                               analyzed'[k].slots[i] < analyzed'[k].localCount
    BY DEF SlotsExist
  <2>2. diagnostic = NoMessage /\ returns
    BY <1>1, <2>1
  <2>3. CASE k = n + 1
    <3>1. analyzed'[k].localCount = nextLocalIndex /\ analyzed'[k].slots = slots
      BY <1>7, <2>2, <2>3 DEF entry
    <3>2. Len(program'[k].parameters) <= nextLocalIndex
      BY <1>1, <1>2, <2>3 DEF Function
    <3>3. \A i \in DOMAIN slots : slots[i] < nextLocalIndex
      BY <1>2
    <3>4. QED
      BY <3>1, <3>2, <3>3
  <2>4. CASE k # n + 1
    <3>1. k \in 1 .. n /\ k \in DOMAIN analyzed
      <4>1. DOMAIN analyzed' = 1 .. n + 1
        BY <1>7
      <4>2. DOMAIN analyzed = 1 .. n
        BY <1>2
      <4>3. n \in Nat
        BY <1>2
      <4>4. QED
        BY <2>1, <2>4, <4>1, <4>2, <4>3
    <3>2. analyzed'[k] = analyzed[k] /\ program' = program
      BY <1>1, <1>7, <3>1
    <3>3. SlotsExist
      BY DEF Inv
    <3>4. QED
      BY <2>2, <3>1, <3>2, <3>3 DEF SlotsExist
  <2>5. QED
    BY <2>3, <2>4
<1>12. QED
  BY <1>5, <1>8, <1>9, <1>10, <1>11 DEF Inv

-----------------------------------------------------------------------------
(* The theorems.                                                           *)

LEMMA Initially == Init => Inv
<1>1. SUFFICES ASSUME Init PROVE Inv
  OBVIOUS
<1>2. /\ program \in Programs /\ analyzed = <<>> /\ work = <<>> /\ scopes = <<>>
      /\ nextLocalIndex = 0 /\ loopDepth = 0 /\ switchDepth = 0 /\ hasReturn = FALSE /\ slots = <<>>
  BY <1>1 DEF Init
<1>3. Len(program) \in Nat
  BY <1>2, ProgramsAssumption
<1>4. Len(<<>>) = 0
  OBVIOUS
<1>5. TypeOK
  <2>1. analyzed \in Seq([localCount : Nat, slots : Seq(Nat)])
    BY <1>2
  <2>2. work \in Seq(Items)
    BY <1>2
  <2>3. scopes \in Seq(ScopesBelow(nextLocalIndex))
    BY <1>2
  <2>4. slots \in Seq(0 .. nextLocalIndex - 1)
    BY <1>2
  <2>5. Len(analyzed) <= Len(program)
    BY <1>2, <1>3, <1>4
  <2>6. nextLocalIndex \in Nat /\ loopDepth \in Nat /\ switchDepth \in Nat /\ hasReturn \in BOOLEAN
    BY <1>2
  <2>7. QED
    BY <1>2, <2>1, <2>2, <2>3, <2>4, <2>5, <2>6, Zenon DEF TypeOK
<1>6. ContextsMatched
  <2>1. /\ Pending(work, LoopEnds) = {} /\ Pending(work, SwitchEnds) = {}
        /\ Pending(work, ScopeEnds) = {}
    BY <1>2 DEF Pending
  <2>2. Cardinality({}) = 0
    BY FS_EmptySet
  <2>3. Len(scopes) = 0
    BY <1>2, <1>4
  <2>4. loopDepth = 0 /\ switchDepth = 0
    BY <1>2
  <2>5. QED
    BY <2>1, <2>2, <2>3, <2>4 DEF ContextsMatched
<1>7. FunctionOpen
  BY <1>2 DEF FunctionOpen
<1>8. SlotsApart /\ SlotsExist
  BY <1>2 DEF SlotsApart, SlotsExist
<1>9. QED
  BY <1>5, <1>6, <1>7, <1>8 DEF Inv

LEMMA Preserved == Inv /\ [Next]_vars => Inv'
<1>1. SUFFICES ASSUME Inv, [Next]_vars PROVE Inv'
  OBVIOUS
<1>2. CASE UNCHANGED vars
  <2>1. /\ UNCHANGED <<program, analyzed, work, scopes, nextLocalIndex, loopDepth, switchDepth>>
        /\ UNCHANGED <<hasReturn, diagnostic, slots>>
    BY <1>2 DEF vars, tableVars, depthVars
  <2>2. TypeOK'
    BY <1>1, <2>1 DEF Inv, TypeOK
  <2>3. ContextsMatched' /\ FunctionOpen'
    BY <1>1, <2>1 DEF Inv, ContextsMatched, FunctionOpen, Function
  <2>4. SlotsApart' /\ SlotsExist'
    BY <1>1, <2>1 DEF Inv, SlotsApart, SlotsExist
  <2>5. QED
    BY <2>2, <2>3, <2>4 DEF Inv
<1>3. CASE analyzeFunction     BY <1>1, <1>3, FunctionStep
<1>4. CASE EndFunction         BY <1>1, <1>4, EndFunctionStep
<1>5. CASE Refuse              BY <1>1, <1>5, RefuseStep
<1>6. CASE Nothing             BY <1>1, <1>6, NothingStep
<1>7. CASE analyzeExprStmt     BY <1>1, <1>7, ExprStmtStep
<1>8. CASE analyzeBlock        BY <1>1, <1>8, BlockStep
<1>9. CASE EndBlock            BY <1>1, <1>9, EndBlockStep
<1>10. CASE analyzeVarDeclStmt BY <1>1, <1>10, VarDeclStep
<1>11. CASE analyzeAssignStmt  BY <1>1, <1>11, AssignStep
<1>12. CASE analyzeIfStmt      BY <1>1, <1>12, IfStep
<1>13. CASE analyzeWhileStmt   BY <1>1, <1>13, WhileStep
<1>14. CASE EndWhile           BY <1>1, <1>14, EndWhileStep
<1>15. CASE analyzeForStmt     BY <1>1, <1>15, ForStep
<1>16. CASE ForCondition       BY <1>1, <1>16, ForConditionStep
<1>17. CASE ForConditionFails  BY <1>1, <1>17, ForConditionFailsStep
<1>18. CASE EndFor             BY <1>1, <1>18, EndForStep
<1>19. CASE analyzeSwitchStmt  BY <1>1, <1>19, SwitchStep
<1>20. CASE EndSwitch          BY <1>1, <1>20, EndSwitchStep
<1>21. CASE analyzeReturnStmt  BY <1>1, <1>21, ReturnStep
<1>22. CASE analyzePrintStmt   BY <1>1, <1>22, PrintStep
<1>23. CASE PrintArgument      BY <1>1, <1>23, PrintArgumentStep
<1>24. CASE PrintArgumentFails BY <1>1, <1>24, PrintArgumentFailsStep
<1>25. CASE Printed            BY <1>1, <1>25, PrintedStep
<1>26. QED
  BY <1>1, <1>2, <1>3, <1>4, <1>5, <1>6, <1>7, <1>8, <1>9, <1>10, <1>11, <1>12, <1>13, <1>14,
     <1>15, <1>16, <1>17, <1>18, <1>19, <1>20, <1>21, <1>22, <1>23, <1>24, <1>25 DEF Next

\* The invariant holds in every state of the analysis, for every program.
THEOREM Invariance == Spec => []Inv
<1>1. Init => Inv
  BY Initially
<1>2. Inv /\ [Next]_vars => Inv'
  BY Preserved
<1>3. QED
  BY <1>1, <1>2, PTL DEF Spec

\* For every program, the analyzer's state has its types: every symbol of an
\* open scope and every slot written so far lies below the slot counter.
THEOREM TypeCorrect == Spec => []TypeOK
<1>1. Inv => TypeOK
  BY DEF Inv
<1>2. QED
  BY <1>1, Invariance, PTL

\* For every program, the depths of loops and switches are those of the tree,
\* and no end of a scope is without a scope, also behind a failure.
THEOREM ContextsAreMatched == Spec => []ContextsMatched
<1>1. Inv => ContextsMatched
  BY DEF Inv
<1>2. QED
  BY <1>1, Invariance, PTL

\* For every program, no two symbols of the open scopes share a slot.
THEOREM SlotsStayApart == Spec => []SlotsApart
<1>1. Inv => SlotsApart
  BY DEF Inv
<1>2. QED
  BY <1>1, Invariance, PTL

\* For every program that is accepted, the frame of each function has room for
\* its parameters and for every slot its statements use.
THEOREM FramesHoldSlots == Spec => []SlotsExist
<1>1. Inv => SlotsExist
  BY DEF Inv
<1>2. QED
  BY <1>1, Invariance, PTL
=============================================================================
