------------------------------ MODULE Overloads ------------------------------
(***************************************************************************)
(* Functions in the semantic analyzer (src/semantic.cpp): the table that   *)
(* collectFunctionDeclarations fills, and the choice among the overloads   *)
(* of a name that analyzeCallExpr makes, type parameters included.         *)
(*                                                                         *)
(* A FunctionSymbol is a copy of its declaration, so the table keeps its   *)
(* function index only; indexes count from 0.  What a declaration and an   *)
(* overload are asked is in Signatures.  A call is looked at when the      *)
(* types of its arguments are known.                                       *)
(***************************************************************************)
EXTENDS Signatures

CONSTANTS
    Programs,   \* what the parser may hand over: sequences of declarations
    Calls       \* the calls that may stand in the bodies

ASSUME ProgramsAssumption == Programs \subseteq Seq(FunctionDecls)
ASSUME CallsAssumption ==
    Calls \subseteq [callee : STRING, arguments : Seq(Types), typeArguments : Seq(Types)]

VARIABLES
    program,        \* program.functions
    phase,          \* "collect", "analyze", "choose" (inside a call) or "stopped"
    functions,      \* functions_: the function indexes of each name
    index,          \* index: how many declarations have been collected
    diagnostic,     \* diagnostic_: the first message
    call,           \* expr: the call looked at last
    allowImplicit,  \* chooseCandidate: whether arguments may be converted
    candidate,      \* chooseCandidate: the overload to try next
    best,           \* best: the overload chosen so far, 0 for none
    ambiguous,      \* ambiguous
    resolved        \* what has been written into expr

tableVars  == <<functions, index>>
choiceVars == <<call, allowImplicit, candidate, best, ambiguous, resolved>>
vars == <<program, phase, tableVars, diagnostic, choiceVars>>

symbol(k) == program[k + 1]
Names == {program[i].name : i \in DOMAIN program}

NoMessage == "none"

\* setDiagnostic keeps the first message.
Fail(message) == diagnostic' = IF diagnostic = NoMessage THEN message ELSE diagnostic

-----------------------------------------------------------------------------
(* collectFunctionDeclarations: what is in the table already.              *)

\* A mutant: only the overload declared last is compared.
RepeatedLast(f) ==
    LET overloads == functions[f.name]
    IN  overloads # <<>> /\ sameSignature(symbol(overloads[Len(overloads)]), f)

Repeated(f) ==
    \E k \in DOMAIN functions[f.name] : sameSignature(symbol(functions[f.name][k]), f)

-----------------------------------------------------------------------------
(* The analyzer.                                                           *)

NoCall     == [callee |-> "", arguments |-> <<>>, typeArguments |-> <<>>]
Unresolved == [functionIndex |-> -1, targets |-> <<>>, type |-> [type |-> "unknown", name |-> ""]]

Init ==
    /\ program \in Programs
    /\ phase = "collect"
    /\ functions = [n \in Names |-> <<>>]
    /\ index = 0
    /\ diagnostic = NoMessage
    /\ call = NoCall
    /\ allowImplicit = FALSE
    /\ candidate = 1
    /\ best = 0
    /\ ambiguous = FALSE
    /\ resolved = Unresolved

Collecting == phase = "collect" /\ index < Len(program)

\* A mutant: the index is counted up before it is used.
CollectCountsFirst ==
    /\ Collecting
    /\ LET f == symbol(index)
       IN  /\ WellFormed(f)
           /\ ~Repeated(f)
           /\ functions' = [functions EXCEPT ![f.name] = Append(@, index + 1)]
    /\ index' = index + 1
    /\ UNCHANGED <<program, phase, diagnostic, choiceVars>>

Collect ==
    /\ Collecting
    /\ LET f == symbol(index)
       IN  /\ WellFormed(f)
           /\ ~Repeated(f)
           /\ functions' = [functions EXCEPT ![f.name] = Append(@, index)]
    /\ index' = index + 1
    /\ UNCHANGED <<program, phase, diagnostic, choiceVars>>

\* The rest of analyze: one main, without parameters, that returns int.
MainFits ==
    /\ "main" \in Names
    /\ Len(functions["main"]) = 1
    /\ LET main == symbol(functions["main"][1])
       IN  main.returnType.type = "int" /\ main.parameters = <<>>

Collected(message) ==
    /\ diagnostic' = IF message # NoMessage \/ MainFits THEN message ELSE "main"
    /\ phase' = IF MainFits THEN "analyze" ELSE "stopped"
    /\ UNCHANGED <<program, tableVars, choiceVars>>

\* The first bad declaration ends the collection, and nothing else.
CollectFails ==
    /\ Collecting
    /\ ~WellFormed(symbol(index)) \/ Repeated(symbol(index))
    /\ Collected("declaration")

CollectEnds ==
    /\ phase = "collect"
    /\ index = Len(program)
    /\ Collected(NoMessage)

overloads == functions[call.callee]
Candidate == symbol(overloads[candidate])
Best      == symbol(overloads[best])

\* chooseCandidate(FALSE) starts on the overloads of the name.
analyzeCallExpr(c) ==
    /\ phase = "analyze"
    /\ c.callee \in Names
    /\ functions[c.callee] # <<>>
    /\ call' = c
    /\ resolved' = Unresolved
    /\ allowImplicit' = FALSE
    /\ candidate' = 1
    /\ best' = 0
    /\ ambiguous' = FALSE
    /\ phase' = "choose"
    /\ UNCHANGED <<program, tableVars, diagnostic>>

NotDeclared(c) ==
    /\ phase = "analyze"
    /\ c.callee \in Names => functions[c.callee] = <<>>
    /\ Fail("undeclared")
    /\ call' = c
    /\ resolved' = Unresolved
    /\ UNCHANGED <<program, phase, tableVars, allowImplicit, candidate, best, ambiguous>>

\* The loop of chooseCandidate is at an overload.
Trying == phase = "choose" /\ candidate <= Len(overloads)
Fits   == tryCandidate(Candidate, call, allowImplicit)
Better == best # 0 => score(Candidate, call) < score(Best, call)

TryNext ==
    /\ candidate' = candidate + 1
    /\ UNCHANGED <<program, phase, tableVars, diagnostic, call, allowImplicit, resolved>>

DoesNotFit ==
    /\ Trying
    /\ ~Fits
    /\ TryNext
    /\ UNCHANGED <<best, ambiguous>>

\* A mutant: a better candidate leaves the tie of the worse ones standing.
FitsBetterButTied ==
    /\ Trying
    /\ Fits
    /\ Better
    /\ best' = candidate
    /\ TryNext
    /\ UNCHANGED ambiguous

FitsBetter ==
    /\ Trying
    /\ Fits
    /\ Better
    /\ best' = candidate
    /\ ambiguous' = FALSE
    /\ TryNext

FitsNoBetter ==
    /\ Trying
    /\ Fits
    /\ ~Better
    /\ ambiguous' = (ambiguous \/ score(Candidate, call) = score(Best, call))
    /\ TryNext
    /\ UNCHANGED best

Tried == phase = "choose" /\ candidate > Len(overloads)

\* A mutant: whatever the first pass has found.
TryConversionsAnyway ==
    /\ Tried
    /\ ~allowImplicit
    /\ allowImplicit' = TRUE
    /\ candidate' = 1
    /\ ambiguous' = FALSE
    /\ UNCHANGED <<program, phase, tableVars, diagnostic, call, best, resolved>>

\* chooseCandidate(TRUE), when no overload fits without a conversion.
TryConversions ==
    /\ Tried
    /\ best = 0
    /\ ~allowImplicit
    /\ allowImplicit' = TRUE
    /\ candidate' = 1
    /\ ambiguous' = FALSE
    /\ UNCHANGED <<program, phase, tableVars, diagnostic, call, best, resolved>>

Rejected ==
    /\ Tried
    /\ \/ best = 0 /\ allowImplicit /\ Fail("unmatched")
       \/ best # 0 /\ ambiguous /\ Fail("ambiguous")
    /\ phase' = "analyze"
    /\ UNCHANGED <<program, tableVars, choiceVars>>

Resolve ==
    /\ Tried
    /\ best # 0
    /\ ~ambiguous
    /\ resolved' = [functionIndex |-> overloads[best],
                    targets       |-> targetTypes(Best, call),
                    type          |-> returnType(Best, call)]
    /\ phase' = "analyze"
    /\ UNCHANGED <<program, tableVars, diagnostic, call, allowImplicit, candidate, best, ambiguous>>

Next ==
    \/ Collect \/ CollectFails \/ CollectEnds
    \/ \E c \in Calls : analyzeCallExpr(c) \/ NotDeclared(c)
    \/ DoesNotFit \/ FitsBetter \/ FitsNoBetter
    \/ TryConversions \/ Rejected \/ Resolve

Spec == Init /\ [][Next]_vars
-----------------------------------------------------------------------------
(* Properties.                                                             *)

FunctionIndexes == 0 .. Len(program) - 1
\* The functions in the table.
Declared == 0 .. index - 1

Messages == {NoMessage, "declaration", "main", "undeclared", "unmatched", "ambiguous"}

TypeOK ==
    /\ program \in Programs
    /\ phase \in {"collect", "analyze", "choose", "stopped"}
    /\ index \in 0 .. Len(program)
    /\ DOMAIN functions = Names
    /\ \A n \in Names : functions[n] \in Seq(FunctionIndexes)
    /\ diagnostic \in Messages
    /\ call \in Calls \cup {NoCall}
    /\ phase = "collect" => call = NoCall
    /\ phase = "choose" => call.callee \in Names /\ candidate <= Len(overloads) + 1
    /\ candidate \in Nat \ {0}
    /\ best \in 0 .. candidate - 1
    /\ allowImplicit \in BOOLEAN
    /\ ambiguous \in BOOLEAN
    /\ resolved.functionIndex \in FunctionIndexes \cup {-1}

\* The call has been answered, by a function or by a diagnostic.
Answered == phase = "analyze" /\ call # NoCall

Overloads(c) == {k \in Declared : symbol(k).name = c.callee}
FitFor(c, implicit) == {k \in Overloads(c) : tryCandidate(symbol(k), c, implicit)}
Able(c) == IF FitFor(c, FALSE) # {} THEN FitFor(c, FALSE) ELSE FitFor(c, TRUE)
Cheapest(c) == {k \in Able(c) : \A j \in Able(c) : score(symbol(k), c) <= score(symbol(j), c)}

\* The loop over the overloads finds the one cheapest candidate, and none when
\* two share that cost, in whatever order they were declared.
UniqueCheapest ==
    Answered => IF \E k \in Cheapest(call) : Cheapest(call) = {k}
                THEN Cheapest(call) = {resolved.functionIndex}
                ELSE resolved = Unresolved /\ diagnostic # NoMessage

\* The table lists under each name the functions of that name collected so
\* far, once each, in their order and with signatures that differ.
TableOK ==
    /\ \A j \in Declared : WellFormed(symbol(j))
    /\ \A n \in Names : \A k \in DOMAIN functions[n] :
           functions[n][k] \in Declared /\ symbol(functions[n][k]).name = n
    /\ \A j \in Declared :
           \E k \in DOMAIN functions[symbol(j).name] : functions[symbol(j).name][k] = j
    /\ \A n \in Names : \A k, l \in DOMAIN functions[n] : k < l =>
           /\ functions[n][k] < functions[n][l]
           /\ ~sameSignature(symbol(functions[n][k]), symbol(functions[n][l]))

\* Whether the k-th overload of the name has been seen to fit.
Seen(k) == k < candidate /\ tryCandidate(symbol(overloads[k]), call, allowImplicit)
Price(k) == score(symbol(overloads[k]), call)

\* The loop has kept the cheapest overload seen, and knows whether it is alone.
ChoiceOK ==
    phase = "choose" =>
        /\ resolved = Unresolved
        /\ allowImplicit => \A k \in DOMAIN overloads : ~tryCandidate(symbol(overloads[k]), call, FALSE)
        /\ best = 0 => ~ambiguous /\ \A k \in DOMAIN overloads : ~Seen(k)
        /\ best # 0 =>
               /\ Seen(best)
               /\ \A k \in DOMAIN overloads : Seen(k) => Price(best) <= Price(k)
               /\ ambiguous <=> \E k \in DOMAIN overloads :
                                    k # best /\ Seen(k) /\ Price(k) = Price(best)

Inv == TypeOK /\ TableOK /\ ChoiceOK /\ UniqueCheapest

\* A type with its type parameters replaced.
Substituted(t, binding) == IF t.type = "generic" THEN binding[t.name] ELSE t

\* The type parameters that the signature of a function names; another one may
\* be anything.
Determined(f) ==
    {t.name : t \in {u \in {f.parameters[i] : i \in DOMAIN f.parameters} \cup {f.returnType} :
                        u.type = "generic"}}

\* The ways to choose them among given types.
Bindings(f, ts) == [Determined(f) -> ts]

\* With this choice the function takes the arguments as they are, and the call
\* determines what it returns.
TakesAll(f, c, binding) ==
    /\ Len(c.arguments) = Len(f.parameters)
    /\ \A i \in DOMAIN c.arguments : Substituted(f.parameters[i], binding) = c.arguments[i]
    /\ c.typeArguments # <<>> =>
           /\ Len(c.typeArguments) = Len(f.typeParameters)
           /\ \A i \in DOMAIN c.typeArguments :
                  f.typeParameters[i] \in Determined(f) =>
                      binding[f.typeParameters[i]] = c.typeArguments[i]
    /\ ReturnTypeBound(f, c)

TypesOf(c) == {c.arguments[i] : i \in DOMAIN c.arguments}
                  \cup {c.typeArguments[i] : i \in DOMAIN c.typeArguments}

\* What is written into a call is the chosen function at one choice of its type
\* parameters, and no argument of another type is let through but a number for
\* a number.
TypedByOneBinding ==
    Answered /\ resolved # Unresolved =>
        LET f == symbol(resolved.functionIndex)
        IN  /\ \E binding \in Bindings(f, TypesOf(call)) :
                   /\ resolved.targets =
                        [i \in DOMAIN f.parameters |-> Substituted(f.parameters[i], binding)]
                   /\ resolved.type = Substituted(f.returnType, binding)
            /\ \A i \in DOMAIN call.arguments :
                   \/ resolved.targets[i] = call.arguments[i]
                   \/ {resolved.targets[i].type, call.arguments[i].type} \subseteq Numeric

\* The overloads that take the arguments as they are, at some choice of their
\* type parameters.
Takers(c) ==
    {k \in Overloads(c) : \E binding \in Bindings(symbol(k), TypesOf(c)) :
                              TakesAll(symbol(k), c, binding)}

\* A function that takes the arguments as they are is never passed over for one
\* that needs a conversion: one of these is called, and if it is the only one,
\* without fail.  (The types that tryCandidate refuses are no type arguments.)
ExactBeforeConverted ==
    Answered /\ Takers(call) # {}
        /\ (\A i \in DOMAIN call.typeArguments :
                call.typeArguments[i].type \notin {"void", "unknown", "generic"})
        => \/ resolved.functionIndex \in Takers(call)
           \/ resolved = Unresolved /\ Cardinality(Takers(call)) > 1

\* Any function without type parameters can be called: arguments of exactly its
\* parameter types select it, whatever else has its name.
OwnTypesSelectIt ==
    Answered /\ call.typeArguments = <<>> =>
        \A k \in Overloads(call) :
            symbol(k).typeParameters = <<>> /\ symbol(k).parameters = call.arguments
                => resolved.functionIndex = k
=============================================================================
