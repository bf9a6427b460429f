----------------------------- MODULE Signatures -----------------------------
(***************************************************************************)
(* Function signatures and calls of the semantic analyzer                  *)
(* (src/semantic.cpp): which declarations collectFunctionDeclarations      *)
(* takes, and what the lambda tryCandidate of analyzeCallExpr finds out    *)
(* about one overload and one call.                                        *)
(*                                                                         *)
(* A type is a Type with the name that goes with it: of a struct, of a     *)
(* type parameter, or of the elements of an array; empty for scalars.      *)
(***************************************************************************)
EXTENDS Integers, Sequences, FiniteSets

typeNameMatters(t) == t.type \in {"struct", "generic", "array"}

Types ==
    {t \in [type : {"int", "uint", "float", "bool", "string", "void", "struct", "generic", "array",
                    "unknown"},
            name : STRING] : ~typeNameMatters(t) => t.name = ""}

FunctionDecls ==
    [name : STRING, typeParameters : Seq(STRING), parameters : Seq(Types), returnType : Types]

-----------------------------------------------------------------------------
(* Types.                                                                  *)

sameConcreteType(t, u) ==
    t.type = u.type /\ (typeNameMatters(t) \/ typeNameMatters(u) => t.name = u.name)

Numeric == {"int", "uint", "float"}
canImplicitlyConvert(from, to) ==
    from.type = to.type \/ {from.type, to.type} \subseteq Numeric

-----------------------------------------------------------------------------
(* collectFunctionDeclarations.                                            *)

\* A generic type names one of the type parameters.
Known(t, f) == t.type = "generic" => \E i \in DOMAIN f.typeParameters : f.typeParameters[i] = t.name

WellFormed(f) ==
    /\ \A i, j \in DOMAIN f.typeParameters :
           f.typeParameters[i] = f.typeParameters[j] => i = j
    /\ f.name = "main" => f.typeParameters = <<>>
    /\ f.returnType.type # "unknown"
    /\ Known(f.returnType, f)
    /\ \A i \in DOMAIN f.parameters :
           f.parameters[i].type \notin {"void", "unknown"} /\ Known(f.parameters[i], f)

sameSignature(f, g) ==
    /\ Len(f.parameters) = Len(g.parameters)
    /\ \A i \in DOMAIN f.parameters : sameConcreteType(f.parameters[i], g.parameters[i])

-----------------------------------------------------------------------------
(* tryCandidate: whether an overload fits a call, and what it costs.       *)

\* A type parameter is what the call says, or else the type of the first
\* argument for a parameter of that type.
GenericBinding(f, c, name) ==
    IF c.typeArguments # <<>>
    THEN c.typeArguments[CHOOSE i \in DOMAIN f.typeParameters : f.typeParameters[i] = name]
    ELSE c.arguments[CHOOSE i \in DOMAIN f.parameters :
                        /\ f.parameters[i] = [type |-> "generic", name |-> name]
                        /\ \A j \in 1 .. i - 1 : f.parameters[j] # f.parameters[i]]

\* A mutant: every argument for a type parameter binds it anew.
TargetBoundAnew(f, c, i) ==
    IF f.parameters[i].type = "generic" THEN c.arguments[i] ELSE f.parameters[i]

\* The type the i-th argument must have.
Target(f, c, i) ==
    IF f.parameters[i].type = "generic" THEN GenericBinding(f, c, f.parameters[i].name)
    ELSE f.parameters[i]

Exact(f, c, i) == sameConcreteType(Target(f, c, i), c.arguments[i])
Converts(f, c, i) ==
    ~typeNameMatters(Target(f, c, i)) /\ canImplicitlyConvert(c.arguments[i], Target(f, c, i))

\* Type arguments are for generic functions, one for each type parameter.
TypeArgumentsFit(f, c) ==
    c.typeArguments # <<>> =>
        /\ Len(c.typeArguments) = Len(f.typeParameters)
        /\ \A i \in DOMAIN c.typeArguments : c.typeArguments[i].type \notin {"void", "unknown", "generic"}

\* The type parameter that is returned is bound.
ReturnTypeBound(f, c) ==
    f.returnType.type = "generic" =>
        c.typeArguments # <<>> \/ \E i \in DOMAIN f.parameters : f.parameters[i] = f.returnType

tryCandidate(f, c, implicit) ==
    /\ Len(c.arguments) = Len(f.parameters)
    /\ TypeArgumentsFit(f, c)
    /\ \A i \in DOMAIN c.arguments : Exact(f, c, i) \/ (implicit /\ Converts(f, c, i))
    /\ ReturnTypeBound(f, c)

score(f, c) ==
    (IF f.typeParameters = <<>> THEN 0 ELSE 1)
        + 10 * Cardinality({i \in DOMAIN c.arguments : ~Exact(f, c, i)})

targetTypes(f, c) == [i \in DOMAIN c.arguments |-> Target(f, c, i)]
returnType(f, c) ==
    IF f.returnType.type = "generic" THEN GenericBinding(f, c, f.returnType.name) ELSE f.returnType
=============================================================================
