----------------------------- MODULE MCOverloads -----------------------------
(* Every program of up to three functions f out of a few, in every order,  *)
(* then main; and calls that fit exactly, by conversion, in several ways   *)
(* or not at all.                                                          *)
EXTENDS Overloads

Scalar(t)  == [type |-> t, name |-> ""]
IntT       == Scalar("int")
UIntT      == Scalar("uint")
FloatT     == Scalar("float")
StringT    == Scalar("string")
Struct     == [type |-> "struct", name |-> "P"]
Other      == [type |-> "struct", name |-> "Q"]
Ints       == [type |-> "array", name |-> "__array:int:"]
T          == [type |-> "generic", name |-> "T"]
U          == [type |-> "generic", name |-> "U"]

F(typeParameters, parameters, returns) ==
    [name |-> "f", typeParameters |-> typeParameters, parameters |-> parameters,
     returnType |-> returns]
Main == [F(<<>>, <<>>, IntT) EXCEPT !.name = "main"]

Family ==
    {F(<<>>, <<IntT, FloatT>>, IntT), F(<<>>, <<FloatT, IntT>>, FloatT), 
     F(<<>>, <<Struct, IntT>>, IntT),
     F(<<"T">>, <<T, T>>, T), F(<<"U">>, <<U, U>>, IntT), F(<<"T">>, <<IntT, T>>, T),
     F(<<"T", "U">>, <<T, U>>, U), F(<<"T">>, <<IntT, FloatT>>, T),
     F(<<"T">>, <<>>, IntT)}

\* Declarations the analyzer refuses, and calls it meets behind them.
Refused ==
    {<<F(<<>>, <<IntT, FloatT>>, IntT), Main, F(<<"T", "T">>, <<T, T>>, T)>>,
     <<F(<<>>, <<IntT, FloatT>>, IntT), F(<<"T">>, <<T, U>>, T), Main>>,
     <<Main, F(<<>>, <<IntT, IntT>>, T)>>,
     <<Main, Main>>,
     <<F(<<>>, <<IntT, FloatT>>, IntT), [Main EXCEPT !.typeParameters = <<"T">>]>>,
     <<[Main EXCEPT !.parameters = <<IntT>>]>>,
     <<Main, [Main EXCEPT !.parameters = <<IntT>>]>>}

MCPrograms ==
    Refused \cup {Append(fs, Main) : fs \in UNION {[1 .. n -> Family] : n \in 0 .. 3}}

Call(typeArguments, arguments) ==
    [callee |-> "f", arguments |-> arguments, typeArguments |-> typeArguments]

MCCalls ==
    {Call(<<>>, <<t, u>>) : t \in {IntT, UIntT, FloatT}, u \in {IntT, FloatT}}
    \cup {Call(<<>>, <<Struct, Struct>>), Call(<<>>, <<Struct, Other>>), Call(<<>>, <<Other, IntT>>),
          Call(<<>>, <<IntT, Ints>>), Call(<<>>, <<T, T>>), Call(<<>>, <<StringT, UIntT>>),
          Call(<<>>, <<Struct, IntT>>), Call(<<>>, <<IntT>>),
          Call(<<FloatT>>, <<IntT, FloatT>>), Call(<<T>>, <<T, T>>), Call(<<Struct>>, <<IntT, Struct>>),
          Call(<<IntT, FloatT>>, <<FloatT, IntT>>),
          Call(<<>>, <<>>), Call(<<Scalar("void")>>, <<>>), Call(<<IntT>>, <<>>)}
=============================================================================
