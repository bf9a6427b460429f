-------------------------- MODULE SourceSemantics --------------------------
(***************************************************************************)
(* What a MiniLang program means, by recursion over its syntax tree: the   *)
(* reference the compiled program is compared with.  It is written from    *)
(* the language's description (specs/semantics.md), not from the           *)
(* compiler: break ends the nearest loop or switch, a switch expression is *)
(* evaluated once, and arrays and structs are values, copied when they are *)
(* assigned and passed.  This module is recursive and serves TLC only.     *)
(***************************************************************************)
EXTENDS Values, AST, SequencesExt

\* Composite values carry their parts.
Composite(type, name, elems) == [type |-> type, name |-> name, elems |-> elems]

RECURSIVE Same(_, _)
Same(v, w) ==
    /\ v.type = w.type
    /\ v.type # "void"
    /\ IF IsReference(v)
       THEN /\ v.name = w.name
            /\ Len(v.elems) = Len(w.elems)
            /\ \A i \in DOMAIN v.elems : Same(v.elems[i], w.elems[i])
       ELSE v.data = w.data

\* What print shows.
RECURSIVE Text(_)
Text(v) ==
    IF IsReference(v)
    THEN [name |-> v.name, elems |-> [i \in DOMAIN v.elems |-> Text(v.elems[i])]]
    ELSE v

DefaultOf(type, size) ==
    CASE type = "int"    -> MakeInt(0)
      [] type = "uint"   -> MakeUInt(0)
      [] type = "float"  -> MakeFloat(0)
      [] type = "bool"   -> MakeBool(FALSE)
      [] type = "string" -> MakeString(<<>>)
      [] type = "array"  -> Composite("array", <<>>, [i \in 1 .. size |-> MakeInt(0)])
      [] OTHER           -> MakeVoid

Convert(v, type) ==
    IF v.type = type THEN v
    ELSE Cast(CASE type = "int"   -> "CastInt"
                [] type = "uint"  -> "CastUInt"
                [] type = "float" -> "CastFloat"
                [] type = "bool"  -> "CastBool", v)

LiteralValue(e) ==
    CASE e.type = "int"    -> MakeInt(e.value)
      [] e.type = "uint"   -> MakeUInt(e.value)
      [] e.type = "float"  -> MakeFloat(e.value)
      [] e.type = "bool"   -> MakeBool(e.value = 1)
      [] e.type = "string" -> MakeString(e.text)

BinaryValue(op, v, w) ==
    CASE op = "Add" -> Add(v, w)
      [] op = "Sub" -> Sub(v, w)
      [] op = "Mul" -> Mul(v, w)
      [] op = "Div" -> Div(v, w)
      [] op = "Mod" -> Mod(v, w)
      [] op = "Equal"    -> MakeBool(Same(v, w))
      [] op = "NotEqual" -> MakeBool(~Same(v, w))
      [] op \in {"Less", "Greater", "LessEqual", "GreaterEqual"} -> Compare(op, v, w)
      [] op \in {"BitAnd", "BitOr", "BitXor"} -> Bitwise(op, v, w)
      [] OTHER -> Shift(op, v, w)

UnaryValue(op, v) ==
    CASE op = "Neg"    -> Neg(v)
      [] op = "BitNot" -> BitNot(v)
      [] op = "Not"    -> Not(v)
      [] op = "ToInt"  -> ToInt(v)
      [] op = "Len"    -> MakeInt(WrapInt(IF v.type = "string" THEN Len(v.data) ELSE Len(v.elems)))
      [] op = "Panic"  -> Error("panic")
      [] op = "Assert" -> IF IsTrue(v) THEN MakeVoid ELSE Error("assertion failed")
      [] op = "Exit"   -> v

-----------------------------------------------------------------------------
(* A state of the evaluation: the locals of the running function, the      *)
(* lines typed, how many of them are read, the output, the value just      *)
(* computed, and why the normal order of evaluation stopped:               *)
(* "no", "break", "continue", "return", "exit" or "error".                 *)

Stopped(s)   == s.stop # "no"
Stop(s, why) == [s EXCEPT !.stop = why]
Yield(s, v)  == IF IsError(v) THEN [s EXCEPT !.stop = "error", !.value = v]
                ELSE [s EXCEPT !.value = v]
\* The break or continue a loop or a switch has dealt with.
Caught(s, kinds) == IF s.stop \in kinds THEN Stop(s, "no") ELSE s

IndexError == Error("array index out of bounds")

CONSTANT Declarations   \* the function declarations of the program

\* Nodes the evaluation makes for itself: the values of some expressions in
\* order, the rounds of a loop (while is a for loop without an update), a call.
Operands(exprs, done)    == [kind |-> "values", exprs |-> exprs, done |-> done]
All(exprs)               == Operands(exprs, <<>>)
Rounds(cond, body, update) == [kind |-> "rounds", cond |-> cond, body |-> body, update |-> update]
Invoke(f, args)          == [kind |-> "invoke", function |-> f, args |-> args]

SetLocal(s, slot, v) == [s EXCEPT !.locals[slot + 1] = v]

\* The array an assignment changes: a local, or a field of a struct in one.
ArrayOf(n, s) ==
    IF n.array = <<>> THEN s.locals[n.slot + 1]
    ELSE s.locals[n.array[1].slot + 1].elems[n.array[1].field + 1]
SetElement(n, s, i, v) ==
    CASE i \notin DOMAIN ArrayOf(n, s).elems -> Yield(s, IndexError)
      [] n.array = <<>> -> [s EXCEPT !.locals[n.slot + 1].elems[i] = v]
      [] OTHER ->
            [s EXCEPT !.locals[n.array[1].slot + 1].elems[n.array[1].field + 1].elems[i] = v]

\* The statements a switch runs: those of the chosen case and all behind it.
Chosen(n, value) ==
    LET matching == {i \in DOMAIN n.cases : n.cases[i].value = value}
        from     == IF matching = {} THEN Len(n.cases) + 1 ELSE Min(matching)
    IN  FlattenSeq([i \in DOMAIN n.cases |-> IF i < from THEN <<>> ELSE n.cases[i].stmts])
            \o n.default

\* The locals a function starts with.
Entered(f, args, s) ==
    [s EXCEPT !.locals = [i \in 1 .. f.localCount |->
                             IF i <= Len(args) THEN args[i] ELSE MakeInt(0)]]

\* After the body of a function, back in its caller: a path that falls off
\* the body gives the default of its type.
Returned(f, caller, r) ==
    LET back == [r EXCEPT !.locals = caller.locals]
    IN  CASE r.stop = "return" -> Stop(back, "no")
          [] r.stop = "no"     -> Yield(back, DefaultOf(f.returnType, 0))
          [] OTHER             -> back

\* What a node whose operands have the values vs does next, in state s.
Completed(n, vs, s) ==
    CASE n.kind = "binary" -> Yield(s, BinaryValue(n.op, vs[1], vs[2]))
      [] n.kind = "builtin" /\ n.op = "Exit" -> Stop(Yield(s, vs[1]), "exit")
      [] n.kind = "unary" \/ (n.kind = "builtin" /\ n.op # "Exit") ->
            Yield(s, UnaryValue(n.op, vs[1]))
      [] n.kind = "cast"          -> Yield(s, Convert(vs[1], n.type))
      [] n.kind = "arrayLiteral"  -> Yield(s, Composite("array", <<>>, vs))
      [] n.kind = "structLiteral" -> Yield(s, Composite("struct", n.name, vs))
      [] n.kind = "index" ->
            LET array == IF n.array = <<>> THEN s.locals[n.slot + 1] ELSE vs[1]
                i     == Last(vs).data + 1
            IN  Yield(s, IF i \in DOMAIN array.elems THEN array.elems[i] ELSE IndexError)
      [] n.kind = "exprStmt" -> s
      [] n.kind = "print"  ->
            [s EXCEPT !.output = Append(@, [i \in DOMAIN vs |-> Text(vs[i])])]
      [] n.kind = "return" -> Stop(Yield(s, IF vs = <<>> THEN MakeVoid ELSE vs[1]), "return")
      [] n.kind = "varDecl" ->
            SetLocal(s, n.slot, IF vs = <<>> THEN DefaultOf(n.type, n.size) ELSE vs[1])
      [] n.kind = "assign"      -> SetLocal(s, n.slot, vs[1])
      [] n.kind = "fieldAssign" -> [s EXCEPT !.locals[n.slot + 1].elems[n.field + 1] = vs[1]]
      [] n.kind = "arrayAssign" -> SetElement(n, s, vs[1].data + 1, vs[2])

\* The operands of such a node, in the order in which they are evaluated.
OperandsOf(n) ==
    CASE n.kind = "binary" -> <<n.left, n.right>>
      [] n.kind \in {"unary", "builtin", "cast"} -> <<n.operand>>
      [] n.kind = "arrayLiteral"      -> n.elems
      [] n.kind = "structLiteral"     -> n.fields
      [] n.kind = "index"             -> Append(n.array, n.index)
      [] n.kind = "exprStmt"          -> <<n.expr>>
      [] n.kind \in {"print", "call"} -> n.args
      [] n.kind = "return"            -> n.value
      [] n.kind = "varDecl"           -> n.init
      [] n.kind \in {"assign", "fieldAssign"} -> <<n.value>>
      [] n.kind = "arrayAssign"       -> <<n.index, n.value>>

RECURSIVE Eval(_, _)
\* The state after node n, from state s.
Eval(n, s) ==
    CASE Stopped(s) -> s
      [] n.kind = "literal"  -> Yield(s, LiteralValue(n))
      [] n.kind = "variable" -> Yield(s, s.locals[n.slot + 1])
      [] n.kind = "field"    -> Yield(s, s.locals[n.slot + 1].elems[n.field + 1])
      [] n.kind = "input"    ->
            Yield([s EXCEPT !.reads = @ + 1],
                  MakeString(IF s.reads < Len(s.lines) THEN s.lines[s.reads + 1] ELSE <<>>))
      [] n.kind = "logic" ->
            LET l == Eval(n.left, s)
            IN  IF Stopped(l) \/ IsTrue(l.value) = (n.op = "Or") THEN l ELSE Eval(n.right, l)
      [] n.kind = "values" ->
            IF n.exprs = <<>> THEN Yield(s, [type |-> "values", data |-> n.done])
            ELSE LET r == Eval(Head(n.exprs), s)
                 IN  Eval(Operands(Tail(n.exprs), Append(n.done, r.value)), r)
      [] n.kind = "call" ->
            LET r == Eval(All(n.args), s)
                args == [i \in DOMAIN n.args |-> Convert(r.value.data[i], n.targets[i])]
            IN  IF Stopped(r) THEN r ELSE Eval(Invoke(Declarations[n.function + 1], args), r)
      [] n.kind = "invoke" ->
            Returned(n.function, s, Eval(Block(n.function.body), Entered(n.function, n.args, s)))
      [] n.kind = "block" ->
            IF n.stmts = <<>> THEN s ELSE Eval(Block(Tail(n.stmts)), Eval(Head(n.stmts), s))
      [] n.kind = "break"    -> Stop(s, "break")
      [] n.kind = "continue" -> Stop(s, "continue")
      [] n.kind = "if" ->
            LET c == Eval(n.cond, s)
            IN  IF Stopped(c) THEN c
                ELSE Eval(IF IsTrue(c.value) THEN n.then ELSE Block(n.else), c)
      [] n.kind = "while"  -> Eval(Rounds(n.cond, n.body, <<>>), s)
      [] n.kind = "for"    -> Eval(Rounds(n.cond, n.body, n.update), Eval(Block(n.init), s))
      [] n.kind = "rounds" ->
            LET c == Eval(n.cond, s)
                b == Caught(Eval(n.body, c), {"continue"})
            IN  IF Stopped(c) \/ ~IsTrue(c.value) THEN c
                ELSE IF Stopped(b) THEN Caught(b, {"break"})
                ELSE Eval(n, Eval(Block(n.update), b))
      [] n.kind = "switch" ->
            LET v == Eval(n.expr, s)
            IN  IF Stopped(v) THEN v
                ELSE Caught(Eval(Block(Chosen(n, v.value.data)), v), {"break"})
      [] OTHER ->
            LET r == Eval(All(OperandsOf(n)), s)
            IN  IF Stopped(r) THEN r ELSE Completed(n, r.value.data, r)

-----------------------------------------------------------------------------
(* The meaning of the program on the lines typed.                          *)

MainFunction == CHOOSE f \in {Declarations[i] : i \in DOMAIN Declarations} : f.name = "main"

Meaning(lines) ==
    LET s == [locals |-> <<>>, lines |-> lines, reads |-> 0, output |-> <<>>,
              value |-> MakeVoid, stop |-> "no"]
        r == Eval(Invoke(MainFunction, <<>>), s)
    IN  [output |-> r.output, reads |-> r.reads,
         error |-> IF r.stop = "error" THEN r.value.data ELSE "",
         code  |-> IF r.stop = "error" THEN 0 ELSE r.value.data]
=============================================================================
