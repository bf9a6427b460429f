-------------------------------- MODULE AST --------------------------------
(***************************************************************************)
(* The checked syntax trees that the semantic analyzer hands to the code   *)
(* generator (src/include/ast.hpp): one constructor per node class, with   *)
(* the fields code generation reads.  Names are already resolved to local  *)
(* slots, function indexes and field indexes; locations are left out.      *)
(*                                                                         *)
(* A pointer that may be null (an else branch, an initializer, a returned  *)
(* value) is a sequence of at most one node.                               *)
(***************************************************************************)
EXTENDS Integers, Sequences

Types == {"int", "uint", "float", "bool", "string", "array", "struct", "generic", "void"}

\* The types a cast or an implicit conversion leads to.
CastTypes == {"int", "uint", "float", "bool"}

ArithmeticOps == {"Add", "Sub", "Mul", "Div", "Mod", "Less", "Greater", "LessEqual",
                  "GreaterEqual", "BitAnd", "BitOr", "BitXor", "ShiftLeft", "ShiftRight",
                  "Equal", "NotEqual"}
ShortCircuitOps == {"And", "Or"}
UnaryOps        == {"Neg", "BitNot", "Not"}
UnaryBuiltins   == {"ToInt", "Len", "Exit", "Panic", "Assert"}

-----------------------------------------------------------------------------
(* Expressions.                                                            *)

\* A literal carries its value: the number, 0 or 1, or the text.
Literal(type, value, text) ==
    [kind |-> "literal", type |-> type, value |-> value, text |-> text]
IntLiteral(n)    == Literal("int", n, <<>>)
UIntLiteral(n)   == Literal("uint", n, <<>>)
FloatLiteral(x)  == Literal("float", x, <<>>)
BoolLiteral(b)   == Literal("bool", IF b THEN 1 ELSE 0, <<>>)
StringLiteral(s) == Literal("string", 0, s)

Variable(type, slot) == [kind |-> "variable", type |-> type, slot |-> slot]

Binary(op, type, l, r) == [kind |-> "binary", type |-> type, op |-> op, left |-> l, right |-> r]
And(l, r)              == [kind |-> "logic", type |-> "bool", op |-> "And", left |-> l, right |-> r]
Or(l, r)               == [kind |-> "logic", type |-> "bool", op |-> "Or", left |-> l, right |-> r]
Unary(op, e)           == [kind |-> "unary", type |-> e.type, op |-> op, operand |-> e]
CastTo(type, e)        == [kind |-> "cast", type |-> type, operand |-> e]

\* targets are the parameter types the analyzer chose for the arguments.
CallOf(f, type, args, targets) ==
    [kind |-> "call", type |-> type, function |-> f, args |-> args, targets |-> targets]
Builtin(op, type, arg) == [kind |-> "builtin", type |-> type, op |-> op, operand |-> arg]
InputCall              == [kind |-> "input", type |-> "string"]

ArrayLiteral(elems) == [kind |-> "arrayLiteral", type |-> "array", elems |-> elems]
\* The array is a local slot, or an expression when array is not empty.
IndexOf(type, slot, array, index) ==
    [kind |-> "index", type |-> type, slot |-> slot, array |-> array, index |-> index]
\* The field values in declaration order, which is the order of evaluation.
StructLiteral(name, fields) ==
    [kind |-> "structLiteral", type |-> "struct", name |-> name, fields |-> fields]
FieldOf(type, slot, field) ==
    [kind |-> "field", type |-> type, slot |-> slot, field |-> field]

-----------------------------------------------------------------------------
(* Statements.                                                             *)

Assignments == {"assign", "arrayAssign", "fieldAssign"}

Block(stmts)            == [kind |-> "block", stmts |-> stmts]
ExprStmt(e)             == [kind |-> "exprStmt", expr |-> e]
\* size is the declared size of an array variable, the number of fields of a
\* struct variable (which the x86-64 generator looks up), and 0 for other types.
VarDecl(slot, type, size, init) ==
    [kind |-> "varDecl", slot |-> slot, type |-> type, size |-> size, init |-> init]
Assign(slot, e)         == [kind |-> "assign", slot |-> slot, value |-> e]
ArrayAssign(slot, array, index, e) ==
    [kind |-> "arrayAssign", slot |-> slot, array |-> array, index |-> index, value |-> e]
FieldAssign(slot, field, e) ==
    [kind |-> "fieldAssign", slot |-> slot, field |-> field, value |-> e]

If(cond, then, else)    == [kind |-> "if", cond |-> cond, then |-> then, else |-> else]
While(cond, body)       == [kind |-> "while", cond |-> cond, body |-> body]
For(init, cond, update, body) ==
    [kind |-> "for", init |-> init, cond |-> cond, update |-> update, body |-> body]
\* cases is a sequence of [value, stmts]; default is empty when there is none.
Switch(e, cases, default) ==
    [kind |-> "switch", expr |-> e, cases |-> cases, default |-> default]
CaseOf(value, stmts)    == [value |-> value, stmts |-> stmts]

Return(value)           == [kind |-> "return", value |-> value]
BreakStmt               == [kind |-> "break"]
ContinueStmt            == [kind |-> "continue"]
WriteStmt(args)         == [kind |-> "print", args |-> args]

-----------------------------------------------------------------------------
(* Functions.                                                              *)

FunctionDecl(name, returnType, params, localCount, body) ==
    [name |-> name, returnType |-> returnType, params |-> params,
     localCount |-> localCount, body |-> body]

\* A function with what the x86-64 generator reads besides: its name, in the symbols
\* a label is made of (see Assembly), and the types of its parameters.
TypedFunction(path, returnType, paramTypes, localCount, body) ==
    [name |-> IF path = <<"main">> THEN "main" ELSE "helper", path |-> path,
     returnType |-> returnType, params |-> Len(paramTypes), paramTypes |-> paramTypes,
     localCount |-> localCount, body |-> body]

-----------------------------------------------------------------------------
(* Closure: the children of a node of one of the two sets are in them too. *)

ExprClosed(E) ==
    \A e \in E :
        /\ e.kind \in {"literal", "variable", "binary", "logic", "unary", "cast", "call",
                       "builtin", "input", "arrayLiteral", "index", "structLiteral", "field"}
        /\ e.type \in Types
        /\ e.kind = "literal" =>
               /\ e.type \in Types \ {"array", "struct", "generic", "void"}
               /\ e.value \in Int
               /\ e.text \in Seq(Nat)
        /\ e.kind \in {"variable", "index", "field"} => e.slot \in Int
        /\ e.kind = "field" => e.field \in Nat
        /\ e.kind = "index" => e.array \in Seq(E) /\ e.index \in E
        /\ e.kind = "binary" => e.op \in ArithmeticOps
        /\ e.kind = "logic" => e.op \in ShortCircuitOps
        /\ e.kind \in {"binary", "logic"} => e.left \in E /\ e.right \in E
        /\ e.kind = "unary" => e.op \in UnaryOps
        /\ e.kind = "builtin" => e.op \in UnaryBuiltins
        /\ e.kind \in {"unary", "cast", "builtin"} => e.operand \in E
        /\ e.kind = "cast" => e.type \in CastTypes \/ e.type = e.operand.type
        /\ e.kind = "call" =>
               /\ e.function \in Nat
               /\ e.args \in Seq(E)
               /\ e.targets \in Seq(Types)
               /\ Len(e.targets) = Len(e.args)
               /\ \A i \in DOMAIN e.args :
                      e.targets[i] \in CastTypes \/ e.targets[i] = e.args[i].type
        /\ e.kind = "arrayLiteral" => e.elems \in Seq(E)
        /\ e.kind = "structLiteral" => e.fields \in Seq(E) /\ e.name \in Seq(Nat)

StmtClosed(S, E) ==
    \A s \in S :
        /\ s.kind \in {"block", "exprStmt", "varDecl", "assign", "arrayAssign", "fieldAssign",
                       "if", "while", "for", "switch", "return", "break", "continue", "print"}
        /\ s.kind = "block" => s.stmts \in Seq(S)
        /\ s.kind = "exprStmt" => s.expr \in E
        /\ s.kind = "varDecl" => s.init \in Seq(E) /\ s.type \in Types /\ s.size \in Int
        /\ s.kind \in Assignments \cup {"varDecl"} => s.slot \in Int
        /\ s.kind \in Assignments => s.value \in E
        /\ s.kind = "arrayAssign" => s.array \in Seq(E) /\ s.index \in E
        /\ s.kind = "fieldAssign" => s.field \in Nat
        /\ s.kind \in {"if", "while", "for"} => s.cond \in E
        /\ s.kind = "if" => s.then \in S /\ s.else \in Seq(S)
        /\ s.kind \in {"while", "for"} => s.body \in S
        /\ s.kind = "for" =>
               /\ s.init \in Seq({x \in S : x.kind \in Assignments \cup {"varDecl"}})
               /\ s.update \in Seq({x \in S : x.kind \in Assignments})
        /\ s.kind = "switch" =>
               /\ s.expr \in E
               /\ s.cases \in Seq([value : Int, stmts : Seq(S)])
               /\ s.default \in Seq(S)
        /\ s.kind = "return" => s.value \in Seq(E)
        /\ s.kind = "print" => s.args \in Seq(E)

\* The parameters are the first local slots.
IsProgram(p, S) ==
    /\ p \in Seq([name : {"main", "helper"}, returnType : Types, params : Nat,
                  localCount : Nat, body : Seq(S)])
    /\ \A i \in DOMAIN p : p[i].params <= p[i].localCount
=============================================================================
