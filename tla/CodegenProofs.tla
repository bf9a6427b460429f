--------------------------- MODULE CodegenProofs ---------------------------
(***************************************************************************)
(* Proofs about the bytecode generator, for every program: its type        *)
(* invariant, that every open loop and switch will be closed, that no jump *)
(* leaves the function it was emitted for, and, in the second half, that   *)
(* each jump that waits for its target is remembered by exactly one        *)
(* activation, loop or switch until it gets it, and gets it once.  With    *)
(* that, what the generator hands out is bytecode as the machine takes it. *)
(***************************************************************************)
EXTENDS Codegen, Bytecode, CallStackProofs, TLAPS

-----------------------------------------------------------------------------
(* The activations an action starts are typed.                             *)

\* The activations that close no loop and no switch; those of them that
\* remember no jump; and those that only evaluate an expression.
Simple(from, to) == {it \in Items(from, to) : it.task \notin LoopEnds \cup SwitchEnds}
Fresh(from, to) ==
    {it \in Items(from, to) : it.task \in {"generate", "emit", "argument", "noDefault"}}
Quiet(from, to) ==
    {it \in Items(from, to) : \/ it.task \in {"emit", "argument"}
                              \/ it.task = "generate" /\ it.node \in Exprs}

LEMMA FreshSimple ==
    ASSUME NEW from, NEW to
    PROVE  /\ Quiet(from, to) \subseteq Fresh(from, to)
           /\ Fresh(from, to) \subseteq Simple(from, to)
           /\ Seq(Fresh(from, to)) \subseteq Seq(Simple(from, to))
<1>1. Quiet(from, to) \subseteq Fresh(from, to)
  BY DEF Quiet, Fresh
<1>2. Fresh(from, to) \subseteq Simple(from, to)
  BY DEF Fresh, Simple, LoopEnds, SwitchEnds
<1>3. QED
  BY <1>1, <1>2, SeqMonotonic

\* An activation stays typed when the code grows.
LEMMA ItemsGrow ==
    ASSUME NEW from \in Nat, NEW to \in Nat, NEW further \in Nat, to <= further
    PROVE  Items(from, to) \subseteq Items(from, further)
<1>1. SUFFICES ASSUME NEW it \in Items(from, to) PROVE it \in Items(from, further)
  OBVIOUS
<1>2. it.jumps \in Seq(from .. further - 1)
  <2>1. it.jumps \in Seq(from .. to - 1) /\ from .. to - 1 \subseteq from .. further - 1
    BY DEF Items, ItemOK
  <2>2. QED
    BY <2>1, SeqMonotonic
<1>3. it.task \in {"whileBody", "whileEnd", "forBody", "forUpdate", "forEnd"} =>
          it.target \in from .. further
  BY DEF Items, ItemOK
<1>4. QED
  BY <1>2, <1>3 DEF Items, ItemOK

LEMMA GenOK ==
    ASSUME NEW from \in Nat, NEW to \in Nat, NEW n \in Exprs \cup Stmts
    PROVE  /\ Gen(n) \in Fresh(from, to) /\ Gen(n) \in Simple(from, to)
           /\ n \in Exprs => Gen(n) \in Quiet(from, to)
<1>1. n \in Nodes /\ <<>> \in Seq(Nat) /\ <<>> \in Seq(from .. to - 1)
  BY DEF Nodes
<1>2. Gen(n) \in Activations
  BY <1>1 DEF Gen, Item, Activations, Tasks
<1>3. ItemOK(Gen(n), from, to)
  BY <1>1 DEF ItemOK, Gen, Item
<1>4. Gen(n).task = "generate" /\ Gen(n).node = n
  BY DEF Gen, Item
<1>5. Gen(n) \in Fresh(from, to) /\ (n \in Exprs => Gen(n) \in Quiet(from, to))
  BY <1>2, <1>3, <1>4 DEF Fresh, Quiet, Items
<1>6. QED
  BY <1>5, FreshSimple

LEMMA EmitOK ==
    ASSUME NEW from \in Nat, NEW to \in Nat, NEW ins \in Instructions, ~IsJump(ins)
    PROVE  Emit(ins) \in Quiet(from, to) /\ Emit(ins) \in Fresh(from, to) /\ Emit(ins) \in Simple(from, to)
<1>1. ins \in Nodes /\ <<>> \in Seq(Nat) /\ <<>> \in Seq(from .. to - 1)
  BY DEF Nodes
<1>2. Emit(ins) \in Activations
  BY <1>1 DEF Emit, Item, Activations, Tasks
<1>3. ItemOK(Emit(ins), from, to)
  BY <1>1 DEF ItemOK, Emit, Item
<1>4. Emit(ins).task = "emit"
  BY DEF Emit, Item
<1>5. Emit(ins) \in Quiet(from, to)
  BY <1>2, <1>3, <1>4 DEF Quiet, Items
<1>6. QED
  BY <1>5, FreshSimple

LEMMA GenAllOK ==
    ASSUME NEW from \in Nat, NEW to \in Nat, NEW S, S \subseteq Exprs \cup Stmts, NEW nodes \in Seq(S)
    PROVE  /\ GenAll(nodes) \in Seq(Fresh(from, to)) /\ GenAll(nodes) \in Seq(Simple(from, to))
           /\ S \subseteq Exprs => GenAll(nodes) \in Seq(Quiet(from, to))
<1>1. \A i \in 1 .. Len(nodes) : Gen(nodes[i]) \in Fresh(from, to)
  BY GenOK
<1>2. S \subseteq Exprs => \A i \in 1 .. Len(nodes) : Gen(nodes[i]) \in Quiet(from, to)
  BY GenOK
<1>3. GenAll(nodes) \in Seq(Fresh(from, to))
  BY <1>1 DEF GenAll
<1>4. S \subseteq Exprs => GenAll(nodes) \in Seq(Quiet(from, to))
  BY <1>2 DEF GenAll
<1>5. QED
  BY <1>3, <1>4, FreshSimple

\* An instruction without a target to patch.
LEMMA InstructionOK ==
    ASSUME NEW op \in Opcodes \ JumpOps, NEW arg \in Int, NEW arg2 \in Int, NEW text \in Seq(Nat)
    PROVE  /\ Instruction(op, arg, arg2, text) \in Instructions
           /\ ~IsJump(Instruction(op, arg, arg2, text))
BY DEF Instruction, Instructions, IsJump

LEMMA EmitOpOK ==
    ASSUME NEW from \in Nat, NEW to \in Nat, NEW op \in Opcodes \ JumpOps
    PROVE  /\ Emit(Plain(op)) \in Quiet(from, to) /\ Emit(Plain(op)) \in Fresh(from, to)
           /\ Emit(Plain(op)) \in Simple(from, to)
           /\ \A arg \in Int : Emit(With(op, arg)) \in Quiet(from, to) /\ Emit(With(op, arg)) \in Fresh(from, to)
<1>1. <<>> \in Seq(Nat) /\ 0 \in Int
  OBVIOUS
<1>2. ASSUME NEW arg \in Int PROVE Emit(With(op, arg)) \in Quiet(from, to)
  <2>1. With(op, arg) \in Instructions /\ ~IsJump(With(op, arg))
    BY <1>1, InstructionOK DEF With
  <2>2. QED
    BY <2>1, EmitOK
<1>3. Emit(Plain(op)) \in Quiet(from, to)
  <2>1. Plain(op) \in Instructions /\ ~IsJump(Plain(op))
    BY <1>1, InstructionOK DEF Plain
  <2>2. QED
    BY <2>1, EmitOK
<1>4. QED
  BY <1>2, <1>3, FreshSimple

LEMMA ConvertedOK ==
    ASSUME NEW from \in Nat, NEW to \in Nat, NEW e \in Exprs, NEW type,
           type \in CastTypes \/ type = e.type
    PROVE  /\ Converted(e, type) \in Seq(Quiet(from, to))
           /\ Converted(e, type) \in Seq(Simple(from, to))
<1>1. Gen(e) \in Quiet(from, to)
  BY GenOK
<1>2. e.type = type => Converted(e, type) \in Seq(Quiet(from, to))
  BY <1>1 DEF Converted
<1>3. ASSUME e.type # type PROVE Converted(e, type) \in Seq(Quiet(from, to))
  <2>1. CastOp(type) \in Opcodes \ JumpOps
    BY <1>3 DEF CastOp, CastTypes, Opcodes, JumpOps
  <2>2. Emit(Plain(CastOp(type))) \in Quiet(from, to)
    BY <2>1, EmitOpOK
  <2>3. QED
    BY <1>1, <1>3, <2>2 DEF Converted
<1>4. Converted(e, type) \in Seq(Quiet(from, to))
  BY <1>2, <1>3
<1>5. QED
  <2>1. Quiet(from, to) \subseteq Simple(from, to)
    BY FreshSimple
  <2>2. QED
    BY <1>4, <2>1, SeqMonotonic

LEMMA DefaultValueOK ==
    ASSUME NEW type \in Types
    PROVE  DefaultValue(type) \in Instructions /\ ~IsJump(DefaultValue(type))
<1>1. <<>> \in Seq(Nat)
  OBVIOUS
<1>2. QED
  BY <1>1 DEF DefaultValue, Plain, With, Instruction, Instructions, Opcodes, IsJump, JumpOps

LEMMA DefaultOK ==
    ASSUME NEW from \in Nat, NEW to \in Nat, NEW type \in Types, NEW size \in Int
    PROVE  Default(type, size) \in Seq(Fresh(from, to))
<1>1. CASE type # "array"
  <2>1. Emit(DefaultValue(type)) \in Fresh(from, to)
    BY DefaultValueOK, EmitOK
  <2>2. QED
    BY <1>1, <2>1 DEF Default
<1>2. CASE type = "array" /\ size > 0
  <2>1. /\ Emit(With("PushInt", 0)) \in Fresh(from, to)
        /\ Emit(With("MakeArray", size)) \in Fresh(from, to)
    <3>1. {"PushInt", "MakeArray"} \subseteq Opcodes \ JumpOps
      BY DEF Opcodes, JumpOps
    <3>2. QED
      BY <3>1, EmitOpOK
  <2>2. [i \in 1 .. size |-> Emit(With("PushInt", 0))] \in Seq(Fresh(from, to))
    BY <1>2, <2>1
  <2>3. <<Emit(With("MakeArray", size))>> \in Seq(Fresh(from, to))
    BY <2>1
  <2>4. QED
    BY <1>2, <2>2, <2>3, ConcatElements DEF Default
<1>3. CASE type = "array" /\ ~(size > 0)
  <2>1. Item("noDefault", [type |-> type], <<>>, 0, 0) \in Fresh(from, to)
    <3>1. [type |-> type] \in Nodes /\ <<>> \in Seq(Nat) /\ <<>> \in Seq(from .. to - 1)
      BY DEF Nodes
    <3>2. Item("noDefault", [type |-> type], <<>>, 0, 0) \in Activations
      BY <3>1 DEF Item, Activations, Tasks
    <3>3. ItemOK(Item("noDefault", [type |-> type], <<>>, 0, 0), from, to)
      BY <3>1 DEF Item, ItemOK
    <3>4. QED
      BY <3>2, <3>3 DEF Item, Fresh, Items
  <2>2. QED
    BY <1>3, <2>1 DEF Default
<1>4. QED
  BY <1>1, <1>2, <1>3

\* An activation of an expression: Parts gives typed ones for every kind.
LEMMA ExprPartsOK ==
    ASSUME NEW from \in Nat, NEW to \in Nat, NEW n \in Exprs, n.kind \in StraightLine
    PROVE  Parts(n) \in Seq(Quiet(from, to))
<1> DEFINE good == Quiet(from, to)
<1>1. \A m \in Exprs : Gen(m) \in good
  BY GenOK
<1>2. /\ \A op \in Opcodes \ JumpOps : Emit(Plain(op)) \in good
      /\ \A op \in Opcodes \ JumpOps : \A arg \in Int : Emit(With(op, arg)) \in good
  BY EmitOpOK
<1>3. \A s \in Seq(Exprs) : GenAll(s) \in Seq(good)
  BY GenAllOK
<1>4. /\ \A s, t \in Seq(good) : s \o t \in Seq(good)
      /\ \A it \in good : <<it>> \in Seq(good)
  BY ConcatElements
<1> HIDE DEF good
<1>5. CASE n.kind = "literal"
  <2>1. n.type \in Types \ {"array", "struct", "generic", "void"} /\ n.value \in Int /\ n.text \in Seq(Nat)
    BY <1>5, ExprsAssumption DEF ExprClosed
  <2>2. PushLiteral(n) \in Instructions /\ ~IsJump(PushLiteral(n))
    <3>1. <<>> \in Seq(Nat)
      OBVIOUS
    <3>2. QED
      BY <2>1, <3>1 DEF PushLiteral, With, Instruction, Instructions, Opcodes, IsJump, JumpOps, Types
  <2>3. Emit(PushLiteral(n)) \in good
    BY <2>2, EmitOK DEF good
  <2>4. QED
    BY <1>5, <2>3 DEF Parts, good
<1>6. CASE n.kind = "variable"
  <2>1. n.slot \in Int
    BY <1>6, ExprsAssumption DEF ExprClosed
  <2>2. Emit(With("Load", n.slot)) \in good
    BY <1>2, <2>1 DEF Opcodes, JumpOps
  <2>3. QED
    BY <1>6, <2>2 DEF Parts, generateVariableExpr, good
<1>7. CASE n.kind = "binary"
  <2>1. n.left \in Exprs /\ n.right \in Exprs /\ n.op \in Opcodes \ JumpOps
    BY <1>7, ExprsAssumption DEF ExprClosed, Opcodes, ArithmeticOps, JumpOps
  <2>2. Emit(Plain(n.op)) \in good
    BY <1>2, <2>1
  <2>3. <<Gen(n.left), Gen(n.right), Emit(Plain(n.op))>> \in Seq(good)
    BY <1>1, <2>1, <2>2
  <2>4. QED
    BY <1>7, <2>3 DEF Parts, generateBinaryExpr, good
<1>8. CASE n.kind = "unary" \/ n.kind = "builtin"
  <2>1. n.operand \in Exprs /\ n.op \in Opcodes \ JumpOps
    BY <1>8, ExprsAssumption DEF ExprClosed, Opcodes, UnaryOps, UnaryBuiltins, JumpOps
  <2>2. <<Gen(n.operand), Emit(Plain(n.op))>> \in Seq(good)
    BY <1>1, <1>2, <2>1
  <2>3. QED
    BY <1>8, <2>2 DEF Parts, generateUnaryExpr, generateBuiltin, good
<1>9. CASE n.kind = "cast"
  <2>1. n.operand \in Exprs /\ (n.type \in CastTypes \/ n.type = n.operand.type)
    BY <1>9, ExprsAssumption DEF ExprClosed
  <2>2. Converted(n.operand, n.type) \in Seq(good)
    BY <2>1, ConvertedOK DEF good
  <2>3. QED
    BY <1>9, <2>2 DEF Parts, generateCastExpr, good
<1>10. CASE n.kind = "input"
  <2>1. Emit(Plain("Input")) \in good
    BY <1>2 DEF Opcodes, JumpOps
  <2>2. QED
    BY <1>10, <2>1 DEF Parts, generateInput, good
<1>11. CASE n.kind = "call"
  <2>1. n.function \in Int /\ n.args \in Seq(Exprs)
    BY <1>11, ExprsAssumption DEF ExprClosed
  <2>2. ASSUME NEW i \in 1 .. Len(n.args) PROVE Item("argument", n, <<>>, 0, i) \in good
    <3>1. n \in Nodes /\ <<>> \in Seq(Nat) /\ <<>> \in Seq(from .. to - 1) /\ i \in Nat
      BY DEF Nodes
    <3>2. Item("argument", n, <<>>, 0, i) \in Activations
      BY <3>1 DEF Item, Activations, Tasks
    <3>3. ItemOK(Item("argument", n, <<>>, 0, i), from, to)
      BY <1>11, <2>1, <3>1 DEF Item, ItemOK
    <3>4. QED
      BY <3>2, <3>3 DEF Item, good, Quiet, Items
  <2>3. [i \in DOMAIN n.args |-> Item("argument", n, <<>>, 0, i)] \in Seq(good)
    BY <2>1, <2>2
  <2>4. Emit(With("Call", n.function)) \in good
    BY <1>2, <2>1 DEF Opcodes, JumpOps
  <2>5. QED
    BY <1>4, <1>11, <2>3, <2>4 DEF Parts, generateCallExpr, good
<1>12. CASE n.kind = "arrayLiteral"
  <2>1. n.elems \in Seq(Exprs) /\ Len(n.elems) \in Int
    BY <1>12, ExprsAssumption DEF ExprClosed
  <2>2. Emit(With("MakeArray", Len(n.elems))) \in good
    BY <1>2, <2>1 DEF Opcodes, JumpOps
  <2>3. GenAll(n.elems) \in Seq(good)
    BY <1>3, <2>1
  <2>4. QED
    BY <1>4, <1>12, <2>2, <2>3 DEF Parts, generateArrayLiteralExpr, good
<1>13. CASE n.kind = "index"
  <2>1. n.array \in Seq(Exprs) /\ n.index \in Exprs /\ n.slot \in Int
    BY <1>13, ExprsAssumption DEF ExprClosed
  <2>2. Emit(With("LoadIndex", IF n.array = <<>> THEN n.slot ELSE -1)) \in good
    <3>1. (IF n.array = <<>> THEN n.slot ELSE -1) \in Int
      BY <2>1
    <3>2. QED
      BY <1>2, <3>1 DEF Opcodes, JumpOps
  <2>3. /\ GenAll(n.array) \in Seq(good)
        /\ <<Gen(n.index), Emit(With("LoadIndex", IF n.array = <<>> THEN n.slot ELSE -1))>> \in Seq(good)
    BY <1>1, <1>3, <2>1, <2>2
  <2>4. QED
    BY <1>4, <1>13, <2>3 DEF Parts, generateIndexExpr, good
<1>14. CASE n.kind = "structLiteral"
  <2>1. n.fields \in Seq(Exprs) /\ n.name \in Seq(Nat) /\ Len(n.fields) \in Int
    BY <1>14, ExprsAssumption DEF ExprClosed
  <2>2. Emit(Instruction("MakeStruct", Len(n.fields), 0, n.name)) \in good
    <3>1. Instruction("MakeStruct", Len(n.fields), 0, n.name) \in Instructions
      BY <2>1 DEF Instruction, Instructions, Opcodes
    <3>2. ~IsJump(Instruction("MakeStruct", Len(n.fields), 0, n.name))
      BY DEF Instruction, IsJump, JumpOps
    <3>3. QED
      BY <3>1, <3>2, EmitOK DEF good
  <2>3. GenAll(n.fields) \in Seq(good)
    BY <1>3, <2>1
  <2>4. QED
    BY <1>4, <1>14, <2>2, <2>3 DEF Parts, generateStructLiteralExpr, good
<1>15. CASE n.kind = "field"
  <2>1. n.slot \in Int /\ n.field \in Int /\ <<>> \in Seq(Nat)
    BY <1>15, ExprsAssumption DEF ExprClosed
  <2>2. Emit(Instruction("LoadField", n.slot, n.field, <<>>)) \in good
    <3>1. Instruction("LoadField", n.slot, n.field, <<>>) \in Instructions
      BY <2>1 DEF Instruction, Instructions, Opcodes
    <3>2. ~IsJump(Instruction("LoadField", n.slot, n.field, <<>>))
      BY DEF Instruction, IsJump, JumpOps
    <3>3. QED
      BY <3>1, <3>2, EmitOK DEF good
  <2>3. QED
    BY <1>15, <2>2 DEF Parts, generateFieldAccessExpr, good
<1>16. n.kind \in {"literal", "variable", "binary", "unary", "cast", "call", "builtin", "input",
                   "arrayLiteral", "index", "structLiteral", "field"}
  BY ExprsAssumption DEF ExprClosed, StraightLine
<1>17. QED
  BY <1>5, <1>6, <1>7, <1>8, <1>9, <1>10, <1>11, <1>12, <1>13, <1>14, <1>15, <1>16 DEF good

LEMMA AssignmentPartsOK ==
    ASSUME NEW from \in Nat, NEW to \in Nat, NEW n \in Stmts, n.kind \in Assignments
    PROVE  Parts(n) \in Seq(Quiet(from, to))
<1> DEFINE good == Quiet(from, to)
<1>1. \A m \in Exprs : Gen(m) \in good
  BY GenOK
<1>2. \A op \in Opcodes \ JumpOps : \A arg \in Int : Emit(With(op, arg)) \in good
  BY EmitOpOK
<1>3. \A s \in Seq(Exprs) : GenAll(s) \in Seq(good)
  BY GenAllOK
<1>4. \A s, t \in Seq(good) : s \o t \in Seq(good)
  BY ConcatElements
<1> HIDE DEF good
<1>5. CASE n.kind = "assign"
  <2>1. n.value \in Exprs /\ n.slot \in Int
    BY <1>5, StmtsAssumption DEF StmtClosed, Assignments
  <2>2. Emit(With("Store", n.slot)) \in good
    BY <1>2, <2>1 DEF Opcodes, JumpOps
  <2>3. <<Gen(n.value), Emit(With("Store", n.slot))>> \in Seq(good)
    BY <1>1, <2>1, <2>2
  <2>4. QED
    BY <1>5, <2>3 DEF Parts, generateAssignStmt, good
<1>6. CASE n.kind = "arrayAssign"
  <2>1. n.array \in Seq(Exprs) /\ n.index \in Exprs /\ n.value \in Exprs /\ n.slot \in Int
    BY <1>6, StmtsAssumption DEF StmtClosed, Assignments
  <2> DEFINE store == Emit(With("StoreIndex", IF n.array = <<>> THEN n.slot ELSE -1))
  <2>2. store \in good
    <3>1. (IF n.array = <<>> THEN n.slot ELSE -1) \in Int
      BY <2>1
    <3>2. QED
      BY <1>2, <3>1 DEF Opcodes, JumpOps
  <2> HIDE DEF store
  <2>3. GenAll(n.array) \in Seq(good) /\ <<Gen(n.index), Gen(n.value), store>> \in Seq(good)
    BY <1>1, <1>3, <2>1, <2>2
  <2>4. GenAll(n.array) \o <<Gen(n.index), Gen(n.value), store>> \in Seq(good)
    BY <1>4, <2>3
  <2>5. QED
    BY <1>6, <2>4 DEF Parts, generateArrayAssignStmt, good, store
<1>7. CASE n.kind = "fieldAssign"
  <2>1. n.value \in Exprs /\ n.slot \in Int /\ n.field \in Nat
    BY <1>7, StmtsAssumption DEF StmtClosed, Assignments
  <2>2. Emit(Instruction("StoreField", n.slot, n.field, <<>>)) \in good
    <3>1. <<>> \in Seq(Nat)
      OBVIOUS
    <3>2. Instruction("StoreField", n.slot, n.field, <<>>) \in Instructions
      BY <2>1, <3>1 DEF Instruction, Instructions, Opcodes
    <3>3. ~IsJump(Instruction("StoreField", n.slot, n.field, <<>>))
      BY DEF Instruction, IsJump, JumpOps
    <3>4. QED
      BY <3>2, <3>3, EmitOK DEF good
  <2>3. <<Gen(n.value), Emit(Instruction("StoreField", n.slot, n.field, <<>>))>> \in Seq(good)
    BY <1>1, <2>1, <2>2
  <2>4. QED
    BY <1>7, <2>3 DEF Parts, generateFieldAssignStmt, good
<1>8. QED
  BY <1>5, <1>6, <1>7 DEF good, Assignments

LEMMA StmtPartsOK ==
    ASSUME NEW from \in Nat, NEW to \in Nat, NEW n \in Stmts, n.kind \in StraightLine
    PROVE  Parts(n) \in Seq(Fresh(from, to))
<1> DEFINE good == Fresh(from, to)
<1>1. \A m \in Exprs : Gen(m) \in good
  BY GenOK
<1>2. /\ \A op \in Opcodes \ JumpOps : Emit(Plain(op)) \in good
      /\ \A op \in Opcodes \ JumpOps : \A arg \in Int : Emit(With(op, arg)) \in good
  BY EmitOpOK
<1>3. /\ \A s \in Seq(Exprs) : GenAll(s) \in Seq(good)
      /\ \A s \in Seq(Stmts) : GenAll(s) \in Seq(good)
  BY GenAllOK
<1>4. /\ \A s, t \in Seq(good) : s \o t \in Seq(good)
      /\ \A it \in good : <<it>> \in Seq(good)
  BY ConcatElements
<1> HIDE DEF good
<1>5. CASE n.kind = "block"
  <2>1. n.stmts \in Seq(Stmts)
    BY <1>5, StmtsAssumption DEF StmtClosed
  <2>2. QED
    BY <1>3, <1>5, <2>1 DEF Parts, good
<1>6. CASE n.kind = "exprStmt"
  <2>1. n.expr \in Exprs
    BY <1>6, StmtsAssumption DEF StmtClosed
  <2>2. Emit(Plain("Pop")) \in good
    BY <1>2 DEF Opcodes, JumpOps
  <2>3. Gen(n.expr) \in good
    BY <1>1, <2>1
  <2>4. <<Gen(n.expr), Emit(Plain("Pop"))>> \in Seq(good) /\ <<Gen(n.expr)>> \in Seq(good)
    BY <2>2, <2>3
  <2>5. QED
    BY <1>6, <2>4 DEF Parts, generateExprStmt, good
<1>7. CASE n.kind = "varDecl"
  <2>1. n.init \in Seq(Exprs) /\ n.type \in Types /\ n.size \in Int /\ n.slot \in Int
    BY <1>7, StmtsAssumption DEF StmtClosed
  <2>2. Emit(With("Store", n.slot)) \in good
    BY <1>2, <2>1 DEF Opcodes, JumpOps
  <2>3. GenAll(n.init) \in Seq(good) /\ Default(n.type, n.size) \in Seq(good)
    BY <1>3, <2>1, DefaultOK DEF good
  <2>4. (IF n.init # <<>> THEN GenAll(n.init) ELSE Default(n.type, n.size)) \in Seq(good)
    BY <2>3
  <2>5. QED
    BY <1>4, <1>7, <2>2, <2>4 DEF Parts, generateVarDeclStmt, good
<1>8. CASE n.kind \in Assignments
  <2>1. Parts(n) \in Seq(Quiet(from, to)) /\ Quiet(from, to) \subseteq good
    BY <1>8, AssignmentPartsOK, FreshSimple DEF good
  <2>2. QED
    BY <2>1, SeqMonotonic DEF good
<1>9. CASE n.kind = "return"
  <2>1. n.value \in Seq(Exprs)
    BY <1>9, StmtsAssumption DEF StmtClosed
  <2>2. Emit(Plain("PushVoid")) \in good /\ Emit(Plain("Ret")) \in good
    BY <1>2 DEF Opcodes, JumpOps
  <2>3. GenAll(n.value) \in Seq(good) /\ <<Emit(Plain("PushVoid"))>> \in Seq(good)
    BY <1>3, <1>4, <2>1, <2>2
  <2> DEFINE value == IF n.value # <<>> THEN GenAll(n.value) ELSE <<Emit(Plain("PushVoid"))>>
  <2>4. value \in Seq(good)
    BY <2>3
  <2>5. Parts(n) = value \o <<Emit(Plain("Ret"))>>
    BY <1>9 DEF Parts, generateReturnStmt
  <2>6. <<Emit(Plain("Ret"))>> \in Seq(good)
    BY <2>2
  <2> HIDE DEF value
  <2>7. QED
    BY <1>4, <2>4, <2>5, <2>6 DEF good
<1>10. CASE n.kind = "print"
  <2>1. n.args \in Seq(Exprs)
    BY <1>10, StmtsAssumption DEF StmtClosed
  <2>2. Emit(With("Print", Len(n.args))) \in good
    <3>1. Len(n.args) \in Int
      BY <2>1
    <3>2. QED
      BY <1>2, <3>1 DEF Opcodes, JumpOps
  <2>3. GenAll(n.args) \in Seq(good)
    BY <1>3, <2>1
  <2>4. QED
    BY <1>4, <1>10, <2>2, <2>3 DEF Parts, generatePrintStmt, good
<1>11. n.kind \in {"block", "exprStmt", "varDecl", "assign", "arrayAssign", "fieldAssign",
                   "return", "print"}
  BY StmtsAssumption DEF StmtClosed, StraightLine
<1>12. QED
  BY <1>5, <1>6, <1>7, <1>8, <1>9, <1>10, <1>11 DEF good, Assignments

LEMMA PartsOK ==
    ASSUME NEW from \in Nat, NEW to \in Nat, NEW n \in Exprs \cup Stmts, n.kind \in StraightLine
    PROVE  Parts(n) \in Seq(Fresh(from, to)) /\ Parts(n) \in Seq(Simple(from, to))
<1>1. Seq(Quiet(from, to)) \subseteq Seq(Fresh(from, to))
  BY FreshSimple, SeqMonotonic
<1>2. Parts(n) \in Seq(Fresh(from, to))
  BY <1>1, ExprPartsOK, StmtPartsOK
<1>3. QED
  BY <1>2, FreshSimple

-----------------------------------------------------------------------------
(* The emitted code.                                                       *)

\* The code of the function that begins at an address is well typed, and its
\* jumps lead into it or to its end.
CodeOK(c, from) ==
    /\ c \in Seq(Instructions)
    /\ from \in 0 .. Len(c)
    /\ \A i \in from + 1 .. Len(c) :
           IsJump(c[i]) /\ c[i].arg # Unpatched => c[i].arg \in from .. Len(c)

\* What an action may make of the code: it grows, and the functions that are
\* finished stay as they are.
Grown(c, d, from) ==
    /\ CodeOK(d, from)
    /\ Len(c) <= Len(d)
    /\ \A i \in 1 .. from : d[i] = c[i]

LEMMA GrownConcat ==
    ASSUME NEW c, NEW from, CodeOK(c, from), NEW t \in Seq(Instructions),
           \A i \in 1 .. Len(t) :
               IsJump(t[i]) /\ t[i].arg # Unpatched => t[i].arg \in from .. Len(c) + Len(t)
    PROVE  Grown(c, c \o t, from) /\ Len(c \o t) = Len(c) + Len(t)
<1> DEFINE d == c \o t
<1>1. /\ c \in Seq(Instructions) /\ Len(c) \in Nat /\ Len(t) \in Nat
      /\ from \in 0 .. Len(c)
  BY DEF CodeOK
<1>2. /\ d \in Seq(Instructions)
      /\ Len(d) = Len(c) + Len(t)
      /\ \A i \in 1 .. Len(c) : d[i] = c[i]
      /\ \A i \in Len(c) + 1 .. Len(c) + Len(t) : d[i] = t[i - Len(c)]
  BY <1>1, ConcatElements
<1> HIDE DEF d
<1>3. ASSUME NEW i \in from + 1 .. Len(d), IsJump(d[i]), d[i].arg # Unpatched
      PROVE  d[i].arg \in from .. Len(d)
  <2>1. CASE i <= Len(c)
    <3>1. c[i].arg \in from .. Len(c)
      BY <1>1, <1>2, <1>3, <2>1 DEF CodeOK
    <3>2. QED
      BY <1>1, <1>2, <2>1, <3>1
  <2>2. CASE i > Len(c)
    <3>1. i - Len(c) \in 1 .. Len(t) /\ d[i] = t[i - Len(c)]
      BY <1>1, <1>2, <2>2
    <3>2. QED
      BY <1>2, <1>3, <3>1
  <2>3. QED
    BY <1>1, <2>1, <2>2
<1>4. CodeOK(d, from)
  <2>1. from \in 0 .. Len(d)
    BY <1>1, <1>2
  <2>2. QED
    BY <1>2, <1>3, <2>1, Zenon DEF CodeOK
<1>5. Grown(c, d, from) /\ Len(d) = Len(c) + Len(t)
  BY <1>1, <1>2, <1>4 DEF Grown
<1>6. QED
  BY <1>5 DEF d

LEMMA GrownAppend ==
    ASSUME NEW c, NEW from, CodeOK(c, from), NEW ins \in Instructions,
           IsJump(ins) /\ ins.arg # Unpatched => ins.arg \in from .. Len(c) + 1
    PROVE  Grown(c, Append(c, ins), from) /\ Len(Append(c, ins)) = Len(c) + 1
<1> DEFINE t == <<ins>>
<1>1. t \in Seq(Instructions) /\ Len(t) = 1 /\ t[1] = ins
  OBVIOUS
<1>2. c \in Seq(Instructions)
  BY DEF CodeOK
<1>3. Append(c, ins) = c \o t
  BY <1>2
<1> HIDE DEF t
<1>4. \A i \in 1 .. Len(t) :
          IsJump(t[i]) /\ t[i].arg # Unpatched => t[i].arg \in from .. Len(c) + Len(t)
  BY <1>1
<1>5. QED
  BY <1>1, <1>3, <1>4, GrownConcat

LEMMA GrownPatch ==
    ASSUME NEW c, NEW from, CodeOK(c, from), NEW target \in (from .. Len(c)) \cup {Unpatched},
           NEW jumps, \A j \in jumps : j >= from
    PROVE  Grown(c, Patch(c, jumps, target), from) /\ Len(Patch(c, jumps, target)) = Len(c)
<1> DEFINE d == Patch(c, jumps, target)
<1>1. /\ c \in Seq(Instructions) /\ Len(c) \in Nat
      /\ from \in 0 .. Len(c) /\ target \in Int
  <2>1. c \in Seq(Instructions) /\ from \in 0 .. Len(c)
    BY DEF CodeOK
  <2>2. Len(c) \in Nat
    BY <2>1
  <2>3. target \in Int
    BY <2>1, <2>2 DEF Unpatched
  <2>4. QED
    BY <2>1, <2>2, <2>3
<1>2. \A i \in 1 .. Len(c) :
          d[i] = IF i - 1 \in jumps THEN [c[i] EXCEPT !.arg = target] ELSE c[i]
  <2>1. DOMAIN c = 1 .. Len(c)
    BY <1>1
  <2>2. QED
    BY <2>1, Zenon DEF Patch
<1>3. \A ins \in Instructions :
          [ins EXCEPT !.arg = target] \in Instructions /\ [ins EXCEPT !.arg = target].arg = target
  BY <1>1 DEF Instructions
<1>4. d \in Seq(Instructions) /\ Len(d) = Len(c)
  <2>1. ASSUME NEW i \in 1 .. Len(c) PROVE d[i] \in Instructions
    <3>1. c[i] \in Instructions
      BY <1>1
    <3>2. CASE i - 1 \in jumps
      BY <1>2, <1>3, <3>1, <3>2
    <3>3. CASE i - 1 \notin jumps
      BY <1>2, <3>1, <3>3
    <3>4. QED
      BY <3>2, <3>3
  <2>2. DOMAIN d = 1 .. Len(c) /\ d = [i \in 1 .. Len(c) |-> d[i]]
    BY <1>1 DEF Patch
  <2> HIDE DEF d
  <2>3. QED
    BY <1>1, <2>1, <2>2
<1> HIDE DEF d
<1>5. ASSUME NEW i \in from + 1 .. Len(d), IsJump(d[i]), d[i].arg # Unpatched
      PROVE  d[i].arg \in from .. Len(d)
  <2>1. i \in 1 .. Len(c)
    BY <1>1, <1>4
  <2>2. CASE i - 1 \in jumps
    <3>1. c[i] \in Instructions
      BY <1>1, <2>1
    <3>2. d[i] = [c[i] EXCEPT !.arg = target]
      BY <1>2, <2>1, <2>2
    <3>3. d[i].arg = target
      BY <1>3, <3>1, <3>2
    <3>4. QED
      BY <1>4, <1>5, <3>3
  <2>3. CASE i - 1 \notin jumps
    BY <1>2, <1>4, <1>5, <2>1, <2>3 DEF CodeOK
  <2>4. QED
    BY <2>2, <2>3
<1>6. CodeOK(d, from)
  BY <1>1, <1>4, <1>5 DEF CodeOK
<1>7. ASSUME NEW i \in 1 .. from PROVE d[i] = c[i]
  <2>1. i \in 1 .. Len(c) /\ i - 1 \notin jumps
    BY <1>1
  <2>2. QED
    BY <1>2, <2>1
<1>8. QED
  BY <1>1, <1>4, <1>6, <1>7 DEF Grown, d

LEMMA GrownTwice ==
    ASSUME NEW c, NEW d, NEW e, NEW from, CodeOK(c, from), Grown(c, d, from), Grown(d, e, from)
    PROVE  Grown(c, e, from)
BY DEF Grown, CodeOK

-----------------------------------------------------------------------------
(* The inductive invariant.                                                *)

\* The functions lie one after the other: none begins behind the one that is
\* being generated.
InOrder == \A k \in 1 .. next : Start(k) \in 0 .. Begin

Inv == TypeOK /\ ContextsMatched /\ RetComesLast /\ InOrder /\ SelfContained

\* What the invariant says while an activation is open.
LEMMA InvFacts ==
    ASSUME Inv, work # <<>>
    PROVE  /\ Len(code) \in Nat /\ next \in Nat \ {0} /\ Begin = Start(next)
           /\ Begin \in 0 .. Len(code)
           /\ CodeOK(code, Begin)
           /\ work \in Seq(Items(Begin, Len(code)))
           /\ Len(work) \in Nat \ {0}
           /\ Top \in Items(Begin, Len(code))
           /\ Top.task # "emit" => Len(work) > 1
<1>1. /\ Len(code) \in Nat /\ next \in Nat \ {0} /\ Begin = Start(next)
      /\ Begin \in 0 .. Len(code)
  BY DEF Inv, TypeOK, RetComesLast, Begin
<1>2. CodeOK(code, Begin)
  <2>1. next \in 1 .. next /\ End(next) = Len(code) /\ ~Closed(next)
    BY <1>1 DEF End, Closed
  <2>2. \A i \in Begin + 1 .. Len(code) :
            IsJump(code[i]) /\ code[i].arg # Unpatched => code[i].arg \in Begin .. Len(code)
    BY <1>1, <2>1 DEF Inv, SelfContained
  <2>3. code \in Seq(Instructions)
    BY DEF Inv, TypeOK
  <2>4. QED
    BY <1>1, <2>2, <2>3 DEF CodeOK
<1>3. /\ work \in Seq(Items(Begin, Len(code)))
      /\ Len(work) \in Nat \ {0}
      /\ Top \in Items(Begin, Len(code))
  BY DEF Inv, TypeOK, Top
<1>4. Top.task # "emit" => Len(work) > 1
  <2>1. Len(work) = 1 => Top = Emit(Plain("Ret"))
    BY DEF Inv, RetComesLast, Top
  <2>2. Emit(Plain("Ret")).task = "emit"
    BY DEF Emit, Item
  <2>3. Len(work) = 1 => Top.task = "emit"
    BY <2>1, <2>2, Zenon
  <2>4. Len(work) # 1 => Len(work) > 1
    <3> DEFINE n == Len(work)
    <3>1. n \in Nat \ {0}
      BY <1>3
    <3> HIDE DEF n
    <3>2. n # 1 => n > 1
      BY <3>1
    <3>3. QED
      BY <3>2 DEF n
  <2>5. QED
    BY <2>3, <2>4, Zenon
<1>5. QED
  BY <1>1, <1>2, <1>3, <1>4

\* A step that replaces the top activation by others and lets the code of the
\* open function grow preserves the invariant, when it opens and closes as many
\* loops and switches as its activations say.
LEMMA Step ==
    ASSUME Inv, work # <<>>, Len(work) > 1, NEW items, Then(items),
           UNCHANGED <<program, functions, entry, next>>, diagnostic' \in Messages,
           items \in Seq(Items(Begin, Len(code'))),
           \A i \in 1 .. Len(items) - 1 : items[i].task \notin LoopEnds \cup SwitchEnds,
           Grown(code, code', Begin),
           loopStack' \in Seq(Contexts(Begin, Len(code'))),
           switchBreakStack' \in Seq(SUBSET (Begin .. Len(code') - 1)),
           Len(loopStack') = Len(loopStack) - One(Top.task \in LoopEnds) + One(LastIn(items, LoopEnds)),
           Len(switchBreakStack') = Len(switchBreakStack)
               - One(Top.task \in SwitchEnds) + One(LastIn(items, SwitchEnds))
    PROVE  Inv'
<1> DEFINE S == Items(Begin, Len(code'))
<1>1. /\ Len(code) \in Nat /\ next \in Nat \ {0} /\ Begin = Start(next)
      /\ Begin \in 0 .. Len(code)
      /\ work \in Seq(Items(Begin, Len(code)))
      /\ Len(work) \in Nat \ {0}
  BY InvFacts
<1>2. /\ Begin' = Begin
      /\ \A k : Start(k)' = Start(k)
  BY DEF Begin, Start
<1>3. code' \in Seq(Instructions) /\ Len(code') \in Nat /\ Begin \in 0 .. Len(code')
  BY <1>1 DEF Grown, CodeOK
<1>4. Len(code) <= Len(code')
  BY DEF Grown
<1>5. work \in Seq(S)
  <2>1. Items(Begin, Len(code)) \subseteq S
    BY <1>1, <1>3, <1>4, ItemsGrow
  <2>2. QED
    BY <1>1, <2>1, SeqMonotonic
<1>6. work' = Replaced(work, items)
  BY DEF Then
<1> HIDE DEF S
<1>7. items \in Seq(S)
  BY DEF S
<1>8. /\ work' \in Seq(S)
      /\ Len(work') = Len(work) - 1 + Len(items)
      /\ work'[1] = work[1]
  <2>1. /\ Replaced(work, items) \in Seq(S)
        /\ Len(Replaced(work, items)) = Len(work) - 1 + Len(items)
        /\ \A i \in 1 .. Len(work) - 1 : Replaced(work, items)[i] = work[i]
    BY <1>5, <1>7, ReplacedProperties
  <2>2. 1 \in 1 .. Len(work) - 1
    BY <1>1
  <2>3. QED
    BY <1>6, <2>1, <2>2
<1>9. TypeOK'
  BY <1>2, <1>3, <1>8 DEF Inv, TypeOK, S
<1>10. ContextsMatched'
  <2>1. Count(work', LoopEnds)
          = Count(work, LoopEnds) - One(Top.task \in LoopEnds) + One(LastIn(items, LoopEnds))
    BY <1>5, <1>6, <1>7, CountReplaced DEF Top
  <2>2. Count(work', SwitchEnds)
          = Count(work, SwitchEnds) - One(Top.task \in SwitchEnds) + One(LastIn(items, SwitchEnds))
    BY <1>5, <1>6, <1>7, CountReplaced DEF Top
  <2>3. Count(work, LoopEnds) = Len(loopStack) /\ Count(work, SwitchEnds) = Len(switchBreakStack)
    BY DEF Inv, ContextsMatched, Count
  <2>4. Count(work', LoopEnds) = Len(loopStack') /\ Count(work', SwitchEnds) = Len(switchBreakStack')
    BY <2>1, <2>2, <2>3
  <2>5. QED
    BY <2>4 DEF ContextsMatched, Count
<1>11. RetComesLast'
  BY <1>1, <1>8 DEF Inv, RetComesLast
<1>12. InOrder'
  BY <1>2 DEF Inv, InOrder
<1>13. SelfContained'
  <2>1. SUFFICES ASSUME NEW k \in 1 .. next
                 PROVE  /\ Start(k) \in 0 .. End(k)'
                        /\ \A i \in Start(k) + 1 .. End(k)' :
                               IsJump(code'[i]) /\ code'[i].arg # Unpatched =>
                                   code'[i].arg \in Start(k) ..
                                       (IF Closed(k)' THEN End(k)' - 1 ELSE End(k)')
                        /\ Closed(k)' => End(k)' > Start(k) /\ code'[End(k)'].op = "Ret"
    BY <1>2 DEF SelfContained
  <2>2. work' # <<>> /\ (Closed(k)' <=> k < next) /\ (Closed(k) <=> k < next)
    <3>1. Len(work') > 0
      BY <1>1, <1>7, <1>8
    <3>2. QED
      BY <1>8, <3>1 DEF Closed
  <2>3. CASE k < next
    <3>1. End(k)' = End(k) /\ End(k) = Start(k + 1) /\ End(k) \in 0 .. Begin
      BY <1>1, <2>3 DEF Inv, InOrder, End, Start
    <3>2. Start(k) \in 0 .. End(k)
      BY DEF Inv, SelfContained
    <3>3. \A i \in Start(k) + 1 .. End(k) : code'[i] = code[i]
      BY <1>1, <3>1, <3>2 DEF Grown
    <3>4. End(k) > Start(k) /\ code[End(k)].op = "Ret" /\ End(k) \in Start(k) + 1 .. End(k)
      BY <2>2, <2>3, <3>1, <3>2 DEF Inv, SelfContained
    <3>5. QED
      BY <2>2, <2>3, <3>1, <3>2, <3>3, <3>4 DEF Inv, SelfContained
  <2>4. CASE k = next
    <3>1. End(k)' = Len(code') /\ ~Closed(k)' /\ Start(k) = Begin
      BY <1>1, <2>2, <2>4 DEF End
    <3>2. QED
      BY <1>3, <3>1 DEF Grown, CodeOK
  <2>5. QED
    BY <1>1, <2>3, <2>4
<1>14. QED
  BY <1>9, <1>10, <1>11, <1>12, <1>13 DEF Inv

LEMMA ContextsGrow ==
    ASSUME NEW from \in Nat, NEW to \in Nat, NEW further \in Nat, to <= further
    PROVE  /\ Seq(Contexts(from, to)) \subseteq Seq(Contexts(from, further))
           /\ Seq(SUBSET (from .. to - 1)) \subseteq Seq(SUBSET (from .. further - 1))
<1>1. from .. to - 1 \subseteq from .. further - 1 /\ from .. to \subseteq from .. further
  OBVIOUS
<1>2. SUBSET (from .. to - 1) \subseteq SUBSET (from .. further - 1)
  BY <1>1
<1>3. Contexts(from, to) \subseteq Contexts(from, further)
  BY <1>1, <1>2 DEF Contexts
<1>4. QED
  BY <1>2, <1>3, SeqMonotonic

LEMMA GrownSelf ==
    ASSUME Inv, work # <<>>
    PROVE  Grown(code, code, Begin)
BY InvFacts DEF Grown, CodeOK

\* The step that neither opens nor closes a loop or a switch.
LEMMA PlainStep ==
    ASSUME Inv, work # <<>>, Top.task \notin {"emit"} \cup LoopEnds \cup SwitchEnds,
           NEW items, Then(items), items \in Seq(Simple(Begin, Len(code'))),
           Grown(code, code', Begin),
           UNCHANGED <<program, functions, entry, next, loopStack, switchBreakStack>>,
           diagnostic' \in Messages
    PROVE  Inv'
<1>1. /\ Len(work) > 1 /\ Len(code) \in Nat /\ Len(code') \in Nat /\ Begin \in Nat
      /\ Len(code) <= Len(code')
  BY InvFacts DEF Grown, CodeOK
<1>2. items \in Seq(Items(Begin, Len(code')))
  <2>1. Simple(Begin, Len(code')) \subseteq Items(Begin, Len(code'))
    BY DEF Simple
  <2>2. QED
    BY <2>1, SeqMonotonic
<1>3. \A i \in 1 .. Len(items) : items[i].task \notin LoopEnds \cup SwitchEnds
  <2>1. \A i \in 1 .. Len(items) : items[i] \in Simple(Begin, Len(code'))
    OBVIOUS
  <2>2. QED
    BY <2>1 DEF Simple
<1>4. ~LastIn(items, LoopEnds) /\ ~LastIn(items, SwitchEnds)
  <2>1. items # <<>> => Len(items) \in 1 .. Len(items)
    OBVIOUS
  <2>2. QED
    BY <1>3, <2>1 DEF LastIn
<1>5. /\ loopStack \in Seq(Contexts(Begin, Len(code')))
      /\ switchBreakStack \in Seq(SUBSET (Begin .. Len(code') - 1))
  <2>1. /\ loopStack \in Seq(Contexts(Begin, Len(code)))
        /\ switchBreakStack \in Seq(SUBSET (Begin .. Len(code) - 1))
    BY DEF Inv, TypeOK
  <2>2. QED
    BY <1>1, <2>1, ContextsGrow
<1>6. /\ Len(loopStack) = Len(loopStack) - 0 + 0
      /\ Len(switchBreakStack) = Len(switchBreakStack) - 0 + 0
  BY <1>5
<1>7. /\ One(Top.task \in LoopEnds) = 0 /\ One(LastIn(items, LoopEnds)) = 0
      /\ One(Top.task \in SwitchEnds) = 0 /\ One(LastIn(items, SwitchEnds)) = 0
  BY <1>4 DEF One
<1>8. \A i \in 1 .. Len(items) - 1 : items[i].task \notin LoopEnds \cup SwitchEnds
  <2>1. Len(items) \in Nat
    BY <1>2
  <2>2. QED
    BY <1>3, <2>1
<1>9. QED
  BY <1>1, <1>2, <1>5, <1>6, <1>7, <1>8, Step

\* The step that finishes an activation, and maybe its loop or switch with it.
LEMMA EmptyStep ==
    ASSUME Inv, work # <<>>, Top.task # "emit", Then(<<>>),
           Grown(code, code', Begin),
           UNCHANGED <<program, functions, entry, next, diagnostic>>,
           loopStack' \in Seq(Contexts(Begin, Len(code'))),
           switchBreakStack' \in Seq(SUBSET (Begin .. Len(code') - 1)),
           Len(loopStack') = Len(loopStack) - One(Top.task \in LoopEnds),
           Len(switchBreakStack') = Len(switchBreakStack) - One(Top.task \in SwitchEnds)
    PROVE  Inv'
<1> DEFINE items == <<>>
<1>1. Len(work) > 1 /\ diagnostic' \in Messages
  BY InvFacts DEF Inv, TypeOK
<1>2. items \in Seq(Items(Begin, Len(code'))) /\ 1 .. Len(items) - 1 = {}
  OBVIOUS
<1>3. One(LastIn(items, LoopEnds)) = 0 /\ One(LastIn(items, SwitchEnds)) = 0
  BY DEF One, LastIn
<1>4. Then(items)
  OBVIOUS
<1>5. /\ Len(loopStack') = Len(loopStack) - One(Top.task \in LoopEnds) + 0
      /\ Len(switchBreakStack') = Len(switchBreakStack) - One(Top.task \in SwitchEnds) + 0
  <2>1. Len(loopStack') \in Nat /\ Len(switchBreakStack') \in Nat
    OBVIOUS
  <2>2. QED
    BY <2>1
<1> HIDE DEF items
<1>6. QED
  BY <1>1, <1>2, <1>3, <1>4, <1>5, Step

\* The step whose last new activation may be the one that closes a loop or a
\* switch.
LEMMA LastStep ==
    ASSUME Inv, work # <<>>, Top.task # "emit", NEW items, Then(items),
           Grown(code, code', Begin),
           NEW front \in Seq(Simple(Begin, Len(code'))), NEW last \in Items(Begin, Len(code')),
           items = front \o <<last>>,
           UNCHANGED <<program, functions, entry, next, diagnostic>>,
           loopStack' \in Seq(Contexts(Begin, Len(code'))),
           switchBreakStack' \in Seq(SUBSET (Begin .. Len(code') - 1)),
           Len(loopStack') = Len(loopStack) - One(Top.task \in LoopEnds) + One(last.task \in LoopEnds),
           Len(switchBreakStack') = Len(switchBreakStack)
               - One(Top.task \in SwitchEnds) + One(last.task \in SwitchEnds)
    PROVE  Inv'
<1> DEFINE S == Items(Begin, Len(code'))
<1>1. Len(work) > 1 /\ diagnostic' \in Messages
  BY InvFacts DEF Inv, TypeOK
<1>2. front \in Seq(S) /\ <<last>> \in Seq(S)
  <2>1. Simple(Begin, Len(code')) \subseteq S
    BY DEF Simple
  <2>2. QED
    BY <2>1, SeqMonotonic
<1>3. /\ items \in Seq(S)
      /\ Len(items) = Len(front) + 1
      /\ \A i \in 1 .. Len(front) : items[i] = front[i]
      /\ items[Len(front) + 1] = last
  BY <1>2
<1>4. Len(front) \in Nat
  OBVIOUS
<1>5. \A i \in 1 .. Len(items) - 1 : items[i].task \notin LoopEnds \cup SwitchEnds
  <2>1. \A i \in 1 .. Len(front) : front[i] \in Simple(Begin, Len(code'))
    OBVIOUS
  <2>2. QED
    BY <1>3, <1>4, <2>1 DEF Simple
<1>6. items # <<>> /\ items[Len(items)] = last
  BY <1>3, <1>4
<1>7. /\ LastIn(items, LoopEnds) <=> last.task \in LoopEnds
      /\ LastIn(items, SwitchEnds) <=> last.task \in SwitchEnds
  BY <1>6 DEF LastIn
<1>8. /\ One(LastIn(items, LoopEnds)) = One(last.task \in LoopEnds)
      /\ One(LastIn(items, SwitchEnds)) = One(last.task \in SwitchEnds)
  BY <1>7 DEF One
<1>9. QED
  BY <1>1, <1>3, <1>5, <1>8, Step

\* A new activation that remembers addresses of the open function.
LEMMA ItemTyped ==
    ASSUME NEW from \in Nat, NEW to \in Nat, NEW task \in Tasks, NEW node \in Exprs \cup Stmts,
           NEW jumps \in Seq(from .. to - 1), NEW target \in Nat, NEW index \in Nat,
           ItemOK(Item(task, node, jumps, target, index), from, to)
    PROVE  /\ Item(task, node, jumps, target, index) \in Items(from, to)
           /\ task \notin LoopEnds \cup SwitchEnds =>
                  Item(task, node, jumps, target, index) \in Simple(from, to)
<1>1. node \in Nodes
  BY DEF Nodes
<1>2. jumps \in Seq(Nat)
  <2>1. from .. to - 1 \subseteq Nat
    OBVIOUS
  <2>2. QED
    BY <2>1, SeqMonotonic
<1>3. Item(task, node, jumps, target, index) \in Activations
  BY <1>1, <1>2 DEF Item, Activations
<1>4. Item(task, node, jumps, target, index).task = task
  BY DEF Item
<1>5. QED
  BY <1>3, <1>4 DEF Items, Simple

LEMMA TopOK ==
    ASSUME Inv, work # <<>>
    PROVE  /\ Len(code) \in Nat /\ Begin \in 0 .. Len(code) /\ Begin \in Nat
           /\ Top \in Activations /\ Top.task \in Tasks /\ Top.jumps \in Seq(Begin .. Len(code) - 1)
           /\ ItemOK(Top, Begin, Len(code))
           /\ CodeOK(code, Begin)
           /\ diagnostic \in Messages
BY InvFacts DEF Items, ItemOK, Activations, Inv, TypeOK

LEMMA FirstElement ==
    ASSUME NEW S, NEW s \in Seq(S), s # <<>> \/ Len(s) = 1
    PROVE  s[1] \in S
OBVIOUS

\* The one jump an activation remembers.
LEMMA TopJump ==
    ASSUME Inv, work # <<>>,
           Top.task \in {"logicEnd", "else", "endIf", "whileEnd", "forUpdate", "forEnd"}
    PROVE  Top.jumps[1] \in Begin .. Len(code) - 1 /\ Len(Top.jumps) = 1
<1>1. Len(Top.jumps) = 1
  BY TopOK DEF ItemOK
<1>2. Top.jumps \in Seq(Begin .. Len(code) - 1)
  BY TopOK
<1>3. Top.jumps[1] \in Begin .. Len(code) - 1
  BY <1>1, <1>2, FirstElement, Zenon
<1>4. QED
  BY <1>1, <1>3

\* emitJump, and a jump that is emitted with its target.
LEMMA EmittedJump ==
    ASSUME Inv, work # <<>>, NEW op \in JumpOps, NEW target \in (Begin .. Len(code) + 1) \cup {Unpatched},
           NEW c, c = Append(code, With(op, target))
    PROVE  /\ Grown(code, c, Begin) /\ Len(c) = Len(code) + 1
           /\ With(op, Unpatched) = JumpTo(op)
<1>1. <<>> \in Seq(Nat) /\ target \in Int
  BY TopOK DEF Unpatched
<1>2. With(op, target) \in Instructions /\ With(op, target).arg = target
  BY <1>1 DEF With, Instruction, Instructions, Opcodes
<1>3. With(op, target).arg # Unpatched => With(op, target).arg \in Begin .. Len(code) + 1
  BY <1>2
<1>4. Grown(code, c, Begin) /\ Len(c) = Len(code) + 1
  BY <1>2, <1>3, TopOK, GrownAppend
<1>5. QED
  BY <1>4 DEF JumpTo

\* The open loops and switches when the code has grown, and with one loop more.
LEMMA KeptContexts ==
    ASSUME Inv, work # <<>>, NEW to \in Nat, Len(code) <= to
    PROVE  /\ loopStack \in Seq(Contexts(Begin, to)) /\ Len(loopStack) \in Nat
           /\ switchBreakStack \in Seq(SUBSET (Begin .. to - 1)) /\ Len(switchBreakStack) \in Nat
<1>1. /\ loopStack \in Seq(Contexts(Begin, Len(code)))
      /\ switchBreakStack \in Seq(SUBSET (Begin .. Len(code) - 1))
  BY DEF Inv, TypeOK
<1>2. /\ loopStack \in Seq(Contexts(Begin, to))
      /\ switchBreakStack \in Seq(SUBSET (Begin .. to - 1))
  BY <1>1, TopOK, ContextsGrow
<1>3. QED
  BY <1>1, <1>2

\* While an activation that will close a loop or a switch is open, there is one.
LEMMA OpenContext ==
    ASSUME Inv, work # <<>>
    PROVE  /\ Top.task \in LoopEnds =>
                  /\ Len(loopStack) \in Nat \ {0}
                  /\ Loop \in Contexts(Begin, Len(code))
           /\ Top.task \in SwitchEnds =>
                  /\ Len(switchBreakStack) \in Nat \ {0}
                  /\ switchBreakStack[Len(switchBreakStack)] \subseteq Begin .. Len(code) - 1
<1>1. /\ loopStack \in Seq(Contexts(Begin, Len(code))) /\ Len(loopStack) \in Nat
      /\ switchBreakStack \in Seq(SUBSET (Begin .. Len(code) - 1)) /\ Len(switchBreakStack) \in Nat
  BY DEF Inv, TypeOK
<1>2. work \in Seq(Items(Begin, Len(code))) /\ Len(work) \in 1 .. Len(work)
  BY InvFacts
<1>3. Count(work, LoopEnds) = Len(loopStack) /\ Count(work, SwitchEnds) = Len(switchBreakStack)
  BY DEF Inv, ContextsMatched, Count
<1>4. ASSUME Top.task \in LoopEnds
      PROVE  Len(loopStack) \in Nat \ {0} /\ Loop \in Contexts(Begin, Len(code))
  <2>1. Len(loopStack) # 0
    BY <1>2, <1>3, <1>4, CountProperties DEF Top
  <2>2. QED
    BY <1>1, <2>1 DEF Loop
<1>5. ASSUME Top.task \in SwitchEnds
      PROVE  /\ Len(switchBreakStack) \in Nat \ {0}
             /\ switchBreakStack[Len(switchBreakStack)] \subseteq Begin .. Len(code) - 1
  <2>1. Len(switchBreakStack) # 0
    BY <1>2, <1>3, <1>5, CountProperties DEF Top
  <2>2. QED
    BY <1>1, <2>1
<1>6. QED
  BY <1>4, <1>5

LEMMA ClosedLoop ==
    ASSUME Inv, work # <<>>, Top.task \in LoopEnds, Len(code') \in Nat, Len(code) <= Len(code'),
           loopStack' = SubSeq(loopStack, 1, Len(loopStack) - 1), UNCHANGED switchBreakStack
    PROVE  /\ loopStack' \in Seq(Contexts(Begin, Len(code')))
           /\ switchBreakStack' \in Seq(SUBSET (Begin .. Len(code') - 1))
           /\ Len(loopStack') = Len(loopStack) - 1
           /\ Len(switchBreakStack') = Len(switchBreakStack)
<1>1. /\ loopStack \in Seq(Contexts(Begin, Len(code')))
      /\ switchBreakStack \in Seq(SUBSET (Begin .. Len(code') - 1))
  BY KeptContexts
<1>2. Len(loopStack) - 1 \in 0 .. Len(loopStack)
  BY OpenContext
<1>3. /\ SubSeq(loopStack, 1, Len(loopStack) - 1) \in Seq(Contexts(Begin, Len(code')))
      /\ Len(SubSeq(loopStack, 1, Len(loopStack) - 1)) = Len(loopStack) - 1
  BY <1>1, <1>2, PrefixProperties, Zenon
<1>4. QED
  BY <1>1, <1>3

LEMMA OpenedLoop ==
    ASSUME Inv, work # <<>>, NEW target \in (Begin .. Len(code)) \cup {Unpatched},
           Len(code') = Len(code) + 1,
           loopStack' = Append(loopStack, LoopContext(target)), UNCHANGED switchBreakStack
    PROVE  /\ loopStack' \in Seq(Contexts(Begin, Len(code')))
           /\ switchBreakStack' \in Seq(SUBSET (Begin .. Len(code') - 1))
           /\ Len(loopStack') = Len(loopStack) + 1
           /\ Len(switchBreakStack') = Len(switchBreakStack)
<1>1. Len(code) \in Nat /\ Len(code') \in Nat /\ Len(code) <= Len(code') /\ Begin \in Nat
  BY TopOK
<1>2. /\ loopStack \in Seq(Contexts(Begin, Len(code')))
      /\ switchBreakStack \in Seq(SUBSET (Begin .. Len(code') - 1))
  BY <1>1, KeptContexts
<1>3. LoopContext(target) \in Contexts(Begin, Len(code'))
  <2>1. target \in (Begin .. Len(code')) \cup {Unpatched}
    BY <1>1
  <2>2. QED
    BY <2>1 DEF LoopContext, Contexts
<1>4. QED
  BY <1>2, <1>3

-----------------------------------------------------------------------------
(* Every action preserves the invariant.                                   *)

LEMMA StraightStep ==
    ASSUME Inv, Straight PROVE Inv'
<1>1. work # <<>> /\ Top.task = "generate" /\ Node.kind \in StraightLine /\ code' = code
  BY DEF Straight, Generating, Running
<1>2. Begin \in Nat /\ Len(code) \in Nat /\ Node \in Exprs \cup Stmts
  BY <1>1, InvFacts DEF Items, ItemOK, Node
<1>3. Parts(Node) \in Seq(Simple(Begin, Len(code')))
  BY <1>1, <1>2, PartsOK
<1>4. Grown(code, code', Begin)
  BY <1>1, GrownSelf
<1>5. QED
  BY <1>1, <1>3, <1>4, PlainStep DEF Straight, Inv, TypeOK, LoopEnds, SwitchEnds

LEMMA ArgumentStep ==
    ASSUME Inv, Argument PROVE Inv'
<1>1. work # <<>> /\ Top.task = "argument" /\ code' = code
  BY DEF Argument, Running
<1>2. Begin \in Nat /\ Len(code) \in Nat /\ Node \in Exprs /\ Node.kind = "call"
      /\ Top.index \in DOMAIN Node.args
  BY <1>1, TopOK DEF ItemOK, Node
<1>3. /\ Node.args[Top.index] \in Exprs
      /\ \/ Node.targets[Top.index] \in CastTypes
         \/ Node.targets[Top.index] = Node.args[Top.index].type
  BY <1>2, ExprsAssumption DEF ExprClosed
<1>4. Converted(Node.args[Top.index], Node.targets[Top.index]) \in Seq(Simple(Begin, Len(code')))
  BY <1>1, <1>2, <1>3, ConvertedOK
<1>5. Grown(code, code', Begin)
  BY <1>1, GrownSelf
<1>6. QED
  BY <1>1, <1>4, <1>5, PlainStep DEF Argument, Inv, TypeOK, LoopEnds, SwitchEnds

LEMMA ShortCircuitStep ==
    ASSUME Inv, ShortCircuit PROVE Inv'
<1> DEFINE items == <<Gen(Node.left), Item("logicRight", Node, <<>>, 0, 0)>>
<1>1. work # <<>> /\ Top.task = "generate" /\ Node.kind = "logic" /\ code' = code /\ Then(items)
  BY DEF ShortCircuit, Generating, Running
<1>2. Begin \in Nat /\ Len(code) \in Nat /\ Node \in Exprs \cup Stmts
  BY <1>1, TopOK DEF ItemOK, Node
<1>3. Node \in Exprs /\ Node.left \in Exprs
  BY <1>1, <1>2, ExprsAssumption, StmtsAssumption DEF ExprClosed, StmtClosed
<1>4. Gen(Node.left) \in Simple(Begin, Len(code'))
  BY <1>1, <1>2, <1>3, GenOK
<1>5. Item("logicRight", Node, <<>>, 0, 0) \in Simple(Begin, Len(code'))
  <2>1. <<>> \in Seq(Begin .. Len(code) - 1)
    OBVIOUS
  <2>2. ItemOK(Item("logicRight", Node, <<>>, 0, 0), Begin, Len(code'))
    BY <1>1, <1>3, <2>1 DEF ItemOK, Item
  <2>3. "logicRight" \in Tasks /\ "logicRight" \notin LoopEnds \cup SwitchEnds
    BY DEF Tasks, LoopEnds, SwitchEnds
  <2>4. QED
    BY <1>1, <1>2, <2>1, <2>2, <2>3, ItemTyped
<1>6. items \in Seq(Simple(Begin, Len(code')))
  BY <1>4, <1>5
<1> HIDE DEF items
<1>7. Grown(code, code', Begin)
  BY <1>1, GrownSelf
<1>8. QED
  BY <1>1, <1>6, <1>7, PlainStep DEF ShortCircuit, Inv, TypeOK, LoopEnds, SwitchEnds

LEMMA LogicRightStep ==
    ASSUME Inv, LogicRight PROVE Inv'
<1> DEFINE items == <<Gen(Node.right), Item("logicEnd", Node, <<currentAddress>>, 0, 0)>>
           op    == IF Node.op = "And" THEN "JumpIfFalse" ELSE "JumpIfTrue"
<1>1. work # <<>> /\ Top.task = "logicRight" /\ Then(items) /\ code' = Append(code, JumpTo(op))
  BY DEF LogicRight, Running
<1>2. Begin \in Nat /\ Len(code) \in Nat /\ Begin \in 0 .. Len(code) /\ Node \in Exprs /\ Node.kind = "logic"
  BY <1>1, TopOK DEF ItemOK, Node
<1>3. Node.right \in Exprs
  BY <1>2, ExprsAssumption DEF ExprClosed
<1>4. op \in JumpOps
  BY DEF JumpOps
<1> HIDE DEF items, op
<1>5. Grown(code, code', Begin) /\ Len(code') = Len(code) + 1
  BY <1>1, <1>4, EmittedJump DEF JumpTo
<1>6. Gen(Node.right) \in Simple(Begin, Len(code'))
  BY <1>2, <1>3, <1>5, GenOK
<1>7. Item("logicEnd", Node, <<currentAddress>>, 0, 0) \in Simple(Begin, Len(code'))
  <2>1. <<currentAddress>> \in Seq(Begin .. Len(code') - 1) /\ Len(<<currentAddress>>) = 1
    BY <1>2, <1>5 DEF currentAddress
  <2>2. ItemOK(Item("logicEnd", Node, <<currentAddress>>, 0, 0), Begin, Len(code'))
    BY <1>2, <2>1 DEF ItemOK, Item
  <2>3. "logicEnd" \in Tasks /\ "logicEnd" \notin LoopEnds \cup SwitchEnds
    BY DEF Tasks, LoopEnds, SwitchEnds
  <2>4. Len(code') \in Nat
    BY <1>2, <1>5
  <2>5. QED
    BY <1>2, <2>1, <2>2, <2>3, <2>4, ItemTyped
<1>8. items \in Seq(Simple(Begin, Len(code')))
  BY <1>6, <1>7 DEF items
<1>9. QED
  BY <1>1, <1>5, <1>8, PlainStep DEF LogicRight, Inv, TypeOK, LoopEnds, SwitchEnds

LEMMA LogicEndStep ==
    ASSUME Inv, LogicEnd PROVE Inv'
<1> DEFINE value == With("PushBool", IF Node.op = "And" THEN 0 ELSE 1)
           tail  == <<With("Jump", currentAddress + 2), value>>
<1>1. /\ work # <<>> /\ Top.task = "logicEnd" /\ Then(<<>>)
      /\ code' = Patch(code \o tail, {Top.jumps[1]}, currentAddress + 1)
  BY DEF LogicEnd, Running
<1>2. Begin \in Nat /\ Len(code) \in Nat /\ Begin \in 0 .. Len(code) /\ CodeOK(code, Begin)
  BY <1>1, TopOK
<1>3. Top.jumps[1] \in Begin .. Len(code) - 1
  BY <1>1, TopJump
<1>4. tail \in Seq(Instructions) /\ Len(tail) = 2 /\ tail[1].arg = Len(code) + 2 /\ ~IsJump(tail[2])
  <2>1. <<>> \in Seq(Nat) /\ currentAddress + 2 \in Int /\ (IF Node.op = "And" THEN 0 ELSE 1) \in Int
    BY <1>2 DEF currentAddress
  <2>2. /\ With("Jump", currentAddress + 2) \in Instructions
        /\ With("Jump", currentAddress + 2).arg = Len(code) + 2
    BY <2>1 DEF With, Instruction, Instructions, Opcodes, JumpOps, currentAddress
  <2>3. value \in Instructions /\ ~IsJump(value)
    BY <2>1 DEF With, Instruction, Instructions, Opcodes, IsJump, JumpOps
  <2> HIDE DEF value
  <2>4. QED
    BY <2>2, <2>3
<1> HIDE DEF tail
<1>5. Grown(code, code \o tail, Begin) /\ Len(code \o tail) = Len(code) + 2
  <2>1. \A i \in 1 .. Len(tail) :
            IsJump(tail[i]) /\ tail[i].arg # Unpatched => tail[i].arg \in Begin .. Len(code) + Len(tail)
    BY <1>2, <1>4
  <2>2. QED
    BY <1>2, <1>4, <2>1, GrownConcat
<1>6. Grown(code \o tail, code', Begin)
  <2>1. CodeOK(code \o tail, Begin)
    BY <1>5 DEF Grown
  <2>2. currentAddress + 1 \in Begin .. Len(code \o tail)
    BY <1>2, <1>5 DEF currentAddress
  <2>3. \A j \in {Top.jumps[1]} : j >= Begin
    BY <1>2, <1>3
  <2>4. QED
    BY <1>1, <2>1, <2>2, <2>3, GrownPatch
<1>7. Grown(code, code', Begin)
  BY <1>2, <1>5, <1>6, GrownTwice
<1>8. <<>> \in Seq(Simple(Begin, Len(code')))
  OBVIOUS
<1>9. QED
  BY <1>1, <1>7, <1>8, PlainStep DEF LogicEnd, Inv, TypeOK, LoopEnds, SwitchEnds

LEMMA If1Step ==
    ASSUME Inv, If1 PROVE Inv'
<1> DEFINE items == <<Gen(Node.cond), Item("then", Node, <<>>, 0, 0)>>
<1>1. work # <<>> /\ Top.task = "generate" /\ Node.kind = "if" /\ code' = code /\ Then(items)
  BY DEF If1, Generating, Running
<1>2. Begin \in Nat /\ Len(code) \in Nat /\ Node \in Exprs \cup Stmts
  BY <1>1, TopOK DEF ItemOK, Node
<1>3. Node \in Stmts /\ Node.cond \in Exprs
  BY <1>1, <1>2, ExprsAssumption, StmtsAssumption DEF ExprClosed, StmtClosed
<1>4. Gen(Node.cond) \in Simple(Begin, Len(code'))
  BY <1>1, <1>2, <1>3, GenOK
<1>5. Item("then", Node, <<>>, 0, 0) \in Simple(Begin, Len(code'))
  <2>1. <<>> \in Seq(Begin .. Len(code) - 1)
    OBVIOUS
  <2>2. ItemOK(Item("then", Node, <<>>, 0, 0), Begin, Len(code'))
    BY <1>1, <1>3, <2>1 DEF ItemOK, Item
  <2>3. "then" \in Tasks /\ "then" \notin LoopEnds \cup SwitchEnds
    BY DEF Tasks, LoopEnds, SwitchEnds
  <2>4. QED
    BY <1>1, <1>2, <2>1, <2>2, <2>3, ItemTyped
<1>6. items \in Seq(Simple(Begin, Len(code')))
  BY <1>4, <1>5
<1> HIDE DEF items
<1>7. Grown(code, code', Begin)
  BY <1>1, GrownSelf
<1>8. QED
  BY <1>1, <1>6, <1>7, PlainStep DEF If1, Inv, TypeOK, LoopEnds, SwitchEnds

LEMMA ThenBranchStep ==
    ASSUME Inv, ThenBranch PROVE Inv'
<1> DEFINE task  == IF Node.else # <<>> THEN "else" ELSE "endIf"
           items == <<Gen(Node.then), Item(task, Node, <<currentAddress>>, 0, 0)>>
<1>1. work # <<>> /\ Top.task = "then" /\ Then(items) /\ code' = Append(code, JumpTo("JumpIfFalse"))
  BY DEF ThenBranch, Running
<1>2. Begin \in Nat /\ Len(code) \in Nat /\ Begin \in 0 .. Len(code) /\ Node \in Stmts /\ Node.kind = "if"
  BY <1>1, TopOK DEF ItemOK, Node
<1>3. Node.then \in Stmts
  BY <1>2, StmtsAssumption DEF StmtClosed
<1> HIDE DEF items
<1>4. Grown(code, code', Begin) /\ Len(code') = Len(code) + 1
  BY <1>1, EmittedJump DEF JumpTo, JumpOps
<1>5. Gen(Node.then) \in Simple(Begin, Len(code'))
  BY <1>2, <1>3, <1>4, GenOK
<1>6. Item(task, Node, <<currentAddress>>, 0, 0) \in Simple(Begin, Len(code'))
  <2>1. <<currentAddress>> \in Seq(Begin .. Len(code') - 1) /\ Len(<<currentAddress>>) = 1
    BY <1>2, <1>4 DEF currentAddress
  <2>2. task \in {"else", "endIf"} /\ (task = "else" => Node.else # <<>>)
    OBVIOUS
  <2> HIDE DEF task
  <2>3. ItemOK(Item(task, Node, <<currentAddress>>, 0, 0), Begin, Len(code'))
    BY <1>2, <2>1, <2>2 DEF ItemOK, Item
  <2>4. task \in Tasks /\ task \notin LoopEnds \cup SwitchEnds
    BY <2>2 DEF Tasks, LoopEnds, SwitchEnds
  <2>5. Len(code') \in Nat
    BY <1>2, <1>4
  <2>6. QED
    BY <1>2, <2>1, <2>3, <2>4, <2>5, ItemTyped
<1>7. items \in Seq(Simple(Begin, Len(code')))
  BY <1>5, <1>6 DEF items
<1>8. QED
  BY <1>1, <1>4, <1>7, PlainStep DEF ThenBranch, Inv, TypeOK, LoopEnds, SwitchEnds

LEMMA ElseBranchStep ==
    ASSUME Inv, ElseBranch PROVE Inv'
<1> DEFINE items == <<Gen(Node.else[1]), Item("endIf", Node, <<currentAddress>>, 0, 0)>>
           c     == Append(code, JumpTo("Jump"))
<1>1. /\ work # <<>> /\ Top.task = "else" /\ Then(items)
      /\ code' = Patch(c, {Top.jumps[1]}, currentAddress + 1)
  BY DEF ElseBranch, Running
<1>2. /\ Begin \in Nat /\ Len(code) \in Nat /\ Begin \in 0 .. Len(code) /\ CodeOK(code, Begin)
      /\ Node \in Stmts /\ Node.kind = "if" /\ Node.else # <<>>
  BY <1>1, TopOK DEF ItemOK, Node
<1>3. Top.jumps[1] \in Begin .. Len(code) - 1
  BY <1>1, TopJump
<1>4. Node.else[1] \in Stmts
  <2>1. Node.else \in Seq(Stmts)
    BY <1>2, StmtsAssumption DEF StmtClosed
  <2>2. QED
    BY <1>2, <2>1, FirstElement, Zenon
<1>5. Grown(code, c, Begin) /\ Len(c) = Len(code) + 1
  BY <1>1, EmittedJump DEF JumpTo, JumpOps
<1> HIDE DEF items, c
<1>6. Grown(c, code', Begin) /\ Len(code') = Len(c)
  <2>1. CodeOK(c, Begin)
    BY <1>5 DEF Grown
  <2>2. currentAddress + 1 \in Begin .. Len(c)
    BY <1>2, <1>5 DEF currentAddress
  <2>3. \A j \in {Top.jumps[1]} : j >= Begin
    BY <1>2, <1>3
  <2>4. QED
    BY <1>1, <2>1, <2>2, <2>3, GrownPatch
<1>7. Grown(code, code', Begin) /\ Len(code') = Len(code) + 1
  BY <1>2, <1>5, <1>6, GrownTwice
<1>8. Gen(Node.else[1]) \in Simple(Begin, Len(code'))
  BY <1>2, <1>4, <1>7, GenOK
<1>9. Item("endIf", Node, <<currentAddress>>, 0, 0) \in Simple(Begin, Len(code'))
  <2>1. <<currentAddress>> \in Seq(Begin .. Len(code') - 1) /\ Len(<<currentAddress>>) = 1
    BY <1>2, <1>7 DEF currentAddress
  <2>2. ItemOK(Item("endIf", Node, <<currentAddress>>, 0, 0), Begin, Len(code'))
    BY <1>2, <2>1 DEF ItemOK, Item
  <2>3. "endIf" \in Tasks /\ "endIf" \notin LoopEnds \cup SwitchEnds
    BY DEF Tasks, LoopEnds, SwitchEnds
  <2>4. Len(code') \in Nat
    BY <1>2, <1>7
  <2>5. QED
    BY <1>2, <2>1, <2>2, <2>3, <2>4, ItemTyped
<1>10. items \in Seq(Simple(Begin, Len(code')))
  BY <1>8, <1>9 DEF items
<1>11. QED
  BY <1>1, <1>7, <1>10, PlainStep DEF ElseBranch, Inv, TypeOK, LoopEnds, SwitchEnds

LEMMA EndIfStep ==
    ASSUME Inv, EndIf PROVE Inv'
<1>1. /\ work # <<>> /\ Top.task = "endIf" /\ Then(<<>>)
      /\ code' = Patch(code, {Top.jumps[1]}, currentAddress)
  BY DEF EndIf, Running
<1>2. /\ Begin \in Nat /\ Len(code) \in Nat /\ Begin \in 0 .. Len(code) /\ CodeOK(code, Begin)
  BY <1>1, TopOK
<1>3. Top.jumps[1] \in Begin .. Len(code) - 1
  BY <1>1, TopJump
<1>4. currentAddress \in Begin .. Len(code)
  BY <1>2 DEF currentAddress
<1>5. \A j \in {Top.jumps[1]} : j >= Begin
  BY <1>2, <1>3
<1>6. Grown(code, code', Begin)
  BY <1>1, <1>2, <1>4, <1>5, GrownPatch
<1>7. <<>> \in Seq(Simple(Begin, Len(code')))
  OBVIOUS
<1>8. QED
  BY <1>1, <1>6, <1>7, PlainStep DEF EndIf, Inv, TypeOK, LoopEnds, SwitchEnds

LEMMA While1Step ==
    ASSUME Inv, While1 PROVE Inv'
<1> DEFINE items == <<Gen(Node.cond), Item("whileBody", Node, <<>>, currentAddress, 0)>>
<1>1. work # <<>> /\ Top.task = "generate" /\ Node.kind = "while" /\ code' = code /\ Then(items)
  BY DEF While1, Generating, Running
<1>2. Begin \in Nat /\ Len(code) \in Nat /\ Begin \in 0 .. Len(code) /\ Node \in Exprs \cup Stmts
  BY <1>1, TopOK DEF ItemOK, Node
<1>3. Node \in Stmts /\ Node.cond \in Exprs
  BY <1>1, <1>2, ExprsAssumption, StmtsAssumption DEF ExprClosed, StmtClosed
<1>4. Gen(Node.cond) \in Simple(Begin, Len(code'))
  BY <1>1, <1>2, <1>3, GenOK
<1>5. Item("whileBody", Node, <<>>, currentAddress, 0) \in Simple(Begin, Len(code'))
  <2>1. <<>> \in Seq(Begin .. Len(code) - 1)
    OBVIOUS
  <2>2. currentAddress \in Begin .. Len(code) /\ currentAddress \in Nat
    BY <1>2 DEF currentAddress
  <2>3. ItemOK(Item("whileBody", Node, <<>>, currentAddress, 0), Begin, Len(code'))
    BY <1>1, <1>3, <2>1, <2>2 DEF ItemOK, Item
  <2>4. "whileBody" \in Tasks /\ "whileBody" \notin LoopEnds \cup SwitchEnds
    BY DEF Tasks, LoopEnds, SwitchEnds
  <2>5. QED
    BY <1>1, <1>2, <2>1, <2>2, <2>3, <2>4, ItemTyped
<1>6. items \in Seq(Simple(Begin, Len(code')))
  BY <1>4, <1>5
<1> HIDE DEF items
<1>7. Grown(code, code', Begin)
  BY <1>1, GrownSelf
<1>8. QED
  BY <1>1, <1>6, <1>7, PlainStep DEF While1, Inv, TypeOK, LoopEnds, SwitchEnds

LEMMA WhileBodyStep ==
    ASSUME Inv, WhileBody PROVE Inv'
<1> DEFINE last  == Item("whileEnd", Node, <<currentAddress>>, Top.target, 0)
           items == <<Gen(Node.body), last>>
<1>1. /\ work # <<>> /\ Top.task = "whileBody" /\ Then(items)
      /\ code' = Append(code, JumpTo("JumpIfFalse"))
      /\ loopStack' = Append(loopStack, LoopContext(Top.target))
      /\ UNCHANGED <<program, functions, entry, next, switchBreakStack, diagnostic>>
  BY DEF WhileBody, Running
<1>2. Begin \in Nat /\ Len(code) \in Nat /\ Begin \in 0 .. Len(code) /\ Node \in Stmts /\ Node.kind = "while"
  BY <1>1, TopOK DEF ItemOK, Node
<1>3. Top.target \in Begin .. Len(code) /\ Top.target \in Nat
  BY <1>1, <1>2, TopOK DEF ItemOK
<1>4. Node.body \in Stmts
  BY <1>2, StmtsAssumption DEF StmtClosed
<1>5. Grown(code, code', Begin) /\ Len(code') = Len(code) + 1
  BY <1>1, EmittedJump DEF JumpTo, JumpOps
<1>6. Gen(Node.body) \in Simple(Begin, Len(code'))
  BY <1>2, <1>4, <1>5, GenOK
<1>7. last \in Items(Begin, Len(code')) /\ last.task = "whileEnd"
  <2>1. <<currentAddress>> \in Seq(Begin .. Len(code') - 1) /\ Len(<<currentAddress>>) = 1
    BY <1>2, <1>5 DEF currentAddress
  <2>2. Top.target \in Begin .. Len(code') /\ Len(code') \in Nat
    BY <1>2, <1>3, <1>5
  <2>3. ItemOK(last, Begin, Len(code'))
    BY <1>2, <2>1, <2>2 DEF ItemOK, Item
  <2>4. "whileEnd" \in Tasks
    BY DEF Tasks
  <2>5. last.task = "whileEnd"
    BY DEF Item
  <2>6. QED
    BY <1>2, <1>3, <2>1, <2>2, <2>3, <2>4, <2>5, ItemTyped
<1>8. /\ loopStack' \in Seq(Contexts(Begin, Len(code')))
      /\ switchBreakStack' \in Seq(SUBSET (Begin .. Len(code') - 1))
      /\ Len(loopStack') = Len(loopStack) + 1
      /\ Len(switchBreakStack') = Len(switchBreakStack)
  BY <1>1, <1>3, <1>5, OpenedLoop
<1> HIDE DEF last
<1>9. <<Gen(Node.body)>> \in Seq(Simple(Begin, Len(code'))) /\ items = <<Gen(Node.body)>> \o <<last>>
  BY <1>6
<1>10. /\ One(Top.task \in LoopEnds) = 0 /\ One(last.task \in LoopEnds) = 1
       /\ One(Top.task \in SwitchEnds) = 0 /\ One(last.task \in SwitchEnds) = 0
  BY <1>1, <1>7 DEF One, LoopEnds, SwitchEnds
<1> HIDE DEF items
<1>11. /\ Len(loopStack') = Len(loopStack) - 0 + 1
       /\ Len(switchBreakStack') = Len(switchBreakStack) - 0 + 0
  BY <1>8, TopOK DEF Inv, TypeOK
<1>12. Top.task # "emit"
  BY <1>1
<1>13. QED
  BY <1>1, <1>5, <1>7, <1>8, <1>9, <1>10, <1>11, <1>12, LastStep

LEMMA WhileEndStep ==
    ASSUME Inv, WhileEnd PROVE Inv'
<1> DEFINE end    == currentAddress + 1
           closed == Append(code, With("Jump", Top.target))
           exits  == {Top.jumps[1]} \cup Loop.breakJumps
           c      == Patch(closed, exits, end)
<1>1. /\ work # <<>> /\ Top.task = "whileEnd" /\ Then(<<>>)
      /\ code' = Patch(c, Loop.continueJumps, Loop.continueTarget)
      /\ loopStack' = SubSeq(loopStack, 1, Len(loopStack) - 1)
      /\ UNCHANGED <<program, functions, entry, next, switchBreakStack, diagnostic>>
  BY DEF WhileEnd, Running
<1>2. /\ Begin \in Nat /\ Len(code) \in Nat /\ Begin \in 0 .. Len(code) /\ CodeOK(code, Begin)
      /\ Top.task \in LoopEnds /\ Top.task \notin SwitchEnds /\ Top.task # "emit"
  BY <1>1, TopOK DEF LoopEnds, SwitchEnds
<1>3. Top.jumps[1] \in Begin .. Len(code) - 1
  BY <1>1, TopJump
<1>4. Top.target \in Begin .. Len(code)
  BY <1>1, TopOK DEF ItemOK
<1>5. /\ Loop.continueTarget \in (Begin .. Len(code)) \cup {Unpatched}
      /\ Loop.breakJumps \subseteq Begin .. Len(code) - 1
      /\ Loop.continueJumps \subseteq Begin .. Len(code) - 1
  BY <1>1, <1>2, OpenContext DEF Contexts
<1>6. Grown(code, closed, Begin) /\ Len(closed) = Len(code) + 1
  <2>1. Top.target \in (Begin .. Len(code) + 1) \cup {Unpatched}
    BY <1>2, <1>4
  <2>2. QED
    BY <1>1, <2>1, EmittedJump DEF JumpOps
<1>7. Grown(closed, c, Begin) /\ Len(c) = Len(closed)
  <2>1. CodeOK(closed, Begin)
    BY <1>6 DEF Grown
  <2>2. end \in (Begin .. Len(closed)) \cup {Unpatched}
    BY <1>2, <1>6 DEF currentAddress
  <2>3. \A j \in exits : j >= Begin
    BY <1>2, <1>3, <1>5
  <2> HIDE DEF closed, exits, end
  <2>4. QED
    BY <2>1, <2>2, <2>3, GrownPatch
<1> HIDE DEF closed, c
<1>8. Grown(c, code', Begin) /\ Len(code') = Len(c)
  <2>1. CodeOK(c, Begin)
    BY <1>7 DEF Grown
  <2>2. Loop.continueTarget \in (Begin .. Len(c)) \cup {Unpatched}
    BY <1>2, <1>5, <1>6, <1>7
  <2>3. \A j \in Loop.continueJumps : j >= Begin
    BY <1>2, <1>5
  <2>4. QED
    BY <1>1, <2>1, <2>2, <2>3, GrownPatch
<1>9. Grown(code, code', Begin) /\ Len(code') = Len(code) + 1
  <2>1. Grown(code, c, Begin)
    BY <1>2, <1>6, <1>7, GrownTwice
  <2>2. QED
    BY <1>2, <1>6, <1>7, <1>8, <2>1, GrownTwice
<1>10. /\ loopStack' \in Seq(Contexts(Begin, Len(code')))
       /\ switchBreakStack' \in Seq(SUBSET (Begin .. Len(code') - 1))
       /\ Len(loopStack') = Len(loopStack) - 1
       /\ Len(switchBreakStack') = Len(switchBreakStack) - 0
  <2>1. Len(code') \in Nat /\ Len(code) <= Len(code') /\ Len(switchBreakStack) \in Nat
    BY <1>1, <1>2, <1>9, KeptContexts
  <2>2. QED
    BY <1>1, <1>2, <2>1, ClosedLoop
<1>11. One(Top.task \in LoopEnds) = 1 /\ One(Top.task \in SwitchEnds) = 0
  BY <1>2 DEF One
<1>12. QED
  BY <1>1, <1>2, <1>9, <1>10, <1>11, EmptyStep

LEMMA For1Step ==
    ASSUME Inv, For1 PROVE Inv'
<1> DEFINE last  == Item("forCond", Node, <<>>, 0, 0)
           items == GenAll(Node.init) \o <<last>>
<1>1. work # <<>> /\ Top.task = "generate" /\ Node.kind = "for" /\ code' = code /\ Then(items)
  BY DEF For1, Generating, Running
<1>2. Begin \in Nat /\ Len(code) \in Nat /\ Node \in Exprs \cup Stmts
  BY <1>1, TopOK DEF ItemOK, Node
<1>3. Node \in Stmts /\ Node.init \in Seq({x \in Stmts : x.kind \in Assignments \cup {"varDecl"}})
  BY <1>1, <1>2, ExprsAssumption, StmtsAssumption DEF ExprClosed, StmtClosed
<1>4. GenAll(Node.init) \in Seq(Simple(Begin, Len(code')))
  BY <1>1, <1>2, <1>3, GenAllOK
<1>5. last \in Simple(Begin, Len(code'))
  <2>1. <<>> \in Seq(Begin .. Len(code) - 1)
    OBVIOUS
  <2>2. ItemOK(last, Begin, Len(code'))
    BY <1>1, <1>3, <2>1 DEF ItemOK, Item
  <2>3. "forCond" \in Tasks /\ "forCond" \notin LoopEnds \cup SwitchEnds
    BY DEF Tasks, LoopEnds, SwitchEnds
  <2>4. QED
    BY <1>1, <1>2, <2>1, <2>2, <2>3, ItemTyped
<1> HIDE DEF last
<1>6. items \in Seq(Simple(Begin, Len(code')))
  BY <1>4, <1>5, ConcatElements
<1> HIDE DEF items
<1>7. Grown(code, code', Begin)
  BY <1>1, GrownSelf
<1>8. QED
  BY <1>1, <1>6, <1>7, PlainStep DEF For1, Inv, TypeOK, LoopEnds, SwitchEnds

LEMMA ForCondStep ==
    ASSUME Inv, ForCond PROVE Inv'
<1> DEFINE items == <<Gen(Node.cond), Item("forBody", Node, <<>>, currentAddress, 0)>>
<1>1. work # <<>> /\ Top.task = "forCond" /\ code' = code /\ Then(items)
  BY DEF ForCond, Running
<1>2. Begin \in Nat /\ Len(code) \in Nat /\ Begin \in 0 .. Len(code) /\ Node \in Stmts /\ Node.kind = "for"
  BY <1>1, TopOK DEF ItemOK, Node
<1>3. Node.cond \in Exprs
  BY <1>2, StmtsAssumption DEF StmtClosed
<1>4. Gen(Node.cond) \in Simple(Begin, Len(code'))
  BY <1>1, <1>2, <1>3, GenOK
<1>5. Item("forBody", Node, <<>>, currentAddress, 0) \in Simple(Begin, Len(code'))
  <2>1. <<>> \in Seq(Begin .. Len(code) - 1)
    OBVIOUS
  <2>2. currentAddress \in Begin .. Len(code) /\ currentAddress \in Nat
    BY <1>2 DEF currentAddress
  <2>3. ItemOK(Item("forBody", Node, <<>>, currentAddress, 0), Begin, Len(code'))
    BY <1>1, <1>2, <2>1, <2>2 DEF ItemOK, Item
  <2>4. "forBody" \in Tasks /\ "forBody" \notin LoopEnds \cup SwitchEnds
    BY DEF Tasks, LoopEnds, SwitchEnds
  <2>5. QED
    BY <1>1, <1>2, <2>1, <2>2, <2>3, <2>4, ItemTyped
<1>6. items \in Seq(Simple(Begin, Len(code')))
  BY <1>4, <1>5
<1> HIDE DEF items
<1>7. Grown(code, code', Begin)
  BY <1>1, GrownSelf
<1>8. QED
  BY <1>1, <1>6, <1>7, PlainStep DEF ForCond, Inv, TypeOK, LoopEnds, SwitchEnds

LEMMA ForBodyStep ==
    ASSUME Inv, ForBody PROVE Inv'
<1> DEFINE last  == Item("forUpdate", Node, <<currentAddress>>, Top.target, 0)
           items == <<Gen(Node.body), last>>
<1>1. /\ work # <<>> /\ Top.task = "forBody" /\ Then(items)
      /\ code' = Append(code, JumpTo("JumpIfFalse"))
      /\ loopStack' = Append(loopStack, LoopContext(Unpatched))
      /\ UNCHANGED <<program, functions, entry, next, switchBreakStack, diagnostic>>
  BY DEF ForBody, Running
<1>2. Begin \in Nat /\ Len(code) \in Nat /\ Begin \in 0 .. Len(code) /\ Node \in Stmts /\ Node.kind = "for"
  BY <1>1, TopOK DEF ItemOK, Node
<1>3. Top.target \in Begin .. Len(code) /\ Top.target \in Nat
  BY <1>1, <1>2, TopOK DEF ItemOK
<1>4. Node.body \in Stmts
  BY <1>2, StmtsAssumption DEF StmtClosed
<1>5. Grown(code, code', Begin) /\ Len(code') = Len(code) + 1
  BY <1>1, EmittedJump DEF JumpTo, JumpOps
<1>6. Gen(Node.body) \in Simple(Begin, Len(code'))
  BY <1>2, <1>4, <1>5, GenOK
<1>7. last \in Items(Begin, Len(code')) /\ last.task = "forUpdate"
  <2>1. <<currentAddress>> \in Seq(Begin .. Len(code') - 1) /\ Len(<<currentAddress>>) = 1
    BY <1>2, <1>5 DEF currentAddress
  <2>2. Top.target \in Begin .. Len(code') /\ Len(code') \in Nat
    BY <1>2, <1>3, <1>5
  <2>3. ItemOK(last, Begin, Len(code'))
    BY <1>2, <2>1, <2>2 DEF ItemOK, Item
  <2>4. "forUpdate" \in Tasks
    BY DEF Tasks
  <2>5. last.task = "forUpdate"
    BY DEF Item
  <2>6. QED
    BY <1>2, <1>3, <2>1, <2>2, <2>3, <2>4, <2>5, ItemTyped
<1>8. /\ loopStack' \in Seq(Contexts(Begin, Len(code')))
      /\ switchBreakStack' \in Seq(SUBSET (Begin .. Len(code') - 1))
      /\ Len(loopStack') = Len(loopStack) + 1
      /\ Len(switchBreakStack') = Len(switchBreakStack)
  BY <1>1, <1>5, OpenedLoop
<1> HIDE DEF last
<1>9. <<Gen(Node.body)>> \in Seq(Simple(Begin, Len(code'))) /\ items = <<Gen(Node.body)>> \o <<last>>
  BY <1>6
<1>10. /\ One(Top.task \in LoopEnds) = 0 /\ One(last.task \in LoopEnds) = 1
       /\ One(Top.task \in SwitchEnds) = 0 /\ One(last.task \in SwitchEnds) = 0
  BY <1>1, <1>7 DEF One, LoopEnds, SwitchEnds
<1> HIDE DEF items
<1>11. /\ Len(loopStack') = Len(loopStack) - 0 + 1
       /\ Len(switchBreakStack') = Len(switchBreakStack) - 0 + 0
  BY <1>8, TopOK DEF Inv, TypeOK
<1>12. Top.task # "emit"
  BY <1>1
<1>13. QED
  BY <1>1, <1>5, <1>7, <1>8, <1>9, <1>10, <1>11, <1>12, LastStep

LEMMA ForUpdateStep ==
    ASSUME Inv, ForUpdate PROVE Inv'
<1> DEFINE front == GenAll(Node.update)
           last  == Item("forEnd", Node, Top.jumps, Top.target, 0)
           items == front \o <<last>>
<1>1. /\ work # <<>> /\ Top.task = "forUpdate" /\ Then(items)
      /\ code' = Patch(code, Loop.continueJumps, currentAddress)
      /\ UNCHANGED <<program, functions, entry, next, loopStack, switchBreakStack, diagnostic>>
  BY DEF ForUpdate, Running
<1>2. /\ Begin \in Nat /\ Len(code) \in Nat /\ Begin \in 0 .. Len(code) /\ CodeOK(code, Begin)
      /\ Node \in Stmts /\ Node.kind = "for"
  BY <1>1, TopOK DEF ItemOK, Node
<1>3. Top.target \in Begin .. Len(code) /\ Top.target \in Nat
  BY <1>1, <1>2, TopOK DEF ItemOK
<1>4. Node.update \in Seq({x \in Stmts : x.kind \in Assignments})
  BY <1>2, StmtsAssumption DEF StmtClosed
<1>5. Grown(code, code', Begin) /\ Len(code') = Len(code)
  <2>1. Top.task \in LoopEnds
    BY <1>1 DEF LoopEnds
  <2>2. Loop.continueJumps \subseteq Begin .. Len(code) - 1
    BY <1>1, <2>1, OpenContext DEF Contexts
  <2>3. \A j \in Loop.continueJumps : j >= Begin
    BY <1>2, <2>2
  <2>4. currentAddress \in (Begin .. Len(code)) \cup {Unpatched}
    BY <1>2 DEF currentAddress
  <2>5. QED
    BY <1>1, <1>2, <2>3, <2>4, GrownPatch
<1>6. front \in Seq(Simple(Begin, Len(code')))
  BY <1>2, <1>4, <1>5, GenAllOK
<1>7. last \in Items(Begin, Len(code')) /\ last.task = "forEnd"
  <2>1. Top.jumps \in Seq(Begin .. Len(code') - 1) /\ Len(Top.jumps) = 1
    BY <1>1, <1>5, TopOK, TopJump
  <2>2. Top.target \in Begin .. Len(code') /\ Len(code') \in Nat
    BY <1>2, <1>3, <1>5
  <2>3. ItemOK(last, Begin, Len(code'))
    BY <1>2, <2>1, <2>2 DEF ItemOK, Item
  <2>4. "forEnd" \in Tasks
    BY DEF Tasks
  <2>5. last.task = "forEnd"
    BY DEF Item
  <2>6. QED
    BY <1>2, <1>3, <2>1, <2>2, <2>3, <2>4, <2>5, ItemTyped
<1>8. /\ loopStack' \in Seq(Contexts(Begin, Len(code')))
      /\ switchBreakStack' \in Seq(SUBSET (Begin .. Len(code') - 1))
      /\ Len(loopStack) \in Nat /\ Len(switchBreakStack) \in Nat
  BY <1>1, <1>2, <1>5, KeptContexts
<1> HIDE DEF last, front
<1>9. /\ One(Top.task \in LoopEnds) = 1 /\ One(last.task \in LoopEnds) = 1
      /\ One(Top.task \in SwitchEnds) = 0 /\ One(last.task \in SwitchEnds) = 0
  BY <1>1, <1>7 DEF One, LoopEnds, SwitchEnds
<1>10. /\ Len(loopStack') = Len(loopStack) - 1 + 1
       /\ Len(switchBreakStack') = Len(switchBreakStack) - 0 + 0
  BY <1>1, <1>8
<1>11. Top.task # "emit"
  BY <1>1
<1>12. QED
  BY <1>1, <1>5, <1>6, <1>7, <1>8, <1>9, <1>10, <1>11, LastStep

LEMMA ForEndStep ==
    ASSUME Inv, ForEnd PROVE Inv'
<1> DEFINE end    == currentAddress + 1
           closed == Append(code, With("Jump", Top.target))
           exits  == {Top.jumps[1]} \cup Loop.breakJumps
<1>1. /\ work # <<>> /\ Top.task = "forEnd" /\ Then(<<>>)
      /\ code' = Patch(closed, exits, end)
      /\ loopStack' = SubSeq(loopStack, 1, Len(loopStack) - 1)
      /\ UNCHANGED <<program, functions, entry, next, switchBreakStack, diagnostic>>
  BY DEF ForEnd, Running
<1>2. /\ Begin \in Nat /\ Len(code) \in Nat /\ Begin \in 0 .. Len(code) /\ CodeOK(code, Begin)
      /\ Top.task \in LoopEnds /\ Top.task \notin SwitchEnds /\ Top.task # "emit"
  BY <1>1, TopOK DEF LoopEnds, SwitchEnds
<1>3. Top.jumps[1] \in Begin .. Len(code) - 1
  BY <1>1, TopJump
<1>4. Top.target \in Begin .. Len(code)
  BY <1>1, TopOK DEF ItemOK
<1>5. Loop.breakJumps \subseteq Begin .. Len(code) - 1
  BY <1>1, <1>2, OpenContext DEF Contexts
<1>6. Grown(code, closed, Begin) /\ Len(closed) = Len(code) + 1
  <2>1. Top.target \in (Begin .. Len(code) + 1) \cup {Unpatched}
    BY <1>2, <1>4
  <2>2. QED
    BY <1>1, <2>1, EmittedJump DEF JumpOps
<1>7. Grown(closed, code', Begin) /\ Len(code') = Len(closed)
  <2>1. CodeOK(closed, Begin)
    BY <1>6 DEF Grown
  <2>2. end \in (Begin .. Len(closed)) \cup {Unpatched}
    BY <1>2, <1>6 DEF currentAddress
  <2>3. \A j \in exits : j >= Begin
    BY <1>2, <1>3, <1>5
  <2> HIDE DEF closed, exits, end
  <2>4. QED
    BY <1>1, <2>1, <2>2, <2>3, GrownPatch
<1> HIDE DEF closed, exits, end
<1>8. Grown(code, code', Begin) /\ Len(code') = Len(code) + 1
  BY <1>2, <1>6, <1>7, GrownTwice
<1>9. /\ loopStack' \in Seq(Contexts(Begin, Len(code')))
      /\ switchBreakStack' \in Seq(SUBSET (Begin .. Len(code') - 1))
      /\ Len(loopStack') = Len(loopStack) - 1
      /\ Len(switchBreakStack') = Len(switchBreakStack) - 0
  <2>1. Len(code') \in Nat /\ Len(code) <= Len(code') /\ Len(switchBreakStack) \in Nat
    BY <1>1, <1>2, <1>8, KeptContexts
  <2>2. QED
    BY <1>1, <1>2, <2>1, ClosedLoop
<1>10. One(Top.task \in LoopEnds) = 1 /\ One(Top.task \in SwitchEnds) = 0
  BY <1>2 DEF One
<1>11. QED
  BY <1>1, <1>2, <1>8, <1>9, <1>10, EmptyStep

LEMMA SwitchNode ==
    ASSUME NEW n \in Stmts, n.kind = "switch"
    PROVE  /\ n.expr \in Exprs /\ n.default \in Seq(Stmts)
           /\ Len(n.cases) \in Nat
           /\ \A i \in 1 .. Len(n.cases) : n.cases[i].value \in Int /\ n.cases[i].stmts \in Seq(Stmts)
<1>1. n.expr \in Exprs /\ n.default \in Seq(Stmts) /\ n.cases \in Seq([value : Int, stmts : Seq(Stmts)])
  BY StmtsAssumption DEF StmtClosed
<1> DEFINE cases == n.cases
           R     == [value : Int, stmts : Seq(Stmts)]
<1>2. Len(cases) \in Nat /\ \A i \in 1 .. Len(cases) : cases[i] \in R
  <2>1. cases \in Seq(R)
    BY <1>1
  <2> HIDE DEF cases, R
  <2>2. QED
    BY <2>1
<1>3. QED
  BY <1>1, <1>2

LEMMA Switch1Step ==
    ASSUME Inv, Switch1 PROVE Inv'
<1> DEFINE item  == Item("caseTest", Node, <<>>, 0, 1)
           items == <<item>>
<1>1. work # <<>> /\ Top.task = "generate" /\ Node.kind = "switch" /\ code' = code /\ Then(items)
  BY DEF Switch1, Generating, Running
<1>2. Begin \in Nat /\ Len(code) \in Nat /\ Node \in Exprs \cup Stmts
  BY <1>1, TopOK DEF ItemOK, Node
<1>3. Node \in Stmts /\ Len(Node.cases) \in Nat
  BY <1>1, <1>2, ExprsAssumption, SwitchNode DEF ExprClosed
<1>4. item \in Simple(Begin, Len(code'))
  <2>1. <<>> \in Seq(Begin .. Len(code) - 1)
    OBVIOUS
  <2>2. 1 \in 1 .. Len(Node.cases) + 1 /\ Len(<<>>) = 1 - 1
    BY <1>3
  <2>3. ItemOK(item, Begin, Len(code'))
    BY <1>1, <1>3, <2>1, <2>2 DEF ItemOK, Item
  <2>4. "caseTest" \in Tasks /\ "caseTest" \notin LoopEnds \cup SwitchEnds
    BY DEF Tasks, LoopEnds, SwitchEnds
  <2>5. QED
    BY <1>1, <1>2, <1>3, <2>1, <2>3, <2>4, ItemTyped
<1> HIDE DEF item
<1>5. items \in Seq(Simple(Begin, Len(code')))
  BY <1>4
<1> HIDE DEF items
<1>6. Grown(code, code', Begin)
  BY <1>1, GrownSelf
<1>7. QED
  BY <1>1, <1>5, <1>6, PlainStep DEF Switch1, Inv, TypeOK, LoopEnds, SwitchEnds

LEMMA CaseTestStep ==
    ASSUME Inv, CaseTest PROVE Inv'
<1> DEFINE item  == Item("caseJump", Node, Top.jumps, 0, Top.index)
           items == <<Gen(Node.expr), item>>
<1>1. /\ work # <<>> /\ Top.task = "caseTest" /\ code' = code /\ Then(items)
      /\ Top.index <= Len(Node.cases)
  BY DEF CaseTest, Running
<1>2. /\ Begin \in Nat /\ Len(code) \in Nat /\ Node \in Stmts /\ Node.kind = "switch"
      /\ Top.index \in 1 .. Len(Node.cases) + 1 /\ Len(Top.jumps) = Top.index - 1
      /\ Top.jumps \in Seq(Begin .. Len(code) - 1)
  BY <1>1, TopOK DEF ItemOK, Node
<1>3. Node.expr \in Exprs /\ Len(Node.cases) \in Nat
  BY <1>2, SwitchNode
<1>4. Gen(Node.expr) \in Simple(Begin, Len(code'))
  BY <1>1, <1>2, <1>3, GenOK
<1>5. item \in Simple(Begin, Len(code'))
  <2>1. Top.index \in 1 .. Len(Node.cases) /\ Top.index \in Nat
    BY <1>1, <1>2, <1>3
  <2>2. ItemOK(item, Begin, Len(code'))
    BY <1>1, <1>2, <2>1 DEF ItemOK, Item
  <2>3. "caseJump" \in Tasks /\ "caseJump" \notin LoopEnds \cup SwitchEnds
    BY DEF Tasks, LoopEnds, SwitchEnds
  <2>4. QED
    BY <1>1, <1>2, <2>1, <2>2, <2>3, ItemTyped
<1> HIDE DEF item
<1>6. items \in Seq(Simple(Begin, Len(code')))
  BY <1>4, <1>5
<1> HIDE DEF items
<1>7. Grown(code, code', Begin)
  BY <1>1, GrownSelf
<1>8. QED
  BY <1>1, <1>6, <1>7, PlainStep DEF CaseTest, Inv, TypeOK, LoopEnds, SwitchEnds

\* One jump more to remember, when the code has grown behind it.
LEMMA JumpRemembered ==
    ASSUME NEW from \in Nat, NEW to \in Nat, NEW further \in Nat, to <= further,
           NEW jumps \in Seq(from .. to - 1), NEW jump \in from .. further - 1
    PROVE  /\ Append(jumps, jump) \in Seq(from .. further - 1)
           /\ Len(Append(jumps, jump)) = Len(jumps) + 1
<1>1. from .. to - 1 \subseteq from .. further - 1
  OBVIOUS
<1>2. jumps \in Seq(from .. further - 1)
  BY <1>1, SeqMonotonic
<1>3. QED
  BY <1>2

LEMMA CaseJumpStep ==
    ASSUME Inv, CaseJump PROVE Inv'
<1> DEFINE test  == <<With("PushInt", Node.cases[Top.index].value), Plain("Equal"), JumpTo("JumpIfTrue")>>
           jump  == currentAddress + 2
           jumps == Append(Top.jumps, jump)
           index == Top.index + 1
           item  == Item("caseTest", Node, jumps, 0, index)
           items == <<item>>
<1>1. work # <<>> /\ Top.task = "caseJump" /\ code' = code \o test /\ Then(items)
  BY DEF CaseJump, Running
<1>2. /\ Begin \in Nat /\ Len(code) \in Nat /\ Begin \in 0 .. Len(code) /\ CodeOK(code, Begin)
      /\ Node \in Stmts /\ Node.kind = "switch"
      /\ Top.index \in 1 .. Len(Node.cases) /\ Len(Top.jumps) = Top.index - 1
      /\ Top.jumps \in Seq(Begin .. Len(code) - 1)
  BY <1>1, TopOK DEF ItemOK, Node
<1>3. Len(Node.cases) \in Nat /\ Node.cases[Top.index].value \in Int
  BY <1>2, SwitchNode
<1>4. /\ test \in Seq(Instructions) /\ Len(test) = 3
      /\ \A i \in 1 .. Len(test) : IsJump(test[i]) => test[i].arg = Unpatched
  <2>1. <<>> \in Seq(Nat) /\ -1 \in Int
    OBVIOUS
  <2>2. /\ With("PushInt", Node.cases[Top.index].value) \in Instructions
        /\ Plain("Equal") \in Instructions
        /\ JumpTo("JumpIfTrue") \in Instructions
    BY <1>3, <2>1 DEF With, Plain, JumpTo, Instruction, Instructions, Opcodes, ArithmeticOps,
                      JumpOps, Unpatched
  <2>3. /\ ~IsJump(With("PushInt", Node.cases[Top.index].value)) /\ ~IsJump(Plain("Equal"))
        /\ JumpTo("JumpIfTrue").arg = Unpatched
    BY DEF IsJump, JumpOps, With, Plain, JumpTo, Instruction
  <2>4. QED
    BY <2>2, <2>3
<1> HIDE DEF test
<1>5. Grown(code, code', Begin) /\ Len(code') = Len(code) + 3
  BY <1>1, <1>2, <1>4, GrownConcat
<1>6. item \in Simple(Begin, Len(code'))
  <2>1. /\ jumps \in Seq(Begin .. Len(code') - 1)
        /\ Len(jumps) = Len(Top.jumps) + 1
    <3>1. Len(code') \in Nat /\ Len(code) <= Len(code') /\ jump \in Begin .. Len(code') - 1
      BY <1>2, <1>5 DEF currentAddress
    <3> HIDE DEF jump
    <3>2. QED
      BY <1>2, <3>1, JumpRemembered
  <2> HIDE DEF jumps
  <2>2. /\ index \in 1 .. Len(Node.cases) + 1 /\ index \in Nat
        /\ Len(jumps) = index - 1
    <3>1. /\ Top.index \in Int /\ 1 <= Top.index /\ Top.index <= Len(Node.cases)
          /\ Len(jumps) = Top.index
      BY <1>2, <1>3, <2>1
    <3>2. QED
      BY <1>3, <3>1
  <2> HIDE DEF index
  <2>3. ItemOK(item, Begin, Len(code'))
    BY <1>2, <2>1, <2>2 DEF ItemOK, Item
  <2>4. "caseTest" \in Tasks /\ "caseTest" \notin LoopEnds \cup SwitchEnds
    BY DEF Tasks, LoopEnds, SwitchEnds
  <2>5. Begin \in Nat /\ Len(code') \in Nat /\ Node \in Exprs \cup Stmts /\ 0 \in Nat
    BY <1>2, <1>5
  <2>6. QED
    BY <2>1, <2>2, <2>3, <2>4, <2>5, ItemTyped, Zenon
<1> HIDE DEF item
<1>7. items \in Seq(Simple(Begin, Len(code')))
  BY <1>6
<1> HIDE DEF items
<1>8. QED
  BY <1>1, <1>5, <1>7, PlainStep DEF CaseJump, Inv, TypeOK, LoopEnds, SwitchEnds

\* A switch begins: one context more, and the activation that will close it.
LEMMA TestsEndStep ==
    ASSUME Inv, TestsEnd PROVE Inv'
<1> DEFINE jumps == Append(Top.jumps, currentAddress)
           item  == Item("caseBody", Node, jumps, 0, 1)
           none  == <<>>
           items == none \o <<item>>
<1>1. /\ work # <<>> /\ Top.task = "caseTest" /\ code' = Append(code, JumpTo("Jump")) /\ Then(<<item>>)
      /\ Top.index > Len(Node.cases)
      /\ switchBreakStack' = Append(switchBreakStack, {})
      /\ UNCHANGED <<program, functions, entry, next, loopStack, diagnostic>>
  BY DEF TestsEnd, Running
<1>2. /\ Begin \in Nat /\ Len(code) \in Nat /\ Begin \in 0 .. Len(code)
      /\ Node \in Stmts /\ Node.kind = "switch"
      /\ Top.index \in 1 .. Len(Node.cases) + 1 /\ Len(Top.jumps) = Top.index - 1
      /\ Top.jumps \in Seq(Begin .. Len(code) - 1)
  BY <1>1, TopOK DEF ItemOK, Node
<1>3. Len(Node.cases) \in Nat
  BY <1>2, SwitchNode
<1>4. Grown(code, code', Begin) /\ Len(code') = Len(code) + 1
  BY <1>1, EmittedJump DEF JumpTo, JumpOps
<1>5. item \in Items(Begin, Len(code'))
  <2>1. /\ jumps \in Seq(Begin .. Len(code') - 1)
        /\ Len(jumps) = Len(Top.jumps) + 1
    <3>1. Len(code') \in Nat /\ Len(code) <= Len(code') /\ currentAddress \in Begin .. Len(code') - 1
      BY <1>2, <1>4 DEF currentAddress
    <3>2. QED
      BY <1>2, <3>1, JumpRemembered
  <2> HIDE DEF jumps
  <2>2. /\ 1 \in 1 .. Len(Node.cases) + 1
        /\ Len(jumps) = Len(Node.cases) + 2 - 1
    <3> DEFINE n == Len(Node.cases)  index == Top.index
    <3>1. n \in Nat /\ index \in 1 .. n + 1 /\ index > n /\ Len(jumps) = index - 1 + 1
      BY <1>1, <1>2, <1>3, <2>1
    <3> HIDE DEF n, index
    <3>2. 1 \in 1 .. n + 1 /\ Len(jumps) = n + 2 - 1
      BY <3>1
    <3> USE DEF n
    <3>3. QED
      BY <3>2
  <2>3. ItemOK(item, Begin, Len(code'))
    BY <1>2, <2>1, <2>2 DEF ItemOK, Item
  <2>4. "caseBody" \in Tasks
    BY DEF Tasks
  <2>5. Len(code') \in Nat /\ 1 \in Nat
    BY <1>2, <1>4
  <2>6. QED
    BY <1>2, <2>1, <2>3, <2>4, <2>5, ItemTyped
<1>6. item.task = "caseBody"
  BY DEF Item
<1> HIDE DEF item
<1>7. items = <<item>> /\ none \in Seq(Simple(Begin, Len(code')))
  OBVIOUS
<1>8. /\ One(Top.task \in LoopEnds) = 0 /\ One(Top.task \in SwitchEnds) = 0
      /\ One(item.task \in LoopEnds) = 0 /\ One(item.task \in SwitchEnds) = 1
  BY <1>1, <1>6 DEF One, LoopEnds, SwitchEnds
<1>9. /\ loopStack' \in Seq(Contexts(Begin, Len(code')))
      /\ switchBreakStack' \in Seq(SUBSET (Begin .. Len(code') - 1))
      /\ Len(loopStack') = Len(loopStack) - 0 + 0
      /\ Len(switchBreakStack') = Len(switchBreakStack) - 0 + 1
  <2>1. /\ loopStack \in Seq(Contexts(Begin, Len(code'))) /\ Len(loopStack) \in Nat
        /\ switchBreakStack \in Seq(SUBSET (Begin .. Len(code') - 1)) /\ Len(switchBreakStack) \in Nat
    <3>1. Len(code') \in Nat /\ Len(code) <= Len(code')
      BY <1>2, <1>4
    <3>2. QED
      BY <1>1, <3>1, KeptContexts
  <2>2. /\ Append(switchBreakStack, {}) \in Seq(SUBSET (Begin .. Len(code') - 1))
        /\ Len(Append(switchBreakStack, {})) = Len(switchBreakStack) + 1
    BY <2>1
  <2>3. QED
    BY <1>1, <2>1, <2>2
<1> HIDE DEF none
<1>10. Then(items)
  BY <1>1, <1>7
<1> HIDE DEF items
<1>11. items = none \o <<item>>
  BY DEF items
<1>12. QED
  BY <1>1, <1>4, <1>5, <1>7, <1>8, <1>9, <1>10, <1>11, LastStep

\* The first of the remembered jumps is patched, and the rest is kept.
LEMMA FirstPatched ==
    ASSUME Inv, work # <<>>, Top.task = "caseBody",
           code' = Patch(code, {Top.jumps[1]}, currentAddress)
    PROVE  /\ Grown(code, code', Begin) /\ Len(code') = Len(code)
           /\ Tail(Top.jumps) \in Seq(Begin .. Len(code) - 1)
           /\ Len(Tail(Top.jumps)) = Len(Top.jumps) - 1
<1>1. /\ Begin \in Nat /\ Len(code) \in Nat /\ Begin \in 0 .. Len(code) /\ CodeOK(code, Begin)
      /\ Node \in Stmts /\ Node.kind = "switch"
      /\ Top.index \in 1 .. Len(Node.cases) + 1 /\ Len(Top.jumps) = Len(Node.cases) + 2 - Top.index
      /\ Top.jumps \in Seq(Begin .. Len(code) - 1)
  BY TopOK DEF ItemOK, Node
<1>2. Len(Top.jumps) # 0
  BY <1>1, SwitchNode
<1>3. Top.jumps # <<>>
  BY <1>2
<1>4. /\ Top.jumps[1] \in Begin .. Len(code) - 1
      /\ Tail(Top.jumps) \in Seq(Begin .. Len(code) - 1)
      /\ Len(Tail(Top.jumps)) = Len(Top.jumps) - 1
  <2> DEFINE s == Top.jumps
             S == Begin .. Len(code) - 1
  <2>1. s \in Seq(S) /\ s # <<>>
    BY <1>1, <1>3
  <2> HIDE DEF s, S
  <2>2. s[1] \in S
    BY <2>1
  <2>3. Tail(s) \in Seq(S) /\ Len(Tail(s)) = Len(s) - 1
    BY <2>1
  <2>4. QED
    BY <2>2, <2>3 DEF s, S
<1>5. Grown(code, code', Begin) /\ Len(code') = Len(code)
  <2> DEFINE jumps == {Top.jumps[1]}
  <2>1. \A j \in jumps : j >= Begin
    BY <1>1, <1>4
  <2>2. currentAddress \in (Begin .. Len(code)) \cup {Unpatched}
    BY <1>1 DEF currentAddress
  <2>3. code' = Patch(code, jumps, currentAddress)
    OBVIOUS
  <2> HIDE DEF jumps
  <2>4. QED
    BY <1>1, <2>1, <2>2, <2>3, GrownPatch
<1>6. QED
  BY <1>4, <1>5

\* The open switch stays open, and its activation is replaced by another one of
\* it.
LEMMA SwitchGoesOn ==
    ASSUME Inv, work # <<>>, Top.task \in SwitchEnds, Grown(code, code', Begin),
           NEW front \in Seq(Simple(Begin, Len(code'))),
           NEW last \in Items(Begin, Len(code')), last.task \in SwitchEnds,
           Then(front \o <<last>>),
           UNCHANGED <<program, functions, entry, next, loopStack, switchBreakStack, diagnostic>>
    PROVE  Inv'
<1> DEFINE items == front \o <<last>>
<1>1. /\ Top.task # "emit"
      /\ One(Top.task \in LoopEnds) = 0 /\ One(Top.task \in SwitchEnds) = 1
      /\ One(last.task \in LoopEnds) = 0 /\ One(last.task \in SwitchEnds) = 1
  BY DEF One, LoopEnds, SwitchEnds
<1>2. Len(code') \in Nat /\ Len(code) <= Len(code')
  BY DEF Grown, CodeOK
<1>3. /\ loopStack \in Seq(Contexts(Begin, Len(code'))) /\ Len(loopStack) \in Nat
      /\ switchBreakStack \in Seq(SUBSET (Begin .. Len(code') - 1)) /\ Len(switchBreakStack) \in Nat
  BY <1>2, KeptContexts
<1>4. /\ Len(loopStack) = Len(loopStack) - 0 + 0
      /\ Len(switchBreakStack) = Len(switchBreakStack) - 1 + 1
  BY <1>3
<1>5. Then(items) /\ items = front \o <<last>>
  OBVIOUS
<1> HIDE DEF items
<1>6. QED
  BY <1>1, <1>3, <1>4, <1>5, LastStep

LEMMA CaseBodyStep ==
    ASSUME Inv, CaseBody PROVE Inv'
<1> DEFINE front == GenAll(Node.cases[Top.index].stmts)
           jumps == Tail(Top.jumps)
           index == Top.index + 1
           item  == Item("caseBody", Node, jumps, 0, index)
<1>1. /\ work # <<>> /\ Top.task = "caseBody" /\ Then(front \o <<item>>)
      /\ Top.index <= Len(Node.cases)
      /\ code' = Patch(code, {Top.jumps[1]}, currentAddress)
      /\ UNCHANGED <<program, functions, entry, next, loopStack, switchBreakStack, diagnostic>>
  BY DEF CaseBody, Running
<1>2. /\ Begin \in Nat /\ Len(code) \in Nat /\ Node \in Stmts /\ Node.kind = "switch"
      /\ Top.index \in 1 .. Len(Node.cases) + 1 /\ Len(Top.jumps) = Len(Node.cases) + 2 - Top.index
  BY <1>1, TopOK DEF ItemOK, Node
<1>3. Len(Node.cases) \in Nat
  BY <1>2, SwitchNode
<1>4. Top.index \in 1 .. Len(Node.cases)
  BY <1>1, <1>2, <1>3
<1>5. /\ Grown(code, code', Begin) /\ Len(code') = Len(code)
      /\ jumps \in Seq(Begin .. Len(code) - 1) /\ Len(jumps) = Len(Top.jumps) - 1
  BY <1>1, FirstPatched
<1> HIDE DEF jumps
<1>6. front \in Seq(Simple(Begin, Len(code')))
  <2>1. Node.cases[Top.index].stmts \in Seq(Stmts)
    BY <1>2, <1>4, SwitchNode
  <2>2. Node.cases[Top.index].stmts \in Seq(Exprs \cup Stmts)
    BY <2>1, SeqMonotonic
  <2>3. QED
    BY <1>2, <1>5, <2>2, GenAllOK
<1>7. item \in Items(Begin, Len(code'))
  <2>1. /\ index \in 1 .. Len(Node.cases) + 1 /\ index \in Nat
        /\ Len(jumps) = Len(Node.cases) + 2 - index
    <3>1. /\ Top.index \in Int /\ 1 <= Top.index /\ Top.index <= Len(Node.cases)
          /\ Len(jumps) = Len(Node.cases) + 2 - Top.index - 1
      BY <1>2, <1>3, <1>4, <1>5
    <3>2. QED
      BY <1>3, <3>1
  <2> HIDE DEF index
  <2>2. ItemOK(item, Begin, Len(code'))
    BY <1>2, <1>5, <2>1 DEF ItemOK, Item
  <2>3. "caseBody" \in Tasks
    BY DEF Tasks
  <2>4. QED
    BY <1>2, <1>5, <2>1, <2>2, <2>3, ItemTyped
<1>8. item.task \in SwitchEnds /\ Top.task \in SwitchEnds
  BY <1>1 DEF Item, SwitchEnds
<1> HIDE DEF front, item
<1>9. QED
  BY <1>1, <1>5, <1>6, <1>7, <1>8, SwitchGoesOn

LEMMA DefaultBodyStep ==
    ASSUME Inv, DefaultBody PROVE Inv'
<1> DEFINE front == GenAll(Node.default)
           item  == Item("switchEnd", Node, <<>>, 0, 0)
<1>1. /\ work # <<>> /\ Top.task = "caseBody" /\ Then(front \o <<item>>)
      /\ code' = Patch(code, {Top.jumps[1]}, currentAddress)
      /\ UNCHANGED <<program, functions, entry, next, loopStack, switchBreakStack, diagnostic>>
  BY DEF DefaultBody, Running
<1>2. Begin \in Nat /\ Len(code) \in Nat /\ Node \in Stmts /\ Node.kind = "switch"
  BY <1>1, TopOK DEF ItemOK, Node
<1>3. Grown(code, code', Begin) /\ Len(code') = Len(code)
  BY <1>1, FirstPatched
<1>4. front \in Seq(Simple(Begin, Len(code')))
  <2>1. Node.default \in Seq(Stmts)
    BY <1>2, SwitchNode
  <2>2. Node.default \in Seq(Exprs \cup Stmts)
    BY <2>1, SeqMonotonic
  <2>3. QED
    BY <1>2, <1>3, <2>2, GenAllOK
<1>5. item \in Items(Begin, Len(code'))
  <2>1. <<>> \in Seq(Begin .. Len(code') - 1)
    OBVIOUS
  <2>2. ItemOK(item, Begin, Len(code'))
    BY <1>2, <2>1 DEF ItemOK, Item
  <2>3. "switchEnd" \in Tasks
    BY DEF Tasks
  <2>4. QED
    BY <1>2, <1>3, <2>1, <2>2, <2>3, ItemTyped
<1>6. item.task \in SwitchEnds /\ Top.task \in SwitchEnds
  BY <1>1 DEF Item, SwitchEnds
<1> HIDE DEF front, item
<1>7. QED
  BY <1>1, <1>3, <1>4, <1>5, <1>6, SwitchGoesOn

LEMMA SwitchEndStep ==
    ASSUME Inv, SwitchEnd PROVE Inv'
<1> DEFINE exits == switchBreakStack[Len(switchBreakStack)]
<1>1. /\ work # <<>> /\ Top.task = "switchEnd" /\ Then(<<>>)
      /\ code' = Patch(code, exits, currentAddress)
      /\ switchBreakStack' = SubSeq(switchBreakStack, 1, Len(switchBreakStack) - 1)
      /\ UNCHANGED <<program, functions, entry, next, loopStack, diagnostic>>
  BY DEF SwitchEnd, Running
<1>2. /\ Begin \in Nat /\ Len(code) \in Nat /\ Begin \in 0 .. Len(code) /\ CodeOK(code, Begin)
      /\ Top.task \in SwitchEnds /\ Top.task \notin LoopEnds /\ Top.task # "emit"
  BY <1>1, TopOK DEF LoopEnds, SwitchEnds
<1>3. exits \subseteq Begin .. Len(code) - 1 /\ Len(switchBreakStack) \in Nat \ {0}
  BY <1>1, <1>2, OpenContext
<1> HIDE DEF exits
<1>4. Grown(code, code', Begin) /\ Len(code') = Len(code)
  <2>1. \A j \in exits : j >= Begin
    BY <1>2, <1>3
  <2>2. currentAddress \in (Begin .. Len(code)) \cup {Unpatched}
    BY <1>2 DEF currentAddress
  <2>3. QED
    BY <1>1, <1>2, <2>1, <2>2, GrownPatch
<1>5. /\ loopStack' \in Seq(Contexts(Begin, Len(code')))
      /\ switchBreakStack' \in Seq(SUBSET (Begin .. Len(code') - 1))
      /\ Len(loopStack') = Len(loopStack) - 0
      /\ Len(switchBreakStack') = Len(switchBreakStack) - 1
  <2>1. /\ loopStack \in Seq(Contexts(Begin, Len(code'))) /\ Len(loopStack) \in Nat
        /\ switchBreakStack \in Seq(SUBSET (Begin .. Len(code') - 1))
    <3>1. Len(code') \in Nat /\ Len(code) <= Len(code')
      BY <1>2, <1>4
    <3>2. QED
      BY <1>1, <3>1, KeptContexts
  <2>2. Len(switchBreakStack) - 1 \in 0 .. Len(switchBreakStack)
    BY <1>3
  <2>3. /\ SubSeq(switchBreakStack, 1, Len(switchBreakStack) - 1) \in Seq(SUBSET (Begin .. Len(code') - 1))
        /\ Len(SubSeq(switchBreakStack, 1, Len(switchBreakStack) - 1)) = Len(switchBreakStack) - 1
    BY <2>1, <2>2, PrefixProperties, Zenon
  <2>4. QED
    BY <1>1, <2>1, <2>3
<1>6. One(Top.task \in LoopEnds) = 0 /\ One(Top.task \in SwitchEnds) = 1
  BY <1>2 DEF One
<1>7. QED
  BY <1>1, <1>2, <1>4, <1>5, <1>6, EmptyStep

LEMMA LastElement ==
    ASSUME NEW S, NEW s \in Seq(S), s # <<>>
    PROVE  /\ s[Len(s)] \in S
           /\ \A x \in S : /\ [s EXCEPT ![Len(s)] = x] \in Seq(S)
                           /\ Len([s EXCEPT ![Len(s)] = x]) = Len(s)
<1>1. s[Len(s)] \in S
  OBVIOUS
<1>2. ASSUME NEW x \in S
      PROVE  [s EXCEPT ![Len(s)] = x] \in Seq(S) /\ Len([s EXCEPT ![Len(s)] = x]) = Len(s)
  OBVIOUS
<1>3. QED
  BY <1>1, <1>2

LEMMA BreakOutOfSwitchStep ==
    ASSUME Inv, BreakOutOfSwitch PROVE Inv'
<1> DEFINE exits == switchBreakStack[Len(switchBreakStack)] \cup {currentAddress}
<1>1. /\ work # <<>> /\ Top.task = "generate" /\ Then(<<>>) /\ switchBreakStack # <<>>
      /\ code' = Append(code, JumpTo("Jump"))
      /\ switchBreakStack' = [switchBreakStack EXCEPT ![Len(switchBreakStack)] = exits]
      /\ UNCHANGED <<program, functions, entry, next, loopStack, diagnostic>>
  BY DEF BreakOutOfSwitch, Generating, Running
<1>2. Begin \in Nat /\ Len(code) \in Nat /\ Begin \in 0 .. Len(code)
  BY <1>1, TopOK
<1>3. Grown(code, code', Begin) /\ Len(code') = Len(code) + 1
  BY <1>1, EmittedJump DEF JumpTo, JumpOps
<1>4. /\ loopStack \in Seq(Contexts(Begin, Len(code'))) /\ Len(loopStack) \in Nat
      /\ switchBreakStack \in Seq(SUBSET (Begin .. Len(code') - 1)) /\ Len(switchBreakStack) \in Nat
  <2>1. Len(code') \in Nat /\ Len(code) <= Len(code')
    BY <1>2, <1>3
  <2>2. QED
    BY <1>1, <2>1, KeptContexts
<1>5. exits \in SUBSET (Begin .. Len(code') - 1)
  <2>1. switchBreakStack[Len(switchBreakStack)] \in SUBSET (Begin .. Len(code') - 1)
    BY <1>1, <1>4, LastElement
  <2>2. currentAddress \in Begin .. Len(code') - 1
    BY <1>2, <1>3 DEF currentAddress
  <2>3. QED
    BY <2>1, <2>2
<1> HIDE DEF exits
<1>6. /\ switchBreakStack' \in Seq(SUBSET (Begin .. Len(code') - 1))
      /\ Len(switchBreakStack') = Len(switchBreakStack) - 0
      /\ Len(loopStack') = Len(loopStack) - 0
  BY <1>1, <1>4, <1>5, LastElement
<1>7. /\ One(Top.task \in LoopEnds) = 0 /\ One(Top.task \in SwitchEnds) = 0
      /\ Top.task # "emit"
  BY <1>1 DEF One, LoopEnds, SwitchEnds
<1>8. QED
  BY <1>1, <1>3, <1>4, <1>6, <1>7, EmptyStep

LEMMA BreakOutOfLoopStep ==
    ASSUME Inv, BreakOutOfLoop PROVE Inv'
<1> DEFINE context == [Loop EXCEPT !.breakJumps = @ \cup {currentAddress}]
<1>1. /\ work # <<>> /\ Top.task = "generate" /\ Then(<<>>) /\ loopStack # <<>>
      /\ code' = Append(code, JumpTo("Jump"))
      /\ loopStack' = [loopStack EXCEPT ![Len(loopStack)] = context]
      /\ UNCHANGED <<program, functions, entry, next, switchBreakStack, diagnostic>>
  BY DEF BreakOutOfLoop, Generating, Running, Loop
<1>2. Begin \in Nat /\ Len(code) \in Nat /\ Begin \in 0 .. Len(code)
  BY <1>1, TopOK
<1>3. Grown(code, code', Begin) /\ Len(code') = Len(code) + 1
  BY <1>1, EmittedJump DEF JumpTo, JumpOps
<1>4. /\ loopStack \in Seq(Contexts(Begin, Len(code'))) /\ Len(loopStack) \in Nat
      /\ switchBreakStack \in Seq(SUBSET (Begin .. Len(code') - 1)) /\ Len(switchBreakStack) \in Nat
  <2>1. Len(code') \in Nat /\ Len(code) <= Len(code')
    BY <1>2, <1>3
  <2>2. QED
    BY <1>1, <2>1, KeptContexts
<1>5. context \in Contexts(Begin, Len(code'))
  <2>1. Loop \in Contexts(Begin, Len(code'))
    BY <1>1, <1>4, LastElement DEF Loop
  <2>2. currentAddress \in Begin .. Len(code') - 1
    BY <1>2, <1>3 DEF currentAddress
  <2>3. QED
    BY <2>1, <2>2 DEF Contexts
<1> HIDE DEF context
<1>6. /\ loopStack' \in Seq(Contexts(Begin, Len(code')))
      /\ Len(loopStack') = Len(loopStack) - 0
      /\ Len(switchBreakStack') = Len(switchBreakStack) - 0
  BY <1>1, <1>4, <1>5, LastElement
<1>7. /\ One(Top.task \in LoopEnds) = 0 /\ One(Top.task \in SwitchEnds) = 0
      /\ Top.task # "emit"
  BY <1>1 DEF One, LoopEnds, SwitchEnds
<1>8. QED
  BY <1>1, <1>3, <1>4, <1>6, <1>7, EmptyStep

LEMMA ContinueStep ==
    ASSUME Inv, Continue PROVE Inv'
<1> DEFINE context == [Loop EXCEPT !.continueJumps = @ \cup {currentAddress}]
<1>1. /\ work # <<>> /\ Top.task = "generate" /\ Then(<<>>) /\ loopStack # <<>>
      /\ code' = Append(code, JumpTo("Jump"))
      /\ loopStack' = [loopStack EXCEPT ![Len(loopStack)] = context]
      /\ UNCHANGED <<program, functions, entry, next, switchBreakStack, diagnostic>>
  BY DEF Continue, Generating, Running, Loop
<1>2. Begin \in Nat /\ Len(code) \in Nat /\ Begin \in 0 .. Len(code)
  BY <1>1, TopOK
<1>3. Grown(code, code', Begin) /\ Len(code') = Len(code) + 1
  BY <1>1, EmittedJump DEF JumpTo, JumpOps
<1>4. /\ loopStack \in Seq(Contexts(Begin, Len(code'))) /\ Len(loopStack) \in Nat
      /\ switchBreakStack \in Seq(SUBSET (Begin .. Len(code') - 1)) /\ Len(switchBreakStack) \in Nat
  <2>1. Len(code') \in Nat /\ Len(code) <= Len(code')
    BY <1>2, <1>3
  <2>2. QED
    BY <1>1, <2>1, KeptContexts
<1>5. context \in Contexts(Begin, Len(code'))
  <2>1. Loop \in Contexts(Begin, Len(code'))
    BY <1>1, <1>4, LastElement DEF Loop
  <2>2. currentAddress \in Begin .. Len(code') - 1
    BY <1>2, <1>3 DEF currentAddress
  <2>3. QED
    BY <2>1, <2>2 DEF Contexts
<1> HIDE DEF context
<1>6. /\ loopStack' \in Seq(Contexts(Begin, Len(code')))
      /\ Len(loopStack') = Len(loopStack) - 0
      /\ Len(switchBreakStack') = Len(switchBreakStack) - 0
  BY <1>1, <1>4, <1>5, LastElement
<1>7. /\ One(Top.task \in LoopEnds) = 0 /\ One(Top.task \in SwitchEnds) = 0
      /\ Top.task # "emit"
  BY <1>1 DEF One, LoopEnds, SwitchEnds
<1>8. QED
  BY <1>1, <1>3, <1>4, <1>6, <1>7, EmptyStep

LEMMA FailStep ==
    ASSUME Inv, Fail PROVE Inv'
<1> DEFINE items == <<>>
<1>1. /\ work # <<>> /\ Top.task \in {"generate", "noDefault"} /\ Then(items)
      /\ code' = code
      /\ UNCHANGED <<program, functions, entry, next, loopStack, switchBreakStack>>
  BY DEF Fail, Misplaced, Generating, Running
<1>2. diagnostic' \in Messages
  BY <1>1, TopOK DEF Fail, Messages
<1>3. items \in Seq(Simple(Begin, Len(code')))
  OBVIOUS
<1>4. Grown(code, code', Begin)
  BY <1>1, GrownSelf
<1>5. Top.task \notin {"emit"} \cup LoopEnds \cup SwitchEnds
  BY <1>1 DEF LoopEnds, SwitchEnds
<1> HIDE DEF items
<1>6. QED
  BY <1>1, <1>2, <1>3, <1>4, <1>5, PlainStep

\* What SelfContained says of one function.
Contained(k) ==
    /\ Start(k) \in 0 .. End(k)
    /\ \A i \in Start(k) + 1 .. End(k) :
           IsJump(code[i]) /\ code[i].arg # Unpatched =>
               code[i].arg \in Start(k) .. (IF Closed(k) THEN End(k) - 1 ELSE End(k))
    /\ Closed(k) => End(k) > Start(k) /\ code[End(k)].op = "Ret"

\* A function that was finished before a step of another one stays as it is.
LEMMA FinishedKept ==
    ASSUME Inv, work # <<>>, Grown(code, code', Begin), UNCHANGED <<functions, next>>,
           NEW k \in 1 .. next, k < next
    PROVE  Contained(k)'
<1>1. /\ next \in Nat \ {0} /\ Begin = Start(next) /\ Begin \in Nat
      /\ Closed(k)' /\ Closed(k) /\ Start(k)' = Start(k)
  BY InvFacts DEF Closed, Start
<1>2. End(k)' = End(k) /\ End(k) = Start(k + 1) /\ End(k) \in 0 .. Begin
  BY <1>1 DEF Inv, InOrder, End, Start
<1>3. Start(k) \in 0 .. End(k)
  BY DEF Inv, SelfContained
<1>4. \A i \in Start(k) + 1 .. End(k) : code'[i] = code[i]
  BY <1>1, <1>2, <1>3 DEF Grown
<1>5. End(k) > Start(k) /\ code[End(k)].op = "Ret" /\ End(k) \in Start(k) + 1 .. End(k)
  BY <1>1, <1>2, <1>3 DEF Inv, SelfContained
<1>6. QED
  BY <1>1, <1>2, <1>3, <1>4, <1>5 DEF Inv, SelfContained, Contained

\* The step that emits the RET of a function and closes it.
LEMMA LastInstruction ==
    ASSUME Inv, EmitInstruction, Len(work) = 1 PROVE Inv'
<1> DEFINE ret == Plain("Ret")
           S   == Items(Begin, Len(code))
<1>1. /\ work # <<>> /\ Top.task = "emit" /\ code' = Append(code, Node) /\ Then(<<>>)
      /\ UNCHANGED <<program, functions, entry, next, loopStack, switchBreakStack, diagnostic>>
  BY DEF EmitInstruction, Running
<1>2. /\ Begin \in Nat /\ Len(code) \in Nat /\ Begin \in 0 .. Len(code) /\ CodeOK(code, Begin)
      /\ next \in Nat \ {0} /\ Begin = Start(next) /\ work \in Seq(S)
      /\ code \in Seq(Instructions)
  BY <1>1, InvFacts DEF CodeOK
<1>3. Node = ret
  <2>1. Top = Emit(ret)
    BY <1>1 DEF Inv, RetComesLast, Top
  <2>2. QED
    BY <2>1 DEF Node, Emit, Item
<1>4. ret \in Instructions /\ ret.op = "Ret" /\ ~IsJump(ret)
  <2>1. <<>> \in Seq(Nat)
    OBVIOUS
  <2>2. QED
    BY <2>1 DEF Plain, Instruction, Instructions, Opcodes, IsJump, JumpOps
<1> HIDE DEF ret
<1>5. Grown(code, code', Begin) /\ Len(code') = Len(code) + 1
  <2>1. Node \in Instructions /\ (IsJump(Node) => Node.arg \in Begin .. Len(code) + 1)
    BY <1>3, <1>4
  <2>2. QED
    BY <1>1, <1>2, <2>1, GrownAppend
<1>6. code' \in Seq(Instructions) /\ code'[Len(code')] = ret
      /\ \A i \in 1 .. Len(code) : code'[i] = code[i]
  BY <1>1, <1>2, <1>3, <1>4, <1>5
<1>7. Begin' = Begin /\ \A k : Start(k)' = Start(k)
  BY <1>1 DEF Begin, Start
<1>8. work' = <<>>
  <2>1. work' = Replaced(work, <<>>)
    BY <1>1 DEF Then
  <2>2. Replaced(work, <<>>) \in Seq(S) /\ Len(Replaced(work, <<>>)) = Len(work) - 1 + Len(<<>>)
    <3>1. <<>> \in Seq(S)
      OBVIOUS
    <3>2. QED
      BY <1>1, <1>2, <3>1, ReplacedProperties
  <2>3. Len(work') = 0 /\ work' \in Seq(S)
    BY <2>1, <2>2
  <2>4. QED
    BY <2>3
<1>9. Count(work, LoopEnds) = 0 /\ Count(work, SwitchEnds) = 0
  <2>1. \A i \in 1 .. Len(work) : work[i] = Top
    BY DEF Top
  <2>2. \A i \in 1 .. Len(work) : work[i].task \notin LoopEnds \cup SwitchEnds
    BY <1>1, <2>1 DEF LoopEnds, SwitchEnds
  <2>3. QED
    BY <1>2, <2>2, CountProperties
<1>10. Len(loopStack) = 0 /\ Len(switchBreakStack) = 0
  BY <1>9 DEF Inv, ContextsMatched, Count
<1>11. TypeOK'
  <2>1. /\ loopStack \in Seq(Contexts(Begin, Len(code'))) /\ Len(code') \in Nat
        /\ switchBreakStack \in Seq(SUBSET (Begin .. Len(code') - 1))
    <3>1. Len(code') \in Nat /\ Len(code) <= Len(code')
      BY <1>2, <1>5
    <3>2. QED
      BY <1>1, <3>1, KeptContexts
  <2>2. work' \in Seq(Items(Begin, Len(code')))
    BY <1>8
  <2>3. Begin \in 0 .. Len(code')
    BY <1>2, <1>5
  <2>4. QED
    BY <1>1, <1>6, <1>7, <2>1, <2>2, <2>3 DEF Inv, TypeOK
<1>12. ContextsMatched'
  <2>1. Pending(work', LoopEnds) = {} /\ Pending(work', SwitchEnds) = {}
    BY <1>8 DEF Pending
  <2>2. QED
    BY <1>1, <1>10, <2>1, FS_EmptySet DEF ContextsMatched
<1>13. RetComesLast' /\ InOrder'
  BY <1>1, <1>7, <1>8 DEF RetComesLast, Inv, InOrder
<1>14. SelfContained'
  <2>1. SUFFICES ASSUME NEW k \in 1 .. next PROVE Contained(k)'
    BY <1>1 DEF SelfContained, Contained
  <2>2. CASE k < next
    BY <1>1, <1>5, <2>2, FinishedKept
  <2>3. CASE k = next
    <3>1. End(k)' = Len(code) + 1 /\ Closed(k)' /\ Start(k)' = Begin
      BY <1>1, <1>2, <1>5, <1>7, <1>8, <2>3 DEF End, Closed
    <3>2. ASSUME NEW i \in Begin + 1 .. Len(code) + 1,
                 IsJump(code'[i]), code'[i].arg # Unpatched
          PROVE  code'[i].arg \in Begin .. Len(code)
      <4>1. i \in Begin + 1 .. Len(code)
        BY <1>2, <1>4, <1>5, <1>6, <3>2
      <4>2. code'[i] = code[i]
        BY <1>2, <1>6, <4>1
      <4>3. QED
        BY <1>2, <3>2, <4>1, <4>2 DEF CodeOK
    <3>3. code'[Len(code) + 1].op = "Ret"
      BY <1>4, <1>5, <1>6
    <3>4. QED
      BY <1>2, <3>1, <3>2, <3>3 DEF Contained
  <2>4. QED
    BY <1>2, <2>2, <2>3
<1>15. QED
  BY <1>11, <1>12, <1>13, <1>14 DEF Inv

LEMMA EmitInstructionStep ==
    ASSUME Inv, EmitInstruction PROVE Inv'
<1>1. /\ work # <<>> /\ Top.task = "emit" /\ code' = Append(code, Node) /\ Then(<<>>)
      /\ UNCHANGED <<program, functions, entry, next, loopStack, switchBreakStack, diagnostic>>
  BY DEF EmitInstruction, Running
<1>2. Len(work) \in Nat \ {0}
  BY <1>1, InvFacts
<1>3. CASE Len(work) = 1
  BY <1>3, LastInstruction
<1>4. CASE Len(work) > 1
  <2> DEFINE items == <<>>
  <2>1. /\ Begin \in Nat /\ Len(code) \in Nat /\ CodeOK(code, Begin)
        /\ Node \in Instructions /\ ~IsJump(Node) /\ diagnostic \in Messages
    BY <1>1, TopOK DEF ItemOK, Node
  <2>2. Grown(code, code', Begin) /\ Len(code') = Len(code) + 1
    BY <1>1, <2>1, GrownAppend
  <2>3. /\ loopStack \in Seq(Contexts(Begin, Len(code'))) /\ Len(loopStack) \in Nat
        /\ switchBreakStack \in Seq(SUBSET (Begin .. Len(code') - 1)) /\ Len(switchBreakStack) \in Nat
    <3>1. Len(code') \in Nat /\ Len(code) <= Len(code')
      BY <2>1, <2>2
    <3>2. QED
      BY <1>1, <3>1, KeptContexts
  <2>4. items \in Seq(Items(Begin, Len(code'))) /\ 1 .. Len(items) - 1 = {}
    OBVIOUS
  <2>5. /\ One(Top.task \in LoopEnds) = 0 /\ One(Top.task \in SwitchEnds) = 0
        /\ One(LastIn(items, LoopEnds)) = 0 /\ One(LastIn(items, SwitchEnds)) = 0
    BY <1>1 DEF One, LastIn, LoopEnds, SwitchEnds
  <2>6. Then(items)
    BY <1>1
  <2> HIDE DEF items
  <2>7. /\ Len(loopStack) = Len(loopStack) - 0 + 0
        /\ Len(switchBreakStack) = Len(switchBreakStack) - 0 + 0
    BY <2>3
  <2>8. QED
    BY <1>1, <1>4, <2>1, <2>2, <2>3, <2>4, <2>5, <2>6, <2>7, Step
<1>5. Len(work) = 1 \/ Len(work) > 1
  <2> DEFINE n == Len(work)
  <2>1. n \in Nat \ {0}
    BY <1>2
  <2> HIDE DEF n
  <2>2. n = 1 \/ n > 1
    BY <2>1
  <2>3. QED
    BY <2>2 DEF n
<1>6. QED
  BY <1>3, <1>4, <1>5

\* A new function begins where the code of the others ends.
LEMMA GenerateFunctionStep ==
    ASSUME Inv, generateFunction PROVE Inv'
<1> DEFINE f     == program[next + 1]
           ret   == Emit(Plain("Ret"))
           front == GenAll(f.body) \o Default(f.returnType, -1)
           items == front \o <<ret>>
           here  == Len(code)
           S     == Simple(here, here)
<1>1. /\ work = <<>> /\ next < Len(program) /\ next' = next + 1
      /\ functions' = [functions EXCEPT ![next + 1].address = here]
      /\ work' = Reverse(GenAll(f.body) \o Default(f.returnType, -1) \o <<ret>>)
      /\ UNCHANGED <<program, code, entry, loopStack, switchBreakStack, diagnostic>>
  BY DEF generateFunction, currentAddress
<1>2. /\ here \in Nat /\ code \in Seq(Instructions)
      /\ program \in Programs /\ next \in 0 .. Len(program) /\ Begin \in 0 .. here
      /\ functions \in Seq([address : Nat \cup {-1}, params : Nat, locals : Nat, returnType : Types])
      /\ Len(functions) = Len(program)
      /\ loopStack \in Seq(Contexts(Begin, here))
      /\ switchBreakStack \in Seq(SUBSET (Begin .. here - 1))
  BY DEF Inv, TypeOK
<1>3. f.body \in Seq(Stmts) /\ f.returnType \in Types /\ Len(program) \in Nat /\ next + 1 \in 1 .. Len(program)
  <2> DEFINE D == [name : {"main", "helper"}, returnType : Types, params : Nat,
                   localCount : Nat, body : Seq(Stmts)]
  <2>1. program \in Seq(D)
    BY <1>2, ProgramsAssumption DEF IsProgram
  <2> HIDE DEF D
  <2>2. Len(program) \in Nat /\ next + 1 \in 1 .. Len(program)
    BY <1>1, <1>2, <2>1
  <2>3. f \in D
    BY <2>1, <2>2
  <2>4. QED
    BY <2>2, <2>3 DEF D
<1>4. front \in Seq(S) /\ ret \in S /\ <<ret>> \in Seq(S)
  <2>1. GenAll(f.body) \in Seq(S)
    <3>1. f.body \in Seq(Exprs \cup Stmts)
      BY <1>3, SeqMonotonic
    <3>2. QED
      BY <1>2, <1>3, GenAllOK
  <2>2. Default(f.returnType, -1) \in Seq(S)
    <3>1. -1 \in Int /\ here \in Nat /\ f.returnType \in Types
      BY <1>2, <1>3
    <3> HIDE DEF here, f
    <3>2. QED
      BY <3>1, DefaultOK, FreshSimple DEF S
  <2>3. ret \in S
    BY <1>2, EmitOpOK DEF Opcodes, JumpOps
  <2> HIDE DEF S, ret
  <2>4. QED
    BY <2>1, <2>2, <2>3, ConcatElements
<1> HIDE DEF f, S, ret, front
<1>5. /\ items \in Seq(S) /\ Len(items) \in Nat \ {0} /\ items[Len(items)] = ret
  BY <1>4
<1>6. work' = Reverse(items)
  BY <1>1 DEF front
<1> HIDE DEF items
<1>7. work' \in Seq(S) /\ Len(work') \in Nat \ {0} /\ work'[1] = ret
  BY <1>5, <1>6 DEF Reverse
<1>8. /\ work = <<>> /\ next' = next + 1 /\ next \in Nat /\ next + 1 \in 1 .. Len(functions)
      /\ UNCHANGED <<program, code>>
  BY <1>1, <1>2, <1>3
<1> DEFINE R == [address : Nat \cup {-1}, params : Nat, locals : Nat, returnType : Types]
           g == [functions[next + 1] EXCEPT !.address = here]
<1>9. /\ g \in R /\ g.address = here
      /\ functions' = [functions EXCEPT ![next + 1] = g]
      /\ functions \in Seq(R)
  <2>1. functions \in Seq(R) /\ functions' = [functions EXCEPT ![next + 1] = g]
    BY <1>1, <1>2
  <2>2. functions[next + 1] \in R
    <3> HIDE DEF R
    <3>1. QED
      BY <1>8, <2>1
  <2>3. g \in R /\ g.address = here
    BY <1>2, <2>2
  <2>4. QED
    BY <2>1, <2>3
<1>10. here \in Nat /\ code' = code /\ here = Len(code)
  BY <1>2, <1>8
<1> HIDE DEF R, g, here
<1>11. /\ functions' \in Seq(R) /\ Len(functions') = Len(functions)
       /\ functions'[next + 1] = g
       /\ \A k \in 1 .. next : functions'[k] = functions[k]
  BY <1>8, <1>9
<1>12. /\ Begin' = here
       /\ \A k \in 1 .. next : functions'[k] = functions[k] /\ Start(k)' = Start(k)
       /\ functions'[next + 1].address = here
  <2>1. functions'[next + 1].address = here
    BY <1>9, <1>11
  <2>2. Begin' = here
    <3>1. next + 1 # 0
      BY <1>8
    <3>2. QED
      BY <1>8, <2>1, <3>1 DEF Begin, Start
  <2>3. \A k \in 1 .. next : Start(k)' = Start(k)
    BY <1>11 DEF Start
  <2>4. QED
    BY <1>11, <2>1, <2>2, <2>3
<1>13. Len(loopStack) = 0 /\ Len(switchBreakStack) = 0
  <2>1. Pending(work, LoopEnds) = {} /\ Pending(work, SwitchEnds) = {}
    BY <1>1 DEF Pending
  <2>2. QED
    BY <2>1, FS_EmptySet DEF Inv, ContextsMatched
<1>14. TypeOK'
  <2>1. functions' \in Seq(R) /\ Len(functions') = Len(functions)
    BY <1>11
  <2>2. next' \in 0 .. Len(program)
    BY <1>1, <1>2, <1>3
  <2>3. work' \in Seq(Items(here, here))
    <3>1. S \subseteq Items(here, here)
      BY DEF S, Simple
    <3>2. QED
      BY <1>7, <3>1, SeqMonotonic
  <2>4. loopStack = <<>> /\ switchBreakStack = <<>>
    BY <1>2, <1>13
  <2>5. loopStack \in Seq(Contexts(here, here)) /\ switchBreakStack \in Seq(SUBSET (here .. here - 1))
    BY <2>4
  <2>6. here \in 0 .. here
    BY <1>2
  <2>7. QED
    BY <1>1, <1>2, <1>12, <1>10, <2>1, <2>2, <2>3, <2>5, <2>6 DEF Inv, TypeOK, R
<1>15. ContextsMatched'
  <2>1. \A i \in 1 .. Len(work') : work'[i] \in S
    BY <1>7
  <2>2. \A i \in 1 .. Len(work') : work'[i].task \notin LoopEnds \cup SwitchEnds
    BY <2>1 DEF S, Simple
  <2>3. Count(work', LoopEnds) = 0 /\ Count(work', SwitchEnds) = 0
    BY <1>7, <2>2, CountProperties
  <2>4. QED
    BY <1>1, <1>13, <2>3 DEF Count, ContextsMatched
<1>16. RetComesLast'
  BY <1>1, <1>2, <1>7 DEF RetComesLast, ret
<1>17. InOrder'
  <2>1. SUFFICES ASSUME NEW k \in 1 .. next + 1 PROVE Start(k)' \in 0 .. here
    BY <1>1, <1>12 DEF InOrder
  <2>2. CASE k = next + 1
    <3>1. functions'[k].address = here
      BY <1>12, <2>2, Zenon
    <3>2. Start(k)' = here
      BY <3>1 DEF Start
    <3>3. QED
      BY <1>10, <3>2
  <2>3. CASE k \in 1 .. next
    <3>1. Start(k) \in 0 .. Begin /\ Start(k)' = Start(k)
      BY <1>12, <2>3 DEF Inv, InOrder
    <3>2. QED
      BY <1>2, <3>1
  <2>4. QED
    BY <1>2, <2>2, <2>3
<1>18. SelfContained'
  <2>1. SUFFICES ASSUME NEW k \in 1 .. next + 1 PROVE Contained(k)'
    BY <1>1 DEF SelfContained, Contained
  <2>2. CASE k = next + 1
    <3>1. Start(k)' = here
      <4>1. functions'[k].address = here
        BY <1>12, <2>2, Zenon
      <4>2. QED
        BY <4>1 DEF Start
    <3>2. End(k)' = here
      BY <1>8, <1>10, <2>2 DEF End
    <3>3. ~Closed(k)'
      <4>1. work' # <<>> /\ ~(k < next + 1)
        BY <1>8, <1>7, <2>2
      <4>2. QED
        BY <1>8, <4>1 DEF Closed
    <3>4. QED
      BY <1>10, <3>1, <3>2, <3>3 DEF Contained
  <2>3. CASE k \in 1 .. next
    <3>1. Contained(k)
      BY <2>3 DEF Inv, SelfContained, Contained
    <3>2. Start(k)' = Start(k) /\ Closed(k) /\ Closed(k)'
      BY <1>1, <1>2, <1>12, <2>3 DEF Closed
    <3>3. End(k)' = End(k)
      <4>1. CASE k < next
        <5>1. k + 1 \in 1 .. next
          BY <1>8, <2>3, <4>1
        <5>2. functions'[k + 1] = functions[k + 1]
          BY <1>11, <5>1
        <5>3. End(k) = functions[k + 1].address
          BY <4>1 DEF End
        <5>4. End(k)' = functions'[k + 1].address
          BY <1>8, <2>3, <4>1 DEF End
        <5>5. QED
          BY <5>2, <5>3, <5>4
      <4>2. CASE k = next
        <5>1. End(k) = here /\ End(k)' = functions'[k + 1].address
          BY <1>8, <1>10, <4>2 DEF End
        <5>2. QED
          BY <1>12, <4>2, <5>1 DEF Start
      <4>3. QED
        BY <1>2, <2>3, <4>1, <4>2
    <3>4. QED
      BY <1>1, <3>1, <3>2, <3>3 DEF Contained
  <2>4. QED
    BY <1>2, <2>2, <2>3
<1>19. QED
  BY <1>14, <1>15, <1>16, <1>17, <1>18 DEF Inv

LEMMA EmptySequence ==
    \A S : <<>> \in Seq(S) /\ Len(<<>>) = 0
OBVIOUS

LEMMA MaxOfBounded ==
    ASSUME NEW n \in Nat, NEW T, T \subseteq 1 .. n, T # {}
    PROVE  Max(T) \in T
<1>1. PICK x \in T : \A y \in T : y <= x
  BY Greatest
<1>2. \A y \in T : x >= y
  BY <1>1
<1>3. QED
  BY <1>2 DEF Max

LEMMA Initially == Init => Inv
<1>1. SUFFICES ASSUME Init PROVE Inv
  OBVIOUS
<1>2. next = 0 /\ program \in Programs
  BY <1>1 DEF Init
<1>3. diagnostic = ""
  BY <1>1 DEF Init
<1>4. code = <<>> /\ work = <<>> /\ loopStack = <<>> /\ switchBreakStack = <<>>
  BY <1>1 DEF Init
<1>5. functions = [i \in DOMAIN program |-> FunctionInfo(program[i])]
  BY <1>1 DEF Init
<1>6. entry = EntryOf(program)
  BY <1>1 DEF Init
<1> DEFINE D == [name : {"main", "helper"}, returnType : Types, params : Nat,
                 localCount : Nat, body : Seq(Stmts)]
           R == [address : Nat \cup {-1}, params : Nat, locals : Nat, returnType : Types]
<1>7. program \in Seq(D)
  BY <1>2, ProgramsAssumption DEF IsProgram
<1>8. Len(program) \in Nat /\ DOMAIN program = 1 .. Len(program)
  <2> HIDE DEF D
  <2>1. QED
    BY <1>7
<1>9. functions \in Seq(R) /\ Len(functions) = Len(program)
  <2>1. ASSUME NEW i \in 1 .. Len(program) PROVE FunctionInfo(program[i]) \in R
    <3>1. program[i] \in D
      <4> HIDE DEF D
      <4>1. QED
        BY <1>7
    <3>2. QED
      BY <3>1 DEF FunctionInfo
  <2> HIDE DEF R
  <2>2. QED
    BY <1>5, <1>8, <2>1
<1>10. entry \in -1 .. Len(program) - 1
  <2> DEFINE mains == {i \in DOMAIN program : program[i].name = "main"}
  <2>1. CASE mains = {}
    BY <1>6, <1>8, <2>1 DEF EntryOf
  <2>2. CASE mains # {}
    <3>1. mains \subseteq 1 .. Len(program) /\ IsFiniteSet(1 .. Len(program))
      BY <1>8, FS_Interval
    <3>2. Max(mains) \in mains
      BY <1>8, <2>2, <3>1, MaxOfBounded
    <3>3. Max(mains) \in 1 .. Len(program) /\ entry = Max(mains) - 1
      BY <1>6, <2>2, <3>1, <3>2 DEF EntryOf
    <3> HIDE DEF mains
    <3>4. QED
      BY <1>8, <3>3
  <2>3. QED
    BY <2>1, <2>2
<1>11. TypeOK
  <2>1. code \in Seq(Instructions) /\ Len(code) = 0
    BY <1>4, EmptySequence, Zenon
  <2>2. Begin = 0
    BY <1>2, Zenon DEF Begin
  <2>3. work \in Seq(Items(Begin, Len(code)))
    BY <1>4, EmptySequence, Zenon
  <2>4. loopStack \in Seq(Contexts(Begin, Len(code)))
    BY <1>4, EmptySequence, Zenon
  <2>5. switchBreakStack \in Seq(SUBSET (Begin .. Len(code) - 1))
    BY <1>4, EmptySequence, Zenon
  <2>6. next \in 0 .. Len(program) /\ diagnostic \in Messages
    <3>1. next \in 0 .. Len(program)
      BY <1>2, <1>8
    <3>2. QED
      BY <1>3, <3>1 DEF Messages
  <2>7. QED
    BY <1>2, <1>9, <1>10, <2>1, <2>2, <2>3, <2>4, <2>5, <2>6 DEF TypeOK
<1>12. ContextsMatched
  <2>1. Pending(work, LoopEnds) = {} /\ Pending(work, SwitchEnds) = {}
    <3>1. DOMAIN work = {}
      BY <1>4
    <3>2. QED
      BY <3>1 DEF Pending
  <2>2. Len(loopStack) = 0 /\ Len(switchBreakStack) = 0
    BY <1>4, EmptySequence, Zenon
  <2>3. QED
    BY <2>1, <2>2, FS_EmptySet DEF ContextsMatched
<1>13. RetComesLast /\ InOrder /\ SelfContained
  <2>1. RetComesLast
    BY <1>4, Zenon DEF RetComesLast
  <2>2. next = 0 /\ 1 .. next = {}
    BY <1>2
  <2>3. InOrder /\ SelfContained
    BY <2>2 DEF InOrder, SelfContained
  <2>4. QED
    BY <2>1, <2>3
<1>14. QED
  BY <1>11, <1>12, <1>13 DEF Inv

\* Every step of the generator preserves the invariant.
LEMMA Preserved == Inv /\ [Next]_vars => Inv'
<1>1. SUFFICES ASSUME Inv, [Next]_vars PROVE Inv'
  OBVIOUS
<1>2. ASSUME UNCHANGED vars PROVE Inv'
  BY <1>1, <1>2 DEF vars, Inv, TypeOK, ContextsMatched, RetComesLast, InOrder, SelfContained,
                    Begin, Start, End, Closed
<1>3. CASE Straight           BY <1>1, <1>3, StraightStep
<1>4. CASE Argument           BY <1>1, <1>4, ArgumentStep
<1>5. CASE EmitInstruction    BY <1>1, <1>5, EmitInstructionStep
<1>6. CASE ShortCircuit       BY <1>1, <1>6, ShortCircuitStep
<1>7. CASE LogicRight         BY <1>1, <1>7, LogicRightStep
<1>8. CASE LogicEnd           BY <1>1, <1>8, LogicEndStep
<1>9. CASE If1                BY <1>1, <1>9, If1Step
<1>10. CASE ThenBranch        BY <1>1, <1>10, ThenBranchStep
<1>11. CASE ElseBranch        BY <1>1, <1>11, ElseBranchStep
<1>12. CASE EndIf             BY <1>1, <1>12, EndIfStep
<1>13. CASE While1            BY <1>1, <1>13, While1Step
<1>14. CASE WhileBody         BY <1>1, <1>14, WhileBodyStep
<1>15. CASE WhileEnd          BY <1>1, <1>15, WhileEndStep
<1>16. CASE For1              BY <1>1, <1>16, For1Step
<1>17. CASE ForCond           BY <1>1, <1>17, ForCondStep
<1>18. CASE ForBody           BY <1>1, <1>18, ForBodyStep
<1>19. CASE ForUpdate         BY <1>1, <1>19, ForUpdateStep
<1>20. CASE ForEnd            BY <1>1, <1>20, ForEndStep
<1>21. CASE Switch1           BY <1>1, <1>21, Switch1Step
<1>22. CASE CaseTest          BY <1>1, <1>22, CaseTestStep
<1>23. CASE CaseJump          BY <1>1, <1>23, CaseJumpStep
<1>24. CASE TestsEnd          BY <1>1, <1>24, TestsEndStep
<1>25. CASE CaseBody          BY <1>1, <1>25, CaseBodyStep
<1>26. CASE DefaultBody       BY <1>1, <1>26, DefaultBodyStep
<1>27. CASE SwitchEnd         BY <1>1, <1>27, SwitchEndStep
<1>28. CASE BreakOutOfSwitch  BY <1>1, <1>28, BreakOutOfSwitchStep
<1>29. CASE BreakOutOfLoop    BY <1>1, <1>29, BreakOutOfLoopStep
<1>30. CASE Continue          BY <1>1, <1>30, ContinueStep
<1>31. CASE Fail              BY <1>1, <1>31, FailStep
<1>32. CASE generateFunction  BY <1>1, <1>32, GenerateFunctionStep
<1>33. QED
  BY <1>1, <1>2, <1>3, <1>4, <1>5, <1>6, <1>7, <1>8, <1>9, <1>10, <1>11, <1>12, <1>13, <1>14,
     <1>15, <1>16, <1>17, <1>18, <1>19, <1>20, <1>21, <1>22, <1>23, <1>24, <1>25, <1>26, <1>27,
     <1>28, <1>29, <1>30, <1>31, <1>32 DEF Next

-----------------------------------------------------------------------------
(* The theorems.                                                           *)

\* The invariant holds in every state of the generator, for every program.
THEOREM Invariance == Spec => []Inv
<1>1. Init => Inv
  BY Initially
<1>2. Inv /\ [Next]_vars => Inv'
  BY Preserved
<1>3. QED
  BY <1>1, <1>2, PTL DEF Spec

\* For every program, whatever the generator remembers of the code it emitted
\* (jumps to patch, targets of loops, jumps of breaks and continues) lies in the
\* function it is generating.
THEOREM TypeCorrect == Spec => []TypeOK
<1>1. Inv => TypeOK
  BY DEF Inv
<1>2. QED
  BY <1>1, Invariance, PTL

\* For every program, each open loop and each open switch belongs to one open
\* activation that will close it; so a function starts with none.
THEOREM ContextsAreMatched == Spec => []ContextsMatched
<1>1. Inv => ContextsMatched
  BY DEF Inv
<1>2. QED
  BY <1>1, Invariance, PTL

\* For every program, the last activation of a function to run is the one that
\* emits its RET.
THEOREM RetIsLast == Spec => []RetComesLast
<1>1. Inv => RetComesLast
  BY DEF Inv
<1>2. QED
  BY <1>1, Invariance, PTL

\* For every program, no jump of a function leaves it, and a finished function
\* ends in a RET that no jump passes.
THEOREM FunctionsAreSelfContained == Spec => []SelfContained
<1>1. Inv => SelfContained
  BY DEF Inv
<1>2. QED
  BY <1>1, Invariance, PTL

-----------------------------------------------------------------------------
(* The emitted code: which jumps of it wait, and what a step makes of it.  *)

Waits(ins) == IsJump(ins) /\ ins.arg = Unpatched

\* The addresses of the jumps whose target is not known yet.
Waiting(c) == {a \in Nat : a + 1 \in DOMAIN c /\ Waits(c[a + 1])}

\* What is emitted stays, but for jumps that waited and have got a target.
Kept(c, d) ==
    /\ Len(d) >= Len(c)
    /\ \A i \in DOMAIN c :
           \/ d[i] = c[i]
           \/ /\ IsJump(c[i])
              /\ c[i].arg = Unpatched
              /\ \E target \in 0 .. Len(d) : d[i] = [c[i] EXCEPT !.arg = target]

\* From one code to the next: some jumps that waited are patched, some that
\* wait are new.
Later(c, d, patched, new) ==
    /\ c \in Seq(Instructions) /\ d \in Seq(Instructions)
    /\ Kept(c, d)
    /\ Waiting(d) = (Waiting(c) \ patched) \cup new
    /\ new \subseteq Len(c) .. Len(d) - 1

LEMMA WaitingBelow ==
    ASSUME NEW c \in Seq(Instructions)
    PROVE  Waiting(c) \subseteq 0 .. Len(c) - 1
BY DEF Waiting

LEMMA LaterSelf ==
    ASSUME NEW c \in Seq(Instructions)
    PROVE  Later(c, c, {}, {})
BY DEF Later, Kept

LEMMA LaterAppend ==
    ASSUME NEW c \in Seq(Instructions), NEW ins \in Instructions
    PROVE  /\ Later(c, Append(c, ins), {}, IF Waits(ins) THEN {Len(c)} ELSE {})
           /\ Len(Append(c, ins)) = Len(c) + 1
<1> DEFINE d   == Append(c, ins)
           new == IF Waits(ins) THEN {Len(c)} ELSE {}
<1>1. /\ d \in Seq(Instructions) /\ Len(d) = Len(c) + 1 /\ Len(c) \in Nat
      /\ \A i \in 1 .. Len(c) : d[i] = c[i]
      /\ d[Len(c) + 1] = ins
  OBVIOUS
<1>2. DOMAIN c = 1 .. Len(c) /\ DOMAIN d = 1 .. Len(c) + 1
  BY <1>1
<1> HIDE DEF d
<1>3. ASSUME NEW a \in Nat PROVE a \in Waiting(d) <=> a \in Waiting(c) \cup new
  <2>1. CASE a < Len(c)
    <3>1. a + 1 \in 1 .. Len(c) /\ a + 1 \in 1 .. Len(c) + 1 /\ a # Len(c)
      BY <1>1, <2>1
    <3>2. QED
      BY <1>1, <1>2, <3>1 DEF Waiting
  <2>2. CASE a = Len(c)
    <3>1. a + 1 \notin 1 .. Len(c) /\ a + 1 \in 1 .. Len(c) + 1 /\ d[a + 1] = ins
      BY <1>1, <2>2
    <3>2. QED
      BY <1>2, <2>2, <3>1 DEF Waiting
  <2>3. CASE a > Len(c)
    <3>1. a + 1 \notin 1 .. Len(c) /\ a + 1 \notin 1 .. Len(c) + 1 /\ a # Len(c)
      BY <1>1, <2>3
    <3>2. QED
      BY <1>2, <3>1 DEF Waiting
  <2>4. QED
    BY <1>1, <2>1, <2>2, <2>3
<1>4. Waiting(d) = Waiting(c) \cup new
  <2>1. Waiting(d) \subseteq Nat /\ Waiting(c) \subseteq Nat /\ new \subseteq Nat
    BY <1>1 DEF Waiting
  <2>2. QED
    BY <1>3, <2>1
<1>5. Kept(c, d)
  BY <1>1, <1>2 DEF Kept
<1>6. new \subseteq Len(c) .. Len(d) - 1
  BY <1>1
<1>7. QED
  BY <1>1, <1>4, <1>5, <1>6 DEF Later, d

LEMMA LaterPatch ==
    ASSUME NEW c \in Seq(Instructions), NEW jumps, jumps \subseteq Waiting(c),
           NEW target \in 0 .. Len(c)
    PROVE  Later(c, Patch(c, jumps, target), jumps, {}) /\ Len(Patch(c, jumps, target)) = Len(c)
<1> DEFINE d == Patch(c, jumps, target)
<1>1. DOMAIN c = 1 .. Len(c) /\ Len(c) \in Nat /\ target \in Int /\ target # Unpatched
  BY DEF Unpatched
<1>2. \A i \in 1 .. Len(c) :
          d[i] = IF i - 1 \in jumps THEN [c[i] EXCEPT !.arg = target] ELSE c[i]
  BY <1>1, Zenon DEF Patch
<1>3. \A ins \in Instructions :
          /\ [ins EXCEPT !.arg = target] \in Instructions
          /\ [ins EXCEPT !.arg = target].arg = target
  BY <1>1 DEF Instructions
<1>4. d \in Seq(Instructions) /\ Len(d) = Len(c)
  <2>1. ASSUME NEW i \in 1 .. Len(c) PROVE d[i] \in Instructions
    <3>1. c[i] \in Instructions
      OBVIOUS
    <3>2. QED
      BY <1>2, <1>3, <3>1
  <2>2. DOMAIN d = 1 .. Len(c) /\ d = [i \in 1 .. Len(c) |-> d[i]]
    BY <1>1 DEF Patch
  <2> HIDE DEF d
  <2>3. QED
    BY <1>1, <2>1, <2>2
<1> HIDE DEF d
<1>5. DOMAIN d = 1 .. Len(c)
  BY <1>4
<1>6. ASSUME NEW a \in Nat PROVE a \in Waiting(d) <=> a \in Waiting(c) \ jumps
  <2>1. CASE a + 1 \in 1 .. Len(c)
    <3>1. c[a + 1] \in Instructions /\ (a + 1) - 1 = a
      BY <2>1
    <3>2. CASE a \in jumps
      <4>1. d[a + 1].arg = target
        BY <1>2, <1>3, <2>1, <3>1, <3>2
      <4>2. QED
        BY <1>1, <3>2, <4>1 DEF Waiting, Waits
    <3>3. CASE a \notin jumps
      <4>1. d[a + 1] = c[a + 1]
        BY <1>2, <2>1, <3>1, <3>3
      <4>2. QED
        BY <1>1, <1>5, <3>3, <4>1 DEF Waiting
    <3>4. QED
      BY <3>2, <3>3
  <2>2. CASE a + 1 \notin 1 .. Len(c)
    BY <1>1, <1>5, <2>2 DEF Waiting
  <2>3. QED
    BY <2>1, <2>2
<1>7. Waiting(d) = Waiting(c) \ jumps
  <2>1. Waiting(d) \subseteq Nat /\ Waiting(c) \subseteq Nat
    BY DEF Waiting
  <2>2. QED
    BY <1>6, <2>1
<1>8. Kept(c, d)
  <2>1. SUFFICES ASSUME NEW i \in 1 .. Len(c), d[i] # c[i]
                 PROVE  /\ IsJump(c[i]) /\ c[i].arg = Unpatched
                        /\ \E t \in 0 .. Len(d) : d[i] = [c[i] EXCEPT !.arg = t]
    <3>1. Len(d) >= Len(c)
      BY <1>1, <1>4
    <3>2. QED
      BY <1>1, <3>1, Zenon DEF Kept
  <2>2. i - 1 \in jumps /\ (i - 1) + 1 = i
    <3>1. i - 1 \in jumps
      BY <1>2, <2>1, Zenon
    <3>2. i \in Int
      BY <1>1
    <3>3. QED
      BY <3>1, <3>2
  <2>3. IsJump(c[i]) /\ c[i].arg = Unpatched
    <3>1. i - 1 \in Waiting(c)
      BY <2>2
    <3>2. Waits(c[(i - 1) + 1])
      BY <3>1 DEF Waiting
    <3>3. QED
      BY <2>2, <3>2 DEF Waits
  <2>4. d[i] = [c[i] EXCEPT !.arg = target] /\ target \in 0 .. Len(d)
    BY <1>2, <1>4, <2>2
  <2>5. QED
    BY <2>3, <2>4
<1>9. QED
  BY <1>4, <1>7, <1>8 DEF Later, d

LEMMA LaterTwice ==
    ASSUME NEW c, NEW d, NEW e, NEW patched1, NEW patched2, NEW new1, NEW new2,
           Later(c, d, patched1, new1), Later(d, e, patched2, new2)
    PROVE  Later(c, e, patched1 \cup patched2, (new1 \ patched2) \cup new2)
<1>1. /\ c \in Seq(Instructions) /\ d \in Seq(Instructions) /\ e \in Seq(Instructions)
      /\ Len(c) \in Nat /\ Len(d) \in Nat /\ Len(e) \in Nat
      /\ Len(c) <= Len(d) /\ Len(d) <= Len(e)
  BY DEF Later, Kept
<1>2. Waiting(e) = (Waiting(c) \ (patched1 \cup patched2)) \cup (new1 \ patched2) \cup new2
  BY DEF Later
<1>3. (new1 \ patched2) \cup new2 \subseteq Len(c) .. Len(e) - 1
  <2>1. new1 \subseteq Len(c) .. Len(d) - 1 /\ new2 \subseteq Len(d) .. Len(e) - 1
    BY DEF Later
  <2>2. /\ Len(c) .. Len(d) - 1 \subseteq Len(c) .. Len(e) - 1
        /\ Len(d) .. Len(e) - 1 \subseteq Len(c) .. Len(e) - 1
    BY <1>1
  <2>3. QED
    BY <2>1, <2>2
<1>4. Kept(c, e)
  <2>1. SUFFICES ASSUME NEW i \in DOMAIN c, e[i] # c[i]
                 PROVE  /\ IsJump(c[i]) /\ c[i].arg = Unpatched
                        /\ \E t \in 0 .. Len(e) : e[i] = [c[i] EXCEPT !.arg = t]
    BY <1>1 DEF Kept
  <2>2. i \in DOMAIN d
    BY <1>1
  <2>3. CASE d[i] = c[i]
    BY <2>1, <2>2, <2>3 DEF Later, Kept
  <2>4. CASE d[i] # c[i]
    <3>1. /\ IsJump(c[i]) /\ c[i].arg = Unpatched
          /\ \E t \in 0 .. Len(d) : d[i] = [c[i] EXCEPT !.arg = t]
      BY <2>4 DEF Later, Kept
    <3>2. PICK t \in 0 .. Len(d) : d[i] = [c[i] EXCEPT !.arg = t]
      BY <3>1
    <3>3. c[i] \in Instructions
      BY <1>1
    <3>4. d[i].arg = t /\ t # Unpatched
      BY <3>2, <3>3 DEF Instructions, Unpatched
    <3>5. e[i] = d[i]
      BY <2>2, <3>4 DEF Later, Kept
    <3>6. t \in 0 .. Len(e)
      BY <1>1
    <3>7. QED
      BY <3>1, <3>2, <3>5, <3>6
  <2>5. QED
    BY <2>3, <2>4
<1>5. QED
  BY <1>1, <1>2, <1>3, <1>4 DEF Later

-----------------------------------------------------------------------------
(* Who remembers the jumps that wait.                                      *)

\* The activations that remember jumps of their own.
JumpTasks == {"logicEnd", "else", "endIf", "whileEnd", "forUpdate", "forEnd",
              "caseTest", "caseJump", "caseBody"}
JumpsOf(it) == IF it.task \in JumpTasks THEN {it.jumps[j] : j \in DOMAIN it.jumps} ELSE {}

\* The jumps of an activation; a loop, without jumps if it is not open; the
\* break jumps of a switch.
JumpsAt(i) == IF i \in DOMAIN work THEN JumpsOf(work[i]) ELSE {}
LoopAt(i)  == IF i \in DOMAIN loopStack THEN loopStack[i] ELSE LoopContext(Unpatched)
ExitsAt(i) == IF i \in DOMAIN switchBreakStack THEN switchBreakStack[i] ELSE {}

Kinds  == {"jump", "break", "continue", "exit"}
Places == Kinds \X Nat

\* What each of them still has to patch: the continue jumps of a for loop are
\* remembered longer than they wait.
Held ==
    [h \in Places |->
        CASE h[1] = "jump"     -> JumpsAt(h[2])
          [] h[1] = "break"    -> LoopAt(h[2]).breakJumps
          [] h[1] = "continue" -> LoopAt(h[2]).continueJumps \cap Waiting(code)
          [] OTHER             -> ExitsAt(h[2])]

\* Every jump that waits is held at exactly one place, and no other is held.
Owned(H, W) ==
    /\ \A h \in Places : H[h] \subseteq W
    /\ \A h, g \in Places : h # g => H[h] \cap H[g] = {}
    /\ W \subseteq UNION {H[h] : h \in Places}

\* The loop that an activation will close.
LoopOf(p) == Cardinality({q \in Pending(work, LoopEnds) : q <= p})

\* A while loop knows where its continue jumps lead; those of a for loop wait
\* until its update and not after it.
Served(task, loop, W) ==
    /\ task = "whileEnd" => loop.continueTarget # Unpatched
    /\ task # "forEnd" => loop.continueJumps \subseteq W
    /\ task = "forEnd" => loop.continueJumps \cap W = {}
LoopsServed ==
    \A p \in Pending(work, LoopEnds) : Served(work[p].task, LoopAt(LoopOf(p)), Waiting(code))

\* While the update of a for loop is generated, no statement with a jump is.
QuietNodes == Exprs \cup {n \in Stmts : n.kind \in Assignments}
QuietItem(it) == \/ it.task \in {"emit", "argument", "logicRight", "logicEnd"}
                 \/ it.task = "generate" /\ it.node \in QuietNodes
QuietAbove ==
    \A p, q \in DOMAIN work : work[p].task = "forEnd" /\ p < q => QuietItem(work[q])

\* No activation remembers a jump twice.
DistinctJumps(it) ==
    it.task \in JumpTasks => \A i, j \in DOMAIN it.jumps : i # j => it.jumps[i] # it.jumps[j]
RememberedOnce == \A p \in DOMAIN work : DistinctJumps(work[p])

JumpInv == Owned(Held, Waiting(code)) /\ LoopsServed /\ QuietAbove /\ RememberedOnce

\* Some jumps get their targets, and the new ones are held at one place.
HeldNext(H, H2, P, N, own) ==
    \A h \in Places : H2[h] = (H[h] \ P) \cup (IF h = own THEN N ELSE {})

LEMMA OwnedStep ==
    ASSUME NEW H, NEW H2, NEW W, NEW W2, NEW P, NEW N, NEW own \in Places,
           Owned(H, W), N \cap W = {}, W2 = (W \ P) \cup N, HeldNext(H, H2, P, N, own)
    PROVE  Owned(H2, W2)
<1> USE DEF HeldNext
<1>1. \A h \in Places : H2[h] \subseteq W2
  BY DEF Owned
<1>2. ASSUME NEW h \in Places, NEW g \in Places, h # g PROVE H2[h] \cap H2[g] = {}
  <2>1. /\ H[h] \cap H[g] = {} /\ H[h] \cap N = {} /\ H[g] \cap N = {}
    BY <1>2 DEF Owned
  <2>2. QED
    BY <1>2, <2>1
<1>3. ASSUME NEW a \in W2 PROVE \E h \in Places : a \in H2[h]
  <2>1. CASE a \in N
    BY <2>1
  <2>2. CASE a \in W \ P
    <3>1. PICK h \in Places : a \in H[h]
      BY <2>2 DEF Owned
    <3>2. QED
      BY <2>2, <3>1
  <2>3. QED
    BY <2>1, <2>2
<1>4. W2 \subseteq UNION {H2[h] : h \in Places}
  BY <1>3
<1>5. QED
  BY <1>1, <1>2, <1>4 DEF Owned

LEMMA HeldAt ==
    ASSUME NEW i \in Nat
    PROVE  /\ Held[<<"jump", i>>] = JumpsAt(i)
           /\ Held[<<"break", i>>] = LoopAt(i).breakJumps
           /\ Held[<<"continue", i>>] = LoopAt(i).continueJumps \cap Waiting(code)
           /\ Held[<<"exit", i>>] = ExitsAt(i)
           /\ Held'[<<"jump", i>>] = JumpsAt(i)'
           /\ Held'[<<"break", i>>] = LoopAt(i)'.breakJumps
           /\ Held'[<<"continue", i>>] = LoopAt(i)'.continueJumps \cap Waiting(code')
           /\ Held'[<<"exit", i>>] = ExitsAt(i)'
<1>1. \A kind \in Kinds : <<kind, i>> \in Places /\ <<kind, i>>[1] = kind /\ <<kind, i>>[2] = i
  BY DEF Places
<1>2. QED
  BY <1>1 DEF Held, Kinds

\* The jumps of a context are those of emitted instructions.
LEMMA OldJumps ==
    ASSUME Inv, work # <<>>, NEW i \in Nat
    PROVE  LoopAt(i).continueJumps \subseteq 0 .. Len(code) - 1
<1>1. loopStack \in Seq(Contexts(Begin, Len(code))) /\ Begin \in Nat /\ Len(code) \in Nat
  BY InvFacts DEF Inv, TypeOK
<1>2. CASE i \in DOMAIN loopStack
  <2>1. loopStack[i] \in Contexts(Begin, Len(code))
    BY <1>1, <1>2
  <2>2. loopStack[i].continueJumps \subseteq Begin .. Len(code) - 1
    BY <2>1 DEF Contexts
  <2>3. Begin .. Len(code) - 1 \subseteq 0 .. Len(code) - 1
    BY <1>1
  <2>4. QED
    BY <1>2, <2>2, <2>3 DEF LoopAt
<1>3. CASE i \notin DOMAIN loopStack
  BY <1>3 DEF LoopAt, LoopContext
<1>4. QED
  BY <1>2, <1>3

LEMMA LoopOfProperties ==
    ASSUME Inv, work # <<>>, NEW p \in Pending(work, LoopEnds)
    PROVE  /\ p \in 1 .. Len(work)
           /\ LoopOf(p) \in 1 .. Len(loopStack)
           /\ p = Len(work) => LoopOf(p) = Len(loopStack)
           /\ p < Len(work) /\ Top.task \in LoopEnds => LoopOf(p) < Len(loopStack)
<1> DEFINE all   == Pending(work, LoopEnds)
           below == {q \in all : q <= p}
<1>1. work \in Seq(Items(Begin, Len(code))) /\ Len(work) \in Nat \ {0} /\ DOMAIN work = 1 .. Len(work)
  BY InvFacts
<1>2. IsFiniteSet(all) /\ Cardinality(all) = Len(loopStack) /\ all \subseteq 1 .. Len(work)
  <2>1. IsFiniteSet(all)
    BY <1>1, CountProperties
  <2>2. QED
    BY <1>1, <2>1 DEF Inv, ContextsMatched, Pending
<1> HIDE DEF all
<1>3. /\ below \subseteq all /\ p \in below
      /\ IsFiniteSet(below) /\ Cardinality(below) \in Nat /\ Cardinality(below) <= Cardinality(all)
      /\ (Cardinality(below) = Cardinality(all)) => below = all
  <2>1. below \subseteq all /\ p \in all /\ p \in Nat
    BY <1>2 DEF all
  <2>2. p \in below
    BY <2>1
  <2>3. /\ IsFiniteSet(below) /\ Cardinality(below) <= Cardinality(all)
        /\ (Cardinality(below) = Cardinality(all)) => below = all
    BY <1>2, <2>1, FS_Subset
  <2>4. QED
    BY <2>1, <2>2, <2>3, FS_CardinalityType
<1>4. Cardinality(below) # 0
  BY <1>3, FS_EmptySet
<1>5. LoopOf(p) = Cardinality(below)
  BY DEF LoopOf, all
<1> DEFINE top == Len(work)
<1>6. /\ top \in Nat /\ p \in 1 .. top
      /\ \A q \in all : q \in 1 .. top
  BY <1>1, <1>2, <1>3
<1> HIDE DEF top
<1>7. /\ p = top => below = all
      /\ p < top => top \notin below
  BY <1>6
<1>8. /\ p \in 1 .. Len(work)
      /\ p = Len(work) => below = all
      /\ p < Len(work) /\ Top.task \in LoopEnds => below # all
  <2>1. Top.task \in LoopEnds => Len(work) \in all
    BY <1>1 DEF all, Pending, Top
  <2>2. QED
    BY <1>6, <1>7, <2>1 DEF top
<1> HIDE DEF below
<1>9. /\ p = Len(work) => Cardinality(below) = Len(loopStack)
      /\ p < Len(work) /\ Top.task \in LoopEnds => Cardinality(below) # Len(loopStack)
  BY <1>2, <1>3, <1>8
<1>10. Len(loopStack) \in Nat
  BY <1>2, FS_CardinalityType
<1> DEFINE m == Cardinality(below)
           n == Len(loopStack)
<1>11. m \in Nat /\ n \in Nat /\ m <= n /\ m # 0
  BY <1>2, <1>3, <1>4, <1>10
<1> HIDE DEF m, n
<1>12. m \in 1 .. n /\ (m # n => m < n)
  BY <1>11
<1>13. QED
  BY <1>5, <1>8, <1>9, <1>12 DEF m, n

-----------------------------------------------------------------------------
(* What a step does to the activations, the loops and the switches.        *)

LastJumps(items) == IF items = <<>> THEN {} ELSE JumpsOf(items[Len(items)])
Given(condition, new) == IF condition THEN new ELSE {}

LEMMA WorkAfter ==
    ASSUME Inv, work # <<>>, NEW S, NEW items \in Seq(S), Then(items)
    PROVE  /\ Len(work) \in Nat \ {0} /\ Len(work') \in Nat
           /\ DOMAIN work = 1 .. Len(work) /\ DOMAIN work' = 1 .. Len(work')
           /\ Len(work') = Len(work) - 1 + Len(items)
           /\ \A i \in 1 .. Len(work) - 1 : work'[i] = work[i]
           /\ items # <<>> => Len(work) \in DOMAIN work' /\ work'[Len(work)] = items[Len(items)]
           /\ items = <<>> => Len(work') = Len(work) - 1
           /\ \A i \in DOMAIN work' : i > Len(work) =>
                  \E j \in 1 .. Len(items) - 1 : work'[i] = items[j]
<1> DEFINE T == S \cup Items(Begin, Len(code))
           w == Replaced(work, items)
           m == Len(work)
           n == Len(items)
<1>1. work \in Seq(T) /\ items \in Seq(T) /\ work # <<>>
  <2>1. S \subseteq T /\ Items(Begin, Len(code)) \subseteq T
    OBVIOUS
  <2>2. work \in Seq(Items(Begin, Len(code)))
    BY InvFacts
  <2>3. QED
    BY <2>1, <2>2, SeqMonotonic
<1> HIDE DEF T
<1>2. /\ w \in Seq(T)
      /\ Len(w) = m - 1 + n
      /\ \A i \in 1 .. m - 1 : w[i] = work[i]
      /\ \A i \in m .. Len(w) : w[i] = items[n + m - i]
  BY <1>1, ReplacedProperties
<1>3. w = work'
  BY DEF Then
<1>4. /\ m \in Nat \ {0} /\ n \in Nat /\ DOMAIN work = 1 .. m /\ DOMAIN w = 1 .. Len(w)
      /\ (items = <<>> <=> n = 0)
  BY <1>1, <1>2
<1> HIDE DEF w, m, n
<1>5. /\ n # 0 => m \in 1 .. Len(w) /\ w[m] = items[n]
      /\ Len(w) \in Nat
      /\ n = 0 => Len(w) = m - 1
  <2>1. n # 0 => m \in m .. Len(w) /\ n + m - m = n
    BY <1>2, <1>4
  <2>2. QED
    BY <1>2, <1>4, <2>1
<1>6. ASSUME NEW i \in 1 .. Len(w), i > m PROVE \E j \in 1 .. n - 1 : w[i] = items[j]
  <2>1. i \in m .. Len(w) /\ n + m - i \in 1 .. n - 1
    BY <1>2, <1>4, <1>6
  <2>2. QED
    BY <1>2, <2>1
<1>7. QED
  BY <1>2, <1>3, <1>4, <1>5, <1>6 DEF m, n

LEMMA JumpsAfter ==
    ASSUME Inv, work # <<>>, NEW S, NEW items \in Seq(S), Then(items),
           \A i \in 1 .. Len(items) - 1 : items[i].task \notin JumpTasks,
           NEW i \in Nat
    PROVE  JumpsAt(i)' = IF i = Len(work) THEN LastJumps(items) ELSE JumpsAt(i)
<1> DEFINE m == Len(work)
<1>1. /\ m \in Nat \ {0} /\ Len(work') \in Nat
      /\ DOMAIN work = 1 .. m /\ DOMAIN work' = 1 .. Len(work')
      /\ items # <<>> => m \in DOMAIN work' /\ work'[m] = items[Len(items)]
      /\ items = <<>> => Len(work') = m - 1
      /\ Len(work') >= m - 1
      /\ \A j \in 1 .. m - 1 : work'[j] = work[j]
      /\ \A j \in DOMAIN work' : j > m => \E k \in 1 .. Len(items) - 1 : work'[j] = items[k]
  <2>1. Len(items) \in Nat
    OBVIOUS
  <2>2. QED
    BY <2>1, WorkAfter
<1> HIDE DEF m
<1>2. CASE i = m
  <2>1. CASE items = <<>>
    <3>1. m \notin DOMAIN work'
      BY <1>1, <2>1
    <3>2. QED
      BY <1>2, <2>1, <3>1 DEF JumpsAt, LastJumps, m
  <2>2. CASE items # <<>>
    BY <1>1, <1>2, <2>2 DEF JumpsAt, LastJumps, m
  <2>3. QED
    BY <2>1, <2>2
<1>3. CASE i \in 1 .. m - 1
  <2>1. i # m /\ i \in DOMAIN work /\ i \in DOMAIN work'
    BY <1>1, <1>3
  <2>2. QED
    BY <1>1, <1>3, <2>1 DEF JumpsAt, m
<1>4. CASE i = 0
  <2>1. i # m /\ i \notin DOMAIN work /\ i \notin DOMAIN work'
    BY <1>1, <1>4
  <2>2. QED
    BY <2>1 DEF JumpsAt, m
<1>5. CASE i > m
  <2>1. i # m /\ i \notin DOMAIN work
    BY <1>1, <1>5
  <2>2. i \in DOMAIN work' => work'[i].task \notin JumpTasks
    BY <1>1, <1>5
  <2>3. QED
    BY <2>1, <2>2 DEF JumpsAt, JumpsOf, m
<1>6. QED
  BY <1>1, <1>2, <1>3, <1>4, <1>5

\* A place that a step does not touch holds nothing that is patched.
LEMMA NotPatched ==
    ASSUME Inv, work # <<>>, Owned(Held, Waiting(code)), NEW P, NEW l \in Nat, NEW s \in Nat,
           P \subseteq JumpsOf(Top) \cup LoopAt(l).breakJumps
                         \cup (LoopAt(l).continueJumps \cap Waiting(code)) \cup ExitsAt(s),
           NEW h \in Places,
           h \notin {<<"jump", Len(work)>>, <<"break", l>>, <<"continue", l>>, <<"exit", s>>}
    PROVE  Held[h] \cap P = {}
<1>1. Len(work) \in Nat /\ JumpsAt(Len(work)) = JumpsOf(Top)
  BY InvFacts DEF JumpsAt, Top
<1>2. /\ <<"jump", Len(work)>> \in Places /\ <<"break", l>> \in Places
      /\ <<"continue", l>> \in Places /\ <<"exit", s>> \in Places
  BY <1>1 DEF Places, Kinds
<1>3. /\ Held[h] \cap Held[<<"jump", Len(work)>>] = {} /\ Held[h] \cap Held[<<"break", l>>] = {}
      /\ Held[h] \cap Held[<<"continue", l>>] = {} /\ Held[h] \cap Held[<<"exit", s>>] = {}
  BY <1>2 DEF Owned
<1>4. P \subseteq Held[<<"jump", Len(work)>>] \cup Held[<<"break", l>>]
                    \cup Held[<<"continue", l>>] \cup Held[<<"exit", s>>]
  BY <1>1, HeldAt
<1>5. QED
  BY <1>3, <1>4

LEMMA HeldStep ==
    ASSUME Inv, work # <<>>, Owned(Held, Waiting(code)),
           NEW S, NEW items \in Seq(S), Then(items),
           \A i \in 1 .. Len(items) - 1 : items[i].task \notin JumpTasks,
           NEW P, NEW N, Later(code, code', P, N),
           NEW own \in Kinds, NEW l \in Nat, NEW s \in Nat,
           P \subseteq JumpsOf(Top) \cup LoopAt(l).breakJumps
                         \cup (LoopAt(l).continueJumps \cap Waiting(code)) \cup ExitsAt(s),
           \A i \in Nat \ {l} : LoopAt(i)' = LoopAt(i),
           \A i \in Nat \ {s} : ExitsAt(i)' = ExitsAt(i),
           LastJumps(items) = (JumpsOf(Top) \ P) \cup Given(own = "jump", N),
           LoopAt(l)'.breakJumps = (LoopAt(l).breakJumps \ P) \cup Given(own = "break", N),
           LoopAt(l)'.continueJumps \cap Waiting(code')
             = ((LoopAt(l).continueJumps \cap Waiting(code)) \ P) \cup Given(own = "continue", N),
           ExitsAt(s)' = (ExitsAt(s) \ P) \cup Given(own = "exit", N)
    PROVE  Owned(Held', Waiting(code'))
<1> DEFINE W     == Waiting(code)
           index == CASE own = "jump" -> Len(work) [] own = "exit" -> s [] OTHER -> l
           place == <<own, index>>
<1>1. /\ Len(work) \in Nat /\ Len(work) \in DOMAIN work /\ place \in Places
      /\ JumpsAt(Len(work)) = JumpsOf(Top)
  BY InvFacts DEF Places, Kinds, JumpsAt, Top
<1>2. /\ code \in Seq(Instructions) /\ Waiting(code') = (W \ P) \cup N /\ N \cap W = {}
      /\ N \cap 0 .. Len(code) - 1 = {} /\ W \subseteq 0 .. Len(code) - 1
  <2>1. code \in Seq(Instructions) /\ N \subseteq Len(code) .. Len(code') - 1 /\ Len(code) \in Nat
    BY DEF Later
  <2>2. N \cap 0 .. Len(code) - 1 = {}
    BY <2>1
  <2>3. W \subseteq 0 .. Len(code) - 1
    BY <2>1, WaitingBelow
  <2>4. QED
    BY <2>1, <2>2, <2>3 DEF Later
<1>3. ASSUME NEW h \in Places, h \notin {<<"jump", Len(work)>>, <<"break", l>>, <<"continue", l>>, <<"exit", s>>}
      PROVE  Held[h] \cap P = {}
  BY <1>3, NotPatched
<1>4. ASSUME NEW i \in Nat
      PROVE  Held'[<<"jump", i>>] = (Held[<<"jump", i>>] \ P) \cup Given(<<"jump", i>> = place, N)
  <2>1. JumpsAt(i)' = IF i = Len(work) THEN LastJumps(items) ELSE JumpsAt(i)
    BY JumpsAfter
  <2>2. CASE i = Len(work)
    <3>1. (<<"jump", i>> = place) <=> own = "jump"
      BY <2>2
    <3>2. QED
      BY <1>1, <2>1, <2>2, <3>1, HeldAt
  <2>3. CASE i # Len(work)
    <3>1. <<"jump", i>> # place /\ <<"jump", i>> \in Places
          /\ <<"jump", i>> \notin {<<"jump", Len(work)>>, <<"break", l>>, <<"continue", l>>, <<"exit", s>>}
      BY <2>3 DEF Places, Kinds
    <3>2. Held'[<<"jump", i>>] = Held[<<"jump", i>>]
      <4>1. JumpsAt(i)' = JumpsAt(i)
        BY <2>1, <2>3
      <4>2. Held'[<<"jump", i>>] = JumpsAt(i)'
        BY HeldAt
      <4>3. Held[<<"jump", i>>] = JumpsAt(i)
        BY HeldAt
      <4>4. QED
        BY <4>1, <4>2, <4>3
    <3>3. Held[<<"jump", i>>] \cap P = {}
      BY <1>3, <3>1
    <3>4. Given(<<"jump", i>> = place, N) = {}
      BY <3>1 DEF Given
    <3>5. QED
      BY <3>2, <3>3, <3>4
  <2>4. QED
    BY <2>2, <2>3
<1>5. ASSUME NEW i \in Nat
      PROVE  Held'[<<"break", i>>] = (Held[<<"break", i>>] \ P) \cup Given(<<"break", i>> = place, N)
  <2>1. CASE i = l
    <3>1. (<<"break", i>> = place) <=> own = "break"
      BY <2>1
    <3>2. QED
      BY <2>1, <3>1, HeldAt
  <2>2. CASE i # l
    <3>1. <<"break", i>> # place /\ <<"break", i>> \in Places
          /\ <<"break", i>> \notin {<<"jump", Len(work)>>, <<"break", l>>, <<"continue", l>>, <<"exit", s>>}
      BY <2>2 DEF Places, Kinds
    <3>2. Held'[<<"break", i>>] = Held[<<"break", i>>]
      <4>1. LoopAt(i)' = LoopAt(i)
        BY <2>2
      <4>2. Held'[<<"break", i>>] = LoopAt(i)'.breakJumps
        BY HeldAt
      <4>3. Held[<<"break", i>>] = LoopAt(i).breakJumps
        BY HeldAt
      <4>4. QED
        BY <4>1, <4>2, <4>3
    <3>3. Held[<<"break", i>>] \cap P = {}
      BY <1>3, <3>1
    <3>4. Given(<<"break", i>> = place, N) = {}
      BY <3>1 DEF Given
    <3>5. QED
      BY <3>2, <3>3, <3>4
  <2>3. QED
    BY <2>1, <2>2
<1>6. ASSUME NEW i \in Nat
      PROVE  Held'[<<"continue", i>>]
               = (Held[<<"continue", i>>] \ P) \cup Given(<<"continue", i>> = place, N)
  <2>1. CASE i = l
    <3>1. (<<"continue", i>> = place) <=> own = "continue"
      BY <2>1
    <3>2. QED
      BY <2>1, <3>1, HeldAt
  <2>2. CASE i # l
    <3>1. <<"continue", i>> # place
      BY <2>2
    <3>2. LoopAt(i).continueJumps \cap N = {}
      BY <1>2, OldJumps
    <3>3. LoopAt(i)' = LoopAt(i)
      BY <2>2
    <3>4. QED
      BY <1>2, <3>1, <3>2, <3>3, HeldAt DEF Given
  <2>3. QED
    BY <2>1, <2>2
<1>7. ASSUME NEW i \in Nat
      PROVE  Held'[<<"exit", i>>] = (Held[<<"exit", i>>] \ P) \cup Given(<<"exit", i>> = place, N)
  <2>1. CASE i = s
    <3>1. (<<"exit", i>> = place) <=> own = "exit"
      BY <2>1
    <3>2. QED
      BY <2>1, <3>1, HeldAt
  <2>2. CASE i # s
    <3>1. <<"exit", i>> # place /\ <<"exit", i>> \in Places
          /\ <<"exit", i>> \notin {<<"jump", Len(work)>>, <<"break", l>>, <<"continue", l>>, <<"exit", s>>}
      BY <2>2 DEF Places, Kinds
    <3>2. Held'[<<"exit", i>>] = Held[<<"exit", i>>]
      <4>1. ExitsAt(i)' = ExitsAt(i)
        BY <2>2
      <4>2. Held'[<<"exit", i>>] = ExitsAt(i)'
        BY HeldAt
      <4>3. Held[<<"exit", i>>] = ExitsAt(i)
        BY HeldAt
      <4>4. QED
        BY <4>1, <4>2, <4>3
    <3>3. Held[<<"exit", i>>] \cap P = {}
      BY <1>3, <3>1
    <3>4. Given(<<"exit", i>> = place, N) = {}
      BY <3>1 DEF Given
    <3>5. QED
      BY <3>2, <3>3, <3>4
  <2>3. QED
    BY <2>1, <2>2
<1>8. HeldNext(Held, Held', P, N, place)
  <2>1. SUFFICES ASSUME NEW kind \in Kinds, NEW i \in Nat
                 PROVE  Held'[<<kind, i>>] = (Held[<<kind, i>>] \ P)
                                               \cup (IF <<kind, i>> = place THEN N ELSE {})
    BY DEF Places, HeldNext
  <2> HIDE DEF place
  <2>2. QED
    BY <1>4, <1>5, <1>6, <1>7 DEF Kinds, Given
<1>9. QED
  <2>1. /\ place \in Places /\ Owned(Held, W) /\ N \cap W = {} /\ Waiting(code') = (W \ P) \cup N
        /\ HeldNext(Held, Held', P, N, place)
    BY <1>1, <1>2, <1>8
  <2> HIDE DEF place, W, index
  <2>2. QED
    BY <2>1, OwnedStep

LEMMA ServedStep ==
    ASSUME Inv, Inv', work # <<>>, Owned(Held, Waiting(code)), LoopsServed,
           NEW S, NEW items \in Seq(S), Then(items),
           \A i \in 1 .. Len(items) - 1 : items[i].task \notin JumpTasks,
           NEW P, NEW N, Later(code, code', P, N), NEW l \in Nat, NEW s \in Nat,
           P \subseteq JumpsOf(Top) \cup LoopAt(l).breakJumps
                         \cup (LoopAt(l).continueJumps \cap Waiting(code)) \cup ExitsAt(s),
           \A i \in Nat \ {l} : LoopAt(i)' = LoopAt(i),
           \A p \in Pending(work, LoopEnds) :
               p < Len(work) /\ LoopOf(p) = l => Served(work[p].task, LoopAt(l)', Waiting(code')),
           LastIn(items, LoopEnds) =>
               Served(items[Len(items)].task, loopStack'[Len(loopStack')], Waiting(code'))
    PROVE  LoopsServed'
<1> DEFINE m == Len(work)
           after == Pending(work', LoopEnds)
<1>1. /\ m \in Nat \ {0} /\ Len(work') \in Nat
      /\ DOMAIN work = 1 .. m /\ DOMAIN work' = 1 .. Len(work')
      /\ items # <<>> => work'[m] = items[Len(items)]
      /\ items = <<>> => Len(work') = m - 1
      /\ Len(work') >= m - 1
      /\ \A j \in 1 .. m - 1 : work'[j] = work[j]
      /\ \A j \in DOMAIN work' : j > m => \E k \in 1 .. Len(items) - 1 : work'[j] = items[k]
  <2>1. Len(items) \in Nat
    OBVIOUS
  <2>2. QED
    BY <2>1, WorkAfter
<1>2. /\ IsFiniteSet(after)
      /\ Cardinality(after) = Len(loopStack')
      /\ LoopsServed' <=> \A p \in after : Served(work'[p].task, LoopAt(LoopOf(p))', Waiting(code'))
      /\ \A p : LoopOf(p)' = Cardinality({q \in after : q <= p})
  <2>1. after \subseteq 1 .. Len(work')
    BY <1>1 DEF Pending
  <2>2. IsFiniteSet(after)
    <3>1. IsFiniteSet(1 .. Len(work'))
      <4>1. \A n \in Nat : IsFiniteSet(1 .. n)
        BY FS_Interval
      <4>2. QED
        BY <1>1, <4>1, Zenon
    <3>2. QED
      BY <2>1, <3>1, FS_Subset
  <2>3. Cardinality(after) = Len(loopStack')
    BY DEF Inv, ContextsMatched
  <2>4. QED
    BY <2>2, <2>3 DEF LoopsServed, LoopOf
<1> HIDE DEF m
<1>3. SUFFICES ASSUME NEW p \in after
               PROVE  Served(work'[p].task, LoopAt(LoopOf(p))', Waiting(code'))
  BY <1>2
<1>4. /\ p \in Nat /\ p \in DOMAIN work' /\ work'[p].task \in LoopEnds
      /\ \A j \in after : j <= m /\ j \in Nat
  <2>1. ASSUME NEW j \in after PROVE j \in Nat /\ j <= m
    <3>1. j \in DOMAIN work' /\ j \in Nat /\ work'[j].task \in JumpTasks
      BY <1>1 DEF Pending, LoopEnds, JumpTasks
    <3>2. ~(j > m)
      BY <1>1, <3>1
    <3>3. QED
      BY <1>1, <3>1, <3>2
  <2>2. QED
    BY <2>1 DEF Pending
<1>5. CASE p = m
  <2>1. LastIn(items, LoopEnds) /\ work'[p] = items[Len(items)]
    <3>1. items # <<>>
      BY <1>1, <1>4, <1>5
    <3>2. QED
      BY <1>1, <1>4, <1>5, <3>1 DEF LastIn
  <2>2. {q \in after : q <= p} = after
    BY <1>4, <1>5
  <2>3. LoopOf(p)' = Len(loopStack')
    BY <1>2, <2>2
  <2>4. Len(loopStack') \in DOMAIN loopStack'
    <3>1. Cardinality(after) # 0
      BY <1>2, FS_EmptySet
    <3>2. Cardinality(after) \in Nat
      BY <1>2, FS_CardinalityType
    <3>3. DOMAIN loopStack' = 1 .. Len(loopStack')
      BY DEF Inv, TypeOK
    <3>4. QED
      BY <1>2, <3>1, <3>2, <3>3
  <2>5. LoopAt(LoopOf(p))' = loopStack'[Len(loopStack')]
    BY <2>3, <2>4 DEF LoopAt
  <2>6. QED
    BY <2>1, <2>5
<1>6. CASE p < m
  <2>1. p \in 1 .. m - 1 /\ work'[p] = work[p] /\ p \in Pending(work, LoopEnds)
    <3>1. p \in 1 .. m - 1 /\ p \in 1 .. m
      BY <1>1, <1>4, <1>6
    <3>2. QED
      BY <1>1, <1>4, <3>1 DEF Pending
  <2>2. LoopOf(p)' = LoopOf(p)
    <3>1. \A q \in 1 .. m - 1 : q \in after <=> q \in Pending(work, LoopEnds)
      <4>1. \A q \in 1 .. m - 1 : q \in DOMAIN work /\ q \in DOMAIN work'
        BY <1>1
      <4>2. QED
        BY <1>1, <4>1 DEF Pending
    <3>2. \A q \in after \cup Pending(work, LoopEnds) : q <= p => q \in 1 .. m - 1
      <4>1. \A q \in after \cup Pending(work, LoopEnds) : q \in Nat \ {0}
        BY <1>1 DEF Pending
      <4>2. QED
        BY <1>1, <2>1, <4>1
    <3>3. {q \in after : q <= p} = {q \in Pending(work, LoopEnds) : q <= p}
      BY <3>1, <3>2
    <3>4. QED
      BY <1>2, <3>3 DEF LoopOf
  <2>3. LoopOf(p) \in Nat
    <3>1. LoopOf(p) \in 1 .. Len(loopStack)
      BY <2>1, LoopOfProperties
    <3>2. QED
      BY <3>1
  <2>4. CASE LoopOf(p) = l
    BY <1>6, <2>1, <2>2, <2>4 DEF m, LoopAt
  <2>5. CASE LoopOf(p) # l
    <3> DEFINE r    == LoopOf(p)
               loop == LoopAt(r)
    <3>1. LoopAt(LoopOf(p))' = loop
      BY <2>2, <2>3, <2>5 DEF LoopAt
    <3>2. Served(work[p].task, loop, Waiting(code))
      BY <2>1 DEF LoopsServed
    <3>3. (loop.continueJumps \cap Waiting(code)) \cap P = {}
      <4>1. /\ <<"continue", r>> \in Places
            /\ <<"continue", r>> \notin {<<"jump", Len(work)>>, <<"break", l>>, <<"continue", l>>, <<"exit", s>>}
        BY <2>3, <2>5 DEF Places, Kinds
      <4>2. Held[<<"continue", r>>] \cap P = {}
        BY <4>1, NotPatched
      <4>3. QED
        BY <2>3, <4>2, HeldAt
    <3>4. loop.continueJumps \cap N = {}
      <4>1. N \subseteq Len(code) .. Len(code') - 1 /\ Len(code) \in Nat
        BY DEF Later
      <4>2. loop.continueJumps \subseteq 0 .. Len(code) - 1
        BY <2>3, OldJumps
      <4>3. QED
        BY <4>1, <4>2
    <3>5. Waiting(code') = (Waiting(code) \ P) \cup N
      BY DEF Later
    <3> HIDE DEF loop, r
    <3>6. Served(work[p].task, loop, Waiting(code'))
      BY <3>2, <3>3, <3>4, <3>5 DEF Served
    <3>7. QED
      BY <2>1, <3>1, <3>6
  <2>6. QED
    BY <2>4, <2>5
<1>7. QED
  BY <1>1, <1>4, <1>5, <1>6

LEMMA QuietStep ==
    ASSUME Inv, work # <<>>, QuietAbove, NEW S, NEW items \in Seq(S), Then(items),
           \A i \in 1 .. Len(items) - 1 : items[i].task \notin JumpTasks,
           QuietItem(Top) => \A i \in 1 .. Len(items) : QuietItem(items[i]),
           LastIn(items, {"forEnd"}) => \A i \in 1 .. Len(items) - 1 : QuietItem(items[i])
    PROVE  QuietAbove'
<1> DEFINE m == Len(work)
<1>1. /\ m \in Nat \ {0} /\ Len(work') \in Nat /\ Len(items) \in Nat
      /\ DOMAIN work = 1 .. m /\ DOMAIN work' = 1 .. Len(work')
      /\ items # <<>> => work'[m] = items[Len(items)]
      /\ items = <<>> => Len(work') = m - 1
      /\ Len(work') = m - 1 + Len(items)
      /\ \A j \in 1 .. m - 1 : work'[j] = work[j]
      /\ \A j \in DOMAIN work' : j > m => \E k \in 1 .. Len(items) - 1 : work'[j] = items[k]
  BY WorkAfter
<1> HIDE DEF m
<1>2. SUFFICES ASSUME NEW p \in DOMAIN work', NEW q \in DOMAIN work', work'[p].task = "forEnd", p < q
               PROVE  QuietItem(work'[q])
  BY DEF QuietAbove, QuietItem
<1>3. p <= m
  <2>1. p > m => work'[p].task \notin JumpTasks
    BY <1>1, <1>2
  <2>2. QED
    BY <1>1, <1>2, <2>1 DEF JumpTasks
<1>4. CASE p = m
  <2>1. items # <<>> /\ LastIn(items, {"forEnd"})
    BY <1>1, <1>2, <1>4 DEF LastIn
  <2>2. PICK k \in 1 .. Len(items) - 1 : work'[q] = items[k]
    BY <1>1, <1>2, <1>4
  <2>3. QED
    BY <2>1, <2>2
<1>5. CASE p < m
  <2>1. p \in 1 .. m - 1 /\ work[p].task = "forEnd" /\ p \in DOMAIN work
    BY <1>1, <1>2, <1>5
  <2>2. CASE q < m
    <3>1. q \in 1 .. m - 1 /\ q \in DOMAIN work
      BY <1>1, <2>2
    <3>2. QED
      BY <1>1, <1>2, <2>1, <3>1 DEF QuietAbove
  <2>3. CASE q >= m
    <3>1. QuietItem(Top)
      <4>1. m \in DOMAIN work
        BY <1>1
      <4>2. QuietItem(work[m])
        BY <1>5, <2>1, <4>1 DEF QuietAbove
      <4>3. QED
        BY <4>2 DEF Top, m
    <3>2. \A i \in 1 .. Len(items) : QuietItem(items[i])
      BY <3>1
    <3>3. \E k \in 1 .. Len(items) : work'[q] = items[k]
      <4>1. CASE q = m
        <5>1. items # <<>> /\ Len(items) \in 1 .. Len(items)
          BY <1>1, <4>1
        <5>2. QED
          BY <1>1, <4>1, <5>1
      <4>2. CASE q > m
        BY <1>1, <4>2
      <4>3. QED
        BY <1>1, <2>3, <4>1, <4>2
    <3>4. QED
      BY <3>2, <3>3
  <2>4. QED
    BY <1>1, <2>2, <2>3
<1>6. QED
  BY <1>1, <1>3, <1>4, <1>5

LEMMA RememberedStep ==
    ASSUME Inv, work # <<>>, RememberedOnce, NEW S, NEW items \in Seq(S), Then(items),
           \A i \in 1 .. Len(items) - 1 : items[i].task \notin JumpTasks,
           items # <<>> => DistinctJumps(items[Len(items)])
    PROVE  RememberedOnce'
<1> DEFINE m == Len(work)
<1>1. /\ m \in Nat \ {0} /\ Len(work') \in Nat
      /\ DOMAIN work = 1 .. m /\ DOMAIN work' = 1 .. Len(work')
      /\ items # <<>> => work'[m] = items[Len(items)]
      /\ items = <<>> => Len(work') = m - 1
      /\ \A j \in 1 .. m - 1 : work'[j] = work[j]
      /\ \A j \in DOMAIN work' : j > m => \E k \in 1 .. Len(items) - 1 : work'[j] = items[k]
  BY WorkAfter
<1> HIDE DEF m
<1>2. SUFFICES ASSUME NEW p \in DOMAIN work' PROVE DistinctJumps(work'[p])
  BY DEF RememberedOnce, DistinctJumps
<1>3. CASE p < m
  <2>1. p \in 1 .. m - 1 /\ p \in DOMAIN work
    BY <1>1, <1>2, <1>3
  <2>2. QED
    BY <1>1, <2>1 DEF RememberedOnce
<1>4. CASE p = m
  <2>1. items # <<>>
    BY <1>1, <1>2, <1>4
  <2>2. QED
    BY <1>1, <1>4, <2>1
<1>5. CASE p > m
  <2>1. work'[p].task \notin JumpTasks
    BY <1>1, <1>2, <1>5
  <2>2. QED
    BY <2>1 DEF DistinctJumps
<1>6. QED
  BY <1>1, <1>2, <1>3, <1>4, <1>5

\* All of it, for a step that touches one loop and one switch at most.
LEMMA JumpStep ==
    ASSUME Inv, Inv', work # <<>>, JumpInv,
           NEW S, NEW items \in Seq(S), Then(items),
           \A i \in 1 .. Len(items) - 1 : items[i].task \notin JumpTasks,
           items # <<>> => DistinctJumps(items[Len(items)]),
           QuietItem(Top) => \A i \in 1 .. Len(items) : QuietItem(items[i]),
           LastIn(items, {"forEnd"}) => \A i \in 1 .. Len(items) - 1 : QuietItem(items[i]),
           NEW P, NEW N, Later(code, code', P, N),
           NEW own \in Kinds, NEW l \in Nat, NEW s \in Nat,
           P \subseteq JumpsOf(Top) \cup LoopAt(l).breakJumps
                         \cup (LoopAt(l).continueJumps \cap Waiting(code)) \cup ExitsAt(s),
           \A i \in Nat \ {l} : LoopAt(i)' = LoopAt(i),
           \A i \in Nat \ {s} : ExitsAt(i)' = ExitsAt(i),
           LastJumps(items) = (JumpsOf(Top) \ P) \cup Given(own = "jump", N),
           LoopAt(l)'.breakJumps = (LoopAt(l).breakJumps \ P) \cup Given(own = "break", N),
           LoopAt(l)'.continueJumps \cap Waiting(code')
             = ((LoopAt(l).continueJumps \cap Waiting(code)) \ P) \cup Given(own = "continue", N),
           ExitsAt(s)' = (ExitsAt(s) \ P) \cup Given(own = "exit", N),
           \A p \in Pending(work, LoopEnds) :
               p < Len(work) /\ LoopOf(p) = l => Served(work[p].task, LoopAt(l)', Waiting(code')),
           LastIn(items, LoopEnds) =>
               Served(items[Len(items)].task, loopStack'[Len(loopStack')], Waiting(code'))
    PROVE  JumpInv'
<1>1. Owned(Held, Waiting(code)) /\ LoopsServed /\ QuietAbove /\ RememberedOnce
  BY DEF JumpInv
<1>2. Owned(Held', Waiting(code'))
  BY <1>1, HeldStep
<1>3. LoopsServed'
  BY <1>1, ServedStep
<1>4. QuietAbove'
  BY <1>1, QuietStep
<1>5. RememberedOnce'
  BY <1>1, RememberedStep
<1>6. QED
  BY <1>2, <1>3, <1>4, <1>5 DEF JumpInv

\* What the invariant says of the jumps that a step may patch.
LEMMA HeldWaits ==
    ASSUME Inv, work # <<>>, JumpInv
    PROVE  /\ JumpsOf(Top) \subseteq Waiting(code)
           /\ \A i \in Nat : /\ LoopAt(i).breakJumps \subseteq Waiting(code)
                             /\ ExitsAt(i) \subseteq Waiting(code)
                             /\ JumpsOf(Top) \cap LoopAt(i).breakJumps = {}
                             /\ JumpsOf(Top) \cap LoopAt(i).continueJumps = {}
                             /\ JumpsOf(Top) \cap ExitsAt(i) = {}
                             /\ LoopAt(i).breakJumps \cap LoopAt(i).continueJumps = {}
           /\ Waiting(code) \subseteq 0 .. Len(code) - 1
<1>1. Len(work) \in Nat /\ JumpsAt(Len(work)) = JumpsOf(Top) /\ code \in Seq(Instructions)
  BY InvFacts DEF JumpsAt, Top, CodeOK
<1>2. <<"jump", Len(work)>> \in Places /\ JumpsOf(Top) = Held[<<"jump", Len(work)>>]
  BY <1>1, HeldAt DEF Places, Kinds
<1>3. JumpsOf(Top) \subseteq Waiting(code)
  BY <1>2 DEF JumpInv, Owned
<1>4. ASSUME NEW i \in Nat
      PROVE  /\ LoopAt(i).breakJumps \subseteq Waiting(code)
             /\ ExitsAt(i) \subseteq Waiting(code)
             /\ JumpsOf(Top) \cap LoopAt(i).breakJumps = {}
             /\ JumpsOf(Top) \cap LoopAt(i).continueJumps = {}
             /\ JumpsOf(Top) \cap ExitsAt(i) = {}
             /\ LoopAt(i).breakJumps \cap LoopAt(i).continueJumps = {}
  <2>1. /\ <<"break", i>> \in Places /\ <<"continue", i>> \in Places /\ <<"exit", i>> \in Places
    BY DEF Places, Kinds
  <2>2. /\ Held[<<"break", i>>] = LoopAt(i).breakJumps
        /\ Held[<<"continue", i>>] = LoopAt(i).continueJumps \cap Waiting(code)
        /\ Held[<<"exit", i>>] = ExitsAt(i)
    BY HeldAt
  <2>3. /\ Held[<<"break", i>>] \subseteq Waiting(code) /\ Held[<<"exit", i>>] \subseteq Waiting(code)
        /\ Held[<<"jump", Len(work)>>] \cap Held[<<"break", i>>] = {}
        /\ Held[<<"jump", Len(work)>>] \cap Held[<<"continue", i>>] = {}
        /\ Held[<<"jump", Len(work)>>] \cap Held[<<"exit", i>>] = {}
        /\ Held[<<"break", i>>] \cap Held[<<"continue", i>>] = {}
    BY <1>2, <2>1 DEF JumpInv, Owned
  <2>4. QED
    BY <1>2, <1>3, <2>2, <2>3
<1>5. Waiting(code) \subseteq 0 .. Len(code) - 1
  BY <1>1, WaitingBelow
<1>6. QED
  BY <1>3, <1>4, <1>5

LEMMA NothingAtZero ==
    /\ Inv => 0 \notin DOMAIN loopStack /\ 0 \notin DOMAIN switchBreakStack
    /\ Inv' => 0 \notin DOMAIN loopStack' /\ 0 \notin DOMAIN switchBreakStack'
<1>1. \A S, stack : stack \in Seq(S) => 0 \notin DOMAIN stack
  OBVIOUS
<1>2. Inv => \E S, T : loopStack \in Seq(S) /\ switchBreakStack \in Seq(T)
  BY DEF Inv, TypeOK
<1>3. Inv' => \E S, T : loopStack' \in Seq(S) /\ switchBreakStack' \in Seq(T)
  BY DEF Inv, TypeOK
<1>4. QED
  BY <1>1, <1>2, <1>3

\* The step that leaves the loops and the switches alone.
LEMMA PlainJumpStep ==
    ASSUME Inv, Inv', work # <<>>, JumpInv,
           NEW S, NEW items \in Seq(S), Then(items),
           \A i \in 1 .. Len(items) - 1 : items[i].task \notin JumpTasks,
           items # <<>> => DistinctJumps(items[Len(items)]),
           QuietItem(Top) => \A i \in 1 .. Len(items) : QuietItem(items[i]),
           ~LastIn(items, LoopEnds),
           NEW P, NEW N, Later(code, code', P, N),
           UNCHANGED <<loopStack, switchBreakStack>>,
           P \subseteq JumpsOf(Top),
           LastJumps(items) = (JumpsOf(Top) \ P) \cup N
    PROVE  JumpInv'
<1>1. /\ "jump" \in Kinds /\ 0 \in Nat
      /\ \A i : LoopAt(i)' = LoopAt(i) /\ ExitsAt(i)' = ExitsAt(i)
  BY DEF Kinds, LoopAt, ExitsAt
<1>2. LoopAt(0).breakJumps = {} /\ LoopAt(0).continueJumps = {} /\ ExitsAt(0) = {}
  <2>1. 0 \notin DOMAIN loopStack /\ 0 \notin DOMAIN switchBreakStack
    BY NothingAtZero
  <2>2. QED
    BY <2>1 DEF LoopAt, LoopContext, ExitsAt
<1>3. /\ LoopAt(0)'.breakJumps = (LoopAt(0).breakJumps \ P) \cup Given("jump" = "break", N)
      /\ LoopAt(0)'.continueJumps \cap Waiting(code')
             = ((LoopAt(0).continueJumps \cap Waiting(code)) \ P) \cup Given("jump" = "continue", N)
      /\ ExitsAt(0)' = (ExitsAt(0) \ P) \cup Given("jump" = "exit", N)
      /\ LastJumps(items) = (JumpsOf(Top) \ P) \cup Given("jump" = "jump", N)
  BY <1>1, <1>2 DEF Given
<1>4. \A p \in Pending(work, LoopEnds) : LoopOf(p) # 0
  BY LoopOfProperties
<1>5. ~LastIn(items, {"forEnd"})
  BY DEF LastIn, LoopEnds
<1>6. P \subseteq JumpsOf(Top) \cup LoopAt(0).breakJumps
                    \cup (LoopAt(0).continueJumps \cap Waiting(code)) \cup ExitsAt(0)
  OBVIOUS
<1>7. /\ \A p \in Pending(work, LoopEnds) :
             p < Len(work) /\ LoopOf(p) = 0 => Served(work[p].task, LoopAt(0)', Waiting(code'))
      /\ LastIn(items, {"forEnd"}) => \A i \in 1 .. Len(items) - 1 : QuietItem(items[i])
      /\ LastIn(items, LoopEnds) =>
             Served(items[Len(items)].task, loopStack'[Len(loopStack')], Waiting(code'))
      /\ \A i \in Nat \ {0} : LoopAt(i)' = LoopAt(i)
      /\ \A i \in Nat \ {0} : ExitsAt(i)' = ExitsAt(i)
  BY <1>1, <1>4, <1>5
<1>8. Owned(Held, Waiting(code)) /\ LoopsServed /\ QuietAbove /\ RememberedOnce
  BY DEF JumpInv
<1>9. Owned(Held', Waiting(code'))
  <2>1. /\ "jump" \in Kinds /\ 0 \in Nat
        /\ \A i \in Nat \ {0} : LoopAt(i)' = LoopAt(i)
        /\ \A i \in Nat \ {0} : ExitsAt(i)' = ExitsAt(i)
    BY <1>1
  <2>2. Owned(Held, Waiting(code))
    BY <1>8
  <2>3. QED
    BY <1>3, <1>6, <2>1, <2>2, HeldStep
<1>10. LoopsServed'
  BY <1>1, <1>6, <1>7, <1>8, ServedStep
<1>11. QuietAbove' /\ RememberedOnce'
  BY <1>7, <1>8, QuietStep, RememberedStep
<1>12. QED
  BY <1>9, <1>10, <1>11 DEF JumpInv

-----------------------------------------------------------------------------
(* The activations an action starts: the last may remember jumps.          *)

FreshTasks == {"generate", "emit", "argument", "noDefault"}

EndsIn(items, last) ==
    /\ items # <<>>
    /\ items[Len(items)] = last
    /\ \A i \in 1 .. Len(items) - 1 : items[i].task \in FreshTasks

LEMMA EndsInFacts ==
    ASSUME NEW items, NEW last, EndsIn(items, last)
    PROVE  /\ \A i \in 1 .. Len(items) - 1 : items[i].task \notin JumpTasks
           /\ LastJumps(items) = JumpsOf(last)
           /\ \A tasks : LastIn(items, tasks) <=> last.task \in tasks
           /\ items # <<>> /\ items[Len(items)] = last
BY DEF EndsIn, FreshTasks, JumpTasks, LastJumps, LastIn

LEMMA PairEnds ==
    ASSUME NEW a, NEW b, a.task \in FreshTasks
    PROVE  /\ <<a, b>> \in Seq({a, b})
           /\ EndsIn(<<a, b>>, b)
           /\ \A i \in 1 .. Len(<<a, b>>) : <<a, b>>[i] \in {a, b}
BY DEF EndsIn

LEMMA SingleEnds ==
    ASSUME NEW b
    PROVE  /\ <<b>> \in Seq({b})
           /\ EndsIn(<<b>>, b)
           /\ \A i \in 1 .. Len(<<b>>) : <<b>>[i] = b
BY DEF EndsIn

LEMMA FreshItems ==
    ASSUME NEW from, NEW to, NEW items \in Seq(Fresh(from, to))
    PROVE  /\ \A i \in 1 .. Len(items) : items[i].task \in FreshTasks
           /\ \A i \in 1 .. Len(items) - 1 : items[i].task \notin JumpTasks
           /\ LastJumps(items) = {}
           /\ ~LastIn(items, LoopEnds) /\ ~LastIn(items, {"forEnd"})
           /\ items # <<>> => DistinctJumps(items[Len(items)])
<1>1. \A i \in 1 .. Len(items) : items[i].task \in FreshTasks
  <2>1. \A i \in 1 .. Len(items) : items[i] \in Fresh(from, to)
    OBVIOUS
  <2>2. QED
    BY <2>1 DEF Fresh, FreshTasks
<1>2. items # <<>> => Len(items) \in 1 .. Len(items)
  OBVIOUS
<1>3. Len(items) \in Nat
  OBVIOUS
<1>4. \A task \in FreshTasks : task \notin JumpTasks /\ task \notin LoopEnds /\ task # "forEnd"
  BY DEF FreshTasks, JumpTasks, LoopEnds
<1>5. items # <<>> => items[Len(items)].task \in FreshTasks
  BY <1>1, <1>2
<1>6. \A i \in 1 .. Len(items) - 1 : items[i].task \notin JumpTasks
  <2>1. \A i \in 1 .. Len(items) - 1 : i \in 1 .. Len(items)
    BY <1>3
  <2>2. QED
    BY <1>1, <1>4, <2>1
<1>7. QED
  BY <1>1, <1>4, <1>5, <1>6 DEF LastJumps, JumpsOf, LastIn, DistinctJumps

LEMMA QuietItems ==
    ASSUME NEW from, NEW to, NEW items \in Seq(Quiet(from, to))
    PROVE  \A i \in 1 .. Len(items) : QuietItem(items[i])
<1>1. \A i \in 1 .. Len(items) : items[i] \in Quiet(from, to)
  OBVIOUS
<1>2. QED
  BY <1>1 DEF Quiet, QuietItem, QuietNodes

LEMMA FollowedEnds ==
    ASSUME NEW from, NEW to, NEW front \in Seq(Fresh(from, to)), NEW b, NEW items, items = front \o <<b>>
    PROVE  /\ items \in Seq(Fresh(from, to) \cup {b})
           /\ EndsIn(items, b)
           /\ Len(items) = Len(front) + 1 /\ Len(front) \in Nat
           /\ \A i \in 1 .. Len(front) : items[i] = front[i]
<1> DEFINE S == Fresh(from, to) \cup {b}
<1>1. front \in Seq(S) /\ <<b>> \in Seq(S)
  <2>1. Fresh(from, to) \subseteq S
    OBVIOUS
  <2>2. QED
    BY <2>1, SeqMonotonic
<1> HIDE DEF S
<1>2. /\ items \in Seq(S)
      /\ Len(items) = Len(front) + 1 /\ Len(front) \in Nat
      /\ \A i \in 1 .. Len(front) : items[i] = front[i]
      /\ items[Len(front) + 1] = b
  BY <1>1
<1>3. EndsIn(items, b)
  <2>1. items # <<>>
    BY <1>2
  <2>2. \A i \in 1 .. Len(items) - 1 : items[i].task \in FreshTasks
    BY <1>2, FreshItems
  <2>3. QED
    BY <1>2, <2>1, <2>2 DEF EndsIn
<1>4. QED
  BY <1>2, <1>3 DEF S

\* The steps that leave the loops and the switches alone: one that starts no
\* activation with jumps, one that starts one, and one that starts none.
LEMMA FreshStep ==
    ASSUME Inv, Inv', work # <<>>, JumpInv, Top.task \notin JumpTasks,
           NEW from, NEW to, NEW items \in Seq(Fresh(from, to)), Then(items),
           QuietItem(Top) => items \in Seq(Quiet(from, to)),
           UNCHANGED <<code, loopStack, switchBreakStack>>
    PROVE  JumpInv' /\ Kept(code, code')
<1>1. Later(code, code', {}, {})
  BY LaterSelf DEF Inv, TypeOK
<1>2. JumpsOf(Top) = {}
  BY DEF JumpsOf
<1>3. /\ \A i \in 1 .. Len(items) - 1 : items[i].task \notin JumpTasks
      /\ LastJumps(items) = (JumpsOf(Top) \ {}) \cup {}
      /\ ~LastIn(items, LoopEnds)
      /\ items # <<>> => DistinctJumps(items[Len(items)])
  BY <1>2, FreshItems
<1>4. QuietItem(Top) => \A i \in 1 .. Len(items) : QuietItem(items[i])
  BY QuietItems
<1>5. {} \subseteq JumpsOf(Top) /\ UNCHANGED <<loopStack, switchBreakStack>>
  OBVIOUS
<1>6. JumpInv'
  BY <1>1, <1>3, <1>4, <1>5, PlainJumpStep
<1>7. QED
  BY <1>1, <1>6 DEF Later

LEMMA LastJumpStep ==
    ASSUME Inv, Inv', work # <<>>, JumpInv,
           NEW S, NEW items \in Seq(S), Then(items), NEW last, EndsIn(items, last),
           last.task \notin LoopEnds, DistinctJumps(last),
           QuietItem(Top) => \A i \in 1 .. Len(items) : QuietItem(items[i]),
           NEW P, NEW N, Later(code, code', P, N), UNCHANGED <<loopStack, switchBreakStack>>,
           P \subseteq JumpsOf(Top), JumpsOf(last) = (JumpsOf(Top) \ P) \cup N
    PROVE  JumpInv' /\ Kept(code, code')
<1>1. /\ \A i \in 1 .. Len(items) - 1 : items[i].task \notin JumpTasks
      /\ LastJumps(items) = (JumpsOf(Top) \ P) \cup N
      /\ ~LastIn(items, LoopEnds)
      /\ items # <<>> => DistinctJumps(items[Len(items)])
  BY EndsInFacts
<1>2. JumpInv'
  BY <1>1, PlainJumpStep
<1>3. QED
  BY <1>2 DEF Later

LEMMA DoneStep ==
    ASSUME Inv, Inv', work # <<>>, JumpInv, Then(<<>>),
           Later(code, code', JumpsOf(Top), {}), UNCHANGED <<loopStack, switchBreakStack>>
    PROVE  JumpInv' /\ Kept(code, code')
<1> DEFINE none == <<>>
           P    == JumpsOf(Top)
<1>1. /\ none \in Seq({}) /\ Then(none) /\ none = <<>>
      /\ 1 .. Len(none) = {} /\ 1 .. Len(none) - 1 = {}
  OBVIOUS
<1>2. LastJumps(none) = (JumpsOf(Top) \ P) \cup {} /\ ~LastIn(none, LoopEnds)
  BY DEF LastJumps, LastIn
<1>3. P \subseteq JumpsOf(Top) /\ Later(code, code', P, {})
  OBVIOUS
<1> HIDE DEF none, P
<1>4. JumpInv'
  BY <1>1, <1>2, <1>3, PlainJumpStep
<1>5. QED
  BY <1>4 DEF Later

-----------------------------------------------------------------------------
(* Every action: straight-line code, short circuits and branches.          *)

LEMMA NoJumps ==
    ASSUME NEW task, task \notin JumpTasks, NEW node, NEW jumps, NEW target, NEW index
    PROVE  /\ JumpsOf(Item(task, node, jumps, target, index)) = {}
           /\ DistinctJumps(Item(task, node, jumps, target, index))
           /\ Item(task, node, jumps, target, index).task = task
BY DEF JumpsOf, DistinctJumps, Item

LEMMA OneJump ==
    ASSUME NEW task \in JumpTasks, NEW node, NEW jump, NEW target, NEW index
    PROVE  /\ JumpsOf(Item(task, node, <<jump>>, target, index)) = {jump}
           /\ DistinctJumps(Item(task, node, <<jump>>, target, index))
           /\ Item(task, node, <<jump>>, target, index).task = task
<1> DEFINE it == Item(task, node, <<jump>>, target, index)
<1>1. it.task = task /\ it.jumps = <<jump>>
  BY DEF Item
<1> HIDE DEF it
<1>2. DOMAIN it.jumps = {1} /\ it.jumps[1] = jump
  BY <1>1
<1>3. QED
  BY <1>1, <1>2 DEF JumpsOf, DistinctJumps, it

LEMMA TopPatched ==
    ASSUME Inv, JumpInv, work # <<>>,
           Top.task \in {"logicEnd", "else", "endIf", "whileEnd", "forUpdate", "forEnd"}
    PROVE  /\ JumpsOf(Top) = {Top.jumps[1]}
           /\ Top.jumps[1] \in Waiting(code)
           /\ Top.jumps[1] \in 0 .. Len(code) - 1
<1>1. Len(Top.jumps) = 1 /\ Top.jumps \in Seq(Begin .. Len(code) - 1)
  BY TopOK, TopJump
<1>2. DOMAIN Top.jumps = {1}
  <2> DEFINE jumps == Top.jumps
  <2>1. jumps \in Seq(Begin .. Len(code) - 1) /\ Len(jumps) = 1
    BY <1>1
  <2> HIDE DEF jumps
  <2>2. DOMAIN jumps = {1}
    BY <2>1
  <2>3. QED
    BY <2>2 DEF jumps
<1>3. JumpsOf(Top) = {Top.jumps[1]}
  BY <1>2 DEF JumpsOf, JumpTasks
<1>4. QED
  BY <1>3, HeldWaits

LEMMA LaterJump ==
    ASSUME Inv, work # <<>>, NEW op \in JumpOps
    PROVE  /\ Later(code, Append(code, JumpTo(op)), {}, {currentAddress})
           /\ Len(Append(code, JumpTo(op))) = Len(code) + 1
<1>1. code \in Seq(Instructions)
  BY DEF Inv, TypeOK
<1>2. JumpTo(op) \in Instructions /\ Waits(JumpTo(op))
  <2>1. <<>> \in Seq(Nat)
    OBVIOUS
  <2>2. QED
    BY <2>1 DEF JumpTo, With, Instruction, Instructions, Opcodes, Waits, IsJump, Unpatched
<1>3. QED
  BY <1>1, <1>2, LaterAppend DEF currentAddress

\* An instruction that does not wait.
LEMMA LaterPlain ==
    ASSUME NEW c \in Seq(Instructions), NEW op \in Opcodes, NEW arg \in Int,
           op \in JumpOps => arg # Unpatched
    PROVE  /\ With(op, arg) \in Instructions
           /\ Later(c, Append(c, With(op, arg)), {}, {})
           /\ Len(Append(c, With(op, arg))) = Len(c) + 1
<1>1. With(op, arg) \in Instructions /\ ~Waits(With(op, arg))
  <2>1. <<>> \in Seq(Nat)
    OBVIOUS
  <2>2. QED
    BY <2>1 DEF With, Instruction, Instructions, Waits, IsJump
<1>2. QED
  BY <1>1, LaterAppend

\* Some jumps of the code so far are patched, after others were appended.
LEMMA LaterPatched ==
    ASSUME NEW c, NEW d, NEW N, Later(c, d, {}, N), NEW jumps, jumps \subseteq Waiting(c),
           NEW target \in 0 .. Len(d)
    PROVE  Later(c, Patch(d, jumps, target), jumps, N) /\ Len(Patch(d, jumps, target)) = Len(d)
<1>1. c \in Seq(Instructions) /\ d \in Seq(Instructions) /\ jumps \subseteq Waiting(d)
  BY DEF Later
<1>2. Later(d, Patch(d, jumps, target), jumps, {}) /\ Len(Patch(d, jumps, target)) = Len(d)
  BY <1>1, LaterPatch
<1>3. Later(c, Patch(d, jumps, target), {} \cup jumps, (N \ jumps) \cup {})
  BY <1>2, LaterTwice
<1>4. N \cap jumps = {}
  <2>1. Waiting(c) \subseteq 0 .. Len(c) - 1 /\ N \subseteq Len(c) .. Len(d) - 1 /\ Len(c) \in Nat
    BY <1>1, WaitingBelow DEF Later
  <2>2. QED
    BY <2>1
<1>5. {} \cup jumps = jumps /\ (N \ jumps) \cup {} = N
  BY <1>4
<1>6. QED
  BY <1>2, <1>3, <1>5

LEMMA StraightJumps ==
    ASSUME Inv, JumpInv, Straight PROVE JumpInv' /\ Kept(code, code')
<1> DEFINE items == Parts(Node)
<1>1. /\ work # <<>> /\ Top.task = "generate" /\ Node.kind \in StraightLine /\ Then(items)
      /\ UNCHANGED <<code, loopStack, switchBreakStack>>
  BY DEF Straight, Generating, Running
<1>2. Begin \in Nat /\ Len(code) \in Nat /\ Node \in Exprs \cup Stmts
  BY <1>1, TopOK DEF ItemOK, Node
<1>3. items \in Seq(Fresh(Begin, Len(code)))
  BY <1>1, <1>2, PartsOK
<1>4. QuietItem(Top) => items \in Seq(Quiet(Begin, Len(code)))
  BY <1>1, <1>2, ExprPartsOK, AssignmentPartsOK DEF QuietItem, QuietNodes, Node
<1>5. Top.task \notin JumpTasks
  BY <1>1 DEF JumpTasks
<1>6. Inv'
  BY StraightStep
<1> HIDE DEF items
<1>7. QED
  BY <1>1, <1>3, <1>4, <1>5, <1>6, FreshStep

LEMMA ArgumentJumps ==
    ASSUME Inv, JumpInv, Argument PROVE JumpInv' /\ Kept(code, code')
<1> DEFINE items == Converted(Node.args[Top.index], Node.targets[Top.index])
<1>1. /\ work # <<>> /\ Top.task = "argument" /\ Then(items)
      /\ UNCHANGED <<code, loopStack, switchBreakStack>>
  BY DEF Argument, Running
<1>2. Begin \in Nat /\ Len(code) \in Nat /\ Node \in Exprs /\ Node.kind = "call"
      /\ Top.index \in DOMAIN Node.args
  BY <1>1, TopOK DEF ItemOK, Node
<1>3. /\ Node.args[Top.index] \in Exprs
      /\ \/ Node.targets[Top.index] \in CastTypes
         \/ Node.targets[Top.index] = Node.args[Top.index].type
  BY <1>2, ExprsAssumption DEF ExprClosed
<1>4. items \in Seq(Quiet(Begin, Len(code)))
  BY <1>2, <1>3, ConvertedOK
<1> HIDE DEF items
<1>5. items \in Seq(Fresh(Begin, Len(code)))
  BY <1>4, FreshSimple, SeqMonotonic
<1>6. Top.task \notin JumpTasks
  BY <1>1 DEF JumpTasks
<1>7. Inv'
  BY ArgumentStep
<1>8. QED
  BY <1>1, <1>4, <1>5, <1>6, <1>7, FreshStep

LEMMA EmitInstructionJumps ==
    ASSUME Inv, JumpInv, EmitInstruction PROVE JumpInv' /\ Kept(code, code')
<1>1. /\ work # <<>> /\ Top.task = "emit" /\ Then(<<>>) /\ code' = Append(code, Node)
      /\ UNCHANGED <<loopStack, switchBreakStack>>
  BY DEF EmitInstruction, Running
<1>2. Node \in Instructions /\ ~Waits(Node) /\ code \in Seq(Instructions)
  BY <1>1, TopOK DEF ItemOK, Node, Waits, Inv, TypeOK
<1>3. JumpsOf(Top) = {}
  BY <1>1 DEF JumpsOf, JumpTasks
<1>4. Later(code, code', JumpsOf(Top), {})
  BY <1>1, <1>2, <1>3, LaterAppend
<1>5. Inv'
  BY EmitInstructionStep
<1>6. QED
  BY <1>1, <1>4, <1>5, DoneStep

LEMMA ShortCircuitJumps ==
    ASSUME Inv, JumpInv, ShortCircuit PROVE JumpInv' /\ Kept(code, code')
<1> DEFINE first == Gen(Node.left)
           last  == Item("logicRight", Node, <<>>, 0, 0)
           items == <<first, last>>
<1>1. /\ work # <<>> /\ Top.task = "generate" /\ Node.kind = "logic" /\ Then(items)
      /\ code' = code /\ UNCHANGED <<loopStack, switchBreakStack>>
  BY DEF ShortCircuit, Generating, Running
<1>2. Node \in Exprs /\ Node.left \in Exprs
  <2>1. Node \in Exprs \cup Stmts
    BY <1>1, TopOK DEF ItemOK, Node
  <2>2. QED
    BY <1>1, <2>1, ExprsAssumption, StmtsAssumption DEF ExprClosed, StmtClosed
<1>3. /\ first.task \in FreshTasks /\ QuietItem(first) /\ QuietItem(last)
      /\ JumpsOf(last) = {} /\ DistinctJumps(last) /\ last.task \notin LoopEnds
  <2>1. first.task = "generate" /\ first.node = Node.left
    BY DEF Gen, Item
  <2>2. last.task = "logicRight"
    BY DEF Item
  <2>3. QED
    BY <1>2, <2>1, <2>2, NoJumps DEF FreshTasks, QuietItem, QuietNodes, LoopEnds, JumpTasks
<1>4. Later(code, code', {}, {}) /\ JumpsOf(Top) = {}
  BY <1>1, LaterSelf DEF Inv, TypeOK, JumpsOf, JumpTasks
<1>5. Inv'
  BY ShortCircuitStep
<1> HIDE DEF first, last
<1>6. /\ items \in Seq({first, last}) /\ EndsIn(items, last)
      /\ \A i \in 1 .. Len(items) : QuietItem(items[i])
  BY <1>3, PairEnds
<1> HIDE DEF items
<1>7. QED
  BY <1>1, <1>3, <1>4, <1>5, <1>6, LastJumpStep

\* A statement with a jump of its own is not started during an update.
LEMMA NotQuiet ==
    ASSUME Inv, work # <<>>, Top.task = "generate",
           Node.kind \in {"if", "while", "for", "switch", "break", "continue"}
    PROVE  ~QuietItem(Top) /\ JumpsOf(Top) = {} /\ Node \in Stmts
<1>1. Node \in Exprs \cup Stmts
  BY TopOK DEF ItemOK, Node
<1>2. Node \notin Exprs
  BY ExprsAssumption DEF ExprClosed
<1>3. QED
  BY <1>1, <1>2 DEF QuietItem, QuietNodes, Node, Assignments, JumpsOf, JumpTasks

LEMMA PairJumpStep ==
    ASSUME Inv, Inv', work # <<>>, JumpInv,
           NEW first, NEW last, Then(<<first, last>>), first.task \in FreshTasks,
           last.task \notin LoopEnds, DistinctJumps(last),
           QuietItem(Top) => QuietItem(first) /\ QuietItem(last),
           NEW P, NEW N, Later(code, code', P, N), UNCHANGED <<loopStack, switchBreakStack>>,
           P \subseteq JumpsOf(Top), JumpsOf(last) = (JumpsOf(Top) \ P) \cup N
    PROVE  JumpInv' /\ Kept(code, code')
<1> DEFINE items == <<first, last>>
<1>1. /\ items \in Seq({first, last}) /\ EndsIn(items, last) /\ Then(items)
      /\ \A i \in 1 .. Len(items) : items[i] \in {first, last}
  BY PairEnds
<1> HIDE DEF items
<1>2. QuietItem(Top) => \A i \in 1 .. Len(items) : QuietItem(items[i])
  BY <1>1
<1>3. QED
  BY <1>1, <1>2, LastJumpStep

LEMMA LogicRightJumps ==
    ASSUME Inv, JumpInv, LogicRight PROVE JumpInv' /\ Kept(code, code')
<1> DEFINE first == Gen(Node.right)
           last  == Item("logicEnd", Node, <<currentAddress>>, 0, 0)
           op    == IF Node.op = "And" THEN "JumpIfFalse" ELSE "JumpIfTrue"
<1>1. /\ work # <<>> /\ Top.task = "logicRight" /\ Then(<<first, last>>)
      /\ code' = Append(code, JumpTo(op)) /\ UNCHANGED <<loopStack, switchBreakStack>>
  BY DEF LogicRight, Running
<1>2. Node.right \in Exprs
  BY <1>1, TopOK, ExprsAssumption DEF ItemOK, Node, ExprClosed
<1>3. first.task \in FreshTasks /\ QuietItem(first)
  <2>1. first.task = "generate" /\ first.node = Node.right
    BY DEF Gen, Item
  <2>2. QED
    BY <1>2, <2>1 DEF FreshTasks, QuietItem, QuietNodes
<1>4. /\ QuietItem(last) /\ JumpsOf(last) = {currentAddress} /\ DistinctJumps(last)
      /\ last.task \notin LoopEnds
  <2>1. "logicEnd" \in JumpTasks
    BY DEF JumpTasks
  <2>2. JumpsOf(last) = {currentAddress} /\ DistinctJumps(last) /\ last.task = "logicEnd"
    BY <2>1, OneJump
  <2>3. QED
    BY <2>2 DEF QuietItem, LoopEnds
<1>5. Later(code, code', {}, {currentAddress})
  <2>1. op \in JumpOps
    BY DEF JumpOps
  <2>2. QED
    BY <1>1, <2>1, LaterJump
<1>6. JumpsOf(Top) = {}
  BY <1>1 DEF JumpsOf, JumpTasks
<1>7. Inv'
  BY LogicRightStep
<1> HIDE DEF first, last
<1>8. {} \subseteq JumpsOf(Top) /\ JumpsOf(last) = (JumpsOf(Top) \ {}) \cup {currentAddress}
  BY <1>4, <1>6
<1>9. QED
  BY <1>1, <1>3, <1>4, <1>5, <1>7, <1>8, PairJumpStep

LEMMA LogicEndJumps ==
    ASSUME Inv, JumpInv, LogicEnd PROVE JumpInv' /\ Kept(code, code')
<1> DEFINE number == IF Node.op = "And" THEN 0 ELSE 1
           skip   == With("Jump", currentAddress + 2)
           value  == With("PushBool", number)
           c      == Append(code, skip)
           d      == Append(c, value)
<1>1. /\ work # <<>> /\ Top.task = "logicEnd" /\ Then(<<>>)
      /\ code' = Patch(code \o <<skip, value>>, {Top.jumps[1]}, currentAddress + 1)
      /\ UNCHANGED <<loopStack, switchBreakStack>>
  BY DEF LogicEnd, Running
<1>2. code \in Seq(Instructions) /\ Len(code) \in Nat /\ currentAddress = Len(code)
  BY DEF Inv, TypeOK, currentAddress
<1>3. /\ JumpsOf(Top) = {Top.jumps[1]} /\ Top.jumps[1] \in Waiting(code)
  BY <1>1, TopPatched
<1>4. skip \in Instructions /\ Later(code, c, {}, {}) /\ Len(c) = Len(code) + 1
  <2>1. "Jump" \in Opcodes /\ currentAddress + 2 \in Int /\ currentAddress + 2 # Unpatched
    BY <1>2 DEF Opcodes, JumpOps, Unpatched
  <2>2. QED
    BY <1>2, <2>1, LaterPlain
<1>5. value \in Instructions /\ Later(c, d, {}, {}) /\ Len(d) = Len(code) + 2
  <2>1. "PushBool" \in Opcodes /\ "PushBool" \notin JumpOps /\ number \in Int
    BY DEF Opcodes, JumpOps
  <2>2. c \in Seq(Instructions)
    BY <1>4 DEF Later
  <2> HIDE DEF c, number
  <2>3. value \in Instructions /\ Later(c, d, {}, {}) /\ Len(d) = Len(c) + 1
    BY <2>1, <2>2, LaterPlain
  <2>4. QED
    BY <1>2, <1>4, <2>3
<1>6. code \o <<skip, value>> = d
  <2> HIDE DEF skip, value
  <2>1. QED
    BY <1>2, <1>4, <1>5
<1> HIDE DEF c, d, skip, value
<1>7. Later(code, d, {}, {})
  <2>1. Later(code, d, {} \cup {}, ({} \ {}) \cup {})
    BY <1>4, <1>5, LaterTwice
  <2>2. QED
    BY <2>1
<1>8. Later(code, code', JumpsOf(Top), {})
  <2>1. currentAddress + 1 \in 0 .. Len(d)
    BY <1>2, <1>5
  <2>2. QED
    BY <1>1, <1>3, <1>6, <1>7, <2>1, LaterPatched
<1>9. Inv'
  BY LogicEndStep
<1>10. QED
  BY <1>1, <1>8, <1>9, DoneStep

LEMMA If1Jumps ==
    ASSUME Inv, JumpInv, If1 PROVE JumpInv' /\ Kept(code, code')
<1> DEFINE first == Gen(Node.cond)
           last  == Item("then", Node, <<>>, 0, 0)
<1>1. /\ work # <<>> /\ Top.task = "generate" /\ Node.kind = "if" /\ Then(<<first, last>>)
      /\ code' = code /\ UNCHANGED <<loopStack, switchBreakStack>>
  BY DEF If1, Generating, Running
<1>2. ~QuietItem(Top) /\ JumpsOf(Top) = {}
  BY <1>1, NotQuiet
<1>3. first.task \in FreshTasks
  BY DEF Gen, Item, FreshTasks
<1>4. JumpsOf(last) = {} /\ DistinctJumps(last) /\ last.task \notin LoopEnds
  <2>1. "then" \notin JumpTasks /\ "then" \notin LoopEnds
    BY DEF JumpTasks, LoopEnds
  <2>2. QED
    BY <2>1, NoJumps
<1>5. Later(code, code', {}, {})
  BY <1>1, LaterSelf DEF Inv, TypeOK
<1>6. Inv'
  BY If1Step
<1> HIDE DEF first, last
<1>7. {} \subseteq JumpsOf(Top) /\ JumpsOf(last) = (JumpsOf(Top) \ {}) \cup {}
  BY <1>2, <1>4
<1>8. QED
  BY <1>1, <1>2, <1>3, <1>4, <1>5, <1>6, <1>7, PairJumpStep

LEMMA ThenBranchJumps ==
    ASSUME Inv, JumpInv, ThenBranch PROVE JumpInv' /\ Kept(code, code')
<1> DEFINE task  == IF Node.else # <<>> THEN "else" ELSE "endIf"
           first == Gen(Node.then)
           last  == Item(task, Node, <<currentAddress>>, 0, 0)
<1>1. /\ work # <<>> /\ Top.task = "then" /\ Then(<<first, last>>)
      /\ code' = Append(code, JumpTo("JumpIfFalse")) /\ UNCHANGED <<loopStack, switchBreakStack>>
  BY DEF ThenBranch, Running
<1>2. ~QuietItem(Top) /\ JumpsOf(Top) = {}
  BY <1>1 DEF QuietItem, JumpsOf, JumpTasks
<1>3. first.task \in FreshTasks
  BY DEF Gen, Item, FreshTasks
<1>4. JumpsOf(last) = {currentAddress} /\ DistinctJumps(last) /\ last.task \notin LoopEnds
  <2>1. task \in JumpTasks /\ task \notin LoopEnds
    BY DEF JumpTasks, LoopEnds
  <2> HIDE DEF task
  <2>2. QED
    BY <2>1, OneJump
<1>5. Later(code, code', {}, {currentAddress})
  BY <1>1, LaterJump DEF JumpOps
<1>6. Inv'
  BY ThenBranchStep
<1> HIDE DEF first, last
<1>7. {} \subseteq JumpsOf(Top) /\ JumpsOf(last) = (JumpsOf(Top) \ {}) \cup {currentAddress}
  BY <1>2, <1>4
<1>8. QED
  BY <1>1, <1>2, <1>3, <1>4, <1>5, <1>6, <1>7, PairJumpStep

LEMMA ElseBranchJumps ==
    ASSUME Inv, JumpInv, ElseBranch PROVE JumpInv' /\ Kept(code, code')
<1> DEFINE first == Gen(Node.else[1])
           last  == Item("endIf", Node, <<currentAddress>>, 0, 0)
           c     == Append(code, JumpTo("Jump"))
<1>1. /\ work # <<>> /\ Top.task = "else" /\ Then(<<first, last>>)
      /\ code' = Patch(c, {Top.jumps[1]}, currentAddress + 1)
      /\ UNCHANGED <<loopStack, switchBreakStack>>
  BY DEF ElseBranch, Running
<1>2. ~QuietItem(Top)
  BY <1>1 DEF QuietItem
<1>3. /\ JumpsOf(Top) = {Top.jumps[1]} /\ Top.jumps[1] \in Waiting(code)
  BY <1>1, TopPatched
<1>4. first.task \in FreshTasks
  BY DEF Gen, Item, FreshTasks
<1>5. JumpsOf(last) = {currentAddress} /\ DistinctJumps(last) /\ last.task \notin LoopEnds
  <2>1. "endIf" \in JumpTasks /\ "endIf" \notin LoopEnds
    BY DEF JumpTasks, LoopEnds
  <2>2. QED
    BY <2>1, OneJump
<1>6. Later(code, c, {}, {currentAddress}) /\ Len(c) = Len(code) + 1 /\ Len(code) \in Nat
  BY <1>1, LaterJump DEF JumpOps, Inv, TypeOK
<1> HIDE DEF first, last, c
<1>7. Later(code, code', {Top.jumps[1]}, {currentAddress})
  <2>1. currentAddress + 1 \in 0 .. Len(c)
    BY <1>6 DEF currentAddress
  <2>2. QED
    BY <1>1, <1>3, <1>6, <2>1, LaterPatched
<1>8. Inv'
  BY ElseBranchStep
<1> DEFINE P == {Top.jumps[1]}
           N == {currentAddress}
<1>9. P \subseteq JumpsOf(Top) /\ JumpsOf(last) = (JumpsOf(Top) \ P) \cup N /\ Later(code, code', P, N)
  BY <1>3, <1>5, <1>7
<1> HIDE DEF P, N
<1>10. QED
  BY <1>1, <1>2, <1>4, <1>5, <1>8, <1>9, PairJumpStep

LEMMA EndIfJumps ==
    ASSUME Inv, JumpInv, EndIf PROVE JumpInv' /\ Kept(code, code')
<1>1. /\ work # <<>> /\ Top.task = "endIf" /\ Then(<<>>)
      /\ code' = Patch(code, {Top.jumps[1]}, currentAddress)
      /\ UNCHANGED <<loopStack, switchBreakStack>>
  BY DEF EndIf, Running
<1>2. /\ JumpsOf(Top) = {Top.jumps[1]} /\ Top.jumps[1] \in Waiting(code)
  BY <1>1, TopPatched
<1>3. code \in Seq(Instructions) /\ currentAddress \in 0 .. Len(code)
  BY DEF Inv, TypeOK, currentAddress
<1>4. Later(code, code', JumpsOf(Top), {})
  BY <1>1, <1>2, <1>3, LaterPatch
<1>5. Inv'
  BY EndIfStep
<1>6. QED
  BY <1>1, <1>4, <1>5, DoneStep

-----------------------------------------------------------------------------
(* Loops before their bodies, and the tests and cases of a switch.         *)

LEMMA SingleJumpStep ==
    ASSUME Inv, Inv', work # <<>>, JumpInv,
           NEW last, Then(<<last>>), last.task \notin LoopEnds, DistinctJumps(last), ~QuietItem(Top),
           NEW P, NEW N, Later(code, code', P, N), UNCHANGED <<loopStack, switchBreakStack>>,
           P \subseteq JumpsOf(Top), JumpsOf(last) = (JumpsOf(Top) \ P) \cup N
    PROVE  JumpInv' /\ Kept(code, code')
<1> DEFINE items == <<last>>
<1>1. items \in Seq({last}) /\ EndsIn(items, last) /\ Then(items)
  BY SingleEnds
<1> HIDE DEF items
<1>2. QED
  BY <1>1, LastJumpStep

LEMMA FollowedStep ==
    ASSUME Inv, Inv', work # <<>>, JumpInv, NEW from, NEW to, NEW front \in Seq(Fresh(from, to)),
           NEW last, Then(front \o <<last>>),
           last.task \notin LoopEnds, DistinctJumps(last), ~QuietItem(Top),
           NEW P, NEW N, Later(code, code', P, N), UNCHANGED <<loopStack, switchBreakStack>>,
           P \subseteq JumpsOf(Top), JumpsOf(last) = (JumpsOf(Top) \ P) \cup N
    PROVE  JumpInv' /\ Kept(code, code')
<1> DEFINE items == front \o <<last>>
           S     == Fresh(from, to) \cup {last}
<1>1. items \in Seq(S) /\ EndsIn(items, last) /\ Then(items)
  BY FollowedEnds
<1> HIDE DEF items, S
<1>2. QED
  BY <1>1, LastJumpStep

LEMMA While1Jumps ==
    ASSUME Inv, JumpInv, While1 PROVE JumpInv' /\ Kept(code, code')
<1> DEFINE first == Gen(Node.cond)
           last  == Item("whileBody", Node, <<>>, currentAddress, 0)
<1>1. /\ work # <<>> /\ Top.task = "generate" /\ Node.kind = "while" /\ Then(<<first, last>>)
      /\ code' = code /\ UNCHANGED <<loopStack, switchBreakStack>>
  BY DEF While1, Generating, Running
<1>2. ~QuietItem(Top) /\ JumpsOf(Top) = {}
  BY <1>1, NotQuiet
<1>3. first.task \in FreshTasks
  BY DEF Gen, Item, FreshTasks
<1>4. JumpsOf(last) = {} /\ DistinctJumps(last) /\ last.task \notin LoopEnds
  <2>1. "whileBody" \notin JumpTasks /\ "whileBody" \notin LoopEnds
    BY DEF JumpTasks, LoopEnds
  <2>2. QED
    BY <2>1, NoJumps
<1>5. Later(code, code', {}, {})
  BY <1>1, LaterSelf DEF Inv, TypeOK
<1>6. Inv'
  BY While1Step
<1> HIDE DEF first, last
<1>7. {} \subseteq JumpsOf(Top) /\ JumpsOf(last) = (JumpsOf(Top) \ {}) \cup {}
  BY <1>2, <1>4
<1>8. QED
  BY <1>1, <1>2, <1>3, <1>4, <1>5, <1>6, <1>7, PairJumpStep

LEMMA For1Jumps ==
    ASSUME Inv, JumpInv, For1 PROVE JumpInv' /\ Kept(code, code')
<1> DEFINE front == GenAll(Node.init)
           last  == Item("forCond", Node, <<>>, 0, 0)
<1>1. /\ work # <<>> /\ Top.task = "generate" /\ Node.kind = "for" /\ Then(front \o <<last>>)
      /\ code' = code /\ UNCHANGED <<loopStack, switchBreakStack>>
  BY DEF For1, Generating, Running
<1>2. ~QuietItem(Top) /\ JumpsOf(Top) = {} /\ Node \in Stmts
  BY <1>1, NotQuiet
<1>3. front \in Seq(Fresh(Begin, Len(code)))
  <2>1. Node.init \in Seq({x \in Stmts : x.kind \in Assignments \cup {"varDecl"}})
    BY <1>1, <1>2, StmtsAssumption DEF StmtClosed
  <2>2. Begin \in Nat /\ Len(code) \in Nat
    BY <1>1, TopOK
  <2>3. QED
    BY <2>1, <2>2, GenAllOK
<1>4. JumpsOf(last) = {} /\ DistinctJumps(last) /\ last.task \notin LoopEnds
  <2>1. "forCond" \notin JumpTasks /\ "forCond" \notin LoopEnds
    BY DEF JumpTasks, LoopEnds
  <2>2. QED
    BY <2>1, NoJumps
<1>5. Later(code, code', {}, {})
  BY <1>1, LaterSelf DEF Inv, TypeOK
<1>6. Inv'
  BY For1Step
<1> HIDE DEF front, last
<1>7. {} \subseteq JumpsOf(Top) /\ JumpsOf(last) = (JumpsOf(Top) \ {}) \cup {}
  BY <1>2, <1>4
<1>8. QED
  BY <1>1, <1>2, <1>3, <1>4, <1>5, <1>6, <1>7, FollowedStep

LEMMA ForCondJumps ==
    ASSUME Inv, JumpInv, ForCond PROVE JumpInv' /\ Kept(code, code')
<1> DEFINE first == Gen(Node.cond)
           last  == Item("forBody", Node, <<>>, currentAddress, 0)
<1>1. /\ work # <<>> /\ Top.task = "forCond" /\ Then(<<first, last>>)
      /\ code' = code /\ UNCHANGED <<loopStack, switchBreakStack>>
  BY DEF ForCond, Running
<1>2. ~QuietItem(Top) /\ JumpsOf(Top) = {}
  BY <1>1 DEF QuietItem, JumpsOf, JumpTasks
<1>3. first.task \in FreshTasks
  BY DEF Gen, Item, FreshTasks
<1>4. JumpsOf(last) = {} /\ DistinctJumps(last) /\ last.task \notin LoopEnds
  <2>1. "forBody" \notin JumpTasks /\ "forBody" \notin LoopEnds
    BY DEF JumpTasks, LoopEnds
  <2>2. QED
    BY <2>1, NoJumps
<1>5. Later(code, code', {}, {})
  BY <1>1, LaterSelf DEF Inv, TypeOK
<1>6. Inv'
  BY ForCondStep
<1> HIDE DEF first, last
<1>7. {} \subseteq JumpsOf(Top) /\ JumpsOf(last) = (JumpsOf(Top) \ {}) \cup {}
  BY <1>2, <1>4
<1>8. QED
  BY <1>1, <1>2, <1>3, <1>4, <1>5, <1>6, <1>7, PairJumpStep

LEMMA Switch1Jumps ==
    ASSUME Inv, JumpInv, Switch1 PROVE JumpInv' /\ Kept(code, code')
<1> DEFINE last == Item("caseTest", Node, <<>>, 0, 1)
<1>1. /\ work # <<>> /\ Top.task = "generate" /\ Node.kind = "switch" /\ Then(<<last>>)
      /\ code' = code /\ UNCHANGED <<loopStack, switchBreakStack>>
  BY DEF Switch1, Generating, Running
<1>2. ~QuietItem(Top) /\ JumpsOf(Top) = {}
  BY <1>1, NotQuiet
<1>3. JumpsOf(last) = {} /\ DistinctJumps(last) /\ last.task \notin LoopEnds
  <2>1. last.task = "caseTest" /\ DOMAIN last.jumps = {}
    BY DEF Item
  <2> HIDE DEF last
  <2>2. QED
    BY <2>1 DEF JumpsOf, DistinctJumps, LoopEnds
<1>4. Later(code, code', {}, {})
  BY <1>1, LaterSelf DEF Inv, TypeOK
<1>5. Inv'
  BY Switch1Step
<1> HIDE DEF last
<1>6. {} \subseteq JumpsOf(Top) /\ JumpsOf(last) = (JumpsOf(Top) \ {}) \cup {}
  BY <1>2, <1>3
<1>7. QED
  BY <1>1, <1>2, <1>3, <1>4, <1>5, <1>6, SingleJumpStep

Differing(s) == \A i, j \in 1 .. Len(s) : i # j => s[i] # s[j]
Values(s)    == {s[i] : i \in 1 .. Len(s)}

\* The jumps of a switch are passed on from one of its activations to the next.
LEMMA PassedOn ==
    ASSUME Inv, JumpInv, work # <<>>, Top.task \in {"caseTest", "caseJump", "caseBody"}
    PROVE  /\ Differing(Top.jumps)
           /\ Top.jumps \in Seq(0 .. Len(code) - 1)
           /\ JumpsOf(Top) = Values(Top.jumps)
           /\ JumpsOf(Top) \subseteq Waiting(code)
           /\ JumpsOf(Top) \subseteq 0 .. Len(code) - 1
           /\ ~QuietItem(Top)
<1>1. Top.task \in JumpTasks /\ ~QuietItem(Top)
  BY DEF JumpTasks, QuietItem
<1>2. Top.jumps \in Seq(Begin .. Len(code) - 1) /\ Begin \in Nat /\ Len(code) \in Nat
  BY TopOK
<1>3. DistinctJumps(Top)
  <2>1. Len(work) \in DOMAIN work
    BY InvFacts
  <2>2. QED
    BY <2>1 DEF JumpInv, RememberedOnce, Top
<1> DEFINE jumps == Top.jumps
<1>4. jumps \in Seq(0 .. Len(code) - 1)
  <2>1. Begin .. Len(code) - 1 \subseteq 0 .. Len(code) - 1
    BY <1>2
  <2>2. QED
    BY <1>2, <2>1, SeqMonotonic
<1>5. JumpsOf(Top) = {jumps[i] : i \in DOMAIN jumps}
      /\ \A i, j \in DOMAIN jumps : i # j => jumps[i] # jumps[j]
  BY <1>1, <1>3 DEF JumpsOf, DistinctJumps
<1> HIDE DEF jumps
<1>6. DOMAIN jumps = 1 .. Len(jumps)
  BY <1>4
<1>7. JumpsOf(Top) \subseteq Waiting(code) /\ Waiting(code) \subseteq 0 .. Len(code) - 1
  BY HeldWaits
<1>8. QED
  BY <1>1, <1>4, <1>5, <1>6, <1>7 DEF jumps, Differing, Values

LEMMA SequenceOfJumps ==
    ASSUME NEW task \in JumpTasks, NEW node, NEW jumps, NEW target, NEW index,
           DOMAIN jumps = 1 .. Len(jumps), Differing(jumps)
    PROVE  /\ JumpsOf(Item(task, node, jumps, target, index)) = Values(jumps)
           /\ DistinctJumps(Item(task, node, jumps, target, index))
           /\ Item(task, node, jumps, target, index).task = task
<1> DEFINE it == Item(task, node, jumps, target, index)
<1>1. it.task = task /\ it.jumps = jumps /\ DOMAIN jumps = 1 .. Len(jumps)
  BY DEF Item
<1> HIDE DEF it
<1>2. QED
  BY <1>1 DEF JumpsOf, DistinctJumps, it, Differing, Values

LEMMA OneJumpMore ==
    ASSUME NEW S, NEW jumps \in Seq(S), NEW jump, jump \notin Values(jumps),
           Differing(jumps)
    PROVE  LET more == Append(jumps, jump)
           IN  /\ more \in Seq(S \cup {jump})
               /\ Differing(more)
               /\ Values(more) = Values(jumps) \cup {jump}
<1> DEFINE more == Append(jumps, jump)
           n    == Len(jumps)
<1>1. jumps \in Seq(S \cup {jump})
  BY SeqMonotonic
<1>2. /\ more \in Seq(S \cup {jump}) /\ n \in Nat /\ Len(more) = n + 1
      /\ \A i \in 1 .. n : more[i] = jumps[i]
      /\ more[n + 1] = jump
  BY <1>1
<1> HIDE DEF more, n
<1>3. \A i \in 1 .. Len(more) : i \in 1 .. n \/ i = n + 1
  BY <1>2
<1>4. \A i \in 1 .. n : i \in 1 .. Len(more) /\ i # n + 1
  BY <1>2
<1>5. n + 1 \in 1 .. Len(more)
  BY <1>2
<1>6. Differing(more)
  <2>1. \A i, j \in 1 .. n : i # j => jumps[i] # jumps[j]
    BY DEF Differing, n
  <2>2. SUFFICES ASSUME NEW i \in 1 .. Len(more), NEW j \in 1 .. Len(more), i # j
                 PROVE  more[i] # more[j]
    BY DEF Differing
  <2>3. CASE i \in 1 .. n /\ j \in 1 .. n
    BY <1>2, <2>1, <2>2, <2>3
  <2>4. CASE i = n + 1 /\ j \in 1 .. n
    BY <1>2, <2>4 DEF n, Values
  <2>5. CASE j = n + 1 /\ i \in 1 .. n
    BY <1>2, <2>5 DEF n, Values
  <2>6. QED
    BY <1>3, <2>2, <2>3, <2>4, <2>5
<1>7. Values(more) = Values(jumps) \cup {jump}
  BY <1>2, <1>3, <1>4, <1>5 DEF n, Values
<1>8. QED
  BY <1>2, <1>6, <1>7 DEF more

LEMMA OneJumpLess ==
    ASSUME NEW S, NEW jumps \in Seq(S), Len(jumps) # 0,
           Differing(jumps)
    PROVE  LET less == Tail(jumps)
           IN  /\ less \in Seq(S)
               /\ Differing(less)
               /\ Values(less) = Values(jumps) \ {jumps[1]}
               /\ jumps[1] \in Values(jumps)
<1> DEFINE less == Tail(jumps)
           n    == Len(jumps)
<1>1. jumps # <<>> /\ n \in Nat \ {0}
  OBVIOUS
<1>2. /\ less \in Seq(S) /\ Len(less) = n - 1
      /\ \A i \in 1 .. n - 1 : less[i] = jumps[i + 1]
  BY <1>1
<1> HIDE DEF less, n
<1>3. \A i \in 1 .. n - 1 : i + 1 \in 1 .. n /\ i + 1 # 1
  BY <1>1
<1>4. \A i \in 1 .. n : i = 1 \/ (i - 1 \in 1 .. n - 1 /\ (i - 1) + 1 = i)
  BY <1>1
<1>5. 1 \in 1 .. n
  BY <1>1
<1>6. Differing(less)
  <2>1. \A i, j \in 1 .. n - 1 : i # j => i + 1 # j + 1
    BY <1>1
  <2>2. QED
    BY <1>2, <1>3, <2>1 DEF n, Differing
<1>7. Values(less) = Values(jumps) \ {jumps[1]}
  <2> DEFINE all   == {jumps[i] : i \in 1 .. n}
             fewer == {less[i] : i \in 1 .. n - 1}
  <2>1. \A i \in 1 .. n - 1 : less[i] \in all \ {jumps[1]}
    <3>1. \A i \in 2 .. n : jumps[i] # jumps[1]
      BY <1>1, <1>5 DEF Differing, n
    <3>2. QED
      BY <1>1, <1>2, <1>3, <3>1
  <2>2. \A i \in 1 .. n : jumps[i] # jumps[1] => jumps[i] \in fewer
    <3>1. \A i \in 1 .. n : i = 1 \/ (i - 1 \in 1 .. n - 1 /\ less[i - 1] = jumps[i])
      BY <1>2, <1>4
    <3>2. QED
      BY <3>1
  <2>3. fewer = all \ {jumps[1]}
    BY <2>1, <2>2
  <2>4. QED
    BY <1>2, <2>3 DEF n, Values
<1>8. QED
  BY <1>2, <1>5, <1>6, <1>7 DEF less, n, Values

LEMMA CaseTestJumps ==
    ASSUME Inv, JumpInv, CaseTest PROVE JumpInv' /\ Kept(code, code')
<1> DEFINE first == Gen(Node.expr)
           last  == Item("caseJump", Node, Top.jumps, 0, Top.index)
<1>1. /\ work # <<>> /\ Top.task = "caseTest" /\ Then(<<first, last>>)
      /\ code' = code /\ UNCHANGED <<loopStack, switchBreakStack>>
  BY DEF CaseTest, Running
<1>2. /\ Differing(Top.jumps)
      /\ Top.jumps \in Seq(0 .. Len(code) - 1)
      /\ JumpsOf(Top) = Values(Top.jumps)
      /\ ~QuietItem(Top)
  BY <1>1, PassedOn
<1>3. first.task \in FreshTasks
  BY DEF Gen, Item, FreshTasks
<1>4. JumpsOf(last) = JumpsOf(Top) /\ DistinctJumps(last) /\ last.task \notin LoopEnds
  <2>1. "caseJump" \in JumpTasks /\ "caseJump" \notin LoopEnds
    BY DEF JumpTasks, LoopEnds
  <2> DEFINE S     == 0 .. Len(code) - 1
             jumps == Top.jumps
             index == Top.index
  <2>2. /\ jumps \in Seq(S) /\ Differing(jumps)
    BY <1>2
  <2> HIDE DEF S, jumps, index
  <2>3. /\ JumpsOf(last) = Values(jumps) /\ DistinctJumps(last)
        /\ last.task = "caseJump"
    <3>1. DOMAIN jumps = 1 .. Len(jumps)
      BY <2>2
    <3>2. QED
      BY <2>1, <2>2, <3>1, SequenceOfJumps DEF jumps, index
  <2>4. QED
    BY <1>2, <2>1, <2>3 DEF jumps
<1>5. Later(code, code', {}, {})
  BY <1>1, LaterSelf DEF Inv, TypeOK
<1>6. Inv'
  BY CaseTestStep
<1> HIDE DEF first, last
<1>7. {} \subseteq JumpsOf(Top) /\ JumpsOf(last) = (JumpsOf(Top) \ {}) \cup {}
  BY <1>4
<1>8. QED
  BY <1>1, <1>2, <1>3, <1>4, <1>5, <1>6, <1>7, PairJumpStep

LEMMA CaseJumpJumps ==
    ASSUME Inv, JumpInv, CaseJump PROVE JumpInv' /\ Kept(code, code')
<1> DEFINE value == With("PushInt", Node.cases[Top.index].value)
           equal == Plain("Equal")
           test  == JumpTo("JumpIfTrue")
           c     == Append(code, value)
           d     == Append(c, equal)
           e     == Append(d, test)
           jump  == currentAddress + 2
           more  == Append(Top.jumps, jump)
           index == Top.index + 1
           last  == Item("caseTest", Node, more, 0, index)
<1>1. /\ work # <<>> /\ Top.task = "caseJump" /\ Then(<<last>>)
      /\ code' = code \o <<value, equal, test>> /\ UNCHANGED <<loopStack, switchBreakStack>>
  BY DEF CaseJump, Running
<1>2. /\ Differing(Top.jumps)
      /\ Top.jumps \in Seq(0 .. Len(code) - 1)
      /\ JumpsOf(Top) = Values(Top.jumps)
      /\ JumpsOf(Top) \subseteq 0 .. Len(code) - 1
      /\ ~QuietItem(Top)
  BY <1>1, PassedOn
<1>3. code \in Seq(Instructions) /\ Len(code) \in Nat /\ currentAddress = Len(code)
  BY DEF Inv, TypeOK, currentAddress
<1>4. Node.cases[Top.index].value \in Int
  BY <1>1, TopOK, SwitchNode DEF ItemOK, Node
<1>5. value \in Instructions /\ Later(code, c, {}, {}) /\ Len(c) = Len(code) + 1
  <2>1. "PushInt" \in Opcodes /\ "PushInt" \notin JumpOps
    BY DEF Opcodes, JumpOps
  <2>2. QED
    BY <1>3, <1>4, <2>1, LaterPlain
<1>6. equal \in Instructions /\ Later(c, d, {}, {}) /\ Len(d) = Len(code) + 2
  <2>1. "Equal" \in Opcodes /\ "Equal" \notin JumpOps /\ 0 \in Int /\ equal = With("Equal", 0)
    BY DEF Opcodes, ArithmeticOps, JumpOps, Plain, With
  <2>2. c \in Seq(Instructions)
    BY <1>5 DEF Later
  <2> HIDE DEF c, equal
  <2>3. equal \in Instructions /\ Later(c, d, {}, {}) /\ Len(d) = Len(c) + 1
    BY <2>1, <2>2, LaterPlain
  <2>4. QED
    BY <1>3, <1>5, <2>3
<1>7. test \in Instructions /\ Waits(test)
  <2>1. <<>> \in Seq(Nat)
    OBVIOUS
  <2>2. QED
    BY <2>1 DEF JumpTo, With, Instruction, Instructions, Opcodes, Waits, IsJump, JumpOps, Unpatched
<1>8. Later(d, e, {}, {jump}) /\ Len(e) = Len(code) + 3
  <2>1. d \in Seq(Instructions)
    BY <1>6 DEF Later
  <2> HIDE DEF d, test
  <2>2. Later(d, e, {}, {Len(d)}) /\ Len(e) = Len(d) + 1
    BY <1>7, <2>1, LaterAppend
  <2>3. QED
    BY <1>3, <1>6, <2>2
<1>9. code' = e
  <2> HIDE DEF value, equal, test
  <2>1. QED
    BY <1>1, <1>3, <1>5, <1>6, <1>7
<1> HIDE DEF value, equal, test, c, d, e
<1>10. Later(code, code', {}, {jump})
  <2>1. Later(code, d, {} \cup {}, ({} \ {}) \cup {})
    BY <1>5, <1>6, LaterTwice
  <2>2. Later(code, d, {}, {})
    BY <2>1
  <2>3. Later(code, e, {} \cup {}, ({} \ {}) \cup {jump})
    BY <1>8, <2>2, LaterTwice
  <2>4. QED
    BY <1>9, <2>3
<1>11. jump \notin Values(Top.jumps)
  BY <1>2, <1>3
<1> HIDE DEF jump, index
<1>12. JumpsOf(last) = JumpsOf(Top) \cup {jump} /\ DistinctJumps(last) /\ last.task \notin LoopEnds
  <2>1. "caseTest" \in JumpTasks /\ "caseTest" \notin LoopEnds
    BY DEF JumpTasks, LoopEnds
  <2> DEFINE S == 0 .. Len(code) - 1
             jumps == Top.jumps
  <2>2. /\ jumps \in Seq(S) /\ jump \notin Values(jumps)
        /\ Differing(jumps)
        /\ more = Append(jumps, jump)
    BY <1>2, <1>11
  <2> HIDE DEF S, jumps, more
  <2>3. /\ more \in Seq(S \cup {jump})
        /\ Differing(more)
        /\ Values(more) = Values(jumps) \cup {jump}
    BY <2>2, OneJumpMore
  <2>4. /\ JumpsOf(last) = Values(more) /\ DistinctJumps(last)
        /\ last.task = "caseTest"
    <3>1. DOMAIN more = 1 .. Len(more)
      BY <2>3
    <3>2. QED
      BY <2>1, <2>3, <3>1, SequenceOfJumps
  <2>5. QED
    BY <1>2, <2>1, <2>3, <2>4 DEF jumps
<1>13. Inv'
  BY CaseJumpStep
<1> DEFINE P == {}
           N == {jump}
<1> HIDE DEF last, more
<1>14. /\ P \subseteq JumpsOf(Top) /\ JumpsOf(last) = (JumpsOf(Top) \ P) \cup N
       /\ Later(code, code', P, N)
  BY <1>10, <1>12
<1> HIDE DEF P, N
<1>15. QED
  BY <1>1, <1>2, <1>12, <1>13, <1>14, SingleJumpStep

\* The first of the jumps of a switch is patched.
LEMMA FirstGetsTarget ==
    ASSUME Inv, JumpInv, work # <<>>, Top.task = "caseBody",
           code' = Patch(code, {Top.jumps[1]}, currentAddress)
    PROVE  /\ Later(code, code', {Top.jumps[1]}, {})
           /\ Top.jumps[1] \in JumpsOf(Top)
           /\ Len(Top.jumps) # 0
<1>1. /\ Node.kind = "switch" /\ Node \in Stmts
      /\ Top.index \in 1 .. Len(Node.cases) + 1 /\ Len(Top.jumps) = Len(Node.cases) + 2 - Top.index
  BY TopOK DEF ItemOK, Node
<1>2. Len(Top.jumps) # 0
  BY <1>1, SwitchNode
<1>3. /\ JumpsOf(Top) = Values(Top.jumps)
      /\ JumpsOf(Top) \subseteq Waiting(code) /\ Top.jumps \in Seq(0 .. Len(code) - 1)
  BY PassedOn
<1>4. Top.jumps[1] \in JumpsOf(Top)
  <2>1. Len(Top.jumps) \in Nat
    BY <1>3
  <2>2. 1 \in 1 .. Len(Top.jumps)
    BY <1>2, <2>1
  <2>3. QED
    BY <1>3, <2>2 DEF Values
<1>5. code \in Seq(Instructions) /\ currentAddress \in 0 .. Len(code)
  BY DEF Inv, TypeOK, currentAddress
<1> DEFINE P == {Top.jumps[1]}
<1>6. P \subseteq Waiting(code) /\ code' = Patch(code, P, currentAddress)
  BY <1>3, <1>4
<1> HIDE DEF P
<1>7. Later(code, code', P, {})
  BY <1>5, <1>6, LaterPatch
<1>8. QED
  BY <1>2, <1>4, <1>7 DEF P

LEMMA CaseBodyJumps ==
    ASSUME Inv, JumpInv, CaseBody PROVE JumpInv' /\ Kept(code, code')
<1> DEFINE front == GenAll(Node.cases[Top.index].stmts)
           less  == Tail(Top.jumps)
           index == Top.index + 1
           last  == Item("caseBody", Node, less, 0, index)
           P     == {Top.jumps[1]}
<1>1. /\ work # <<>> /\ Top.task = "caseBody" /\ Then(front \o <<last>>)
      /\ Top.index <= Len(Node.cases)
      /\ code' = Patch(code, {Top.jumps[1]}, currentAddress)
      /\ UNCHANGED <<loopStack, switchBreakStack>>
  BY DEF CaseBody, Running
<1>2. /\ Differing(Top.jumps)
      /\ Top.jumps \in Seq(0 .. Len(code) - 1)
      /\ JumpsOf(Top) = Values(Top.jumps)
      /\ ~QuietItem(Top)
  BY <1>1, PassedOn
<1>3. /\ Later(code, code', P, {}) /\ P \subseteq JumpsOf(Top) /\ Len(Top.jumps) # 0
  BY <1>1, FirstGetsTarget
<1>4. front \in Seq(Fresh(Begin, Len(code)))
  <2>1. /\ Begin \in Nat /\ Len(code) \in Nat /\ Node \in Stmts /\ Node.kind = "switch"
        /\ Top.index \in 1 .. Len(Node.cases) + 1
    BY <1>1, TopOK DEF ItemOK, Node
  <2>2. Top.index \in 1 .. Len(Node.cases)
    BY <1>1, <2>1, SwitchNode
  <2>3. Node.cases[Top.index].stmts \in Seq(Stmts)
    BY <2>1, <2>2, SwitchNode
  <2>4. QED
    BY <2>1, <2>3, GenAllOK
<1>5. JumpsOf(last) = JumpsOf(Top) \ P /\ DistinctJumps(last) /\ last.task \notin LoopEnds
  <2>1. "caseBody" \in JumpTasks /\ "caseBody" \notin LoopEnds
    BY DEF JumpTasks, LoopEnds
  <2> DEFINE S == 0 .. Len(code) - 1
             jumps == Top.jumps
  <2>2. /\ jumps \in Seq(S) /\ Len(jumps) # 0
        /\ Differing(jumps)
        /\ less = Tail(jumps) /\ P = {jumps[1]}
    BY <1>2, <1>3
  <2> HIDE DEF S, jumps, less
  <2>3. /\ less \in Seq(S)
        /\ Differing(less)
        /\ Values(less) = Values(jumps) \ {jumps[1]}
    BY <2>2, OneJumpLess
  <2> HIDE DEF index
  <2>4. /\ JumpsOf(last) = Values(less) /\ DistinctJumps(last)
        /\ last.task = "caseBody"
    <3>1. DOMAIN less = 1 .. Len(less)
      BY <2>3
    <3>2. QED
      BY <2>1, <2>3, <3>1, SequenceOfJumps
  <2>5. QED
    BY <1>2, <2>1, <2>2, <2>3, <2>4 DEF jumps
<1>6. Inv'
  BY CaseBodyStep
<1> HIDE DEF front, less, index, last, P
<1>7. JumpsOf(last) = (JumpsOf(Top) \ P) \cup {}
  BY <1>5
<1>8. QED
  BY <1>1, <1>2, <1>3, <1>4, <1>5, <1>6, <1>7, FollowedStep

LEMMA DefaultBodyJumps ==
    ASSUME Inv, JumpInv, DefaultBody PROVE JumpInv' /\ Kept(code, code')
<1> DEFINE front == GenAll(Node.default)
           last  == Item("switchEnd", Node, <<>>, 0, 0)
           P     == {Top.jumps[1]}
<1>1. /\ work # <<>> /\ Top.task = "caseBody" /\ Then(front \o <<last>>)
      /\ Top.index > Len(Node.cases)
      /\ code' = Patch(code, {Top.jumps[1]}, currentAddress)
      /\ UNCHANGED <<loopStack, switchBreakStack>>
  BY DEF DefaultBody, Running
<1>2. /\ JumpsOf(Top) = Values(Top.jumps)
      /\ ~QuietItem(Top)
  BY <1>1, PassedOn
<1>3. Later(code, code', P, {}) /\ P \subseteq JumpsOf(Top)
  BY <1>1, FirstGetsTarget
<1>4. /\ Begin \in Nat /\ Len(code) \in Nat /\ Node \in Stmts /\ Node.kind = "switch"
      /\ Top.index \in 1 .. Len(Node.cases) + 1 /\ Len(Top.jumps) = Len(Node.cases) + 2 - Top.index
  BY <1>1, TopOK DEF ItemOK, Node
<1>5. JumpsOf(Top) = P
  <2>1. Len(Top.jumps) = 1
    BY <1>1, <1>4, SwitchNode
  <2>2. QED
    BY <1>2, <2>1 DEF Values
<1>6. front \in Seq(Fresh(Begin, Len(code)))
  BY <1>4, SwitchNode, GenAllOK
<1>7. JumpsOf(last) = {} /\ DistinctJumps(last) /\ last.task \notin LoopEnds
  <2>1. "switchEnd" \notin JumpTasks /\ "switchEnd" \notin LoopEnds
    BY DEF JumpTasks, LoopEnds
  <2>2. QED
    BY <2>1, NoJumps
<1>8. Inv'
  BY DefaultBodyStep
<1> HIDE DEF front, last, P
<1>9. JumpsOf(last) = (JumpsOf(Top) \ P) \cup {}
  BY <1>5, <1>7
<1>10. QED
  BY <1>1, <1>2, <1>3, <1>6, <1>7, <1>8, <1>9, FollowedStep

LEMMA FailJumps ==
    ASSUME Inv, JumpInv, Fail PROVE JumpInv' /\ Kept(code, code')
<1>1. /\ work # <<>> /\ Top.task \in {"generate", "noDefault"} /\ Then(<<>>)
      /\ code' = code /\ UNCHANGED <<loopStack, switchBreakStack>>
  BY DEF Fail, Misplaced, Generating, Running
<1>2. JumpsOf(Top) = {}
  BY <1>1 DEF JumpsOf, JumpTasks
<1>3. Later(code, code', JumpsOf(Top), {})
  BY <1>1, <1>2, LaterSelf DEF Inv, TypeOK
<1>4. Inv'
  BY FailStep
<1>5. QED
  BY <1>1, <1>3, <1>4, DoneStep

-----------------------------------------------------------------------------
(* The steps that touch a loop.                                            *)

LEMMA PushedAt ==
    ASSUME NEW S, NEW s \in Seq(S), NEW x, NEW t, t = Append(s, x)
    PROVE  /\ Len(s) \in Nat /\ Len(t) = Len(s) + 1 /\ t[Len(t)] = x
           /\ Len(s) + 1 \notin DOMAIN s /\ Len(s) + 1 \in DOMAIN t /\ t[Len(s) + 1] = x
           /\ \A i \in Nat \ {Len(s) + 1} :
                  (i \in DOMAIN t <=> i \in DOMAIN s) /\ (i \in DOMAIN s => t[i] = s[i])
<1> DEFINE n == Len(s)
<1>1. x \in S \cup {x} /\ s \in Seq(S \cup {x})
  BY SeqMonotonic
<1>2. /\ n \in Nat /\ Len(t) = n + 1 /\ t[n + 1] = x /\ \A i \in 1 .. n : t[i] = s[i]
      /\ DOMAIN s = 1 .. n /\ DOMAIN t = 1 .. n + 1
  BY <1>1
<1> HIDE DEF n
<1>3. \A i \in Nat \ {n + 1} : i \in 1 .. n + 1 <=> i \in 1 .. n
  BY <1>2
<1>4. n + 1 \notin 1 .. n /\ n + 1 \in 1 .. n + 1
  BY <1>2
<1>5. QED
  BY <1>2, <1>3, <1>4 DEF n

LEMMA PoppedAt ==
    ASSUME NEW S, NEW s \in Seq(S), Len(s) # 0, NEW t, t = SubSeq(s, 1, Len(s) - 1)
    PROVE  /\ Len(s) \in Nat \ {0} /\ Len(s) \in DOMAIN s /\ Len(s) \notin DOMAIN t
           /\ \A i \in Nat \ {Len(s)} :
                  (i \in DOMAIN t <=> i \in DOMAIN s) /\ (i \in DOMAIN s => t[i] = s[i])
<1> DEFINE n == Len(s)
<1>1. n \in Nat \ {0} /\ DOMAIN s = 1 .. n /\ n - 1 \in 0 .. n
  OBVIOUS
<1> HIDE DEF n
<1>2. t = SubSeq(s, 1, n - 1)
  BY DEF n
<1>3. /\ Len(t) = n - 1 /\ DOMAIN t = 1 .. n - 1
      /\ \A i \in 1 .. n - 1 : t[i] = s[i]
  BY <1>1, <1>2, PrefixProperties DEF n
<1> HIDE DEF n
<1>4. /\ n \in 1 .. n /\ n \notin 1 .. n - 1
      /\ \A i \in Nat \ {n} : i \in 1 .. n <=> i \in 1 .. n - 1
  BY <1>1
<1>5. QED
  BY <1>1, <1>3, <1>4 DEF n

LEMMA ChangedAt ==
    ASSUME NEW S, NEW s \in Seq(S), Len(s) # 0, NEW x, NEW t, t = [s EXCEPT ![Len(s)] = x]
    PROVE  /\ Len(s) \in Nat \ {0} /\ Len(s) \in DOMAIN s /\ DOMAIN t = DOMAIN s
           /\ t[Len(s)] = x
           /\ \A i \in DOMAIN s \ {Len(s)} : t[i] = s[i]
<1>1. Len(s) \in Nat \ {0} /\ Len(s) \in DOMAIN s
  OBVIOUS
<1>2. QED
  BY <1>1

\* What may be started: at most the last activation remembers jumps, each of
\* them once, and an update stays an update.
WellStarted(items) ==
    /\ \A i \in 1 .. Len(items) - 1 : items[i].task \notin JumpTasks
    /\ items # <<>> => DistinctJumps(items[Len(items)])
    /\ QuietItem(Top) => \A i \in 1 .. Len(items) : QuietItem(items[i])
    /\ LastIn(items, {"forEnd"}) => \A i \in 1 .. Len(items) - 1 : QuietItem(items[i])

\* What a loop still has to patch changes as Held asks for.
LoopTurns(old, new, own, P, N) ==
    /\ new.breakJumps = (old.breakJumps \ P) \cup Given(own = "break", N)
    /\ new.continueJumps \cap Waiting(code')
         = ((old.continueJumps \cap Waiting(code)) \ P) \cup Given(own = "continue", N)

LEMMA LoopJumpStep ==
    ASSUME Inv, Inv', work # <<>>, JumpInv,
           NEW S, NEW items \in Seq(S), Then(items), WellStarted(items),
           NEW P, NEW N, Later(code, code', P, N), UNCHANGED switchBreakStack,
           NEW own \in Kinds \ {"exit"}, NEW l \in Nat,
           \A i \in Nat \ {l} : LoopAt(i)' = LoopAt(i),
           P \subseteq JumpsOf(Top) \cup LoopAt(l).breakJumps
                         \cup (LoopAt(l).continueJumps \cap Waiting(code)),
           LastJumps(items) = (JumpsOf(Top) \ P) \cup Given(own = "jump", N),
           LoopTurns(LoopAt(l), LoopAt(l)', own, P, N),
           \A p \in Pending(work, LoopEnds) :
               p < Len(work) /\ LoopOf(p) = l => Served(work[p].task, LoopAt(l)', Waiting(code')),
           LastIn(items, LoopEnds) =>
               Served(items[Len(items)].task, loopStack'[Len(loopStack')], Waiting(code'))
    PROVE  JumpInv' /\ Kept(code, code')
<1>1. /\ 0 \in Nat /\ own \in Kinds
      /\ \A i \in Nat \ {0} : ExitsAt(i)' = ExitsAt(i)
  BY DEF ExitsAt
<1>2. ExitsAt(0) = {} /\ ExitsAt(0)' = {}
  <2>1. 0 \notin DOMAIN switchBreakStack /\ 0 \notin DOMAIN switchBreakStack'
    BY NothingAtZero
  <2>2. QED
    BY <2>1 DEF ExitsAt
<1>3. /\ ExitsAt(0)' = (ExitsAt(0) \ P) \cup Given(own = "exit", N)
      /\ P \subseteq JumpsOf(Top) \cup LoopAt(l).breakJumps
                       \cup (LoopAt(l).continueJumps \cap Waiting(code)) \cup ExitsAt(0)
  BY <1>2 DEF Given
<1>4. Owned(Held, Waiting(code)) /\ LoopsServed /\ QuietAbove /\ RememberedOnce
  BY DEF JumpInv
<1>5. \A i \in 1 .. Len(items) - 1 : items[i].task \notin JumpTasks
  BY DEF WellStarted
<1>6. Owned(Held', Waiting(code'))
  <2>1. /\ LoopAt(l)'.breakJumps = (LoopAt(l).breakJumps \ P) \cup Given(own = "break", N)
        /\ LoopAt(l)'.continueJumps \cap Waiting(code')
             = ((LoopAt(l).continueJumps \cap Waiting(code)) \ P) \cup Given(own = "continue", N)
    BY DEF LoopTurns
  <2>2. QED
    BY <1>1, <1>3, <1>4, <1>5, <2>1, HeldStep
<1>7. LoopsServed'
  BY <1>1, <1>3, <1>4, <1>5, ServedStep
<1>8. QuietAbove' /\ RememberedOnce'
  BY <1>4, QuietStep, RememberedStep DEF WellStarted
<1>9. QED
  BY <1>6, <1>7, <1>8 DEF JumpInv, Later

\* The loop that the activation on top will close is the innermost one.
LEMMA TopLoop ==
    ASSUME Inv, JumpInv, work # <<>>, Top.task \in LoopEnds
    PROVE  /\ Len(loopStack) \in Nat \ {0} /\ LoopAt(Len(loopStack)) = Loop
           /\ Loop \in Contexts(Begin, Len(code))
           /\ Served(Top.task, Loop, Waiting(code))
           /\ \A p \in Pending(work, LoopEnds) : p < Len(work) => LoopOf(p) # Len(loopStack)
<1>1. Len(loopStack) \in Nat \ {0} /\ Loop \in Contexts(Begin, Len(code))
  BY OpenContext
<1>2. DOMAIN loopStack = 1 .. Len(loopStack)
  BY DEF Inv, TypeOK
<1>3. Len(loopStack) \in DOMAIN loopStack
  BY <1>1, <1>2
<1>4. LoopAt(Len(loopStack)) = Loop
  BY <1>3 DEF LoopAt, Loop
<1>5. Len(work) \in Pending(work, LoopEnds) /\ work[Len(work)] = Top
  BY InvFacts DEF Pending, Top
<1>6. LoopOf(Len(work)) = Len(loopStack)
  BY <1>5, LoopOfProperties
<1>7. Served(Top.task, Loop, Waiting(code))
  BY <1>4, <1>5, <1>6 DEF JumpInv, LoopsServed
<1>8. \A p \in Pending(work, LoopEnds) : p < Len(work) => LoopOf(p) # Len(loopStack)
  <2>1. \A p \in Pending(work, LoopEnds) :
            p < Len(work) => LoopOf(p) < Len(loopStack) /\ LoopOf(p) \in 1 .. Len(loopStack)
    BY LoopOfProperties
  <2>2. \A i \in 1 .. Len(loopStack) : i < Len(loopStack) => i # Len(loopStack)
    BY <1>1
  <2>3. QED
    BY <2>1, <2>2
<1>9. QED
  BY <1>1, <1>4, <1>7, <1>8

\* A loop is opened for the activation that will close it.
LEMMA LoopOpens ==
    ASSUME Inv, Inv', work # <<>>, JumpInv, NEW target, NEW first, NEW last,
           Then(<<first, last>>), first.task \in FreshTasks, ~QuietItem(Top), JumpsOf(Top) = {},
           last.task \in {"whileEnd", "forUpdate"}, last.task = "whileEnd" => target # Unpatched,
           JumpsOf(last) = {currentAddress}, DistinctJumps(last),
           code' = Append(code, JumpTo("JumpIfFalse")),
           loopStack' = Append(loopStack, LoopContext(target)), UNCHANGED switchBreakStack
    PROVE  JumpInv' /\ Kept(code, code')
<1> DEFINE items == <<first, last>>
           loop  == LoopContext(target)
           P     == {}
           N     == {currentAddress}
<1>0. PICK l : l = Len(loopStack) + 1
  OBVIOUS
<1>1. /\ items \in Seq({first, last}) /\ EndsIn(items, last) /\ Then(items)
  BY PairEnds
<1> HIDE DEF items
<1>2. WellStarted(items) /\ items # <<>> /\ items[Len(items)] = last /\ LastJumps(items) = JumpsOf(last)
  <2>1. ~LastIn(items, {"forEnd"})
    BY <1>1, EndsInFacts
  <2>2. QED
    BY <1>1, <2>1, EndsInFacts DEF WellStarted
<1>3. /\ Len(loopStack) \in Nat /\ loopStack'[Len(loopStack')] = loop
      /\ l \notin DOMAIN loopStack /\ l \in DOMAIN loopStack' /\ loopStack'[l] = loop
      /\ \A i \in Nat \ {l} : /\ i \in DOMAIN loopStack' <=> i \in DOMAIN loopStack
                              /\ i \in DOMAIN loopStack => loopStack'[i] = loopStack[i]
  <2>1. loopStack \in Seq(Contexts(Begin, Len(code)))
    BY DEF Inv, TypeOK
  <2>2. QED
    BY <1>0, <2>1, PushedAt
<1>4. l \in Nat /\ \A p \in Pending(work, LoopEnds) : LoopOf(p) # l
  <2>1. \A i \in 1 .. Len(loopStack) : i # l
    BY <1>0, <1>3
  <2>2. QED
    BY <1>0, <1>3, <2>1, LoopOfProperties
<1> HIDE DEF loop
<1>5. /\ LoopAt(l) = LoopContext(Unpatched) /\ LoopAt(l)' = loop
      /\ \A i \in Nat \ {l} : LoopAt(i)' = LoopAt(i)
  BY <1>3, <1>4 DEF LoopAt
<1>6. loop.breakJumps = {} /\ loop.continueJumps = {} /\ loop.continueTarget = target
      /\ LoopAt(l).breakJumps = {} /\ LoopAt(l).continueJumps = {}
  BY <1>5 DEF loop, LoopContext
<1>7. Later(code, code', P, N)
  BY LaterJump DEF JumpOps
<1>8. "jump" \in Kinds \ {"exit"} /\ P \subseteq JumpsOf(Top) \cup LoopAt(l).breakJumps
                     \cup (LoopAt(l).continueJumps \cap Waiting(code))
      /\ LastJumps(items) = (JumpsOf(Top) \ P) \cup Given("jump" = "jump", N)
  BY <1>2 DEF Kinds, Given
<1>9. LoopTurns(LoopAt(l), LoopAt(l)', "jump", P, N)
  BY <1>5, <1>6 DEF LoopTurns, Given
<1>10. Served(items[Len(items)].task, loopStack'[Len(loopStack')], Waiting(code'))
  BY <1>2, <1>3, <1>6 DEF Served
<1> HIDE DEF P, N
<1>11. QED
  BY <1>1, <1>2, <1>4, <1>5, <1>7, <1>8, <1>9, <1>10, LoopJumpStep

LEMMA WhileBodyJumps ==
    ASSUME Inv, JumpInv, WhileBody PROVE JumpInv' /\ Kept(code, code')
<1> DEFINE first == Gen(Node.body)
           last  == Item("whileEnd", Node, <<currentAddress>>, Top.target, 0)
<1>1. /\ work # <<>> /\ Top.task = "whileBody" /\ Then(<<first, last>>)
      /\ code' = Append(code, JumpTo("JumpIfFalse"))
      /\ loopStack' = Append(loopStack, LoopContext(Top.target)) /\ UNCHANGED switchBreakStack
  BY DEF WhileBody, Running
<1>2. ~QuietItem(Top) /\ JumpsOf(Top) = {}
  BY <1>1 DEF QuietItem, JumpsOf, JumpTasks
<1>3. first.task \in FreshTasks
  BY DEF Gen, Item, FreshTasks
<1>4. JumpsOf(last) = {currentAddress} /\ DistinctJumps(last) /\ last.task = "whileEnd"
  <2>1. "whileEnd" \in JumpTasks
    BY DEF JumpTasks
  <2>2. QED
    BY <2>1, OneJump
<1>5. Top.target # Unpatched
  <2>1. Top.target \in Nat
    BY <1>1, TopOK DEF Activations
  <2>2. QED
    BY <2>1 DEF Unpatched
<1>6. Inv'
  BY WhileBodyStep
<1> HIDE DEF first, last
<1>7. QED
  BY <1>1, <1>2, <1>3, <1>4, <1>5, <1>6, LoopOpens

LEMMA ForBodyJumps ==
    ASSUME Inv, JumpInv, ForBody PROVE JumpInv' /\ Kept(code, code')
<1> DEFINE first == Gen(Node.body)
           last  == Item("forUpdate", Node, <<currentAddress>>, Top.target, 0)
<1>1. /\ work # <<>> /\ Top.task = "forBody" /\ Then(<<first, last>>)
      /\ code' = Append(code, JumpTo("JumpIfFalse"))
      /\ loopStack' = Append(loopStack, LoopContext(Unpatched)) /\ UNCHANGED switchBreakStack
  BY DEF ForBody, Running
<1>2. ~QuietItem(Top) /\ JumpsOf(Top) = {}
  BY <1>1 DEF QuietItem, JumpsOf, JumpTasks
<1>3. first.task \in FreshTasks
  BY DEF Gen, Item, FreshTasks
<1>4. JumpsOf(last) = {currentAddress} /\ DistinctJumps(last) /\ last.task = "forUpdate"
  <2>1. "forUpdate" \in JumpTasks
    BY DEF JumpTasks
  <2>2. QED
    BY <2>1, OneJump
<1>5. Inv'
  BY ForBodyStep
<1> HIDE DEF first, last
<1>6. QED
  BY <1>1, <1>2, <1>3, <1>4, <1>5, LoopOpens

\* A loop is closed: all that waited for its end has been patched.
LEMMA LoopCloses ==
    ASSUME Inv, Inv', work # <<>>, JumpInv, Top.task \in LoopEnds, Then(<<>>),
           NEW P, Later(code, code', P, {}),
           JumpsOf(Top) \subseteq P, Loop.breakJumps \subseteq P,
           Loop.continueJumps \cap Waiting(code) \subseteq P,
           P \subseteq JumpsOf(Top) \cup Loop.breakJumps \cup (Loop.continueJumps \cap Waiting(code)),
           loopStack' = SubSeq(loopStack, 1, Len(loopStack) - 1), UNCHANGED switchBreakStack
    PROVE  JumpInv' /\ Kept(code, code')
<1> DEFINE items == <<>>
           N     == {}
<1>1. /\ items \in Seq({}) /\ Then(items) /\ items = <<>>
      /\ 1 .. Len(items) = {} /\ 1 .. Len(items) - 1 = {}
  OBVIOUS
<1> HIDE DEF items
<1>2. /\ WellStarted(items) /\ LastJumps(items) = {} /\ ~LastIn(items, LoopEnds)
  BY <1>1 DEF WellStarted, LastJumps, LastIn
<1>3. PICK l \in Nat : l = Len(loopStack)
  BY TopLoop
<1>4. LoopAt(l) = Loop /\ \A p \in Pending(work, LoopEnds) : p < Len(work) => LoopOf(p) # l
  BY <1>3, TopLoop
<1>5. /\ l \in DOMAIN loopStack /\ l \notin DOMAIN loopStack'
      /\ \A i \in Nat \ {l} : /\ i \in DOMAIN loopStack' <=> i \in DOMAIN loopStack
                              /\ i \in DOMAIN loopStack => loopStack'[i] = loopStack[i]
  <2>1. loopStack \in Seq(Contexts(Begin, Len(code))) /\ Len(loopStack) # 0
    BY TopLoop DEF Inv, TypeOK
  <2>2. QED
    BY <1>3, <2>1, PoppedAt
<1>6. LoopAt(l)' = LoopContext(Unpatched) /\ \A i \in Nat \ {l} : LoopAt(i)' = LoopAt(i)
  BY <1>5 DEF LoopAt
<1>7. LoopTurns(LoopAt(l), LoopAt(l)', "jump", P, N)
  <2>1. LoopAt(l)'.breakJumps = {} /\ LoopAt(l)'.continueJumps = {}
    BY <1>6 DEF LoopContext
  <2>2. QED
    BY <1>4, <2>1 DEF LoopTurns, Given
<1>8. /\ "jump" \in Kinds \ {"exit"} /\ Later(code, code', P, N)
      /\ P \subseteq JumpsOf(Top) \cup LoopAt(l).breakJumps
                       \cup (LoopAt(l).continueJumps \cap Waiting(code))
      /\ LastJumps(items) = (JumpsOf(Top) \ P) \cup Given("jump" = "jump", N)
  BY <1>2, <1>4 DEF Kinds, Given
<1>9. /\ \A p \in Pending(work, LoopEnds) :
             p < Len(work) /\ LoopOf(p) = l => Served(work[p].task, LoopAt(l)', Waiting(code'))
      /\ LastIn(items, LoopEnds) =>
             Served(items[Len(items)].task, loopStack'[Len(loopStack')], Waiting(code'))
  BY <1>2, <1>4
<1> DEFINE S == {}
<1>10. items \in Seq(S) /\ Then(items)
  BY <1>1
<1> HIDE DEF N, S
<1>11. QED
  BY <1>2, <1>6, <1>7, <1>8, <1>9, <1>10, LoopJumpStep

\* The jump back to the test of a loop.
LEMMA LaterBack ==
    ASSUME Inv, work # <<>>, Top.task \in {"whileEnd", "forEnd"}
    PROVE  /\ Later(code, Append(code, With("Jump", Top.target)), {}, {})
           /\ Len(Append(code, With("Jump", Top.target))) = Len(code) + 1
           /\ code \in Seq(Instructions) /\ Len(code) \in Nat
<1>1. Top.target \in Nat
  BY TopOK DEF Activations
<1>2. code \in Seq(Instructions) /\ Len(code) \in Nat
  BY DEF Inv, TypeOK
<1>3. "Jump" \in Opcodes /\ Top.target \in Int /\ Top.target # Unpatched
  BY <1>1 DEF Opcodes, JumpOps, Unpatched
<1>4. QED
  BY <1>2, <1>3, LaterPlain

LEMMA WhileEndJumps ==
    ASSUME Inv, JumpInv, WhileEnd PROVE JumpInv' /\ Kept(code, code')
<1> DEFINE end    == currentAddress + 1
           c      == Append(code, With("Jump", Top.target))
           first  == {Top.jumps[1]} \cup Loop.breakJumps
           second == Loop.continueJumps
           d      == Patch(c, first, end)
           P      == first \cup second
<1>1. /\ work # <<>> /\ Top.task = "whileEnd" /\ Then(<<>>)
      /\ code' = Patch(d, second, Loop.continueTarget)
      /\ loopStack' = SubSeq(loopStack, 1, Len(loopStack) - 1) /\ UNCHANGED switchBreakStack
  BY DEF WhileEnd, Running
<1>2. Later(code, c, {}, {}) /\ Len(c) = Len(code) + 1 /\ Len(code) \in Nat
  BY <1>1, LaterBack
<1>3. JumpsOf(Top) = {Top.jumps[1]} /\ Top.task \in LoopEnds
  BY <1>1, TopPatched DEF LoopEnds
<1>4. /\ Loop \in Contexts(Begin, Len(code)) /\ Begin \in Nat
      /\ Loop.continueTarget # Unpatched /\ second \subseteq Waiting(code)
  BY <1>1, <1>3, TopLoop, TopOK DEF Served
<1>5. first \subseteq Waiting(code) /\ first \cap second = {}
  <2>1. Len(loopStack) \in Nat /\ LoopAt(Len(loopStack)) = Loop
    BY <1>1, <1>3, TopLoop
  <2>2. QED
    BY <1>1, <1>3, <2>1, HeldWaits
<1>6. Loop.continueTarget \in 0 .. Len(code)
  <2>1. Loop.continueTarget \in Begin .. Len(code)
    BY <1>4 DEF Contexts
  <2>2. QED
    BY <1>2, <1>4, <2>1
<1> HIDE DEF c, first, second
<1>7. Later(code, d, first, {}) /\ Len(d) = Len(code) + 1
  <2>1. end \in 0 .. Len(c)
    BY <1>2 DEF currentAddress
  <2>2. QED
    BY <1>2, <1>5, <2>1, LaterPatched
<1> HIDE DEF d
<1>8. Later(d, code', second, {})
  <2>1. d \in Seq(Instructions) /\ second \subseteq Waiting(d)
    BY <1>4, <1>5, <1>7 DEF Later
  <2>2. Loop.continueTarget \in 0 .. Len(d)
    BY <1>2, <1>6, <1>7
  <2>3. QED
    BY <1>1, <2>1, <2>2, LaterPatch
<1>9. Later(code, code', P, {})
  <2>1. Later(code, code', first \cup second, ({} \ second) \cup {})
    BY <1>7, <1>8, LaterTwice
  <2>2. QED
    BY <2>1
<1>10. Inv'
  BY WhileEndStep
<1>11. /\ JumpsOf(Top) \subseteq P /\ Loop.breakJumps \subseteq P
       /\ Loop.continueJumps \cap Waiting(code) \subseteq P
       /\ P \subseteq JumpsOf(Top) \cup Loop.breakJumps \cup (Loop.continueJumps \cap Waiting(code))
  BY <1>3, <1>4 DEF first, second
<1> HIDE DEF P
<1>12. QED
  BY <1>1, <1>3, <1>9, <1>10, <1>11, LoopCloses

LEMMA ForEndJumps ==
    ASSUME Inv, JumpInv, ForEnd PROVE JumpInv' /\ Kept(code, code')
<1> DEFINE end == currentAddress + 1
           c   == Append(code, With("Jump", Top.target))
           P   == {Top.jumps[1]} \cup Loop.breakJumps
<1>1. /\ work # <<>> /\ Top.task = "forEnd" /\ Then(<<>>)
      /\ code' = Patch(c, P, end)
      /\ loopStack' = SubSeq(loopStack, 1, Len(loopStack) - 1) /\ UNCHANGED switchBreakStack
  BY DEF ForEnd, Running
<1>2. Later(code, c, {}, {}) /\ Len(c) = Len(code) + 1 /\ Len(code) \in Nat
  BY <1>1, LaterBack
<1>3. JumpsOf(Top) = {Top.jumps[1]} /\ Top.task \in LoopEnds
  BY <1>1, TopPatched DEF LoopEnds
<1>4. Loop.continueJumps \cap Waiting(code) = {}
  BY <1>1, <1>3, TopLoop DEF Served
<1>5. P \subseteq Waiting(code)
  <2>1. Len(loopStack) \in Nat /\ LoopAt(Len(loopStack)) = Loop
    BY <1>1, <1>3, TopLoop
  <2>2. QED
    BY <1>1, <1>3, <2>1, HeldWaits
<1>6. /\ JumpsOf(Top) \subseteq P /\ Loop.breakJumps \subseteq P
      /\ Loop.continueJumps \cap Waiting(code) \subseteq P
      /\ P \subseteq JumpsOf(Top) \cup Loop.breakJumps \cup (Loop.continueJumps \cap Waiting(code))
  BY <1>3, <1>4
<1> HIDE DEF c, P
<1>7. Later(code, code', P, {})
  <2>1. end \in 0 .. Len(c)
    BY <1>2 DEF currentAddress
  <2>2. QED
    BY <1>1, <1>2, <1>5, <2>1, LaterPatched
<1>8. Inv'
  BY ForEndStep
<1>9. QED
  BY <1>1, <1>3, <1>6, <1>7, <1>8, LoopCloses

LEMMA ForUpdateJumps ==
    ASSUME Inv, JumpInv, ForUpdate PROVE JumpInv' /\ Kept(code, code')
<1> DEFINE front == GenAll(Node.update)
           last  == Item("forEnd", Node, Top.jumps, Top.target, 0)
           items == front \o <<last>>
           P     == Loop.continueJumps
           N     == {}
<1>1. /\ work # <<>> /\ Top.task = "forUpdate" /\ Then(items)
      /\ code' = Patch(code, P, currentAddress)
      /\ UNCHANGED <<loopStack, switchBreakStack>>
  BY DEF ForUpdate, Running
<1>2. /\ Begin \in Nat /\ Len(code) \in Nat /\ Node \in Stmts /\ Node.kind = "for"
      /\ Len(Top.jumps) = 1 /\ Top.task \in LoopEnds /\ ~QuietItem(Top)
  BY <1>1, TopOK DEF ItemOK, Node, LoopEnds, QuietItem
<1>3. JumpsOf(last) = JumpsOf(Top) /\ last.task = "forEnd" /\ DistinctJumps(last)
  <2>1. last.task = "forEnd" /\ last.jumps = Top.jumps
    BY DEF Item
  <2>2. DistinctJumps(Top)
    <3>1. Len(work) \in DOMAIN work
      BY <1>1, InvFacts
    <3>2. QED
      BY <3>1 DEF JumpInv, RememberedOnce, Top
  <2>3. "forEnd" \in JumpTasks /\ "forUpdate" \in JumpTasks
    BY DEF JumpTasks
  <2> HIDE DEF last
  <2>4. QED
    BY <1>1, <2>1, <2>2, <2>3 DEF JumpsOf, DistinctJumps
<1>4. /\ front \in Seq(Fresh(Begin, Len(code)))
      /\ \A i \in 1 .. Len(front) : QuietItem(front[i])
  <2> DEFINE nodes == Node.update
             S     == {x \in Stmts : x.kind \in Assignments}
  <2>1. nodes \in Seq(S)
    BY <1>2, StmtsAssumption DEF StmtClosed
  <2>2. S \subseteq Exprs \cup Stmts /\ S \subseteq QuietNodes
    BY DEF QuietNodes
  <2> HIDE DEF nodes, S
  <2>3. GenAll(nodes) \in Seq(Fresh(Begin, Len(code)))
    BY <1>2, <2>1, <2>2, GenAllOK
  <2>4. \A i \in 1 .. Len(GenAll(nodes)) : QuietItem(GenAll(nodes)[i])
    <3>1. DOMAIN nodes = 1 .. Len(nodes) /\ Len(nodes) \in Nat
          /\ \A i \in 1 .. Len(nodes) : nodes[i] \in QuietNodes
      BY <2>1, <2>2
    <3>2. /\ \A i \in 1 .. Len(nodes) : GenAll(nodes)[i] = Gen(nodes[i])
          /\ Len(GenAll(nodes)) = Len(nodes)
      BY <3>1 DEF GenAll
    <3>3. \A n \in QuietNodes : QuietItem(Gen(n))
      BY DEF QuietItem, Gen, Item
    <3>4. QED
      BY <3>1, <3>2, <3>3
  <2>5. QED
    BY <2>3, <2>4 DEF nodes
<1> HIDE DEF front, last, items
<1>5. /\ items \in Seq(Fresh(Begin, Len(code)) \cup {last}) /\ EndsIn(items, last)
      /\ \A i \in 1 .. Len(items) - 1 : QuietItem(items[i])
  <2>1. /\ items \in Seq(Fresh(Begin, Len(code)) \cup {last}) /\ EndsIn(items, last)
        /\ Len(items) = Len(front) + 1 /\ Len(front) \in Nat
        /\ \A i \in 1 .. Len(front) : items[i] = front[i]
    <3>1. items = front \o <<last>> /\ front \in Seq(Fresh(Begin, Len(code)))
      BY <1>4 DEF items
    <3>2. items \in Seq(Fresh(Begin, Len(code)) \cup {last})
      BY <3>1, FollowedEnds
    <3>3. EndsIn(items, last)
      BY <3>1, FollowedEnds
    <3>4. Len(items) = Len(front) + 1
      BY <3>1, FollowedEnds
    <3>5. Len(front) \in Nat
      BY <3>1, FollowedEnds
    <3>6. \A i \in 1 .. Len(front) : items[i] = front[i]
      BY <3>1, FollowedEnds
    <3>7. QED
      BY <3>2, <3>3, <3>4, <3>5, <3>6
  <2>2. QED
    BY <1>4, <2>1
<1>6. /\ WellStarted(items) /\ items[Len(items)] = last /\ LastJumps(items) = JumpsOf(Top)
  BY <1>2, <1>3, <1>5, EndsInFacts DEF WellStarted
<1>7. PICK l \in Nat : l = Len(loopStack)
  BY <1>1, <1>2, TopLoop
<1>8. /\ LoopAt(l) = Loop /\ Served("forUpdate", Loop, Waiting(code)) /\ LoopAt(l)' = Loop
      /\ Loop = loopStack'[Len(loopStack')]
      /\ \A p \in Pending(work, LoopEnds) : p < Len(work) => LoopOf(p) # l
      /\ \A i \in Nat \ {l} : LoopAt(i)' = LoopAt(i)
  <2>1. /\ LoopAt(l) = Loop /\ Served("forUpdate", Loop, Waiting(code))
        /\ \A p \in Pending(work, LoopEnds) : p < Len(work) => LoopOf(p) # l
    BY <1>1, <1>2, <1>7, TopLoop
  <2>2. \A i \in Nat : LoopAt(i)' = LoopAt(i)
    BY <1>1 DEF LoopAt
  <2>3. QED
    BY <1>1, <2>1, <2>2 DEF Loop
<1>9. /\ P \subseteq Waiting(code) /\ P \cap JumpsOf(Top) = {} /\ P \cap Loop.breakJumps = {}
  BY <1>1, <1>8, HeldWaits DEF Served
<1>10. Later(code, code', P, N)
  <2>1. code \in Seq(Instructions) /\ currentAddress \in 0 .. Len(code)
    BY <1>2 DEF Inv, TypeOK, currentAddress
  <2> HIDE DEF P
  <2>2. QED
    BY <1>1, <1>9, <2>1, LaterPatch
<1>11. Waiting(code') = Waiting(code) \ P
  BY <1>10 DEF Later
<1>12. LoopTurns(LoopAt(l), LoopAt(l)', "jump", P, N)
  BY <1>8, <1>9, <1>11 DEF LoopTurns, Given
<1>13. Served(items[Len(items)].task, loopStack'[Len(loopStack')], Waiting(code'))
  BY <1>3, <1>6, <1>8, <1>11 DEF Served
<1>14. /\ "jump" \in Kinds \ {"exit"}
       /\ P \subseteq JumpsOf(Top) \cup LoopAt(l).breakJumps
                        \cup (LoopAt(l).continueJumps \cap Waiting(code))
       /\ LastJumps(items) = (JumpsOf(Top) \ P) \cup Given("jump" = "jump", N)
  BY <1>6, <1>8, <1>9 DEF Kinds, Given
<1>15. Inv'
  BY ForUpdateStep
<1> HIDE DEF P, N
<1>16. QED
  BY <1>1, <1>5, <1>6, <1>8, <1>10, <1>12, <1>13, <1>14, <1>15, LoopJumpStep

\* A jump is remembered by the innermost loop.
LEMMA LoopRemembers ==
    ASSUME Inv, Inv', work # <<>>, JumpInv, Top.task = "generate",
           Node.kind \in {"break", "continue"}, Then(<<>>), Len(loopStack) # 0,
           code' = Append(code, JumpTo("Jump")), NEW own \in {"break", "continue"},
           NEW loop, loop.continueTarget = Loop.continueTarget,
           loop.breakJumps = Loop.breakJumps \cup Given(own = "break", {currentAddress}),
           loop.continueJumps = Loop.continueJumps \cup Given(own = "continue", {currentAddress}),
           loopStack' = [loopStack EXCEPT ![Len(loopStack)] = loop], UNCHANGED switchBreakStack
    PROVE  JumpInv' /\ Kept(code, code')
<1> DEFINE items == <<>>
           P     == {}
           N     == {currentAddress}
           S     == {}
<1>1. /\ items \in Seq(S) /\ Then(items) /\ items = <<>>
      /\ 1 .. Len(items) = {} /\ 1 .. Len(items) - 1 = {}
  OBVIOUS
<1> HIDE DEF items
<1>2. ~QuietItem(Top) /\ JumpsOf(Top) = {}
  BY NotQuiet
<1>3. /\ WellStarted(items) /\ LastJumps(items) = {} /\ ~LastIn(items, LoopEnds)
  BY <1>1 DEF WellStarted, LastJumps, LastIn
<1>4. loopStack \in Seq(Contexts(Begin, Len(code))) /\ code \in Seq(Instructions)
      /\ Len(loopStack) \in Nat /\ Len(code) \in Nat
  BY DEF Inv, TypeOK
<1>5. PICK l \in Nat : l = Len(loopStack)
  BY <1>4
<1>6. /\ l \in DOMAIN loopStack /\ DOMAIN loopStack' = DOMAIN loopStack /\ loopStack'[l] = loop
      /\ \A i \in DOMAIN loopStack \ {l} : loopStack'[i] = loopStack[i]
  BY <1>4, <1>5, ChangedAt
<1>7. /\ LoopAt(l) = Loop /\ LoopAt(l)' = loop
      /\ \A i \in Nat \ {l} : LoopAt(i)' = LoopAt(i)
  BY <1>5, <1>6 DEF LoopAt, Loop
<1>8. Later(code, code', P, N)
  BY LaterJump DEF JumpOps
<1>9. Waiting(code') = Waiting(code) \cup N /\ currentAddress \notin Waiting(code)
      /\ currentAddress \notin Loop.continueJumps
  <2>1. Waiting(code) \subseteq 0 .. Len(code) - 1 /\ Loop.continueJumps \subseteq 0 .. Len(code) - 1
    BY <1>4, <1>7, WaitingBelow, OldJumps
  <2>2. QED
    BY <1>4, <1>8, <2>1 DEF Later, currentAddress
<1>10. LoopTurns(LoopAt(l), LoopAt(l)', own, P, N)
  BY <1>7, <1>9 DEF LoopTurns, Given
<1>11. ASSUME NEW p \in Pending(work, LoopEnds), p < Len(work), LoopOf(p) = l
       PROVE  Served(work[p].task, loop, Waiting(code'))
  <2>1. Served(work[p].task, Loop, Waiting(code))
    BY <1>7, <1>11 DEF JumpInv, LoopsServed
  <2>2. work[p].task # "forEnd"
    <3>1. p \in DOMAIN work /\ Len(work) \in DOMAIN work /\ p < Len(work) /\ ~QuietItem(work[Len(work)])
      BY <1>2, <1>11, InvFacts DEF Pending, Top
    <3>2. QED
      BY <3>1 DEF JumpInv, QuietAbove
  <2>3. QED
    BY <1>9, <2>1, <2>2 DEF Served, Given
<1>12. /\ own \in Kinds \ {"exit"} /\ own # "jump"
       /\ P \subseteq JumpsOf(Top) \cup LoopAt(l).breakJumps
                        \cup (LoopAt(l).continueJumps \cap Waiting(code))
       /\ LastJumps(items) = (JumpsOf(Top) \ P) \cup Given(own = "jump", N)
  BY <1>2, <1>3 DEF Kinds, Given
<1>13. /\ \A p \in Pending(work, LoopEnds) :
              p < Len(work) /\ LoopOf(p) = l => Served(work[p].task, LoopAt(l)', Waiting(code'))
       /\ LastIn(items, LoopEnds) =>
              Served(items[Len(items)].task, loopStack'[Len(loopStack')], Waiting(code'))
  BY <1>3, <1>7, <1>11
<1>14. items \in Seq(S) /\ Then(items)
  BY <1>1
<1> HIDE DEF P, N, S
<1>15. QED
  BY <1>3, <1>7, <1>8, <1>10, <1>12, <1>13, <1>14, LoopJumpStep

LEMMA BreakOutOfLoopJumps ==
    ASSUME Inv, JumpInv, BreakOutOfLoop PROVE JumpInv' /\ Kept(code, code')
<1> DEFINE loop == [Loop EXCEPT !.breakJumps = @ \cup {currentAddress}]
<1>1. /\ work # <<>> /\ Top.task = "generate" /\ Node.kind = "break" /\ Then(<<>>)
      /\ code' = Append(code, JumpTo("Jump")) /\ loopStack # <<>>
      /\ UNCHANGED switchBreakStack
  BY DEF BreakOutOfLoop, Generating, Running
<1>2. loopStack' = [loopStack EXCEPT ![Len(loopStack)] = loop]
  BY DEF BreakOutOfLoop, Loop
<1>3. loopStack \in Seq(Contexts(Begin, Len(code))) /\ Len(loopStack) # 0
  BY <1>1 DEF Inv, TypeOK
<1>4. Loop \in Contexts(Begin, Len(code))
  BY <1>3 DEF Loop
<1>5. /\ loop.continueTarget = Loop.continueTarget
      /\ loop.breakJumps = Loop.breakJumps \cup Given("break" = "break", {currentAddress})
      /\ loop.continueJumps = Loop.continueJumps \cup Given("break" = "continue", {currentAddress})
  BY <1>4 DEF Contexts, Given
<1>6. Inv'
  BY BreakOutOfLoopStep
<1> HIDE DEF loop
<1>7. QED
  BY <1>1, <1>2, <1>3, <1>5, <1>6, LoopRemembers

LEMMA ContinueJumps ==
    ASSUME Inv, JumpInv, Continue PROVE JumpInv' /\ Kept(code, code')
<1> DEFINE loop == [Loop EXCEPT !.continueJumps = @ \cup {currentAddress}]
<1>1. /\ work # <<>> /\ Top.task = "generate" /\ Node.kind = "continue" /\ Then(<<>>)
      /\ code' = Append(code, JumpTo("Jump")) /\ loopStack # <<>>
      /\ UNCHANGED switchBreakStack
  BY DEF Continue, Generating, Running
<1>2. loopStack' = [loopStack EXCEPT ![Len(loopStack)] = loop]
  BY DEF Continue, Loop
<1>3. loopStack \in Seq(Contexts(Begin, Len(code))) /\ Len(loopStack) # 0
  BY <1>1 DEF Inv, TypeOK
<1>4. Loop \in Contexts(Begin, Len(code))
  BY <1>3 DEF Loop
<1>5. /\ loop.continueTarget = Loop.continueTarget
      /\ loop.breakJumps = Loop.breakJumps \cup Given("continue" = "break", {currentAddress})
      /\ loop.continueJumps = Loop.continueJumps \cup Given("continue" = "continue", {currentAddress})
  BY <1>4 DEF Contexts, Given
<1>6. Inv'
  BY ContinueStep
<1> HIDE DEF loop
<1>7. QED
  BY <1>1, <1>2, <1>3, <1>5, <1>6, LoopRemembers

-----------------------------------------------------------------------------
(* The steps that touch a switch.                                          *)

LEMMA SwitchJumpStep ==
    ASSUME Inv, Inv', work # <<>>, JumpInv,
           NEW S, NEW items \in Seq(S), Then(items), WellStarted(items), ~LastIn(items, LoopEnds),
           NEW P, NEW N, Later(code, code', P, N), UNCHANGED loopStack,
           NEW own \in {"jump", "exit"}, NEW s \in Nat,
           \A i \in Nat \ {s} : ExitsAt(i)' = ExitsAt(i),
           P \subseteq JumpsOf(Top) \cup ExitsAt(s),
           LastJumps(items) = (JumpsOf(Top) \ P) \cup Given(own = "jump", N),
           ExitsAt(s)' = (ExitsAt(s) \ P) \cup Given(own = "exit", N)
    PROVE  JumpInv' /\ Kept(code, code')
<1>1. /\ 0 \in Nat /\ own \in Kinds /\ own # "break" /\ own # "continue"
      /\ \A i \in Nat : LoopAt(i)' = LoopAt(i)
      /\ \A i \in Nat \ {0} : LoopAt(i)' = LoopAt(i)
  BY DEF LoopAt, Kinds
<1>2. LoopAt(0).breakJumps = {} /\ LoopAt(0).continueJumps = {}
  <2>1. 0 \notin DOMAIN loopStack
    BY NothingAtZero
  <2>2. QED
    BY <2>1 DEF LoopAt, LoopContext
<1>3. /\ LoopAt(0)'.breakJumps = (LoopAt(0).breakJumps \ P) \cup Given(own = "break", N)
      /\ LoopAt(0)'.continueJumps \cap Waiting(code')
             = ((LoopAt(0).continueJumps \cap Waiting(code)) \ P) \cup Given(own = "continue", N)
      /\ P \subseteq JumpsOf(Top) \cup LoopAt(0).breakJumps
                       \cup (LoopAt(0).continueJumps \cap Waiting(code)) \cup ExitsAt(s)
  BY <1>1, <1>2 DEF Given
<1>4. Owned(Held, Waiting(code)) /\ LoopsServed /\ QuietAbove /\ RememberedOnce
  BY DEF JumpInv
<1>5. \A i \in 1 .. Len(items) - 1 : items[i].task \notin JumpTasks
  BY DEF WellStarted
<1>6. Owned(Held', Waiting(code'))
  BY <1>1, <1>3, <1>4, <1>5, HeldStep
<1>7. LoopsServed'
  <2>1. \A p \in Pending(work, LoopEnds) : LoopOf(p) # 0
    BY LoopOfProperties
  <2>2. QED
    BY <1>1, <1>3, <1>4, <1>5, <2>1, ServedStep
<1>8. QuietAbove' /\ RememberedOnce'
  BY <1>4, QuietStep, RememberedStep DEF WellStarted
<1>9. QED
  BY <1>6, <1>7, <1>8 DEF JumpInv, Later

LEMMA TestsEndJumps ==
    ASSUME Inv, JumpInv, TestsEnd PROVE JumpInv' /\ Kept(code, code')
<1> DEFINE more  == Append(Top.jumps, currentAddress)
           last  == Item("caseBody", Node, more, 0, 1)
           items == <<last>>
           P     == {}
           N     == {currentAddress}
<1>1. /\ work # <<>> /\ Top.task = "caseTest" /\ Then(items)
      /\ code' = Append(code, JumpTo("Jump")) /\ UNCHANGED loopStack
      /\ switchBreakStack' = Append(switchBreakStack, {})
  BY DEF TestsEnd, Running
<1>2. /\ Differing(Top.jumps)
      /\ Top.jumps \in Seq(0 .. Len(code) - 1)
      /\ JumpsOf(Top) = Values(Top.jumps)
      /\ JumpsOf(Top) \subseteq 0 .. Len(code) - 1
      /\ ~QuietItem(Top)
  BY <1>1, PassedOn
<1>3. Later(code, code', P, N)
  BY <1>1, LaterJump DEF JumpOps
<1>4. currentAddress \notin Values(Top.jumps)
  <2>1. Len(code) \in Nat
    BY <1>1, TopOK
  <2>2. QED
    BY <1>2, <2>1 DEF currentAddress
<1>5. JumpsOf(last) = JumpsOf(Top) \cup N /\ DistinctJumps(last) /\ last.task = "caseBody"
  <2> DEFINE S     == 0 .. Len(code) - 1
             jumps == Top.jumps
             jump  == currentAddress
  <2>1. /\ jumps \in Seq(S) /\ jump \notin Values(jumps) /\ Differing(jumps)
        /\ more = Append(jumps, jump) /\ N = {jump}
    BY <1>2, <1>4
  <2> HIDE DEF S, jumps, jump, more, N
  <2>2. more \in Seq(S \cup {jump}) /\ Differing(more) /\ Values(more) = Values(jumps) \cup {jump}
    BY <2>1, OneJumpMore
  <2>3. JumpsOf(last) = Values(more) /\ DistinctJumps(last) /\ last.task = "caseBody"
    <3>1. DOMAIN more = 1 .. Len(more) /\ "caseBody" \in JumpTasks
      BY <2>2 DEF JumpTasks
    <3>2. QED
      BY <2>2, <3>1, SequenceOfJumps
  <2>4. QED
    BY <1>2, <2>1, <2>2, <2>3 DEF jumps
<1> HIDE DEF last
<1>6. /\ items \in Seq({last}) /\ EndsIn(items, last)
  BY SingleEnds
<1> HIDE DEF items
<1>7. WellStarted(items) /\ LastJumps(items) = JumpsOf(last) /\ ~LastIn(items, LoopEnds)
  BY <1>2, <1>5, <1>6, EndsInFacts DEF WellStarted, LoopEnds
<1>8. switchBreakStack \in Seq(SUBSET (Begin .. Len(code) - 1)) /\ Len(switchBreakStack) \in Nat
  BY DEF Inv, TypeOK
<1>9. PICK s \in Nat : s = Len(switchBreakStack) + 1
  BY <1>8
<1>10. /\ s \notin DOMAIN switchBreakStack /\ s \in DOMAIN switchBreakStack' /\ switchBreakStack'[s] = {}
       /\ \A i \in Nat \ {s} :
              /\ i \in DOMAIN switchBreakStack' <=> i \in DOMAIN switchBreakStack
              /\ i \in DOMAIN switchBreakStack => switchBreakStack'[i] = switchBreakStack[i]
  BY <1>1, <1>8, <1>9, PushedAt
<1>11. /\ ExitsAt(s) = {} /\ ExitsAt(s)' = {}
       /\ \A i \in Nat \ {s} : ExitsAt(i)' = ExitsAt(i)
  BY <1>10 DEF ExitsAt
<1>12. /\ P \subseteq JumpsOf(Top) \cup ExitsAt(s)
       /\ LastJumps(items) = (JumpsOf(Top) \ P) \cup Given("jump" = "jump", N)
       /\ ExitsAt(s)' = (ExitsAt(s) \ P) \cup Given("jump" = "exit", N)
  BY <1>5, <1>7, <1>11 DEF Given
<1>13. Inv'
  BY TestsEndStep
<1> HIDE DEF P, N
<1>14. QED
  BY <1>1, <1>3, <1>6, <1>7, <1>11, <1>12, <1>13, SwitchJumpStep

LEMMA SwitchEndJumps ==
    ASSUME Inv, JumpInv, SwitchEnd PROVE JumpInv' /\ Kept(code, code')
<1> DEFINE items == <<>>
           P     == switchBreakStack[Len(switchBreakStack)]
           N     == {}
           S     == {}
<1>1. /\ work # <<>> /\ Top.task = "switchEnd" /\ Then(<<>>)
      /\ code' = Patch(code, P, currentAddress) /\ UNCHANGED loopStack
      /\ switchBreakStack' = SubSeq(switchBreakStack, 1, Len(switchBreakStack) - 1)
  BY DEF SwitchEnd, Running
<1>2. /\ items \in Seq(S) /\ Then(items) /\ items = <<>>
      /\ 1 .. Len(items) = {} /\ 1 .. Len(items) - 1 = {}
  BY <1>1
<1> HIDE DEF items
<1>3. WellStarted(items) /\ LastJumps(items) = {} /\ ~LastIn(items, LoopEnds)
  BY <1>2 DEF WellStarted, LastJumps, LastIn
<1>4. JumpsOf(Top) = {}
  BY <1>1 DEF JumpsOf, JumpTasks
<1>5. /\ switchBreakStack \in Seq(SUBSET (Begin .. Len(code) - 1)) /\ Len(switchBreakStack) \in Nat
      /\ code \in Seq(Instructions) /\ currentAddress \in 0 .. Len(code)
      /\ Len(switchBreakStack) # 0
  BY <1>1, OpenContext DEF Inv, TypeOK, currentAddress, SwitchEnds
<1>6. PICK s \in Nat : s = Len(switchBreakStack)
  BY <1>5
<1>7. /\ s \in DOMAIN switchBreakStack /\ s \notin DOMAIN switchBreakStack'
      /\ \A i \in Nat \ {s} :
              /\ i \in DOMAIN switchBreakStack' <=> i \in DOMAIN switchBreakStack
              /\ i \in DOMAIN switchBreakStack => switchBreakStack'[i] = switchBreakStack[i]
  BY <1>1, <1>5, <1>6, PoppedAt
<1>8. /\ ExitsAt(s) = P /\ ExitsAt(s)' = {}
      /\ \A i \in Nat \ {s} : ExitsAt(i)' = ExitsAt(i)
  BY <1>6, <1>7 DEF ExitsAt
<1>9. Later(code, code', P, N)
  <2>1. P \subseteq Waiting(code)
    BY <1>1, <1>8, HeldWaits
  <2> HIDE DEF P
  <2>2. QED
    BY <1>1, <1>5, <2>1, LaterPatch
<1>10. /\ P \subseteq JumpsOf(Top) \cup ExitsAt(s)
       /\ LastJumps(items) = (JumpsOf(Top) \ P) \cup Given("jump" = "jump", N)
       /\ ExitsAt(s)' = (ExitsAt(s) \ P) \cup Given("jump" = "exit", N)
  BY <1>3, <1>4, <1>8 DEF Given
<1>11. Inv'
  BY SwitchEndStep
<1>12. items \in Seq(S) /\ Then(items)
  BY <1>2
<1> HIDE DEF P, N, S
<1>13. QED
  BY <1>1, <1>3, <1>8, <1>9, <1>10, <1>11, <1>12, SwitchJumpStep

LEMMA BreakOutOfSwitchJumps ==
    ASSUME Inv, JumpInv, BreakOutOfSwitch PROVE JumpInv' /\ Kept(code, code')
<1> DEFINE items == <<>>
           exits == switchBreakStack[Len(switchBreakStack)]
           P     == {}
           N     == {currentAddress}
           S     == {}
<1>1. /\ work # <<>> /\ Top.task = "generate" /\ Node.kind = "break" /\ Then(<<>>)
      /\ code' = Append(code, JumpTo("Jump")) /\ UNCHANGED loopStack
      /\ switchBreakStack # <<>>
      /\ switchBreakStack' = [switchBreakStack EXCEPT ![Len(switchBreakStack)] = exits \cup N]
  BY DEF BreakOutOfSwitch, Generating, Running
<1>2. /\ items \in Seq(S) /\ Then(items) /\ items = <<>>
      /\ 1 .. Len(items) = {} /\ 1 .. Len(items) - 1 = {}
  BY <1>1
<1> HIDE DEF items
<1>3. WellStarted(items) /\ LastJumps(items) = {} /\ ~LastIn(items, LoopEnds)
  <2>1. ~QuietItem(Top)
    BY <1>1, NotQuiet
  <2>2. QED
    BY <1>2, <2>1 DEF WellStarted, LastJumps, LastIn
<1>4. JumpsOf(Top) = {}
  BY <1>1 DEF JumpsOf, JumpTasks
<1>5. /\ switchBreakStack \in Seq(SUBSET (Begin .. Len(code) - 1)) /\ Len(switchBreakStack) \in Nat
      /\ Len(switchBreakStack) # 0
  BY <1>1 DEF Inv, TypeOK
<1>6. PICK s \in Nat : s = Len(switchBreakStack)
  BY <1>5
<1>7. /\ s \in DOMAIN switchBreakStack /\ DOMAIN switchBreakStack' = DOMAIN switchBreakStack
      /\ switchBreakStack'[s] = exits \cup N
      /\ \A i \in DOMAIN switchBreakStack \ {s} : switchBreakStack'[i] = switchBreakStack[i]
  <2> DEFINE new == exits \cup N
  <2>1. switchBreakStack' = [switchBreakStack EXCEPT ![Len(switchBreakStack)] = new]
    BY <1>1
  <2> HIDE DEF new
  <2>2. /\ s \in DOMAIN switchBreakStack /\ DOMAIN switchBreakStack' = DOMAIN switchBreakStack
        /\ switchBreakStack'[s] = new
        /\ \A i \in DOMAIN switchBreakStack \ {s} : switchBreakStack'[i] = switchBreakStack[i]
    BY <1>5, <1>6, <2>1, ChangedAt
  <2>3. QED
    BY <2>2 DEF new
<1>8. /\ ExitsAt(s) = exits /\ ExitsAt(s)' = exits \cup N
      /\ \A i \in Nat \ {s} : ExitsAt(i)' = ExitsAt(i)
  BY <1>6, <1>7 DEF ExitsAt
<1>9. Later(code, code', P, N)
  BY <1>1, LaterJump DEF JumpOps
<1>10. /\ P \subseteq JumpsOf(Top) \cup ExitsAt(s)
       /\ LastJumps(items) = (JumpsOf(Top) \ P) \cup Given("exit" = "jump", N)
       /\ ExitsAt(s)' = (ExitsAt(s) \ P) \cup Given("exit" = "exit", N)
  BY <1>3, <1>4, <1>8 DEF Given
<1>11. Inv'
  BY BreakOutOfSwitchStep
<1>12. items \in Seq(S) /\ Then(items)
  BY <1>2
<1> HIDE DEF P, N, S
<1>13. QED
  BY <1>1, <1>3, <1>8, <1>9, <1>10, <1>11, <1>12, SwitchJumpStep

-----------------------------------------------------------------------------
(* Between two functions nothing waits.                                    *)

LEMMA PlacesAre ==
    ASSUME NEW h \in Places
    PROVE  \E i \in Nat : h \in {<<"jump", i>>, <<"break", i>>, <<"continue", i>>, <<"exit", i>>}
BY DEF Places, Kinds

LEMMA NobodyWaits ==
    ASSUME NEW H, NEW W, \A h \in Places : H[h] = {}
    PROVE  Owned(H, W) <=> W = {}
BY DEF Owned

LEMMA NothingHeld ==
    ASSUME Inv, work = <<>>
    PROVE  /\ Len(loopStack) = 0 /\ DOMAIN loopStack = {}
           /\ Len(switchBreakStack) = 0 /\ DOMAIN switchBreakStack = {}
           /\ \A h \in Places : Held[h] = {}
<1>1. DOMAIN work = {}
  OBVIOUS
<1>2. Pending(work, LoopEnds) = {} /\ Pending(work, SwitchEnds) = {}
  BY <1>1 DEF Pending
<1>3. Len(loopStack) = 0 /\ Len(switchBreakStack) = 0
  BY <1>2, FS_EmptySet DEF Inv, ContextsMatched
<1>4. DOMAIN loopStack = {} /\ DOMAIN switchBreakStack = {}
  BY <1>3 DEF Inv, TypeOK
<1>5. \A i : /\ JumpsAt(i) = {} /\ ExitsAt(i) = {}
             /\ LoopAt(i).breakJumps = {} /\ LoopAt(i).continueJumps = {}
  BY <1>1, <1>4 DEF JumpsAt, ExitsAt, LoopAt, LoopContext
<1>6. ASSUME NEW h \in Places PROVE Held[h] = {}
  <2>1. PICK i \in Nat : h \in {<<"jump", i>>, <<"break", i>>, <<"continue", i>>, <<"exit", i>>}
    BY PlacesAre
  <2>2. QED
    BY <1>5, <2>1, HeldAt
<1>7. QED
  BY <1>3, <1>4, <1>6

LEMMA InitiallyJumps == Init => JumpInv
<1>1. SUFFICES ASSUME Init PROVE JumpInv
  OBVIOUS
<1>2. Inv /\ work = <<>> /\ code = <<>>
  BY <1>1, Initially DEF Init
<1>3. DOMAIN work = {} /\ DOMAIN code = {}
  BY <1>2
<1>4. Waiting(code) = {}
  BY <1>3 DEF Waiting
<1>5. Owned(Held, Waiting(code))
  BY <1>2, <1>4, NothingHeld, NobodyWaits
<1>6. LoopsServed /\ QuietAbove /\ RememberedOnce
  BY <1>3 DEF LoopsServed, Pending, QuietAbove, RememberedOnce
<1>7. QED
  BY <1>5, <1>6 DEF JumpInv

LEMMA ReversedElements ==
    ASSUME NEW S, NEW s \in Seq(S)
    PROVE  \A i \in DOMAIN Reverse(s) : Reverse(s)[i] \in S
<1>1. DOMAIN Reverse(s) = 1 .. Len(s) /\ \A i \in 1 .. Len(s) : Reverse(s)[i] = s[(Len(s) - i) + 1]
  BY DEF Reverse
<1>2. \A i \in 1 .. Len(s) : (Len(s) - i) + 1 \in 1 .. Len(s)
  OBVIOUS
<1>3. QED
  BY <1>1, <1>2

LEMMA GenerateFunctionJumps ==
    ASSUME Inv, JumpInv, generateFunction PROVE JumpInv' /\ Kept(code, code')
<1> DEFINE f     == program[next + 1]
           ret   == Emit(Plain("Ret"))
           body  == GenAll(f.body)
           value == Default(f.returnType, -1)
           items == body \o value \o <<ret>>
           here  == Len(code)
           S     == Fresh(here, here)
<1>1. /\ work = <<>> /\ next < Len(program) /\ work' = Reverse(items)
      /\ UNCHANGED <<code, loopStack, switchBreakStack>>
  BY DEF generateFunction
<1>2. /\ here \in Nat /\ code \in Seq(Instructions) /\ program \in Programs /\ next \in 0 .. Len(program)
  BY DEF Inv, TypeOK
<1>3. f.body \in Seq(Stmts) /\ f.returnType \in Types
  <2> DEFINE D == [name : {"main", "helper"}, returnType : Types, params : Nat,
                   localCount : Nat, body : Seq(Stmts)]
  <2>1. program \in Seq(D)
    BY <1>2, ProgramsAssumption DEF IsProgram
  <2> HIDE DEF D
  <2>2. next + 1 \in 1 .. Len(program)
    BY <1>1, <1>2, <2>1
  <2>3. f \in D
    BY <2>1, <2>2
  <2>4. QED
    BY <2>3 DEF D
<1>4. body \in Seq(S) /\ value \in Seq(S) /\ ret \in S
  <2>1. body \in Seq(S)
    BY <1>2, <1>3, GenAllOK
  <2>2. value \in Seq(S)
    <3>1. -1 \in Int
      OBVIOUS
    <3> HIDE DEF here, f
    <3>2. QED
      BY <1>2, <1>3, <3>1, DefaultOK
  <2>3. ret \in S
    BY <1>2, EmitOpOK DEF Opcodes, JumpOps
  <2>4. QED
    BY <2>1, <2>2, <2>3
<1>5. \A it \in S : it.task \in FreshTasks
  BY DEF Fresh, FreshTasks
<1> HIDE DEF f, S, ret, body, value, here
<1>6. items \in Seq(S)
  BY <1>4
<1> HIDE DEF items
<1>7. \A p \in DOMAIN work' : work'[p].task \in FreshTasks
  BY <1>1, <1>5, <1>6, ReversedElements
<1>8. \A task \in FreshTasks : task \notin JumpTasks /\ task \notin LoopEnds /\ task # "forEnd"
  BY DEF FreshTasks, JumpTasks, LoopEnds
<1>9. LoopsServed' /\ QuietAbove' /\ RememberedOnce'
  <2>1. Pending(work', LoopEnds) = {}
    BY <1>7, <1>8 DEF Pending
  <2>2. QED
    BY <1>7, <1>8, <2>1 DEF LoopsServed, QuietAbove, RememberedOnce, DistinctJumps
<1>10. Waiting(code') = {}
  BY <1>1, NothingHeld, NobodyWaits DEF JumpInv
<1>11. ASSUME NEW h \in Places PROVE Held'[h] = {}
  <2>1. PICK i \in Nat : h \in {<<"jump", i>>, <<"break", i>>, <<"continue", i>>, <<"exit", i>>}
    BY PlacesAre
  <2>2. DOMAIN loopStack' = {} /\ DOMAIN switchBreakStack' = {}
    BY <1>1, NothingHeld
  <2>3. /\ ExitsAt(i)' = {}
        /\ LoopAt(i)'.breakJumps = {} /\ LoopAt(i)'.continueJumps = {}
    BY <2>2 DEF ExitsAt, LoopAt, LoopContext
  <2>4. JumpsAt(i)' = {}
    BY <1>7, <1>8 DEF JumpsAt, JumpsOf
  <2>5. QED
    BY <2>1, <2>3, <2>4, HeldAt
<1>12. Owned(Held', Waiting(code'))
  BY <1>10, <1>11, NobodyWaits
<1>13. Kept(code, code')
  BY <1>1, <1>2, LaterSelf DEF Later
<1>14. QED
  BY <1>9, <1>12, <1>13 DEF JumpInv

LEMMA StutterJumps ==
    ASSUME Inv, JumpInv, UNCHANGED vars PROVE JumpInv' /\ Kept(code, code')
<1>1. UNCHANGED <<code, work, loopStack, switchBreakStack>>
  BY DEF vars
<1>2. Held' = Held
  BY <1>1 DEF Held, JumpsAt, LoopAt, ExitsAt
<1>3. LoopsServed' /\ QuietAbove' /\ RememberedOnce'
  BY <1>1 DEF JumpInv, LoopsServed, LoopAt, LoopOf, QuietAbove, RememberedOnce
<1>4. Kept(code, code')
  BY <1>1, LaterSelf DEF Later, Inv, TypeOK
<1>5. QED
  BY <1>1, <1>2, <1>3, <1>4 DEF JumpInv

LEMMA PreservedJumps == Inv /\ JumpInv /\ [Next]_vars => JumpInv' /\ Kept(code, code')
<1>1. SUFFICES ASSUME Inv, JumpInv, [Next]_vars PROVE JumpInv' /\ Kept(code, code')
  OBVIOUS
<1>2. CASE Straight \/ Argument \/ EmitInstruction
  BY <1>1, <1>2, StraightJumps, ArgumentJumps, EmitInstructionJumps
<1>3. CASE ShortCircuit \/ LogicRight \/ LogicEnd
  BY <1>1, <1>3, ShortCircuitJumps, LogicRightJumps, LogicEndJumps
<1>4. CASE If1 \/ ThenBranch \/ ElseBranch \/ EndIf
  BY <1>1, <1>4, If1Jumps, ThenBranchJumps, ElseBranchJumps, EndIfJumps
<1>5. CASE While1 \/ WhileBody \/ WhileEnd
  BY <1>1, <1>5, While1Jumps, WhileBodyJumps, WhileEndJumps
<1>6. CASE For1 \/ ForCond \/ ForBody \/ ForUpdate \/ ForEnd
  BY <1>1, <1>6, For1Jumps, ForCondJumps, ForBodyJumps, ForUpdateJumps, ForEndJumps
<1>7. CASE Switch1 \/ CaseTest \/ CaseJump \/ TestsEnd
  BY <1>1, <1>7, Switch1Jumps, CaseTestJumps, CaseJumpJumps, TestsEndJumps
<1>8. CASE CaseBody \/ DefaultBody \/ SwitchEnd
  BY <1>1, <1>8, CaseBodyJumps, DefaultBodyJumps, SwitchEndJumps
<1>9. CASE BreakOutOfSwitch \/ BreakOutOfLoop \/ Continue \/ Fail
  BY <1>1, <1>9, BreakOutOfSwitchJumps, BreakOutOfLoopJumps, ContinueJumps, FailJumps
<1>10. CASE generateFunction
  BY <1>1, <1>10, GenerateFunctionJumps
<1>11. CASE UNCHANGED vars
  BY <1>1, <1>11, StutterJumps
<1>12. QED
  BY <1>1, <1>2, <1>3, <1>4, <1>5, <1>6, <1>7, <1>8, <1>9, <1>10, <1>11 DEF Next

-----------------------------------------------------------------------------
(* The theorems.                                                           *)

\* For every program, in every reachable state of generate: each jump that waits
\* for its target is held in exactly one place, the activation of emitJump, the
\* break or continue jumps of one loop, or the exits of one switch; every open
\* loop is served by the activation that will patch it; and no jump is
\* remembered twice.
THEOREM JumpsInvariance == Spec => [](Inv /\ JumpInv)
<1>1. Init => Inv /\ JumpInv
  BY Initially, InitiallyJumps
<1>2. Inv /\ JumpInv /\ [Next]_vars => (Inv /\ JumpInv)'
  BY Preserved, PreservedJumps
<1>3. QED
  BY <1>1, <1>2, PTL DEF Spec

LEMMA OwnedIsAwaited == Inv /\ JumpInv => NoForgottenJump
<1>1. SUFFICES ASSUME Inv, JumpInv, NEW i \in DOMAIN code, IsJump(code[i]), code[i].arg = Unpatched
               PROVE  i - 1 \in Awaited
  BY DEF NoForgottenJump
<1>2. i \in Nat \ {0} /\ DOMAIN work = 1 .. Len(work)
  BY <1>1 DEF Inv, TypeOK
<1>3. PICK a \in Nat : a = i - 1
  BY <1>2
<1>4. a \in Waiting(code)
  <2>1. a + 1 = i
    BY <1>2, <1>3
  <2>2. QED
    BY <1>1, <2>1 DEF Waiting, Waits
<1>5. PICK h \in Places : a \in Held[h]
  BY <1>1, <1>4 DEF JumpInv, Owned
<1>6. PICK p \in Nat : h \in {<<"jump", p>>, <<"break", p>>, <<"continue", p>>, <<"exit", p>>}
  BY PlacesAre
<1>7. \/ a \in JumpsAt(p)
      \/ a \in LoopAt(p).breakJumps \cup LoopAt(p).continueJumps
      \/ a \in ExitsAt(p)
  BY <1>5, <1>6, HeldAt
<1> DEFINE Remembered(q) == {work[q].jumps[j] : j \in DOMAIN work[q].jumps}
           Broken(q) == loopStack[q].breakJumps \cup loopStack[q].continueJumps
           Exits(q) == switchBreakStack[q]
<1>8. CASE a \in JumpsAt(p)
  <2>1. p \in DOMAIN work /\ a \in Remembered(p)
    BY <1>8 DEF JumpsAt, JumpsOf
  <2> HIDE DEF Remembered
  <2>2. a \in UNION {Remembered(q) : q \in DOMAIN work}
    BY <2>1
  <2> USE DEF Remembered
  <2>3. QED
    BY <1>3, <2>2, Zenon DEF Awaited
<1>9. CASE a \in LoopAt(p).breakJumps \cup LoopAt(p).continueJumps
  <2>1. p \in DOMAIN loopStack /\ a \in Broken(p)
    BY <1>9 DEF LoopAt, LoopContext
  <2> HIDE DEF Broken
  <2>2. a \in UNION {Broken(q) : q \in DOMAIN loopStack}
    BY <2>1
  <2> USE DEF Broken
  <2>3. QED
    BY <1>3, <2>2, Zenon DEF Awaited
<1>10. CASE a \in ExitsAt(p)
  <2>1. p \in DOMAIN switchBreakStack /\ a \in Exits(p)
    BY <1>10 DEF ExitsAt
  <2> HIDE DEF Exits
  <2>2. a \in UNION {Exits(q) : q \in DOMAIN switchBreakStack}
    BY <2>1
  <2> USE DEF Exits
  <2>3. QED
    BY <1>3, <2>2, Zenon DEF Awaited
<1>11. QED
  BY <1>7, <1>8, <1>9, <1>10

\* For every program, a jump whose target is not known yet is remembered by an
\* open activation, an open loop or an open switch: none is forgotten by
\* generateWhileStmt, generateForStmt, generateSwitchStmt and the others.
THEOREM EveryJumpRemembered == Spec => []NoForgottenJump
BY JumpsInvariance, OwnedIsAwaited, PTL

\* For every program, emitted code changes in one way only: patchJump gives a
\* jump that waits its target, and no jump gets a second one.
THEOREM PatchedAtMostOnce == Spec => PatchedOnce
<1>1. Inv /\ JumpInv /\ [Next]_vars => [Kept(code, code')]_vars
  BY PreservedJumps
<1>2. Spec => [][Kept(code, code')]_vars
  BY <1>1, JumpsInvariance, PTL DEF Spec
<1>3. QED
  BY <1>2 DEF PatchedOnce, Kept

-----------------------------------------------------------------------------
(* What the machine gets.                                                  *)

\* The rest of the function table is that of the program.
TableOfProgram ==
    \A k \in DOMAIN program : /\ functions[k].params = program[k].params
                              /\ functions[k].locals = program[k].localCount

Rows == [address : Nat \cup {-1}, params : Nat, locals : Nat, returnType : Types]

LEMMA SameRows ==
    ASSUME Inv
    PROVE  /\ functions \in Seq(Rows)
           /\ DOMAIN functions = DOMAIN program /\ DOMAIN program = 1 .. Len(program)
           /\ Len(program) \in Nat /\ Len(functions) = Len(program)
<1> DEFINE D == [name : {"main", "helper"}, returnType : Types, params : Nat,
                 localCount : Nat, body : Seq(Stmts)]
<1>1. program \in Seq(D)
  BY ProgramsAssumption DEF Inv, TypeOK, IsProgram
<1>2. functions \in Seq(Rows) /\ Len(functions) = Len(program)
  BY DEF Inv, TypeOK, Rows
<1> HIDE DEF D
<1>3. QED
  BY <1>1, <1>2

LEMMA InitiallyTable == Init => TableOfProgram
<1>1. SUFFICES ASSUME Init, NEW k \in DOMAIN program
               PROVE  /\ functions[k].params = program[k].params
                      /\ functions[k].locals = program[k].localCount
  BY DEF TableOfProgram
<1>2. functions[k] = FunctionInfo(program[k])
  BY <1>1, Zenon DEF Init
<1>3. QED
  BY <1>2 DEF FunctionInfo

LEMMA PreservedTable ==
    ASSUME Inv, TableOfProgram, [Next]_vars
    PROVE  TableOfProgram'
<1>1. UNCHANGED <<program, functions>> \/ generateFunction
  BY DEF Next, vars, Straight, Argument, EmitInstruction, ShortCircuit, LogicRight, LogicEnd,
         If1, ThenBranch, ElseBranch, EndIf, While1, WhileBody, WhileEnd,
         For1, ForCond, ForBody, ForUpdate, ForEnd,
         Switch1, CaseTest, CaseJump, TestsEnd, CaseBody, DefaultBody, SwitchEnd,
         BreakOutOfSwitch, BreakOutOfLoop, Continue, Fail
<1>2. CASE UNCHANGED <<program, functions>>
  BY <1>2 DEF TableOfProgram
<1>3. CASE generateFunction
  <2>1. /\ program' = program
        /\ functions' = [functions EXCEPT ![next + 1].address = currentAddress]
    BY <1>3 DEF generateFunction
  <2>2. \A k \in DOMAIN program : /\ functions'[k].params = functions[k].params
                                  /\ functions'[k].locals = functions[k].locals
    <3>1. \A k \in DOMAIN functions : functions[k] \in Rows
      BY SameRows
    <3>2. DOMAIN functions = DOMAIN program
      BY SameRows
    <3>3. ASSUME NEW k \in DOMAIN program
          PROVE  /\ functions'[k].params = functions[k].params
                 /\ functions'[k].locals = functions[k].locals
      <4>1. CASE k = next + 1
        <5>1. functions'[k] = [functions[k] EXCEPT !.address = currentAddress]
          BY <2>1, <3>2, <4>1
        <5>2. QED
          BY <3>1, <3>2, <5>1 DEF Rows
      <4>2. CASE k # next + 1
        BY <2>1, <3>2, <4>2
      <4>3. QED
        BY <4>1, <4>2
    <3>4. QED
      BY <3>3
  <2>3. QED
    BY <2>1, <2>2 DEF TableOfProgram
<1>4. QED
  BY <1>1, <1>2, <1>3

-----------------------------------------------------------------------------
(* A finished program.                                                     *)

\* Numbers that increase from each place to the next increase throughout.
LEMMA Increasing ==
    ASSUME NEW n \in Nat, NEW f, \A i \in 1 .. n : f[i] \in Nat,
           \A i \in 1 .. n : i + 1 <= n => f[i] < f[i + 1],
           NEW i \in 1 .. n, NEW j \in 1 .. n, i < j
    PROVE  f[i] < f[j]
<1> DEFINE Bad == {k \in 1 .. n : i < k /\ ~(f[i] < f[k])}
<1>1. SUFFICES ASSUME Bad # {} PROVE FALSE
  OBVIOUS
<1>2. PICK k \in Bad : \A m \in Bad : k <= m
  <2>1. Bad \subseteq Nat
    OBVIOUS
  <2>2. QED
    BY <1>1, <2>1, Least
<1>3. k - 1 \in 1 .. n /\ k = (k - 1) + 1 /\ k - 1 < k /\ i <= k - 1
  BY <1>2
<1>4. f[k - 1] < f[k]
  BY <1>2, <1>3
<1>5. CASE k - 1 = i
  BY <1>2, <1>4, <1>5
<1>6. CASE k - 1 > i
  <2>1. k - 1 \notin Bad
    BY <1>2, <1>3
  <2>2. f[i] < f[k - 1]
    BY <1>3, <1>6, <2>1
  <2>3. QED
    BY <1>2, <1>3, <1>4, <2>2
<1>7. QED
  BY <1>3, <1>5, <1>6

\* The functions of a finished program follow each other, and no jump waits.
LEMMA Finished ==
    ASSUME Inv, NoForgottenJump, Accepted
    PROVE  /\ Len(program) \in Nat \ {0} /\ next = Len(program)
           /\ \A k \in 1 .. next :
                  /\ Start(k) \in Nat /\ End(k) \in Nat
                  /\ Start(k) < End(k) /\ End(k) <= Len(code)
                  /\ code[End(k)].op = "Ret"
                  /\ k < next => End(k) = Start(k + 1)
                  /\ k = next => End(k) = Len(code)
                  /\ \A i \in Start(k) + 1 .. End(k) :
                         IsJump(code[i]) => code[i].arg \in Start(k) .. End(k) - 1
           /\ \A j, k \in 1 .. next : j < k => Start(j) < Start(k)
<1>1. work = <<>> /\ next = Len(program) /\ entry >= 0
  BY DEF Accepted, Generated
<1>2. Len(program) \in Nat \ {0}
  BY <1>1, SameRows DEF Inv, TypeOK
<1>3. Len(code) \in Nat /\ DOMAIN code = 1 .. Len(code)
  BY DEF Inv, TypeOK
<1>4. Begin = Start(next)
  BY <1>1, <1>2 DEF Begin
<1>5. ASSUME NEW k \in 1 .. next
      PROVE  /\ Start(k) \in Nat /\ End(k) \in Nat
             /\ Start(k) < End(k)
             /\ code[End(k)].op = "Ret"
             /\ k < next => End(k) = Start(k + 1)
             /\ k = next => End(k) = Len(code)
             /\ Start(k) <= Start(next)
  <2>1. Closed(k)
    BY <1>1 DEF Closed
  <2>2. Start(k) \in 0 .. End(k) /\ End(k) > Start(k) /\ code[End(k)].op = "Ret"
    BY <2>1 DEF Inv, SelfContained
  <2>3. Start(k) \in 0 .. Begin /\ Begin \in 0 .. Len(code)
    BY DEF Inv, InOrder, TypeOK
  <2>4. k < next => End(k) = Start(k + 1)
    BY DEF End, Start
  <2>5. k = next => End(k) = Len(code)
    BY <1>1, <1>2 DEF End
  <2>6. End(k) \in Nat
    <3>1. CASE k < next
      <4>1. k + 1 \in 1 .. next
        BY <1>1, <1>2, <3>1
      <4>2. Start(k + 1) \in 0 .. Begin
        BY <4>1 DEF Inv, InOrder
      <4>3. QED
        BY <2>3, <2>4, <3>1, <4>2
    <3>2. CASE k = next
      BY <1>3, <2>5, <3>2
    <3>3. QED
      BY <1>1, <1>2, <3>1, <3>2
  <2>7. QED
    BY <1>4, <2>2, <2>3, <2>4, <2>5, <2>6
<1>6. ASSUME NEW k \in 1 .. next PROVE End(k) <= Len(code)
  <2>1. CASE k < next
    <3>1. k + 1 \in 1 .. next /\ next \in 1 .. next
      BY <1>1, <1>2, <2>1
    <3>2. End(k) = Start(k + 1) /\ Start(k + 1) <= Start(next) /\ Start(next) < Len(code)
      BY <1>5, <2>1, <3>1
    <3>3. Start(k + 1) \in Nat /\ Start(next) \in Nat
      BY <1>5, <3>1
    <3>4. QED
      BY <1>3, <3>2, <3>3
  <2>2. CASE k = next
    BY <1>3, <1>5, <2>2
  <2>3. QED
    BY <1>1, <1>2, <2>1, <2>2
<1>7. ASSUME NEW k \in 1 .. next, NEW i \in Start(k) + 1 .. End(k), IsJump(code[i])
      PROVE  code[i].arg \in Start(k) .. End(k) - 1
  <2>1. Awaited = {}
    <3>1. DOMAIN work = {} /\ DOMAIN loopStack = {} /\ DOMAIN switchBreakStack = {}
      BY <1>1, NothingHeld
    <3>2. QED
      BY <3>1 DEF Awaited
  <2>2. i \in DOMAIN code
    BY <1>3, <1>5, <1>6
  <2>3. code[i].arg # Unpatched
    BY <1>7, <2>1, <2>2 DEF NoForgottenJump
  <2>4. Closed(k)
    BY <1>1 DEF Closed
  <2>5. QED
    BY <1>7, <2>3, <2>4 DEF Inv, SelfContained
<1>8. ASSUME NEW j \in 1 .. next, NEW k \in 1 .. next, j < k PROVE Start(j) < Start(k)
  <2> DEFINE f == [i \in 1 .. next |-> Start(i)]
  <2>1. next \in Nat /\ \A i \in 1 .. next : f[i] = Start(i)
    BY <1>1, <1>2
  <2>2. \A i \in 1 .. next : f[i] \in Nat
    BY <1>5, <2>1
  <2>3. \A i \in 1 .. next : i + 1 <= next => f[i] < f[i + 1]
    <3>1. SUFFICES ASSUME NEW i \in 1 .. next, i + 1 <= next PROVE f[i] < f[i + 1]
      OBVIOUS
    <3>2. i < next /\ i + 1 \in 1 .. next
      BY <2>1, <3>1
    <3>3. QED
      BY <1>5, <2>1, <3>2
  <2> HIDE DEF f
  <2>4. f[j] < f[k]
    BY <1>8, <2>1, <2>2, <2>3, Increasing
  <2>5. QED
    BY <2>1, <2>4
<1>9. QED
  BY <1>1, <1>2, <1>5, <1>6, <1>7, <1>8

\* Addresses count from 0, and so do functions: what is said of the k-th
\* function by its start is said of the function k - 1 by its place.
LEMMA PlaceInFunction ==
    ASSUME Inv, NoForgottenJump, Accepted, NEW k \in 1 .. next, NEW a \in Int
    PROVE  InFunction(bytecode, a, k - 1) <=> a \in Start(k) .. End(k) - 1 \/ (k = next /\ a >= Start(k))
<1>1. /\ next \in Nat \ {0} /\ next = Len(program) /\ DOMAIN functions = 1 .. next
  BY Finished, SameRows
<1>2. /\ (k - 1) + 1 = k
      /\ \A g \in 1 .. next : Start(g) = functions[g].address
      /\ bytecode.functions = functions
  BY <1>1 DEF Start, bytecode
<1>3. InFunction(bytecode, a, k - 1)
        <=> a >= Start(k) /\ \A g \in 1 .. next : Start(g) > Start(k) => a < Start(g)
  BY <1>1, <1>2 DEF InFunction
<1>4. \A g \in 1 .. next : /\ Start(g) \in Nat /\ End(g) \in Nat
                           /\ g < k => Start(g) < Start(k)
                           /\ k < g => Start(k) < Start(g)
  BY Finished
<1>5. CASE k < next
  <2>1. k + 1 \in 1 .. next /\ End(k) = Start(k + 1) /\ Start(k + 1) > Start(k)
    BY <1>1, <1>5, Finished
  <2>2. \A g \in 1 .. next : Start(g) > Start(k) => Start(g) >= Start(k + 1)
    <3>1. SUFFICES ASSUME NEW g \in 1 .. next, Start(g) > Start(k) PROVE Start(g) >= Start(k + 1)
      OBVIOUS
    <3>2. g = k + 1 \/ g > k + 1
      BY <1>1, <1>4, <3>1
    <3>3. QED
      BY <1>4, <2>1, <3>2, Finished
  <2>3. QED
    BY <1>3, <1>4, <1>5, <2>1, <2>2
<1>6. CASE k = next
  <2>1. \A g \in 1 .. next : ~(Start(g) > Start(k))
    BY <1>1, <1>4, <1>6
  <2>2. a \in Start(k) .. End(k) - 1 => a >= Start(k)
    BY <1>4
  <2>3. QED
    BY <1>3, <1>4, <1>6, <2>1, <2>2
<1>7. QED
  BY <1>1, <1>5, <1>6

LEMMA BytecodeStays ==
    ASSUME Inv, NoForgottenJump, Accepted
    PROVE  StaysInFunctions(bytecode)
<1>1. /\ next \in Nat \ {0} /\ next = Len(program) /\ Len(functions) = next
      /\ code \in Seq(Instructions) /\ Len(code) \in Nat /\ DOMAIN code = 1 .. Len(code)
  <2>1. next \in Nat \ {0} /\ next = Len(program)
    BY Finished
  <2>2. Len(functions) = next
    BY <2>1, SameRows
  <2>3. code \in Seq(Instructions)
    BY DEF Inv, TypeOK
  <2>4. Len(code) \in Nat /\ DOMAIN code = 1 .. Len(code)
    BY <2>3
  <2>5. QED
    BY <2>1, <2>2, <2>3, <2>4
<1>2. bytecode.functions = functions /\ bytecode.code = code
  BY DEF bytecode
<1>3. /\ Functions(bytecode) = 0 .. next - 1
      /\ Addresses(bytecode) = 0 .. Len(code) - 1
  BY <1>1, <1>2 DEF Functions, Addresses
<1>4. ASSUME NEW f \in 0 .. next - 1, NEW a \in 0 .. Len(code) - 1,
             InFunction(bytecode, a, f)
      PROVE  /\ code[a + 1].op # "Ret" =>
                    /\ a + 1 \in 0 .. Len(code) - 1
                    /\ InFunction(bytecode, a + 1, f)
             /\ code[a + 1].op \in Jumps =>
                    /\ code[a + 1].arg \in 0 .. Len(code) - 1
                    /\ InFunction(bytecode, code[a + 1].arg, f)
  <2>1. PICK k \in 1 .. next : f = k - 1
    <3>1. f + 1 \in 1 .. next /\ f = (f + 1) - 1
      BY <1>1
    <3>2. QED
      BY <3>1
  <2>2. /\ Start(k) \in Nat /\ End(k) \in Nat /\ Start(k) < End(k) /\ End(k) <= Len(code)
        /\ code[End(k)].op = "Ret"
        /\ k = next => End(k) = Len(code)
        /\ \A i \in Start(k) + 1 .. End(k) :
               IsJump(code[i]) => code[i].arg \in Start(k) .. End(k) - 1
    BY Finished
  <2>3. a \in Start(k) .. End(k) - 1
    <3>1. a \in Start(k) .. End(k) - 1 \/ (k = next /\ a >= Start(k))
      BY <1>4, <2>1, PlaceInFunction
    <3>2. QED
      BY <1>1, <2>2, <3>1
  <2>4. a + 1 \in Start(k) + 1 .. End(k)
    BY <2>2, <2>3
  <2>5. ASSUME NEW t \in Start(k) .. End(k) - 1
        PROVE  t \in 0 .. Len(code) - 1 /\ InFunction(bytecode, t, f)
    <3>1. t \in Int /\ t \in 0 .. Len(code) - 1
      BY <1>1, <2>2
    <3>2. QED
      BY <2>1, <3>1, PlaceInFunction
  <2>6. ASSUME code[a + 1].op # "Ret" PROVE a + 1 \in Start(k) .. End(k) - 1
    <3>1. a + 1 # End(k)
      BY <2>2, <2>6
    <3>2. QED
      BY <2>2, <2>4, <3>1
  <2>7. ASSUME code[a + 1].op \in Jumps PROVE code[a + 1].arg \in Start(k) .. End(k) - 1
    <3>1. IsJump(code[a + 1])
      BY <2>7 DEF IsJump, JumpOps, Jumps
    <3>2. QED
      BY <2>2, <2>4, <3>1
  <2>8. QED
    BY <2>5, <2>6, <2>7
<1>5. QED
  BY <1>2, <1>3, <1>4 DEF StaysInFunctions

LEMMA BytecodeTyped ==
    ASSUME Inv, NoForgottenJump, Accepted, TableOfProgram
    PROVE  /\ bytecode.code \in Seq([op : OpCode, arg : Int, arg2 : Int, text : Seq(Nat)])
           /\ bytecode.functions \in Seq([address : Addresses(bytecode), params : Nat,
                                          locals : Nat, returnType : ReturnTypes])
           /\ \A f \in DOMAIN bytecode.functions :
                  bytecode.functions[f].params <= bytecode.functions[f].locals
           /\ bytecode.entry \in Functions(bytecode)
<1>1. /\ next \in Nat \ {0} /\ next = Len(program) /\ Len(functions) = next
      /\ code \in Seq(Instructions) /\ Len(code) \in Nat
      /\ functions \in Seq(Rows) /\ DOMAIN functions = 1 .. next /\ DOMAIN program = 1 .. next
      /\ entry \in -1 .. next - 1 /\ entry >= 0
  <2>1. next \in Nat \ {0} /\ next = Len(program)
    BY Finished
  <2>2. /\ Len(functions) = next /\ functions \in Seq(Rows)
        /\ DOMAIN functions = 1 .. next /\ DOMAIN program = 1 .. next
    BY <2>1, SameRows
  <2>3. code \in Seq(Instructions)
    BY DEF Inv, TypeOK
  <2>4. Len(code) \in Nat
    BY <2>3
  <2>5. entry \in -1 .. next - 1 /\ entry >= 0
    BY <2>1 DEF Inv, TypeOK, Accepted
  <2>6. QED
    BY <2>1, <2>2, <2>3, <2>4, <2>5
<1>2. /\ bytecode.functions = functions /\ bytecode.code = code /\ bytecode.entry = entry
      /\ Addresses(bytecode) = 0 .. Len(code) - 1
      /\ Functions(bytecode) = 0 .. next - 1
  BY <1>1 DEF bytecode, Addresses, Functions
<1>3. code \in Seq([op : OpCode, arg : Int, arg2 : Int, text : Seq(Nat)])
  <2>1. Opcodes \subseteq OpCode
    BY DEF Opcodes, ArithmeticOps, UnaryOps, UnaryBuiltins, JumpOps, OpCode
  <2>2. Instructions \subseteq [op : OpCode, arg : Int, arg2 : Int, text : Seq(Nat)]
    BY <2>1 DEF Instructions
  <2>3. QED
    BY <1>1, <2>2, SeqMonotonic
<1> DEFINE R == [address : 0 .. Len(code) - 1, params : Nat, locals : Nat,
                 returnType : ReturnTypes]
<1>4. functions \in Seq(R)
  <2>1. ASSUME NEW k \in 1 .. next PROVE functions[k] \in R
    <3>1. functions[k] \in Rows
      BY <1>1
    <3>2. functions[k].address \in 0 .. Len(code) - 1
      <4>1. functions[k].address = Start(k)
        BY DEF Start
      <4>2. Start(k) \in Nat /\ End(k) \in Nat /\ Start(k) < End(k) /\ End(k) <= Len(code)
        BY Finished
      <4>3. QED
        BY <1>1, <4>1, <4>2
    <3>3. Types = ReturnTypes
      BY DEF Types, ReturnTypes
    <3>4. QED
      BY <3>1, <3>2, <3>3 DEF Rows
  <2> HIDE DEF R
  <2>2. QED
    BY <1>1, <2>1, SeqDef
<1>5. ASSUME NEW k \in 1 .. next PROVE functions[k].params <= functions[k].locals
  <2>1. functions[k].params = program[k].params /\ functions[k].locals = program[k].localCount
    BY <1>1 DEF TableOfProgram
  <2>2. program[k].params <= program[k].localCount
    BY <1>1, ProgramsAssumption DEF Inv, TypeOK, IsProgram
  <2>3. QED
    BY <2>1, <2>2
<1>6. bytecode.functions \in Seq([address : Addresses(bytecode), params : Nat,
                                  locals : Nat, returnType : ReturnTypes])
  BY <1>2, <1>4, Zenon
<1>7. bytecode.code \in Seq([op : OpCode, arg : Int, arg2 : Int, text : Seq(Nat)])
  BY <1>2, <1>3, Zenon
<1> HIDE DEF R
<1>8. /\ \A f \in DOMAIN bytecode.functions :
             bytecode.functions[f].params <= bytecode.functions[f].locals
      /\ bytecode.entry \in Functions(bytecode)
  BY <1>1, <1>2, <1>5
<1>9. QED
  BY <1>6, <1>7, <1>8

\* For every program that is accepted, the generator hands out bytecode the
\* machine may rely on: every instruction is one it knows, the functions lie one
\* after the other with room for their parameters, the entry is one of them, and
\* control stays in a function until it calls or returns.
THEOREM HandsOutBytecode == Spec => [](Accepted => IsBytecode(bytecode))
<1>1. Init => Inv /\ TableOfProgram
  BY Initially, InitiallyTable
<1>2. Inv /\ TableOfProgram /\ [Next]_vars => (Inv /\ TableOfProgram)'
  BY Preserved, PreservedTable
<1>3. Inv /\ TableOfProgram /\ NoForgottenJump => (Accepted => IsBytecode(bytecode))
  BY BytecodeStays, BytecodeTyped DEF IsBytecode
<1>4. QED
  BY <1>1, <1>2, <1>3, EveryJumpRemembered, PTL DEF Spec
=============================================================================
