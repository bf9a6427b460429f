--------------------------- MODULE LexicalScoping ---------------------------
(***************************************************************************)
(* What the names of a program mean by the text alone (specs/semantics.md, *)
(* section 4), and the promise of the analyzer that it finds out the same. *)
(*                                                                         *)
(* The variables of a function are numbered in the order of their          *)
(* declarations, parameters first.  An environment maps each visible name  *)
(* to its variable; a block, a for and a switch are regions, which give    *)
(* back the environment they got.  Nothing is opened, closed or counted.   *)
(***************************************************************************)
EXTENDS Scopes

-----------------------------------------------------------------------------
(* The reading of a function: the environment, the names declared in the   *)
(* region so far, how many variables there are, the variables referred to, *)
(* whether a return has been met, and whether all is well.                 *)

Variable(number, type, isMutable) == [number |-> number, type |-> type, isMutable |-> isMutable]

TypeIn(e, env) ==
    CASE e.kind = "literal"  -> e.type
      [] e.kind = "variable" -> IF e.name \in DOMAIN env THEN env[e.name].type ELSE "unknown"
      [] OTHER               -> IF \A i \in DOMAIN e.operands :
                                       /\ e.operands[i].name \in DOMAIN env
                                       /\ env[e.operands[i].name].type = e.operands[i].type
                                THEN e.type ELSE "unknown"

Mentions(e) ==
    CASE e.kind = "literal"  -> <<>>
      [] e.kind = "variable" -> <<e.name>>
      [] OTHER               -> [i \in DOMAIN e.operands |-> e.operands[i].name]

\* An expression of one of these types; or an int literal for a uint.
Read(r, e, types) ==
    LET type == TypeIn(e, r.env)
        well == type \in types \/ ("uint" \in types /\ e.kind = "literal" /\ type = "int")
        refers == Mentions(e)
    IN  IF well /\ r.well
        THEN [r EXCEPT !.refers = @ \o [i \in DOMAIN refers |-> r.env[refers[i]].number]]
        ELSE [r EXCEPT !.well = FALSE]

ReadAll(r, values, types) == FoldLeft(LAMBDA s, e : Read(s, e, types), r, values)

Enters(r)        == [r EXCEPT !.here = {}]
Leaves(r, outer) == [r EXCEPT !.env = outer.env, !.here = outer.here]

DeclaredIn(r, n) ==
    LET type == IF n.type = "unknown" THEN TypeIn(n.values[1], r.env) ELSE n.type
    IN  IF r.well /\ n.name \notin r.here /\ type \in ValueTypes
        THEN [r EXCEPT !.env = [m \in DOMAIN @ \cup {n.name} |->
                                  IF m = n.name THEN Variable(r.count, type, n.isMutable) ELSE @[m]],
                       !.here   = @ \cup {n.name},
                       !.count  = @ + 1,
                       !.refers = Append(@, r.count)]
        ELSE [r EXCEPT !.well = FALSE]

RECURSIVE Reading(_, _, _, _)
\* The reading r goes on over statement n, inside a loop or switch or not, in a
\* function that returns this type.
Reading(n, r, inside, returnType) ==
    LET Over(nodes, s, ctx) == FoldLeft(LAMBDA t, m : Reading(m, t, ctx, returnType), s, nodes)
        Only(condition) == [r EXCEPT !.well = @ /\ condition]
    IN
    CASE ~r.well -> r
      [] n.kind = "empty"    -> r
      [] n.kind = "exprStmt" -> Read(r, n.value, Types \ {"unknown"})
      [] n.kind = "print"    -> ReadAll(r, n.values, ValueTypes)
      [] n.kind = "block"    -> Leaves(Over(n.body, Enters(r), inside), r)
      [] n.kind = "varDecl"  ->
            IF n.type = "unknown" /\ n.values = <<>> THEN Only(FALSE)
            ELSE LET types == IF n.type = "unknown" THEN ValueTypes ELSE {n.type}
                 IN  DeclaredIn(ReadAll(r, n.values, types), n)
      [] n.kind = "assign"   ->
            IF n.name \in DOMAIN r.env /\ r.env[n.name].isMutable
            THEN LET s == Read(r, n.value, {r.env[n.name].type})
                 IN  IF s.well THEN [s EXCEPT !.refers = Append(@, r.env[n.name].number)] ELSE s
            ELSE Only(FALSE)
      [] n.kind = "if"       -> Over(n.body, Read(r, n.value, {"bool"}), inside)
      [] n.kind = "while"    -> Reading(n.body, Read(r, n.value, {"bool"}), {"loop"}, returnType)
      [] n.kind = "for"      ->
            LET s == Read(Over(n.initializer, Enters(r), inside), n.value, {"bool"})
            IN  Leaves(Over(<<n.body>> \o n.update, s, {"loop"}), r)
      [] n.kind = "switch"   ->
            Leaves(Over(n.body, Enters(Read(r, n.value, {"int"})), inside \cup {"switch"}), r)
      [] n.kind = "return"   ->
            IF (n.values = <<>>) = (returnType = "void")
            THEN [ReadAll(r, n.values, {returnType}) EXCEPT !.returns = TRUE]
            ELSE Only(FALSE)
      [] n.kind = "break"    -> Only(inside # {})
      [] n.kind = "continue" -> Only("loop" \in inside)

ReadingOf(f) ==
    LET start == [env |-> [n \in {f.parameters[i].name : i \in DOMAIN f.parameters} |->
                              LET i == CHOOSE i \in DOMAIN f.parameters : f.parameters[i].name = n
                              IN  Variable(i - 1, f.parameters[i].type, TRUE)],
                  here |-> {}, count |-> Len(f.parameters), refers |-> <<>>, returns |-> FALSE,
                  well |-> \A i, j \in DOMAIN f.parameters :
                               f.parameters[i].name = f.parameters[j].name => i = j]
        end == Reading(f.body, start, {}, f.returnType)
    IN  [end EXCEPT !.well = @ /\ (f.returnType = "void" \/ end.returns)]

-----------------------------------------------------------------------------
(* Properties.                                                             *)

Finished == work = <<>> /\ Len(analyzed) = Len(program)

\* The analyzer accepts a program if and only if the text has a meaning, and
\* then writes into every use and declaration the slot of the variable it
\* means, and into every function how many it has.
ResolvedLexically ==
    Finished =>
        LET readings == [k \in DOMAIN program |-> ReadingOf(program[k])]
        IN  /\ diagnostic = NoMessage <=> \A k \in DOMAIN program : readings[k].well
            /\ diagnostic = NoMessage =>
                   analyzed = [k \in DOMAIN program |-> [localCount |-> readings[k].count,
                                                         slots      |-> readings[k].refers]]
=============================================================================
