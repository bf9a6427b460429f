----------------------------- MODULE CallStack -----------------------------
(***************************************************************************)
(* The C++ call stack of a component that walks over a tree by mutual      *)
(* recursion: a sequence of items, the last of which runs next.  Each has  *)
(* a field task that says what it has still to do.                         *)
(***************************************************************************)
EXTENDS Integers, Sequences, FiniteSets, SequencesExt

\* The top activation is replaced by these, the first of which runs next.
Replaced(stack, items) == SubSeq(stack, 1, Len(stack) - 1) \o Reverse(items)

\* The places of the activations with one of these tasks.
Pending(stack, tasks) == {i \in DOMAIN stack : stack[i].task \in tasks}
=============================================================================
