---------------------------- MODULE Subsequence ----------------------------
(***************************************************************************)
(* What a walk over a kernel list (list_for_each_entry_safe with list_del) *)
(* leaves of it.  The standard SelectSeq takes an operator and is defined  *)
(* by recursion, and the provers can use neither; Keep takes a set of      *)
(* positions and names each element of the result.                         *)
(***************************************************************************)
EXTENDS Integers, Sequences, FiniteSets

\* The number of positions in I up to i.
Rank(I, i) == Cardinality({j \in I : j <= i})

\* The elements of s at the positions in I, in their order.
Keep(s, I) == [k \in 1 .. Cardinality(I) |-> s[CHOOSE i \in I : Rank(I, i) = k]]
=============================================================================
