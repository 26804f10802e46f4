------------------------------- MODULE Totals -------------------------------
(***************************************************************************)
(* Sums of naturals, written as a count: one element for every unit.  The  *)
(* contract adds units up in loops (_getSum, the merge loop, the balance   *)
(* updates of a batch); the order of the additions never matters, so a     *)
(* loop is its total.  Counting keeps sums within reach of the theorems    *)
(* about finite cardinalities, with no recursion.                          *)
(***************************************************************************)
EXTENDS Integers, FiniteSets

\* One pair <<x, k>> for every unit k that f gives to x in S.
UnitsOver(f, S) == UNION {{x} \X (1..f[x]) : x \in S}

\* The sum of f[x] over x in S.
Total(f, S) == Cardinality(UnitsOver(f, S))

\* The non-empty sequences over S with between lo and hi elements.
SeqsBetween(S, lo, hi) == UNION {[1..n -> S] : n \in lo..hi}
=============================================================================
