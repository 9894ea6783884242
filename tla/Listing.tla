------------------------------- MODULE Listing --------------------------------
(* What the listing programs share: what is in a set in order, numbers in      *)
(* order, and the entries of a long list that are shown, some at each end.     *)
EXTENDS Integers, SequencesExt

InOrder(S, Less(_, _)) == CHOOSE s \in [1 .. Cardinality(S) -> S] : IsSorted(s, Less)

FromTo(a, b) == [k \in 1 .. (IF b >= a THEN b - a + 1 ELSE 0) |-> a + k - 1]

(* Of n entries the first k, then from the first of the last k that was not yet shown. *)
FirstAndLast(n, k) ==
  LET first == IF n < k THEN n ELSE k
      resume == IF n - k > first THEN n - k ELSE first
  IN  FromTo(1, first) \o FromTo(resume + 1, n)
===============================================================================
