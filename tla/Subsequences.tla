----------------------------- MODULE Subsequences -----------------------------
(***************************************************************************)
(* The elements of a set of numbers in their order, those elements of a    *)
(* sequence that are in a set, in its order, and the sum of a function's   *)
(* values, without recursion, so that properties of them can be proved.    *)
(***************************************************************************)
EXTENDS Integers, Sequences, FiniteSets

\* The k-th element is the one with k elements up to it.
Ascending(S) ==
  [k \in 1 .. Cardinality(S) |-> CHOOSE x \in S : Cardinality({y \in S : y <= x}) = k]

\* The same from the other end.
Descending(S) ==
  LET n == Cardinality(S)
  IN  [k \in 1 .. n |-> Ascending(S)[(n - k) + 1]]

\* What is left of s: the elements that are in P.
Keep(s, P) ==
  LET places == Ascending({i \in DOMAIN s : s[i] \in P})
  IN  [k \in DOMAIN places |-> s[places[k]]]

\* The sum of f over S, for natural numbers: how many the values are together.
SumOver(f, S) == Cardinality(UNION {{x} \X (1 .. f[x]) : x \in S})
=============================================================================
