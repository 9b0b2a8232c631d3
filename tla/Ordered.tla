-------------------------------- MODULE Ordered --------------------------------
(***************************************************************************)
(* A finite set as a sequence in a strict order, given as a set of pairs.  *)
(* An element stands where the count of the elements before it says.       *)
(* (SetToSortSeq of the community modules is the same sequence, by way of  *)
(* the set's permutations, of which the provers know nothing.)             *)
(***************************************************************************)
EXTENDS Integers, FiniteSets, Sequences

Below(S, R, x) == {y \in S : <<y, x>> \in R}
Rank(S, R, x)  == Cardinality(Below(S, R, x)) + 1

Ordered(S, R) == [i \in 1 .. Cardinality(S) |-> CHOOSE x \in S : Rank(S, R, x) = i]

\* Numbers in their own order.
LessThan(S)  == {p \in S \X S : p[1] < p[2]}
Ascending(S) == Ordered(S, LessThan(S))
=============================================================================
