---------------------------- MODULE Subsequences ----------------------------
(***************************************************************************)
(* Sets of positions read in their order.  Both operators count instead of  *)
(* recursing, so that what they return can be proved (SubsequenceProofs).   *)
(***************************************************************************)
EXTENDS Integers, FiniteSets

\* The place of i in the order of a set of numbers.
UpTo(S, i) == {j \in S : j <= i}
Place(S, i) == Cardinality(UpTo(S, i))

\* A finite set of numbers as an increasing sequence.
Ascending(S) == [k \in 1 .. Cardinality(S) |-> CHOOSE i \in S : Place(S, i) = k]

\* The elements of seq at the indices in S, in the order they have in seq.
Picked(seq, S) ==
    LET order == Ascending(S)
    IN  [k \in DOMAIN order |-> seq[order[k]]]
=============================================================================
