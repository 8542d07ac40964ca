------------------------------ MODULE Selection ------------------------------
(***************************************************************************)
(* Parts of a sequence, given by the positions they stand at, and sets     *)
(* put in order.  SelectSeq of the standard modules does the first by      *)
(* recursion, SortSeq the second by permutations; here both count, and     *)
(* that is something the proofs can speak of.                              *)
(***************************************************************************)
EXTENDS Integers, Sequences, FiniteSets

(* The n-th of the integers of a finite set I, in increasing order. *)
Nth(I, n) == CHOOSE i \in I : Cardinality({j \in I : j < i}) = n - 1

(* The integers of a finite set I, in increasing order. *)
InOrder(I) == [n \in 1 .. Cardinality(I) |-> Nth(I, n)]

(* The elements of s at the positions I. *)
Picked(s, I) == [n \in 1 .. Cardinality(I) |-> s[Nth(I, n)]]

(* The elements of a finite set S, each behind those that come before it   *)
(* by the pairs of `before`.                                               *)
Ordered(S, before) ==
  [n \in 1 .. Cardinality(S) |->
     CHOOSE x \in S : Cardinality({y \in S : <<y, x>> \in before}) = n - 1]
=============================================================================
