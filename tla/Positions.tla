----------------------------- MODULE Positions -----------------------------
(***************************************************************************)
(* Lists made of some elements of another list, in its order.  What Go     *)
(* does by appending in a loop is stated by the positions of the elements  *)
(* that are taken.                                                         *)
(***************************************************************************)
EXTENDS Naturals, FiniteSets

(* The n-th number of a finite set. *)
Nth(S, n) == CHOOSE x \in S : Cardinality({y \in S : y <= x}) = n

(* The elements of a list at the given positions. *)
Picked(seq, S) == [n \in 1..Cardinality(S) |-> seq[Nth(S, n)]]
=============================================================================
