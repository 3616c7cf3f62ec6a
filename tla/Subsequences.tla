---------------------------- MODULE Subsequences ----------------------------
(***************************************************************************)
(* A set of integers in order, and the entries of a list at some of its    *)
(* positions: what the loops of the code that skip entries build.          *)
(***************************************************************************)
EXTENDS Integers, Sequences, FiniteSets, SequencesExt

Sorted(ids) ==
  [i \in 1..Cardinality(ids) |->
     CHOOSE x \in ids : Cardinality({y \in ids : y < x}) = i - 1]

(* The entries of a list at the positions in at, in their order. *)
Kept(seq, at) ==
  LET order == Sorted(at) IN [k \in DOMAIN order |-> seq[order[k]]]
=============================================================================
