-------------------------- MODULE MCUpdateObserver --------------------------
(* Two offsets and two values: enough for a query of several requests and for
   a change between any two steps. *)
EXTENDS UpdateObserver, TLC

CONSTANTS o1, o2

Symmetry == Permutations({o1, o2})
=============================================================================
