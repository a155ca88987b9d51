----------------------------- MODULE MCSpinlock -----------------------------
(* A small instance of Spinlock for model checking. *)
EXTENDS Spinlock, TLC

Symmetry == Permutations(CPU)
=============================================================================
