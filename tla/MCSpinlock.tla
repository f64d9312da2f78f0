----------------------------- MODULE MCSpinlock -----------------------------
(* Instances of Spinlock for TLC. *)
EXTENDS Spinlock, TLC

Symmetry == Permutations(Lock) \cup Permutations(CPU)
=============================================================================
