------------------------------ MODULE MCVirtio ------------------------------
(* Instances of Virtio for TLC. *)
EXTENDS Virtio, TLC

Symmetry == Permutations(Proc) \cup Permutations(Data)
=============================================================================
