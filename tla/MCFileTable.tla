---------------------------- MODULE MCFileTable -----------------------------
(* Instances of FileTable for TLC. *)
EXTENDS FileTable, TLC

\* The slots of the process table other than init's are alike.
Sym == Permutations(Proc \ {Init1})
=============================================================================
