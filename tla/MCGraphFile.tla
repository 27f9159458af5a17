----------------------------- MODULE MCGraphFile -----------------------------
(* Instances of GraphFile for TLC. *)
EXTENDS GraphFile, TLC

Symmetry == Permutations(Inode)
=============================================================================
