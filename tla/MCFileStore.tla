----------------------------- MODULE MCFileStore -----------------------------
(* Instances of FileStore for TLC.                                         *)
EXTENDS FileStore, TLC

Symmetry == Permutations(Key) \cup Permutations(Path)
=============================================================================
