----------------------- MODULE MCWorkingDirectoryPool -----------------------
(* Instances of WorkingDirectoryPool for TLC *)
EXTENDS WorkingDirectoryPool, TLC

Symmetry == Permutations(Commits) \cup Permutations(Tools)
=============================================================================
