----------------------------- MODULE MCFileLock -----------------------------
(* Small instances of FileLock. *)
EXTENDS FileLock, TLC

CONSTANTS p1, p2, p3, f1, f2

LockSymmetry == Permutations(File) \cup Permutations(Proc \ Readers)
=============================================================================
