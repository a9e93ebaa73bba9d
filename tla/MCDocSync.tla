----------------------------- MODULE MCDocSync -----------------------------
(* Small instances of DocSync for TLC. *)
EXTENDS DocSync, TLC

\* Calls of doWithLock differ in nothing but their names.
LockSymmetry == Permutations(Locks)
=============================================================================
