---------------------------- MODULE MCLockManager ----------------------------
(* Small instances of LockManager. Callers and processes are each          *)
(* interchangeable.                                                        *)
EXTENDS LockManager, TLC

ManagerSymmetry == Permutations(Callers) \cup Permutations(Procs)
=============================================================================
