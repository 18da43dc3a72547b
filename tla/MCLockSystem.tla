----------------------------- MODULE MCLockSystem -----------------------------
(* Small instances of LockSystem. The client threads are interchangeable.  *)
EXTENDS LockSystem, TLC

ClientSymmetry == Permutations(Clients)
=============================================================================
