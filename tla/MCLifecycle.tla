----------------------------- MODULE MCLifecycle -----------------------------
(* Small instances of OwnerLifecycle, in which no request is lost.         *)
EXTENDS OwnerLifecycle

ASSUME NoLostRequest == Faulty = {}
=============================================================================
