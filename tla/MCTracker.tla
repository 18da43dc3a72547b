------------------------------ MODULE MCTracker ------------------------------
(* Small instances of Tracker with two guards; every handle in use is one  *)
(* of the first guard.                                                     *)
EXTENDS Tracker, TLC

CONSTANTS t1, t2, g1, g2

(* Each guard on a thread of its own, as spawn() makes them.               *)
HostApart == (g1 :> t1) @@ (g2 :> t2)

(* Two guards of one thread, as two calls of guard() make them.            *)
HostShared == (g1 :> t1) @@ (g2 :> t1)

TargetFirst == [h \in Interrupters |-> g1]

(* Several stop() of one kind do the same.                                 *)
CallerSymmetry == Permutations(Stoppers) \cup Permutations(Interrupters)
=============================================================================
