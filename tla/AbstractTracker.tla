--------------------------- MODULE AbstractTracker ---------------------------
(***************************************************************************)
(* What an InterruptibleTracker promises its users (src/src/tracker.rs): a *)
(* gate. While it is open, work may start; stop() closes it for good and   *)
(* returns only when no work is running.                                   *)
(***************************************************************************)
CONSTANTS Guards, Stoppers

VARIABLES
  open,      \* spawn() and guard() still succeed
  running,   \* guards whose work is in progress
  stopped    \* calls of stop() that have returned

vars == <<open, running, stopped>>

Init == open = TRUE /\ running = {} /\ stopped = {}

Enter(g) ==
  /\ open /\ g \notin running
  /\ running' = running \cup {g}
  /\ UNCHANGED <<open, stopped>>

Leave(g) ==
  /\ g \in running
  /\ running' = running \ {g}
  /\ UNCHANGED <<open, stopped>>

Close ==
  /\ open' = FALSE
  /\ UNCHANGED <<running, stopped>>

Return(s) ==
  /\ ~open /\ running = {} /\ s \notin stopped
  /\ stopped' = stopped \cup {s}
  /\ UNCHANGED <<open, running>>

Next ==
  \/ \E g \in Guards : Enter(g) \/ Leave(g)
  \/ Close
  \/ \E s \in Stoppers : Return(s)

Spec == Init /\ [][Next]_vars
=============================================================================
