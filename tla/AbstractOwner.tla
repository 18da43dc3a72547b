---------------------------- MODULE AbstractOwner ----------------------------
(***************************************************************************)
(* What an owner process promises to the LockManager: it serves, it is     *)
(* exiting, or it is gone, and while the daemon has a file registered with *)
(* it and holds its end of the socket, it serves. LockSystem implements    *)
(* this; LockManager builds on it.                                         *)
(***************************************************************************)
VARIABLES
  phase,   \* "serving", "exiting" or "gone"
  open,    \* the daemon holds its end of the socket
  files    \* some file is registered

vars == <<phase, open, files>>

Init == phase = "serving" /\ open = TRUE /\ files = FALSE

(* Files are registered, which takes a process that serves.                *)
Register == phase = "serving" /\ files' = TRUE /\ UNCHANGED <<phase, open>>

Unregister == files' = FALSE /\ UNCHANGED <<phase, open>>

HangUp == open' = FALSE /\ UNCHANGED <<phase, files>>

(* An unused process's TTL runs out, or its socket has reached its end.    *)
Expire ==
  /\ phase = "serving" /\ (open => ~files)
  /\ phase' = "exiting"
  /\ UNCHANGED <<open, files>>

Exit ==
  /\ phase = "exiting"
  /\ phase' = "gone" /\ files' = FALSE
  /\ UNCHANGED open

Next == Register \/ Unregister \/ HangUp \/ Expire \/ Exit

Spec == Init /\ [][Next]_vars
=============================================================================
