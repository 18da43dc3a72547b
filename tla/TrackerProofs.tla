---------------------------- MODULE TrackerProofs ----------------------------
(***************************************************************************)
(* Proofs about Tracker for any number of guards, threads, stop() calls    *)
(* and any Backoff.                                                        *)
(***************************************************************************)
EXTENDS Tracker, TLAPS

(* Every step of src/src/tracker.rs keeps the types of its variables.      *)
LEMMA TypeStep == TypeOK /\ [Next]_vars => TypeOK'
<1> SUFFICES ASSUME TypeOK, [Next]_vars PROVE TypeOK'
  OBVIOUS
<1> USE TrackerAssumption
    DEF TypeOK, GuardStates, CallerStates, Tracked, Callers, trackerVars,
        guardVars, callerVars
<1>1. CASE \E g \in Guards : GuardStep(g)
  <2> SUFFICES ASSUME NEW g \in Guards, GuardStep(g) PROVE TypeOK'
    BY <1>1
  <2>1. CASE Spawn(g)               BY <2>1 DEF Spawn, Advance
  <2>2. CASE Track(g)
    <3>1. can_spawn' \in BOOLEAN /\ new_thread' \in BOOLEAN
      BY <2>2 DEF Track
    <3>2. threads' \in SUBSET Pthreads /\ gpc' \in [Guards -> GuardStates]
      BY <2>2 DEF Track, Advance
    <3> QED  BY <2>2, <3>1, <3>2 DEF Track
  <2>3. CASE Unmask(g)              BY <2>3 DEF Unmask, Advance
  <2>4. CASE HandleSignal(g)        BY <2>4 DEF HandleSignal
  <2>5. CASE EnterSyscall(g)        BY <2>5 DEF EnterSyscall, Advance
  <2>6. CASE SyscallInterrupted(g)  BY <2>6 DEF SyscallInterrupted, Advance
  <2>7. CASE SyscallCompletes(g)    BY <2>7 DEF SyscallCompletes, Advance
  <2>8. CASE WorkEnds(g)            BY <2>8 DEF WorkEnds, Advance
  <2>9. CASE Untrack(g)             BY <2>9 DEF Untrack, Advance
  <2>10. CASE MarkExit(g)           BY <2>10 DEF MarkExit, Advance
  <2> QED
    BY <2>1, <2>2, <2>3, <2>4, <2>5, <2>6, <2>7, <2>8, <2>9, <2>10 DEF GuardStep
<1>2. ASSUME NEW c \in Callers, Snooze(c) PROVE TypeOK'
  <2>1. backoff' \in [Callers -> 0 .. BackoffLimit]
    BY <1>2, SMTT(60) DEF Snooze, Snoozed, Completed
  <2>2. pc' \in [Callers -> CallerStates]
    BY <1>2, SMTT(60) DEF Snooze, Goto
  <2> QED  BY <1>2, <2>1, <2>2 DEF Snooze
<1>3. ASSUME NEW c \in Callers, NEW m, SnoozeAgain(c, m) PROVE TypeOK'
  <2>1. backoff' \in [Callers -> 0 .. BackoffLimit]
    BY <1>3, SMTT(60) DEF SnoozeAgain, Snoozed, Completed
  <2> QED  BY <1>3, <2>1 DEF SnoozeAgain
<1>4. CASE \E s \in Stoppers : StopStep(s)
  <2> SUFFICES ASSUME NEW s \in Stoppers, StopStep(s) PROVE TypeOK'
    BY <1>4
  <2>1. CASE StopLock(s)            BY <2>1 DEF StopLock, Goto
  <2>2. CASE StopDone(s)            BY <2>2 DEF StopDone, Goto
  <2>3. CASE StopCheck(s)
    <3>1. snooze_interrupt_done' \in [Callers -> BOOLEAN]
      BY <2>3 DEF StopCheck
    <3>2. backoff' \in [Callers -> 0 .. BackoffLimit]
      BY <2>3 DEF StopCheck
    <3>3. pc' \in [Callers -> CallerStates] /\ data_mutex' \in Stoppers \cup {Free}
      BY <2>3 DEF StopCheck, Goto
    <3>4. new_thread' \in BOOLEAN
      BY <2>3 DEF StopCheck
    <3> QED  BY <2>3, <3>1, <3>2, <3>3, <3>4 DEF StopCheck
  <2>4. CASE StopKill(s)            BY <2>4 DEF StopKill, Kill, AfterKill, Goto
  <2>5. CASE StopRelock(s)          BY <2>5 DEF StopRelock, Goto
  <2> QED  BY <1>2, <1>3, <2>1, <2>2, <2>3, <2>4, <2>5 DEF StopStep
<1>5. CASE \E h \in Interrupters : HandleStep(h)
  <2> SUFFICES ASSUME NEW h \in Interrupters, HandleStep(h) PROVE TypeOK'
    BY <1>5
  <2>1. CASE HandleLock(h)          BY <2>1 DEF HandleLock, Goto
  <2>2. CASE HandleDone(h)          BY <2>2 DEF HandleDone, Goto
  <2>3. CASE HandleCheck(h)         BY <2>3 DEF HandleCheck, Goto
  <2>4. CASE HandleKill(h)          BY <2>4 DEF HandleKill, Kill, AfterKill, Goto
  <2>5. CASE HandleRelock(h)        BY <2>5 DEF HandleRelock, Goto
  <2> QED  BY <1>2, <1>3, <2>1, <2>2, <2>3, <2>4, <2>5 DEF HandleStep
<1>6. CASE UNCHANGED vars
  BY <1>6 DEF vars
<1> QED  BY <1>1, <1>4, <1>5, <1>6 DEF Next

(* The tracker's variables keep their types in every behaviour.            *)
THEOREM TypeCorrect == Spec => []TypeOK
<1>1. Init => TypeOK
  <2> SUFFICES ASSUME Init PROVE TypeOK
    OBVIOUS
  <2>1. can_spawn \in BOOLEAN /\ new_thread \in BOOLEAN
    BY DEF Init
  <2> QED
    BY <2>1, TrackerAssumption
    DEF Init, TypeOK, GuardStates, CallerStates, Tracked
<1> QED  BY <1>1, TypeStep, PTL DEF Spec

-----------------------------------------------------------------------------
(* A step of a guard that neither enters nor leaves the tracker keeps the  *)
(* invariant: threads, mutexes and callers stay as they are.               *)
LEMMA QuietGuardStep ==
  ASSUME TypeOK, TrackerInv, NEW g \in Guards, NEW to,
         UNCHANGED <<trackerVars, exited, exit_mutex, callerVars>>,
         gpc' = [gpc EXCEPT ![g] = to],
         gpc[g] \in Tracked <=> to \in Tracked,
         gpc[g] \notin {"untracked", "exited"},
         to \notin {"untracked", "exited"}
  PROVE  TrackerInv'
<1> USE TrackerAssumption DEF TypeOK, TrackerInv, trackerVars, callerVars
<1>1. ThreadsAreTracked'
  BY DEF ThreadsAreTracked
<1>2. StopHoldsMutex'
  BY DEF StopHoldsMutex, Callers
<1>3. HandleHoldsMutex'
  BY DEF HandleHoldsMutex, Callers
<1>4. ExitMarkedLast'
  BY DEF ExitMarkedLast
<1> QED  BY <1>1, <1>2, <1>3, <1>4

(* The guards of src/src/tracker.rs keep the invariant, provided each has  *)
(* a thread of its own.                                                    *)
LEMMA GuardStepInv ==
  ASSUME TypeOK, TrackerInv, OneGuardPerThread, NEW g \in Guards, GuardStep(g)
  PROVE  TrackerInv'
<1>1. CASE Spawn(g)
  BY <1>1, QuietGuardStep, ZenonT(60) DEF Spawn, Advance, Tracked
<1>2. CASE Track(g) /\ can_spawn
  <2> USE <1>2, TrackerAssumption DEF Track, Advance, TypeOK, TrackerInv, callerVars
  <2>1. ThreadsAreTracked'
    BY DEF ThreadsAreTracked, OneGuardPerThread, Tracked
  <2>2. StopHoldsMutex'
    BY DEF StopHoldsMutex, Callers
  <2>3. HandleHoldsMutex'
    BY DEF HandleHoldsMutex, Callers, Tracked
  <2>4. ExitMarkedLast'
    BY DEF ExitMarkedLast
  <2> QED  BY <2>1, <2>2, <2>3, <2>4
<1>3. CASE Track(g) /\ ~can_spawn
  BY <1>3, QuietGuardStep, ZenonT(60) DEF Track, Advance, Tracked, trackerVars
<1>4. CASE Unmask(g)
  BY <1>4, QuietGuardStep, ZenonT(60) DEF Unmask, Advance, Tracked
<1>5. CASE HandleSignal(g)
  <2>1. UNCHANGED <<trackerVars, guardVars, callerVars>>
    BY <1>5 DEF HandleSignal
  <2>2. ThreadsAreTracked' /\ StopHoldsMutex'
    BY <2>1 DEF TrackerInv, ThreadsAreTracked, StopHoldsMutex, trackerVars, guardVars, callerVars
  <2>3. HandleHoldsMutex' /\ ExitMarkedLast'
    BY <2>1 DEF TrackerInv, HandleHoldsMutex, ExitMarkedLast, trackerVars, guardVars, callerVars
  <2> QED  BY <2>2, <2>3 DEF TrackerInv
<1>6. CASE EnterSyscall(g)
  BY <1>6, QuietGuardStep, ZenonT(60) DEF EnterSyscall, Advance, Tracked
<1>7. CASE SyscallInterrupted(g)
  BY <1>7, QuietGuardStep, ZenonT(60) DEF SyscallInterrupted, Advance, Tracked
<1>8. CASE SyscallCompletes(g)
  BY <1>8, QuietGuardStep, ZenonT(60) DEF SyscallCompletes, Advance, Tracked
<1>9. CASE WorkEnds(g)
  BY <1>9, QuietGuardStep, ZenonT(60) DEF WorkEnds, Advance, Tracked
<1>10. CASE Untrack(g)
  <2> USE <1>10, TrackerAssumption DEF Untrack, Advance, TypeOK, TrackerInv, callerVars
  <2>1. ThreadsAreTracked'
    BY DEF ThreadsAreTracked, OneGuardPerThread, Tracked
  <2>2. StopHoldsMutex'
    BY DEF StopHoldsMutex, Callers
  <2>3. HandleHoldsMutex'
    BY DEF HandleHoldsMutex, Callers, Tracked
  <2>4. ExitMarkedLast'
    BY DEF ExitMarkedLast
  <2> QED  BY <2>1, <2>2, <2>3, <2>4
<1>11. CASE MarkExit(g)
  <2> USE <1>11, TrackerAssumption
      DEF MarkExit, Advance, TypeOK, TrackerInv, trackerVars, callerVars
  <2>1. ThreadsAreTracked'
    BY DEF ThreadsAreTracked, Tracked
  <2>2. StopHoldsMutex'
    BY DEF StopHoldsMutex, Callers
  <2>3. HandleHoldsMutex'
    BY DEF HandleHoldsMutex, Callers, Tracked
  <2>4. ExitMarkedLast'
    BY DEF ExitMarkedLast
  <2> QED  BY <2>1, <2>2, <2>3, <2>4
<1> QED
  BY <1>1, <1>2, <1>3, <1>4, <1>5, <1>6, <1>7, <1>8, <1>9, <1>10, <1>11
  DEF GuardStep

(* InterruptibleTracker::stop touches neither the threads nor the guards   *)
(* nor another caller, so it can disturb only what the invariant says of   *)
(* its own mutex.                                                          *)
LEMMA StopStepInv ==
  ASSUME TypeOK, TrackerInv, NEW s \in Stoppers, StopStep(s)
  PROVE  TrackerInv'
<1> USE TrackerAssumption DEF TypeOK, TrackerInv, Callers, trackerVars
<1>1. /\ UNCHANGED <<threads, guardVars>>
      /\ \E p \in CallerStates : pc' = [pc EXCEPT ![s] = p]
  BY DEF StopStep, StopLock, StopDone, StopCheck, StopKill, StopRelock, Snooze,
         SnoozeAgain, AfterKill, Goto, CallerStates
<1>2. ThreadsAreTracked' /\ ExitMarkedLast'
  BY <1>1 DEF ThreadsAreTracked, ExitMarkedLast, guardVars
<1>3. HandleHoldsMutex'
  <2>1. \A h \in Interrupters : pc'[h] = pc[h]
    BY <1>1
  <2> QED  BY <1>1, <2>1 DEF HandleHoldsMutex, guardVars
<1>4. StopHoldsMutex'
  <2>1. CASE StopLock(s)
    BY <2>1 DEF StopLock, StopHoldsMutex, Goto
  <2>2. CASE StopDone(s)
    BY <2>2 DEF StopDone, StopHoldsMutex, Goto
  <2>3. CASE StopCheck(s)
    BY <2>3 DEF StopCheck, StopHoldsMutex, Goto
  <2>4. CASE StopKill(s)
    BY <2>4 DEF StopKill, AfterKill, StopHoldsMutex, Goto
  <2>5. CASE StopRelock(s)
    BY <2>5 DEF StopRelock, StopHoldsMutex, Goto
  <2>6. CASE Snooze(s)
    BY <2>6 DEF Snooze, StopHoldsMutex, Goto
  <2>7. CASE SnoozeAgain(s, data_mutex)
    BY <2>7 DEF SnoozeAgain, StopHoldsMutex
  <2> QED  BY <2>1, <2>2, <2>3, <2>4, <2>5, <2>6, <2>7 DEF StopStep
<1> QED  BY <1>2, <1>3, <1>4

(* InterruptibleHandle::stop likewise disturbs only what the invariant     *)
(* says of the exit mutex of its guard.                                    *)
LEMMA HandleStepInv ==
  ASSUME TypeOK, TrackerInv, NEW h \in Interrupters, HandleStep(h)
  PROVE  TrackerInv'
<1> USE TrackerAssumption DEF TypeOK, TrackerInv, Callers, guardVars
<1>1. /\ UNCHANGED <<trackerVars, exited, gpc>>
      /\ \E p \in CallerStates : pc' = [pc EXCEPT ![h] = p]
  BY DEF HandleStep, HandleLock, HandleDone, HandleCheck, HandleKill, HandleRelock,
         Snooze, SnoozeAgain, AfterKill, Goto, CallerStates
<1>2. ThreadsAreTracked' /\ ExitMarkedLast'
  BY <1>1 DEF ThreadsAreTracked, ExitMarkedLast, trackerVars
<1>3. StopHoldsMutex'
  <2>1. \A s \in Stoppers : pc'[s] = pc[s]
    BY <1>1
  <2> QED  BY <1>1, <2>1 DEF StopHoldsMutex, trackerVars
<1>4. HandleHoldsMutex'
  <2>1. CASE HandleLock(h)
    BY <2>1 DEF HandleLock, HandleHoldsMutex, Goto
  <2>2. CASE HandleDone(h)
    BY <2>2 DEF HandleDone, HandleHoldsMutex, Goto
  <2>3. CASE HandleCheck(h)
    BY <2>3 DEF HandleCheck, HandleHoldsMutex, Goto
  <2>4. CASE HandleKill(h)
    BY <2>4 DEF HandleKill, AfterKill, HandleHoldsMutex, Goto
  <2>5. CASE HandleRelock(h)
    BY <2>5 DEF HandleRelock, HandleHoldsMutex, Goto
  <2>6. CASE Snooze(h)
    BY <2>6 DEF Snooze, HandleHoldsMutex, Goto
  <2>7. CASE SnoozeAgain(h, exit_mutex[Target[h]])
    BY <2>7 DEF SnoozeAgain, HandleHoldsMutex
  <2> QED  BY <2>1, <2>2, <2>3, <2>4, <2>5, <2>6, <2>7 DEF HandleStep
<1> QED  BY <1>2, <1>3, <1>4

-----------------------------------------------------------------------------
(* The invariant is inductive when no thread holds two guards.             *)
THEOREM Invariance ==
  ASSUME OneGuardPerThread PROVE Spec => [](TypeOK /\ TrackerInv)
<1>1. Init => TrackerInv
  BY TrackerAssumption
  DEF Init, TrackerInv, ThreadsAreTracked, StopHoldsMutex, HandleHoldsMutex,
      ExitMarkedLast, Tracked, Callers
<1>2. TypeOK /\ TrackerInv /\ [Next]_vars => TrackerInv'
  <2>1. ASSUME TrackerInv, UNCHANGED vars PROVE TrackerInv'
    BY <2>1 DEF TrackerInv, ThreadsAreTracked, StopHoldsMutex, HandleHoldsMutex,
                ExitMarkedLast, vars, trackerVars, guardVars, callerVars
  <2> QED  BY <2>1, GuardStepInv, StopStepInv, HandleStepInv DEF Next
<1> QED  BY <1>1, <1>2, TypeCorrect, PTL DEF Spec

(* InterruptibleTracker::stop returns only when no guarded work is left,   *)
(* and none starts afterwards.                                             *)
THEOREM StopSafe ==
  ASSUME OneGuardPerThread PROVE Spec => []StopMeansStopped
<1>1. TrackerInv => StopMeansStopped
  BY DEF TrackerInv, ThreadsAreTracked, StopHoldsMutex, StopMeansStopped
<1> QED  BY <1>1, Invariance, PTL

(* InterruptibleHandle::stop returns only when its guard has left the      *)
(* tracker and marked its exit.                                            *)
THEOREM HandleStopSafe ==
  ASSUME OneGuardPerThread PROVE Spec => []HandleStopMeansExited
<1>1. TrackerInv => HandleStopMeansExited
  BY TrackerAssumption
  DEF TrackerInv, HandleHoldsMutex, ExitMarkedLast, HandleStopMeansExited
<1> QED  BY <1>1, Invariance, PTL

(* No pthread_kill of either stop() can reach a thread that is gone.       *)
THEOREM SignalsSafe ==
  ASSUME OneGuardPerThread PROVE Spec => []SignalsReachLiveThreads
<1>1. TrackerInv => SignalsReachLiveThreads
  BY TrackerAssumption
  DEF TrackerInv, ThreadsAreTracked, HandleHoldsMutex, ExitMarkedLast,
      SignalsReachLiveThreads, Alive
<1> QED  BY <1>1, Invariance, PTL

-----------------------------------------------------------------------------
(* A guard's step enters the gate, leaves it, or does neither.             *)
LEMMA GuardRefines ==
  ASSUME TypeOK, TrackerInv, NEW g \in Guards, GuardStep(g)
  PROVE  A!Enter(g) \/ A!Leave(g) \/ UNCHANGED A!vars
<1> USE DEF TypeOK, Running, Stopped, Tracked, callerVars, A!vars
<1>1. UNCHANGED Stopped
  BY DEF GuardStep, Spawn, Track, Unmask, HandleSignal, EnterSyscall,
         SyscallInterrupted, SyscallCompletes, WorkEnds, Untrack, MarkExit
<1>2. CASE Track(g) /\ can_spawn
  <2>1. gpc[g] = "starting" /\ gpc' = [gpc EXCEPT ![g] = "working"] /\ UNCHANGED can_spawn
    BY <1>2 DEF Track, Advance
  <2>2. g \notin Running /\ Running' = Running \cup {g}
    BY <2>1
  <2> QED  BY <1>1, <1>2, <2>1, <2>2 DEF A!Enter
<1>3. CASE Untrack(g)
  <2>1. gpc[g] = "returned" /\ gpc' = [gpc EXCEPT ![g] = "untracked"] /\ UNCHANGED can_spawn
    BY <1>3 DEF Untrack, Advance
  <2>2. g \in Running /\ Running' = Running \ {g}
    BY <2>1
  <2> QED  BY <1>1, <2>1, <2>2 DEF A!Leave
<1>4. CASE ~(Track(g) /\ can_spawn) /\ ~Untrack(g)
  <2>1. UNCHANGED can_spawn
    BY <1>4 DEF GuardStep, Spawn, Track, Unmask, HandleSignal, EnterSyscall,
       SyscallInterrupted, SyscallCompletes, WorkEnds, MarkExit, trackerVars
  <2>2. \/ UNCHANGED gpc
        \/ \E to \in GuardStates :
             /\ gpc' = [gpc EXCEPT ![g] = to]
             /\ gpc[g] \in Tracked <=> to \in Tracked
    BY <1>4 DEF GuardStep, Spawn, Track, Unmask, HandleSignal, EnterSyscall,
       SyscallInterrupted, SyscallCompletes, WorkEnds, MarkExit, Advance,
       guardVars, GuardStates
  <2>3. UNCHANGED Running
    BY <2>2
  <2> QED  BY <1>1, <2>1, <2>3
<1> QED  BY <1>2, <1>3, <1>4

(* A step of InterruptibleTracker::stop closes the gate, returns, or does  *)
(* neither.                                                                *)
LEMMA StopRefines ==
  ASSUME TypeOK, TrackerInv, NEW s \in Stoppers, StopStep(s)
  PROVE  A!Close \/ A!Return(s) \/ UNCHANGED A!vars
<1> USE DEF TypeOK, Running, Stopped, Callers, A!vars
<1>1. UNCHANGED Running
  BY DEF StopStep, StopLock, StopDone, StopCheck, StopKill, StopRelock, Snooze,
         SnoozeAgain, guardVars
<1>2. CASE StopLock(s)
  <2>1. pc[s] = "idle" /\ pc' = [pc EXCEPT ![s] = "check"] /\ can_spawn' = FALSE
    BY <1>2 DEF StopLock, Goto
  <2>2. UNCHANGED Stopped
    BY <2>1
  <2> QED  BY <1>1, <2>1, <2>2 DEF A!Close
<1>3. CASE StopDone(s)
  <2>1. /\ pc[s] = "check" /\ threads = {} /\ UNCHANGED can_spawn
        /\ pc' = [pc EXCEPT ![s] = "returned"]
    BY <1>3 DEF StopDone, Goto
  <2>2. s \notin Stopped /\ Stopped' = Stopped \cup {s}
    BY <2>1
  <2>3. ~can_spawn /\ Running = {}
    BY <2>1 DEF TrackerInv, StopHoldsMutex, ThreadsAreTracked
  <2> QED  BY <1>1, <2>1, <2>2, <2>3 DEF A!Return
<1>4. CASE ~StopLock(s) /\ ~StopDone(s)
  <2>1. UNCHANGED can_spawn
    BY <1>4 DEF StopStep, StopCheck, StopKill, StopRelock, Snooze, SnoozeAgain,
                trackerVars
  <2>2. \/ UNCHANGED pc
        \/ /\ pc[s] # "returned"
           /\ \E p \in CallerStates \ {"returned"} : pc' = [pc EXCEPT ![s] = p]
    BY <1>4 DEF StopStep, StopCheck, StopKill, StopRelock, Snooze, SnoozeAgain,
                AfterKill, Goto, CallerStates
  <2>3. UNCHANGED Stopped
    BY <2>2
  <2> QED  BY <1>1, <2>1, <2>3
<1> QED  BY <1>2, <1>3, <1>4

(* InterruptibleHandle::stop is invisible at the gate.                     *)
LEMMA HandleRefines ==
  ASSUME TypeOK, NEW h \in Interrupters, HandleStep(h)
  PROVE  UNCHANGED A!vars
<1>1. /\ UNCHANGED <<can_spawn, gpc>>
      /\ UNCHANGED pc \/ \E p \in CallerStates : pc' = [pc EXCEPT ![h] = p]
  BY DEF HandleStep, HandleLock, HandleDone, HandleCheck, HandleKill, HandleRelock,
         Snooze, SnoozeAgain, AfterKill, Goto, CallerStates, trackerVars, guardVars
<1>2. \A s \in Stoppers : pc'[s] = pc[s]
  BY <1>1, TrackerAssumption DEF TypeOK, Callers
<1> QED  BY <1>1, <1>2 DEF A!vars, Running, Stopped

(* The tracker is a gate: every behaviour of src/src/tracker.rs is one     *)
(* that AbstractTracker allows.                                            *)
THEOREM Refinement ==
  ASSUME OneGuardPerThread PROVE Spec => ImplementsGate
<1>1. Init => A!Init
  BY DEF Init, A!Init, Running, Stopped, Tracked, Callers
<1>2. TypeOK /\ TrackerInv /\ [Next]_vars => [A!Next]_A!vars
  <2>1. ASSUME UNCHANGED vars PROVE UNCHANGED A!vars
    BY <2>1 DEF vars, trackerVars, guardVars, callerVars, A!vars, Running, Stopped
  <2> QED
    BY <2>1, GuardRefines, StopRefines, HandleRefines DEF Next, A!Next
<1> QED  BY <1>1, <1>2, Invariance, PTL DEF Spec, A!Spec, ImplementsGate
=============================================================================
