------------------------------- MODULE Tracker -------------------------------
(***************************************************************************)
(* src/src/tracker.rs: an InterruptibleTracker, the guards of the threads  *)
(* it tracks, the handles that stop one thread, and the signals by which   *)
(* both stop() methods get a thread out of a blocking system call.         *)
(*                                                                         *)
(* A guard g lives on the pthread Host[g]: a pthread of its own when it    *)
(* comes from spawn(), the calling thread when it comes from guard().      *)
(* The guarded work is the caller's closure: it runs with SIGUSR1 masked,  *)
(* may open a window in which the signal is unmasked to make one blocking  *)
(* system call there (as both set_lock_blocking functions do), and ends    *)
(* when that call returns.                                                 *)
(*                                                                         *)
(* Every critical section of the data mutex and of a guard's exit mutex    *)
(* that performs one update is one action; stop() holds the mutex over     *)
(* several actions, so its mutex is explicit.                              *)
(***************************************************************************)
EXTENDS Naturals

CONSTANTS
  Guards,        \* InterruptibleGuards that spawn() and guard() may create
  Pthreads,      \* operating system threads
  Host,          \* Host[g]: the thread g lives on
  Stoppers,      \* threads that call InterruptibleTracker::stop
  Interrupters,  \* threads that call InterruptibleHandle::stop
  Target,        \* Target[h]: the guard whose handle interrupter h uses
  BackoffLimit,  \* snoozes until a Backoff is completed
  Free           \* holder of a mutex nobody holds

ASSUME TrackerAssumption ==
  /\ Host \in [Guards -> Pthreads]
  /\ Target \in [Interrupters -> Guards]
  /\ Stoppers \cap Interrupters = {}
  /\ Free \notin Stoppers \cup Interrupters
  /\ BackoffLimit \in Nat

Callers == Stoppers \cup Interrupters

VARIABLES
  can_spawn,     \* RawInterruptibleTrackerData.can_spawn
  new_thread,    \* RawInterruptibleTrackerData.new_thread
  threads,       \* RawInterruptibleTrackerData.threads
  data_mutex,    \* holder of RawInterruptibleTracker.data
  exited,        \* RawInterruptibleExitTracker.exited, per guard
  exit_mutex,    \* holder of that mutex, per guard
  gpc,           \* how far each guard's life has come
  pending,       \* SIGUSR1 sent to a pthread and not yet acted upon
  pc,            \* where each caller is in its stop()
  backoff,       \* its Backoff
  snooze_interrupt_done

trackerVars == <<can_spawn, new_thread, threads, data_mutex>>
guardVars   == <<exited, exit_mutex, gpc>>
callerVars  == <<pc, backoff, snooze_interrupt_done>>
vars        == <<trackerVars, guardVars, pending, callerVars>>

(* A guard in one of these states is in scope and counted by the tracker.  *)
Tracked == {"working", "window", "syscall", "returned"}

GuardStates  == Tracked \cup {"none", "starting", "refused", "untracked", "exited"}
CallerStates == {"idle", "check", "kill", "parked", "snooze", "trylock", "returned"}

(* The thread of g still exists while g has not marked its exit.           *)
Alive(g) == gpc[g] \in Tracked \cup {"untracked"}

(* One thread runs one piece of code: g's may advance only while the       *)
(* other guards on its thread are merely in scope.                         *)
Turn(g) ==
  \A o \in Guards \ {g} :
    Host[o] = Host[g] => gpc[o] \in {"none", "refused", "working", "exited"}

Init ==
  /\ can_spawn = TRUE /\ new_thread = FALSE /\ threads = {}
  /\ data_mutex = Free
  /\ exited = [g \in Guards |-> FALSE]
  /\ exit_mutex = [g \in Guards |-> Free]
  /\ gpc = [g \in Guards |-> "none"]
  /\ pending = [t \in Pthreads |-> FALSE]
  /\ pc = [c \in Callers |-> "idle"]
  /\ backoff = [c \in Callers |-> 0]
  /\ snooze_interrupt_done = [c \in Callers |-> FALSE]

-----------------------------------------------------------------------------
(* Guards and the work they guard.                                         *)

Advance(g, from, to) ==
  /\ gpc[g] = from
  /\ Turn(g)
  /\ gpc' = [gpc EXCEPT ![g] = to]

(* spawn() creates the thread, or guard() is entered.                      *)
Spawn(g) ==
  /\ Advance(g, "none", "starting")
  /\ UNCHANGED <<trackerVars, exited, exit_mutex, pending, callerVars>>

(* track() that forgets to look at can_spawn.                              *)
Track_Unchecked(g) ==
  /\ data_mutex = Free
  /\ Advance(g, "starting", "working")
  /\ threads' = threads \cup {Host[g]}
  /\ new_thread' = TRUE
  /\ UNCHANGED <<can_spawn, data_mutex, exited, exit_mutex, pending, callerVars>>

(* InterruptibleGuard::new: track(), one critical section of the mutex.    *)
Track(g) ==
  /\ data_mutex = Free
  /\ \/ /\ can_spawn
        /\ Advance(g, "starting", "working")
        /\ threads' = threads \cup {Host[g]}
        /\ new_thread' = TRUE
     \/ /\ ~can_spawn
        /\ Advance(g, "starting", "refused")
        /\ UNCHANGED <<threads, new_thread>>
  /\ UNCHANGED <<can_spawn, data_mutex, exited, exit_mutex, pending, callerVars>>

(* The work opens its window. A signal sent while SIGUSR1 was masked is    *)
(* handled when pthread_sigmask returns, before the system call: lost.     *)
Unmask(g) ==
  /\ Advance(g, "working", "window")
  /\ pending' = [pending EXCEPT ![Host[g]] = FALSE]
  /\ UNCHANGED <<trackerVars, exited, exit_mutex, callerVars>>

(* A signal handled inside the window but before the system call is lost.  *)
HandleSignal(g) ==
  /\ gpc[g] = "window" /\ pending[Host[g]]
  /\ pending' = [pending EXCEPT ![Host[g]] = FALSE]
  /\ UNCHANGED <<trackerVars, guardVars, callerVars>>

EnterSyscall(g) ==
  /\ Advance(g, "window", "syscall")
  /\ UNCHANGED <<trackerVars, exited, exit_mutex, pending, callerVars>>

(* EINTR.                                                                  *)
SyscallInterrupted(g) ==
  /\ pending[Host[g]]
  /\ Advance(g, "syscall", "returned")
  /\ pending' = [pending EXCEPT ![Host[g]] = FALSE]
  /\ UNCHANGED <<trackerVars, exited, exit_mutex, callerVars>>

(* What the call was waiting for happened; nothing says that it ever will. *)
SyscallCompletes(g) ==
  /\ Advance(g, "syscall", "returned")
  /\ UNCHANGED <<trackerVars, exited, exit_mutex, pending, callerVars>>

(* The work ends without having had to block.                              *)
WorkEnds(g) ==
  /\ Advance(g, "working", "returned")
  /\ UNCHANGED <<trackerVars, exited, exit_mutex, pending, callerVars>>

(* A Drop that marks the exit first and untracks afterwards.               *)
Untrack_ExitFirst(g) ==
  /\ exit_mutex[g] = Free
  /\ Advance(g, "returned", "untracked")
  /\ exited' = [exited EXCEPT ![g] = TRUE]
  /\ UNCHANGED <<trackerVars, exit_mutex, pending, callerVars>>

(* Drop for InterruptibleGuard, first half: untrack().                     *)
Untrack(g) ==
  /\ data_mutex = Free
  /\ Advance(g, "returned", "untracked")
  /\ threads' = threads \ {Host[g]}
  /\ UNCHANGED <<can_spawn, new_thread, data_mutex, exited, exit_mutex,
                 pending, callerVars>>

(* Drop for InterruptibleGuard, second half: the exit is marked.           *)
MarkExit(g) ==
  /\ exit_mutex[g] = Free
  /\ Advance(g, "untracked", "exited")
  /\ exited' = [exited EXCEPT ![g] = TRUE]
  /\ UNCHANGED <<trackerVars, exit_mutex, pending, callerVars>>

GuardStep(g) ==
  \/ Spawn(g) \/ Track(g) \/ Unmask(g) \/ HandleSignal(g) \/ EnterSyscall(g)
  \/ SyscallInterrupted(g) \/ SyscallCompletes(g) \/ WorkEnds(g)
  \/ Untrack(g) \/ MarkExit(g)

-----------------------------------------------------------------------------
(* What the two stop() methods share: a Backoff, and one group of signals  *)
(* per snooze group until the Backoff is completed.                        *)

(* An is_completed() that comes one snooze late.                           *)
Completed_Late(c) == backoff[c] = BackoffLimit + 1

Completed(c) == backoff[c] = BackoffLimit

Goto(c, to) == pc' = [pc EXCEPT ![c] = to]

Snoozed(c) == [backoff EXCEPT ![c] = IF Completed(c) THEN @ ELSE @ + 1]

(* pthread_kill(t, SIGUSR1) for every t in ts.                             *)
Kill(ts) == pending' = [t \in Pthreads |-> pending[t] \/ t \in ts]

(* After its signals a caller parks on the condition variable for 1 ms,    *)
(* or remembers that this snooze group has had its signals.                *)
AfterKill(c) ==
  IF Completed(c)
    THEN Goto(c, "parked") /\ UNCHANGED snooze_interrupt_done
    ELSE /\ Goto(c, "snooze")
         /\ snooze_interrupt_done' = [snooze_interrupt_done EXCEPT ![c] = TRUE]

(* backoff.snooze() with the mutex released.                               *)
Snooze(c) ==
  /\ pc[c] = "snooze"
  /\ Goto(c, "trylock")
  /\ backoff' = Snoozed(c)
  /\ UNCHANGED <<trackerVars, guardVars, pending, snooze_interrupt_done>>

(* try_lock() failed and the Backoff has not run out: snooze once more.    *)
SnoozeAgain(c, mutex) ==
  /\ pc[c] = "trylock" /\ mutex # Free /\ ~Completed(c)
  /\ backoff' = Snoozed(c)
  /\ UNCHANGED <<trackerVars, guardVars, pending, pc, snooze_interrupt_done>>

-----------------------------------------------------------------------------
(* InterruptibleTracker::stop.                                             *)

(* stop() that leaves the tracker open.                                    *)
StopLock_LeavesOpen(s) ==
  /\ pc[s] = "idle" /\ data_mutex = Free
  /\ data_mutex' = s
  /\ Goto(s, "check")
  /\ UNCHANGED <<can_spawn, new_thread, threads, guardVars, pending, backoff,
                 snooze_interrupt_done>>

StopLock(s) ==
  /\ pc[s] = "idle" /\ data_mutex = Free
  /\ data_mutex' = s
  /\ can_spawn' = FALSE
  /\ Goto(s, "check")
  /\ UNCHANGED <<new_thread, threads, guardVars, pending, backoff,
                 snooze_interrupt_done>>

StopDone(s) ==
  /\ pc[s] = "check" /\ threads = {}
  /\ data_mutex' = Free
  /\ Goto(s, "returned")
  /\ UNCHANGED <<can_spawn, new_thread, threads, guardVars, pending, backoff,
                 snooze_interrupt_done>>

(* Some thread is left: a new one restarts the snooze group, and signals   *)
(* are due unless this snooze group has had them.                          *)
StopCheck(s) ==
  /\ pc[s] = "check" /\ threads # {}
  /\ new_thread' = FALSE
  /\ backoff' = [backoff EXCEPT ![s] = IF new_thread THEN 0 ELSE @]
  /\ snooze_interrupt_done' = [snooze_interrupt_done EXCEPT ![s] = @ /\ ~new_thread]
  /\ IF snooze_interrupt_done'[s] /\ backoff'[s] # BackoffLimit
       THEN data_mutex' = Free /\ Goto(s, "snooze")
       ELSE Goto(s, "kill") /\ UNCHANGED data_mutex
  /\ UNCHANGED <<can_spawn, threads, guardVars, pending>>

(* stop() that signals only once, before its first snooze.                 *)
StopKill_Once(s) ==
  /\ pc[s] = "kill"
  /\ IF snooze_interrupt_done[s] THEN UNCHANGED pending ELSE Kill(threads)
  /\ AfterKill(s)
  /\ data_mutex' = Free
  /\ UNCHANGED <<can_spawn, new_thread, threads, guardVars, backoff>>

StopKill(s) ==
  /\ pc[s] = "kill"
  /\ Kill(threads)
  /\ AfterKill(s)
  /\ data_mutex' = Free
  /\ UNCHANGED <<can_spawn, new_thread, threads, guardVars, backoff>>

(* wait_for() ends, by its timeout or a notification, or try_lock() or     *)
(* lock() succeeds.                                                        *)
StopRelock(s) ==
  /\ pc[s] \in {"parked", "trylock"} /\ data_mutex = Free
  /\ data_mutex' = s
  /\ Goto(s, "check")
  /\ UNCHANGED <<can_spawn, new_thread, threads, guardVars, pending, backoff,
                 snooze_interrupt_done>>

StopStep(s) ==
  \/ StopLock(s) \/ StopDone(s) \/ StopCheck(s) \/ StopKill(s)
  \/ StopRelock(s) \/ Snooze(s) \/ SnoozeAgain(s, data_mutex)

-----------------------------------------------------------------------------
(* InterruptibleHandle::stop, by a thread other than the guard's own (on   *)
(* that one it panics). spawn() and guard() hand the handle out only once  *)
(* track() has succeeded.                                                  *)

HandleLock(h) ==
  LET g == Target[h] IN
  /\ pc[h] = "idle" /\ gpc[g] \in Tracked \cup {"untracked", "exited"}
  /\ exit_mutex[g] = Free
  /\ exit_mutex' = [exit_mutex EXCEPT ![g] = h]
  /\ Goto(h, "check")
  /\ UNCHANGED <<trackerVars, exited, gpc, pending, backoff, snooze_interrupt_done>>

HandleDone(h) ==
  LET g == Target[h] IN
  /\ pc[h] = "check" /\ exited[g]
  /\ exit_mutex' = [exit_mutex EXCEPT ![g] = Free]
  /\ Goto(h, "returned")
  /\ UNCHANGED <<trackerVars, exited, gpc, pending, backoff, snooze_interrupt_done>>

(* stop() that releases the exit mutex between its check and its signal.   *)
HandleCheck_Unlocks(h) ==
  LET g == Target[h] IN
  /\ pc[h] = "check" /\ ~exited[g]
  /\ exit_mutex' = [exit_mutex EXCEPT ![g] = Free]
  /\ IF snooze_interrupt_done[h] /\ ~Completed(h)
       THEN Goto(h, "snooze")
       ELSE Goto(h, "kill")
  /\ UNCHANGED <<trackerVars, exited, gpc, pending, backoff, snooze_interrupt_done>>

HandleCheck(h) ==
  LET g == Target[h] IN
  /\ pc[h] = "check" /\ ~exited[g]
  /\ IF snooze_interrupt_done[h] /\ ~Completed(h)
       THEN exit_mutex' = [exit_mutex EXCEPT ![g] = Free] /\ Goto(h, "snooze")
       ELSE Goto(h, "kill") /\ UNCHANGED exit_mutex
  /\ UNCHANGED <<trackerVars, exited, gpc, pending, backoff, snooze_interrupt_done>>

(* stop() that signals only once, before its first snooze.                 *)
HandleKill_Once(h) ==
  LET g == Target[h] IN
  /\ pc[h] = "kill"
  /\ IF snooze_interrupt_done[h] THEN UNCHANGED pending ELSE Kill({Host[g]})
  /\ AfterKill(h)
  /\ exit_mutex' = [exit_mutex EXCEPT ![g] = Free]
  /\ UNCHANGED <<trackerVars, exited, gpc, backoff>>

HandleKill(h) ==
  LET g == Target[h] IN
  /\ pc[h] = "kill"
  /\ Kill({Host[g]})
  /\ AfterKill(h)
  /\ exit_mutex' = [exit_mutex EXCEPT ![g] = Free]
  /\ UNCHANGED <<trackerVars, exited, gpc, backoff>>

HandleRelock(h) ==
  LET g == Target[h] IN
  /\ pc[h] \in {"parked", "trylock"} /\ exit_mutex[g] = Free
  /\ exit_mutex' = [exit_mutex EXCEPT ![g] = h]
  /\ Goto(h, "check")
  /\ UNCHANGED <<trackerVars, exited, gpc, pending, backoff, snooze_interrupt_done>>

HandleStep(h) ==
  \/ HandleLock(h) \/ HandleDone(h) \/ HandleCheck(h) \/ HandleKill(h)
  \/ HandleRelock(h) \/ Snooze(h) \/ SnoozeAgain(h, exit_mutex[Target[h]])

-----------------------------------------------------------------------------
Next ==
  \/ \E g \in Guards : GuardStep(g)
  \/ \E s \in Stoppers : StopStep(s)
  \/ \E h \in Interrupters : HandleStep(h)

(* Threads are scheduled, so a step that stays possible is taken; whoever  *)
(* waits for a parking_lot mutex gets it in the end, however often others  *)
(* take it in between. Nothing obliges a thread to start or a blocking     *)
(* call to complete.                                                       *)
Fairness ==
  /\ \A g \in Guards :
       /\ WF_vars(Unmask(g) \/ WorkEnds(g))
       /\ WF_vars(EnterSyscall(g))
       /\ WF_vars(SyscallInterrupted(g))
       /\ SF_vars(Track(g)) /\ SF_vars(Untrack(g)) /\ SF_vars(MarkExit(g))
  /\ \A s \in Stoppers :
       /\ WF_vars(StopDone(s) \/ StopCheck(s) \/ StopKill(s) \/ Snooze(s))
       /\ SF_vars(StopRelock(s))
  /\ \A h \in Interrupters :
       /\ WF_vars(HandleDone(h) \/ HandleCheck(h) \/ HandleKill(h) \/ Snooze(h))
       /\ SF_vars(HandleRelock(h))

Spec == Init /\ [][Next]_vars

FairSpec == Spec /\ Fairness

-----------------------------------------------------------------------------
(* Each tracked thread holds one guard of the tracker. spawn() gives every *)
(* guard a thread of its own; with guard() it is up to the caller.         *)
OneGuardPerThread == \A g, o \in Guards : Host[g] = Host[o] => g = o

(* Every variable has its type, and a mutex is held by a stop() of its     *)
(* kind or by nobody.                                                      *)
TypeOK ==
  /\ can_spawn \in BOOLEAN /\ new_thread \in BOOLEAN
  /\ threads \in SUBSET Pthreads
  /\ data_mutex \in Stoppers \cup {Free}
  /\ exited \in [Guards -> BOOLEAN]
  /\ exit_mutex \in [Guards -> Interrupters \cup {Free}]
  /\ gpc \in [Guards -> GuardStates]
  /\ pending \in [Pthreads -> BOOLEAN]
  /\ pc \in [Callers -> CallerStates]
  /\ backoff \in [Callers -> 0 .. BackoffLimit]
  /\ snooze_interrupt_done \in [Callers -> BOOLEAN]

(* Once InterruptibleTracker::stop has returned, no guarded work runs on   *)
(* the tracker, then or ever after.                                        *)
StopMeansStopped ==
  \A s \in Stoppers : pc[s] = "returned" => \A g \in Guards : gpc[g] \notin Tracked

(* Once InterruptibleHandle::stop has returned, its guard's work is over,  *)
(* the guard has left the tracker and its exit is marked.                  *)
HandleStopMeansExited ==
  \A h \in Interrupters : pc[h] = "returned" => gpc[Target[h]] = "exited"

(* Neither stop() calls pthread_kill on a thread whose last guard is gone: *)
(* its pthread_t may be invalid, or that of an unrelated thread.           *)
SignalsReachLiveThreads ==
  /\ \A s \in Stoppers : pc[s] = "kill" =>
       \A t \in threads : \E g \in Guards : Host[g] = t /\ Alive(g)
  /\ \A h \in Interrupters : pc[h] = "kill" => Alive(Target[h])

(* InterruptibleTracker::stop returns, although a signal that arrives      *)
(* before the thread is in its system call is lost.                        *)
StopReturns == \A s \in Stoppers : pc[s] = "check" ~> pc[s] = "returned"

(* So does InterruptibleHandle::stop.                                      *)
HandleStopReturns == \A h \in Interrupters : pc[h] = "check" ~> pc[h] = "returned"

-----------------------------------------------------------------------------
(* Why the properties hold. The set of threads is exactly the threads of   *)
(* the tracked guards; a stop() between its check and its signals holds    *)
(* the mutex, so nothing it has seen can change; the exit mark and the     *)
(* end of the guard are one.                                               *)
ThreadsAreTracked ==
  /\ \A g \in Guards : gpc[g] \in Tracked <=> Host[g] \in threads
  /\ \A t \in threads : \E g \in Guards : Host[g] = t

StopHoldsMutex ==
  \A s \in Stoppers :
    /\ pc[s] \in {"check", "kill"} <=> data_mutex = s
    /\ pc[s] # "idle" => ~can_spawn
    /\ pc[s] = "returned" => threads = {}

HandleHoldsMutex ==
  \A h \in Interrupters :
    /\ pc[h] \in {"check", "kill"} <=> exit_mutex[Target[h]] = h
    /\ pc[h] # "idle" => gpc[Target[h]] \in Tracked \cup {"untracked", "exited"}
    /\ pc[h] = "kill" => ~exited[Target[h]]
    /\ pc[h] = "returned" => exited[Target[h]]

ExitMarkedLast == \A g \in Guards : exited[g] <=> gpc[g] = "exited"

TrackerInv ==
  /\ ThreadsAreTracked /\ StopHoldsMutex
  /\ HandleHoldsMutex /\ ExitMarkedLast

-----------------------------------------------------------------------------
(* The tracker as AbstractTracker: a guard runs while it is counted.       *)
Running == {g \in Guards : gpc[g] \in Tracked}
Stopped == {s \in Stoppers : pc[s] = "returned"}

A == INSTANCE AbstractTracker
       WITH open <- can_spawn, running <- Running, stopped <- Stopped

(* Mutexes, backoff, signals and retries together implement the gate that  *)
(* AbstractTracker describes in four steps.                                *)
ImplementsGate == A!Spec
=============================================================================
