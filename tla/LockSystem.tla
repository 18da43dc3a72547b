------------------------------ MODULE LockSystem ------------------------------
(***************************************************************************)
(* One owner process and the threads of the filesystem daemon that use it: *)
(* OwnerDaemon and OwnerClient joined by Channels.                         *)
(***************************************************************************)
EXTENDS OwnerDaemon, OwnerClient

CONSTANTS
  Ops,   \* the calls that the clients make
  Acts   \* the lock types they and the other processes ask for

ASSUME SystemAssumption == MaxCalls <= MaxIds /\ Acts \subseteq LockTypes

vars == <<channelVars, daemonVars, clientVars>>

Init == ChannelsInit /\ DaemonInit /\ ClientInit

ClientNext ==
  \E c \in Clients :
    \/ \E op \in Ops, act \in Acts, id \in Ids : Begins(c, op, act, id)
    \/ Continues(c) \/ PreFails(c) \/ DropInterrupted(c) \/ StopCall(c)

TrackerNext == ("StopTracker" \in Ops /\ StopTracker) \/ TrackerStopped

Next ==
  \/ DaemonNext /\ UNCHANGED clientVars
  \/ (\E act \in Acts \cup {"Unlock"} : OthersLock(Flock(act))) /\ UNCHANGED clientVars
  \/ ClientNext /\ UNCHANGED <<tracker, daemonVars>>
  \/ (TrackerNext \/ HangUp) /\ UNCHANGED daemonVars

Spec == Init /\ [][Next]_vars

(* Every thread is scheduled: the receiving loop, the main thread, the     *)
(* lock threads and the request threads. A signalled thread does leave its *)
(* system call (shown for Tracker), and a client thread that can go on     *)
(* with its call does. The TTL need not run out, since pings renew it, and *)
(* nobody has to begin a call, stop one, hang up or release a lock.        *)
Fairness ==
  /\ WF_vars(LoopStep /\ UNCHANGED clientVars)
  /\ WF_vars((MainJoin \/ ProcessExit) /\ UNCHANGED clientVars)
  /\ \A t \in LockThreads : WF_vars(ThreadStep(t) /\ UNCHANGED clientVars)
  /\ \A o \in Oneshots :
       WF_vars(\E j \in jobs : j.o = o /\ JobStep(j) /\ UNCHANGED clientVars)
  /\ \A c \in Clients : WF_vars(Continues(c) /\ UNCHANGED <<tracker, daemonVars>>)
  /\ WF_vars(TrackerStopped /\ UNCHANGED daemonVars)

FairSpec == Spec /\ Fairness

-----------------------------------------------------------------------------
(* Every variable has its type; no call gets more than two replies.        *)
TypeOK ==
  /\ DaemonTypeOK /\ ClientTypeOK
  /\ \A o \in Oneshots : Len(oneshot[o].q) <= 2

(* While a Lockable exists its owner process lives and knows it: the TTL   *)
(* cannot end the process between, before or after the two ends of a       *)
(* register() (FdData._exit_lock, acquire_exit_lock, try_exit).            *)
LockableKeepsProcess ==
  \A id \in lockables : server_open /\ main # "exiting" /\ id \in descriptors

(* Once handle_fd_unregister() has dropped its FdData no thread and no     *)
(* command still uses it, so no lock can be taken through it afterwards.   *)
NoUseAfterUnregister ==
  \A id \in Ids : id < next_id /\ ~FdExists(id) => LastReference(id)

(* The process has a lock only while it has a descriptor: the locks of     *)
(* dropped Lockables are gone by the time the reply to drop() is sent.     *)
LockNeedsDescriptor == held # F_UNLCK => \E id \in Ids : FdExists(id)

(* An interrupt reaches the thread of its own call: the id that a blocked  *)
(* set_lock_blocking() keeps names the thread that serves it, or served    *)
(* it, and no other, until the call itself removes it.                     *)
InterruptsOwnCall ==
  \A c \in Clients :
    cpc[c] \in {"wait", "interrupt", "again"} /\ server_open =>
      \E t \in LockThreads :
        /\ interrupts[call[c].iid] = t
        /\ threads[t].pc = "none" \/ threads[t].o = call[c].o

(* No entry of the interrupts map is left behind: each has a call that     *)
(* will remove it, unless the daemon is gone.                              *)
NoInterruptLeak ==
  \A i \in Ids : interrupts[i] # NoThread /\ client_open =>
    \E c \in Clients :
      \/ cpc[c] = "SetLkw" /\ HasReply(call[c].o) /\ NextReply(call[c].o) = Pending(i)
      \/ cpc[c] \in {"wait", "interrupt", "again", "failed", "remove"} /\ call[c].iid = i

(* What a call is told is about what it asked for: a lock that is set has  *)
(* the type asked for, and a lock that get_lock() reports is one that      *)
(* stands in the way of it.                                                *)
DoneAnswersCall ==
  \A c \in Clients :
    LET o == call[c].o
        asked == call[c].act
    IN cpc[c] \in {"GetLk", "SetLk", "SetLkw", "wait", "again"} =>
      \A i \in 1 .. Len(oneshot[o].q) :
        LET r == oneshot[o].q[i] IN
        r.tag = "Done" =>
          IF cpc[c] = "GetLk"
            THEN r.type = "Unlock" \/ (asked # "Unlock" /\ "Write" \in {asked, r.type})
            ELSE r.type = asked

(* drop() that is told Ok has closed the descriptor, whatever else went    *)
(* wrong: nothing is locked or waited for through it any more.             *)
DropClosesFile ==
  \A c \in Clients :
    cpc[c] = "Unregister" /\ HasReply(call[c].o) /\ NextReply(call[c].o).tag = "Ok" =>
      ~FdExists(call[c].id) /\ LastReference(call[c].id)

(* Only a blocking lock is told to wait, and it only once: the InvalidData *)
(* errors of get_lock, set_lock_nonblocking and set_lock_blocking never    *)
(* occur, whichever stale thread still writes.                             *)
PendingOnlyFirst ==
  \A c \in Clients : cpc[c] \notin {"idle", "gone", "pre", "refused"} =>
    \A i \in 1 .. Len(oneshot[call[c].o].q) :
      oneshot[call[c].o].q[i].tag = "Pending" => cpc[c] = "SetLkw" /\ i = 1

(* The process and its client implement AbstractOwner, on which the        *)
(* LockManager's model of a process rests: a file is registered only with  *)
(* a process that serves, and one with files and a daemon goes on serving. *)
Abstract == INSTANCE AbstractOwner WITH
  phase <- CASE ~server_open                    -> "gone"
             [] server_open /\ main = "exiting" -> "exiting"
             [] OTHER                           -> "serving",
  open  <- client_open,
  files <- \E id \in Ids : FdExists(id)

ImplementsOwner == Abstract!Spec

(* The tracker of file id lets threads in until an unregister stops it,    *)
(* which it has done once the file is closed.                              *)
TrackerOpen(id)  == id >= next_id \/ id \in descriptors \/ Unregistering(id, {"removed"})
TrackerStops(id) == IF id >= next_id \/ FdExists(id) THEN {} ELSE {id}

FileTracker(id) == INSTANCE AbstractTracker WITH
  Guards <- LockThreads, Stoppers <- {id},
  open <- TrackerOpen(id), running <- ThreadsOn(id, TrackedPcs), stopped <- TrackerStops(id)

(* While it lives, the process uses the trackers of its files as           *)
(* AbstractTracker has them, which is what Tracker implements: no thread   *)
(* is let in once handle_fd_unregister() stops the tracker, and the file   *)
(* is closed, once, when all have left.                                    *)
TrackersAreGates ==
  /\ \A id \in Ids : FileTracker(id)!Init
  /\ [][server_open' => \A id \in Ids : [FileTracker(id)!Next]_(FileTracker(id)!vars)]_vars

-----------------------------------------------------------------------------
(* A blocking lock that is stopped returns, though the lock may stay with  *)
(* another process for ever.                                               *)
StoppedCallReturns ==
  \A c \in Clients : stop[c] ~> cpc[c] \in {"idle", "gone"}

(* Every other call returns by itself: it does not wait for its reply for  *)
(* ever. drop() does so although locks are being waited for through the    *)
(* Lockable.                                                               *)
CallReturns == \A c \in Clients : []<>(cpc[c] \notin Simple)

(* stop() of the daemon's tracker returns: each detached blocking lock is  *)
(* interrupted on both sides and has invoked its done-callback, whoever    *)
(* has the lock, and nobody new is let in. A stopped tracker stays so.     *)
TrackerStopReturns == []<>(tracker # "stopping")

(* A blocking lock whose Lockable is dropped returns, whether the drop     *)
(* overtakes its request, its thread's start or its wait for the lock: all *)
(* it takes is that handle_fd_unregister() has begun.                      *)
DroppedCallReturns ==
  \A c \in Clients :
    (cpc[c] \in {"pre", "SetLkw", "wait"} /\ call[c].id \notin descriptors) ~> cpc[c] \in {"idle", "gone"}

(* An unregister that has begun closes its file, although locks are being  *)
(* waited for through it and drop(), whose wait a signal may end, has      *)
(* returned: handle_fd_unregister() does not need its caller. As ids are   *)
(* not used again, each has ended once none is under way.                  *)
UnregisterEnds ==
  []<>\A id \in Ids : id < next_id /\ id \notin descriptors =>
        ~FdExists(id) /\ LastReference(id)

(* When the daemon is gone, for good, the owner process ends and its locks *)
(* with it, whatever was registered, locked or being waited for.           *)
HangUpEndsProcess == []<>(client_open \/ (~server_open /\ held = F_UNLCK))

-----------------------------------------------------------------------------
(* The lock of the process changes only while a call that asks for it is   *)
(* in progress: what a call has been told is not changed behind its back.  *)
LocksOnlyForCalls ==
  [][held' # held /\ client_open =>
       \E c \in Clients : cpc[c] # "idle" /\ Flock(call[c].act) = held']_vars

(* A register() that meets a process about to exit sees BrokenPipe, on     *)
(* which LockManager::register starts a new process, and no other error.   *)
RegisterSeesBrokenPipe ==
  \A c \in Clients : cpc[c] = "Register" /\ HasReply(call[c].o) =>
    NextReply(call[c].o).tag \in {"Ok", "EPIPE"}
=============================================================================
