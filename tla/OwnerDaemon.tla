----------------------------- MODULE OwnerDaemon -----------------------------
(***************************************************************************)
(* The server half of src/src/owner.rs: one owner process. Its main thread *)
(* waits out the TTL, its receiving loop handles the requests in order,    *)
(* and it runs one thread per blocking lock and one per Interrupt or       *)
(* Unregister request. The kernel's POSIX locks on the one file and range  *)
(* modelled belong to processes: this one's, and those of all the others.  *)
(* Every registered descriptor is of that file, which is open for reading  *)
(* or for reading and writing.                                             *)
(*                                                                         *)
(* stop() of a tracker or of a handle is modelled by what Tracker shows of *)
(* it: the tracker is closed at once, the threads are signalled until they *)
(* have left, and only then does stop() return. Time is abstracted: the    *)
(* TTL may run out at any moment, so the channel that refreshes it would   *)
(* rule out nothing and is left out.                                       *)
(***************************************************************************)
EXTENDS Channels, Types

CONSTANTS
  MaxIds,        \* descriptor ids and interrupt ids are below this bound
  LockThreads,   \* threads for blocking locks that may exist at a time
  NoThread,
  FdLimit        \* files and replies that the process may have open at a time

ASSUME DaemonAssumption ==
  MaxIds \in Nat /\ NoThread \notin LockThreads /\ FdLimit \in Nat

Ids == 0 .. MaxIds - 1

VARIABLES
  main,              \* the main thread: "waiting" or "exiting"
  exit_lock,         \* DaemonOwnerInner.exit_lock, its value
  loop,              \* the receiving loop: its pc, the request it handles,
                     \* the lock thread it waits for
  next_id, descriptors, writable,   \* descriptors and which may be write-locked
  interrupt_next_id, interrupts,    \* interrupts[i]: the thread of handle i
  threads,           \* the lock threads: pc, descriptor id, reply, lock type
  jobs,              \* the threads that serve Interrupt and Unregister
  held, others       \* the kernel: the lock of this process, of the others

mainVars      == <<main, exit_lock>>
fdVars        == <<next_id, descriptors, writable>>
interruptVars == <<interrupt_next_id, interrupts>>
kernelVars    == <<held, others>>
daemonVars    == <<mainVars, loop, fdVars, interruptVars, threads, jobs, kernelVars>>

NoReq  == Request("none", 0, "Unlock", 0)
Idle   == [pc |-> "none", id |-> 0, act |-> "Unlock", o |-> 0]
AtRecv == [pc |-> "recv", req |-> NoReq, thread |-> NoThread]

DaemonInit ==
  /\ main = "waiting" /\ exit_lock = FALSE
  /\ loop = AtRecv
  /\ next_id = 0 /\ descriptors = {} /\ writable = {}
  /\ interrupt_next_id = 0 /\ interrupts = [i \in Ids |-> NoThread]
  /\ threads = [t \in LockThreads |-> Idle]
  /\ jobs = {}
  /\ held = F_UNLCK /\ others = F_UNLCK

-----------------------------------------------------------------------------
(* State formulas.                                                         *)

(* A thread in one of these states is counted by its descriptor's tracker. *)
TrackedPcs == {"trylk", "waitlk", "replied"}
(* In these it holds a clone of the Arc<FdData>.                           *)
HoldingPcs == TrackedPcs \cup {"starting", "refused"}

ThreadsOn(id, pcs) == {t \in LockThreads : threads[t].pc \in pcs /\ threads[t].id = id}

(* The clone that handle_lock_command holds while it runs.                 *)
LoopHolds(id) == loop.pc \in {"cmd", "spawn"} /\ loop.req.id = id

(* A count that overlooks the receiving loop's clone.                      *)
LastReference_Threads(id) == ThreadsOn(id, HoldingPcs) = {}

(* Arc::strong_count() == 1 for the one that took id out of the map.       *)
LastReference(id) == ThreadsOn(id, HoldingPcs) = {} /\ ~LoopHolds(id)

Unregistering(id, st) ==
  \E j \in jobs : j.op = "Unregister" /\ j.id = id /\ j.st \in st

(* FdData exists, its descriptor is open and its exit lock guard held.     *)
FdExists(id) == id \in descriptors \/ Unregistering(id, {"removed", "stopping"})

(* FdData.tracker.can_spawn.                                               *)
CanSpawn(id) == ~Unregistering(id, {"stopping"})

(* An Interrupt request that signals nobody.                               *)
Signalled_ByTracker(t) == Unregistering(threads[t].id, {"stopping"})

(* A tracker whose stop() signals nobody.                                  *)
Signalled_ByHandle(t) ==
  \E j \in jobs : j.op = "Interrupt" /\ j.st = "stopping" /\ j.thread = t

(* Somebody signals thread t until it has left.                            *)
Signalled(t) ==
  \/ Unregistering(threads[t].id, {"stopping"})
  \/ \E j \in jobs : j.op = "Interrupt" /\ j.st = "stopping" /\ j.thread = t

(* A thread's name may be given to a new thread.                           *)
FreeThread(t) ==
  /\ threads[t].pc = "none"
  /\ \A i \in Ids : interrupts[i] # t
  /\ \A j \in jobs : j.thread # t

(* The descriptors that the process has open besides the socket: those of  *)
(* FdData, and the replies of the requests that it serves.                 *)
OpenFds ==
  Cardinality({id \in Ids : FdExists(id)}) + Cardinality(jobs)
  + Cardinality({t \in LockThreads : threads[t].pc # "none"})
  + (IF loop.pc = "cmd" THEN 1 ELSE 0)

(* recvmsg() gets all the descriptors that come with the request.          *)
HasRoom(op) == OpenFds + FdsOf(op) <= FdLimit

(* The kernel: a write lock excludes every other lock.                     *)
Conflict(l, m) == F_UNLCK \notin {l, m} /\ F_WRLCK \in {l, m}

(* fcntl(F_SETLK): the outcome for a lock of type l on descriptor id.      *)
SetLkErrno(id, l) ==
  LET writes == l = F_WRLCK => id \in writable IN
  CASE ~writes                         -> "EBADF"
    [] writes /\ Conflict(l, others)   -> "EAGAIN"
    [] OTHER                           -> "Done"

HeldAfter(errno, l) == IF errno = "Done" THEN l ELSE held

(* fcntl(F_GETLK): the type of a lock in the way, or F_UNLCK.              *)
GetLkType(l) == IF Conflict(l, others) THEN others ELSE F_UNLCK

(* The reply to fcntl(), which put l_type in the flock if it succeeded.    *)
LkReply(errno, l_type) ==
  IF errno # "Done" THEN R(errno)
  ELSE IF TryFrom(l_type) = "InvalidInput" THEN R("EINVAL")
  ELSE Done(TryFrom(l_type))

-----------------------------------------------------------------------------
(* The receiving loop. Each message but a lock command is one action.      *)

(* receive_request().                                                      *)
Receive(op) ==
  /\ server_open /\ loop.pc = "recv" /\ sock # << >> /\ Head(sock).op = op
  /\ HasRoom(op)
  /\ sock' = Tail(sock)
  /\ UNCHANGED <<client_open, server_open>>

(* Without room for its descriptors a request arrives with fewer of them   *)
(* than it needs: it is dropped, and the loop goes on.                     *)
Discard ==
  /\ server_open /\ loop.pc = "recv" /\ sock # << >> /\ ~HasRoom(Head(sock).op)
  /\ sock' = Tail(sock)
  /\ oneshot' = Hushed(Head(sock).o)
  /\ UNCHANGED <<client_open, server_open, daemonVars>>

LoopPing ==
  /\ Receive("Ping")
  /\ oneshot' = Answered(Head(sock).o, R("Ok"))
  /\ UNCHANGED <<mainVars, loop, fdVars, interruptVars, threads, jobs, kernelVars>>

(* io_cvt of the BrokenPipe of acquire_exit_lock(): it has no errno, so    *)
(* the catch-all arm makes it EIO.                                         *)
ExitingErrno == "EIO"

(* A Register that does not take the exit lock.                            *)
LoopRegister_Unlocked ==
  LET req == Head(sock) IN
  /\ Receive("Register") /\ next_id \in Ids
  /\ oneshot' = Answered(req.o, Registered(next_id))
  /\ next_id' = next_id + 1
  /\ descriptors' = descriptors \cup {next_id}
  /\ writable' = IF req.act = "Write" THEN writable \cup {next_id} ELSE writable
  /\ UNCHANGED <<mainVars, loop, interruptVars, threads, jobs, kernelVars>>

(* handle_fd_register(). The request's act says what the file is open for. *)
LoopRegister ==
  LET req == Head(sock) IN
  /\ Receive("Register")
  /\ \/ /\ exit_lock
        /\ oneshot' = Answered(req.o, R(ExitingErrno))
        /\ UNCHANGED fdVars
     \/ /\ ~exit_lock /\ next_id \in Ids
        /\ oneshot' = Answered(req.o, Registered(next_id))
        /\ next_id' = next_id + 1
        /\ descriptors' = descriptors \cup {next_id}
        /\ writable' = IF req.act = "Write" THEN writable \cup {next_id} ELSE writable
  /\ UNCHANGED <<mainVars, loop, interruptVars, threads, jobs, kernelVars>>

(* handle_interrupt_remove().                                              *)
LoopRemoveInterrupt ==
  LET req == Head(sock)
      found == interrupts[req.id] # NoThread
  IN
  /\ Receive("RemoveInterrupt")
  /\ oneshot' = Answered(req.o, R(IF found THEN "Ok" ELSE "ENOENT"))
  /\ interrupts' = [interrupts EXCEPT ![req.id] = NoThread]
  /\ UNCHANGED <<mainVars, loop, fdVars, interrupt_next_id, threads, jobs, kernelVars>>

(* Interrupt and Unregister get a thread of their own.                     *)
LoopDetach(op) ==
  LET req == Head(sock) IN
  /\ Receive(op)
  /\ jobs' = jobs \cup {[op |-> op, id |-> req.id, o |-> req.o,
                         st |-> "start", thread |-> NoThread]}
  /\ UNCHANGED <<oneshot, mainVars, loop, fdVars, interruptVars, threads, kernelVars>>

(* handle_lock_command(), its look-up: the Arc<FdData> is cloned.          *)
LoopLookUp(op) ==
  LET req == Head(sock) IN
  /\ Receive(op)
  /\ \/ /\ req.id \notin descriptors
        /\ oneshot' = Answered(req.o, R("ENOENT"))
        /\ UNCHANGED loop
     \/ /\ req.id \in descriptors
        /\ loop' = [loop EXCEPT !.pc = "cmd", !.req = req]
        /\ UNCHANGED oneshot
  /\ UNCHANGED <<mainVars, fdVars, interruptVars, threads, jobs, kernelVars>>

(* F_GETLK. The kernel refuses to look for an unlock.                      *)
LoopGetLk ==
  LET l == Flock(loop.req.act)
      errno == IF l = F_UNLCK THEN "EINVAL" ELSE "Done"
  IN
  /\ server_open /\ loop.pc = "cmd" /\ loop.req.op = "GetLk"
  /\ oneshot' = Answered(loop.req.o, LkReply(errno, GetLkType(l)))
  /\ loop' = AtRecv
  /\ UNCHANGED <<sock, client_open, server_open, mainVars, fdVars,
                 interruptVars, threads, jobs, kernelVars>>

(* F_SETLK.                                                                *)
LoopSetLk ==
  LET req == loop.req
      l == Flock(req.act)
      errno == SetLkErrno(req.id, l)
  IN
  /\ server_open /\ loop.pc = "cmd" /\ req.op = "SetLk"
  /\ oneshot' = Answered(req.o, LkReply(errno, l))
  /\ held' = HeldAfter(errno, l)
  /\ loop' = AtRecv
  /\ UNCHANGED <<sock, client_open, server_open, mainVars, fdVars,
                 interruptVars, threads, jobs, others>>

(* tracker.spawn() creates the thread and waits until it has been tracked  *)
(* or refused.                                                             *)
LoopSpawn ==
  LET req == loop.req
      free == {t \in LockThreads : FreeThread(t)}
      t == CHOOSE f \in free : TRUE
  IN
  /\ server_open /\ loop.pc = "cmd" /\ req.op = "SetLkw" /\ free # {}
  /\ threads' = [threads EXCEPT ![t] =
                   [pc |-> "starting", id |-> req.id, act |-> req.act, o |-> req.o]]
  /\ loop' = [loop EXCEPT !.pc = "spawn", !.thread = t]
  /\ UNCHANGED <<channelVars, mainVars, fdVars, interruptVars, jobs, kernelVars>>

LoopSpawned ==
  /\ server_open /\ loop.pc = "spawn" /\ threads[loop.thread].pc # "starting"
  /\ loop' = AtRecv
  /\ UNCHANGED <<channelVars, mainVars, fdVars, interruptVars, threads, jobs,
                 kernelVars>>

(* End of file on the socket.                                              *)
LoopEnds ==
  /\ server_open /\ loop.pc = "recv" /\ sock = << >> /\ ~client_open
  /\ loop' = [loop EXCEPT !.pc = "ended"]
  /\ UNCHANGED <<channelVars, mainVars, fdVars, interruptVars, threads, jobs,
                 kernelVars>>

LoopStep ==
  \/ Discard \/ LoopPing \/ LoopRegister \/ LoopRemoveInterrupt
  \/ LoopDetach("Interrupt") \/ LoopDetach("Unregister")
  \/ LoopLookUp("GetLk") \/ LoopLookUp("SetLk") \/ LoopLookUp("SetLkw")
  \/ LoopGetLk \/ LoopSetLk \/ LoopSpawn \/ LoopSpawned \/ LoopEnds

-----------------------------------------------------------------------------
(* A lock thread: tracker.spawn()'s closure around set_lock_blocking().    *)

Step(t, from, to) ==
  /\ server_open /\ threads[t].pc = from
  /\ threads' = [threads EXCEPT ![t] = IF to = "none" THEN Idle ELSE [@ EXCEPT !.pc = to]]
  /\ UNCHANGED <<sock, client_open, server_open, mainVars, loop, fdVars, jobs,
                 others>>

(* A thread that does not look whether its tracker is being stopped.       *)
ThreadTrack_Ungated(t) ==
  /\ Step(t, "starting", "trylk")
  /\ UNCHANGED <<oneshot, interruptVars, held>>

(* InterruptibleGuard::new(): the tracker counts the thread or refuses it. *)
ThreadTrack(t) ==
  /\ Step(t, "starting", IF CanSpawn(threads[t].id) THEN "trylk" ELSE "refused")
  /\ UNCHANGED <<oneshot, interruptVars, held>>

(* A refused thread that never closes the reply.                           *)
ThreadRefused_Mute(t) ==
  /\ Step(t, "refused", "none")
  /\ UNCHANGED <<oneshot, interruptVars, held>>

(* A refused thread drops its closure: reply and descriptor.               *)
ThreadRefused(t) ==
  /\ Step(t, "refused", "none")
  /\ oneshot' = Hushed(threads[t].o)
  /\ UNCHANGED <<interruptVars, held>>

(* set_lock_blocking() replies with the parameters it was given.           *)
BlockingReply(t, errno) == IF errno = "Done" THEN Done(threads[t].act) ELSE R(errno)

(* handle_interrupt_add() that does not advance the counter.               *)
ThreadTryLk_SameId(t) ==
  LET l == Flock(threads[t].act)
      errno == SetLkErrno(threads[t].id, l)
  IN
  /\ Step(t, "trylk", "waitlk")
  /\ held' = HeldAfter(errno, l)
  /\ \/ /\ errno = "EAGAIN" /\ interrupt_next_id \in Ids
        /\ interrupts' = [interrupts EXCEPT ![interrupt_next_id] = t]
        /\ oneshot' = Replied(threads[t].o, Pending(interrupt_next_id))
     \/ /\ errno # "EAGAIN"
        /\ oneshot' = Replied(threads[t].o, BlockingReply(t, errno))
        /\ UNCHANGED interrupts
  /\ UNCHANGED interrupt_next_id

(* The F_SETLK of set_lock_blocking() and its reply: Done, or an error, or *)
(* Pending with the id of the handle that handle_interrupt_add() stored.   *)
(* All three fall through to the F_SETLKW.                                 *)
ThreadTryLk(t) ==
  LET l == Flock(threads[t].act)
      errno == SetLkErrno(threads[t].id, l)
  IN
  /\ Step(t, "trylk", "waitlk")
  /\ held' = HeldAfter(errno, l)
  /\ \/ /\ errno = "EAGAIN" /\ interrupt_next_id \in Ids
        /\ interrupts' = [interrupts EXCEPT ![interrupt_next_id] = t]
        /\ interrupt_next_id' = interrupt_next_id + 1
        /\ oneshot' = Replied(threads[t].o, Pending(interrupt_next_id))
     \/ /\ errno # "EAGAIN"
        /\ oneshot' = Replied(threads[t].o, BlockingReply(t, errno))
        /\ UNCHANGED interruptVars

(* A set_lock_blocking() that starts over when it is interrupted.          *)
ThreadReturns_Restarts(t, errno) ==
  LET l == Flock(threads[t].act)
      try == SetLkErrno(threads[t].id, l)
  IN
  /\ Step(t, "waitlk", IF errno = "EINTR" THEN "trylk" ELSE "replied")
  /\ \/ errno = try /\ try # "EAGAIN"
     \/ errno = "EINTR" /\ try = "EAGAIN" /\ Signalled(t)
     \/ errno = "EDEADLK" /\ try = "EAGAIN"
  /\ held' = HeldAfter(errno, l)
  /\ oneshot' = Replied(threads[t].o, BlockingReply(t, errno))
  /\ UNCHANGED interruptVars

(* The F_SETLKW, with SIGUSR1 unmasked, returns: never with EAGAIN, with   *)
(* EINTR only if signalled while it blocks, with EDEADLK when the kernel   *)
(* sees a cycle through locks of other files.                              *)
ThreadReturns(t, errno) ==
  LET l == Flock(threads[t].act)
      try == SetLkErrno(threads[t].id, l)
  IN
  /\ Step(t, "waitlk", "replied")
  /\ \/ errno = try /\ try # "EAGAIN"
     \/ errno = "EINTR" /\ try = "EAGAIN" /\ Signalled(t)
     \/ errno = "EDEADLK" /\ try = "EAGAIN"
  /\ held' = HeldAfter(errno, l)
  /\ oneshot' = Replied(threads[t].o, BlockingReply(t, errno))
  /\ UNCHANGED interruptVars

(* The closure ends: reply and descriptor are dropped, then the guard,     *)
(* which untracks the thread and marks its exit. Whoever waits for one of  *)
(* these waits for all of them, so they are one step.                      *)
ThreadExit(t) ==
  /\ Step(t, "replied", "none")
  /\ oneshot' = Hushed(threads[t].o)
  /\ UNCHANGED <<interruptVars, held>>

ThreadStep(t) ==
  \/ ThreadTrack(t) \/ ThreadRefused(t) \/ ThreadTryLk(t)
  \/ ThreadReturns(t, "Done") \/ ThreadReturns(t, "EBADF")
  \/ ThreadReturns(t, "EINTR") \/ ThreadExit(t)

-----------------------------------------------------------------------------
(* The threads of Interrupt and Unregister requests.                       *)

JobFrame == UNCHANGED <<sock, client_open, server_open, mainVars, loop, next_id,
                        writable, interruptVars, threads, others>>

JobEnds(j, r) ==
  /\ jobs' = jobs \ {j}
  /\ oneshot' = Answered(j.o, R(r))

JobGoes(j, k) ==
  /\ jobs' = (jobs \ {j}) \cup {k}
  /\ UNCHANGED oneshot

(* handle_interrupt(): the handle is looked up and cloned.                 *)
InterruptLookUp(j) ==
  LET t == interrupts[j.id] IN
  /\ server_open /\ j.op = "Interrupt" /\ j.st = "start"
  /\ \/ t = NoThread /\ JobEnds(j, "ENOENT")
     \/ t # NoThread /\ JobGoes(j, [j EXCEPT !.st = "stopping", !.thread = t])
  /\ JobFrame /\ UNCHANGED <<descriptors, held>>

(* InterruptibleHandle::stop() returns: the thread has marked its exit.    *)
InterruptDone(j) ==
  /\ server_open /\ j.op = "Interrupt" /\ j.st = "stopping"
  /\ threads[j.thread].pc = "none"
  /\ JobEnds(j, "Ok")
  /\ JobFrame /\ UNCHANGED <<descriptors, held>>

(* handle_fd_unregister(): out of the map first.                           *)
UnregisterRemove(j) ==
  /\ server_open /\ j.op = "Unregister" /\ j.st = "start"
  /\ \/ j.id \notin descriptors /\ JobEnds(j, "ENOENT")
     \/ j.id \in descriptors /\ JobGoes(j, [j EXCEPT !.st = "removed"])
  /\ descriptors' = descriptors \ {j.id}
  /\ JobFrame /\ UNCHANGED held

(* An unregister that replies before it stops the threads.                 *)
UnregisterStop_Replies(j) ==
  /\ server_open /\ j.op = "Unregister" /\ j.st = "removed"
  /\ jobs' = (jobs \ {j}) \cup {[j EXCEPT !.st = "stopping"]}
  /\ oneshot' = Answered(j.o, R("Ok"))
  /\ JobFrame /\ UNCHANGED <<descriptors, held>>

(* InterruptibleTracker::stop() begins.                                    *)
UnregisterStop(j) ==
  /\ server_open /\ j.op = "Unregister" /\ j.st = "removed"
  /\ JobGoes(j, [j EXCEPT !.st = "stopping"])
  /\ JobFrame /\ UNCHANGED <<descriptors, held>>

(* An unregister that waits for the tracker but not for the references.    *)
UnregisterClose_NoCount(j) ==
  /\ server_open /\ j.op = "Unregister" /\ j.st = "stopping"
  /\ ThreadsOn(j.id, TrackedPcs) = {}
  /\ held' = F_UNLCK
  /\ JobGoes(j, [j EXCEPT !.st = "closed"])
  /\ JobFrame /\ UNCHANGED descriptors

(* An unregister that gives up when nobody waits for its reply any more.   *)
UnregisterClose_IfAwaited(j) ==
  /\ server_open /\ j.op = "Unregister" /\ j.st = "stopping" /\ oneshot[j.o].rx
  /\ ThreadsOn(j.id, TrackedPcs) = {} /\ LastReference(j.id)
  /\ held' = F_UNLCK
  /\ JobGoes(j, [j EXCEPT !.st = "closed"])
  /\ JobFrame /\ UNCHANGED descriptors

(* stop() has returned and the reference count is down to one: the FdData  *)
(* is dropped. That closes the descriptor, with which every lock that the  *)
(* process has on the file goes, and releases the exit lock.               *)
UnregisterClose(j) ==
  /\ server_open /\ j.op = "Unregister" /\ j.st = "stopping"
  /\ ThreadsOn(j.id, TrackedPcs) = {} /\ LastReference(j.id)
  /\ held' = F_UNLCK
  /\ JobGoes(j, [j EXCEPT !.st = "closed"])
  /\ JobFrame /\ UNCHANGED descriptors

(* The reply follows, unless the process has ended in the meantime.        *)
UnregisterReply(j) ==
  /\ server_open /\ j.op = "Unregister" /\ j.st = "closed"
  /\ JobEnds(j, "Ok")
  /\ JobFrame /\ UNCHANGED <<descriptors, held>>

JobStep(j) ==
  \/ InterruptLookUp(j) \/ InterruptDone(j)
  \/ UnregisterRemove(j) \/ UnregisterStop(j)
  \/ UnregisterClose(j) \/ UnregisterReply(j)

-----------------------------------------------------------------------------
(* The main thread: DaemonOwner::start().                                  *)

MainFrame == UNCHANGED <<channelVars, loop, fdVars, interruptVars, threads, jobs,
                         kernelVars>>

(* The TTL ran out and try_exit() gets the write lock, as it does while no *)
(* FdData exists. Otherwise it fails and start() waits on.                 *)
MainTryExit ==
  /\ server_open /\ main = "waiting" /\ loop.pc # "ended"
  /\ \A id \in Ids : ~FdExists(id)
  /\ main' = "exiting" /\ exit_lock' = TRUE
  /\ MainFrame

(* A start() that insists on the exit lock although the loop has ended.    *)
MainJoin_Insists ==
  /\ server_open /\ main = "waiting" /\ loop.pc = "ended"
  /\ \A id \in Ids : ~FdExists(id)
  /\ main' = "exiting"
  /\ UNCHANGED exit_lock /\ MainFrame

(* The loop has finished and hung up its end of the TTL channel: start()   *)
(* joins it and returns, whatever is registered.                           *)
MainJoin ==
  /\ server_open /\ main = "waiting" /\ loop.pc = "ended"
  /\ main' = "exiting"
  /\ UNCHANGED exit_lock /\ MainFrame

(* main() returns: the kernel closes every descriptor, those in flight     *)
(* included, and drops the locks of the process.                           *)
ProcessExit ==
  /\ server_open /\ main = "exiting"
  /\ server_open' = FALSE
  /\ sock' = << >>
  /\ oneshot' = [o \in Oneshots |-> [oneshot[o] EXCEPT !.tx = FALSE]]
  /\ loop' = AtRecv /\ jobs' = {} /\ descriptors' = {}
  /\ threads' = [t \in LockThreads |-> Idle]
  /\ interrupts' = [i \in Ids |-> NoThread]
  /\ held' = F_UNLCK
  /\ UNCHANGED <<client_open, mainVars, next_id, writable, interrupt_next_id,
                 others>>

MainStep == MainTryExit \/ MainJoin \/ ProcessExit

-----------------------------------------------------------------------------
(* Another process locks or unlocks the file.                              *)
OthersLock(l) ==
  /\ ~Conflict(l, held) /\ others # l
  /\ others' = l
  /\ UNCHANGED <<channelVars, mainVars, loop, fdVars, interruptVars, threads,
                 jobs, held>>

DaemonNext ==
  \/ LoopStep \/ MainStep
  \/ \E t \in LockThreads : ThreadStep(t) \/ ThreadReturns(t, "EDEADLK")
  \/ \E j \in jobs : JobStep(j)

DaemonTypeOK ==
  /\ main \in {"waiting", "exiting"}
  /\ exit_lock \in BOOLEAN
  /\ {held, others} \subseteq {F_RDLCK, F_WRLCK, F_UNLCK} /\ ~Conflict(held, others)
  /\ loop.pc \in {"recv", "cmd", "spawn", "ended"}
  /\ loop.thread \in LockThreads \cup {NoThread}
  /\ next_id \in 0 .. MaxIds /\ interrupt_next_id \in 0 .. MaxIds
  /\ descriptors \subseteq Ids /\ writable \subseteq Ids
  /\ interrupts \in [Ids -> LockThreads \cup {NoThread}]
  /\ \A t \in LockThreads :
       threads[t].pc \in HoldingPcs \cup {"none"}
  /\ \A j \in jobs : j.st \in {"start", "removed", "stopping", "closed"}
=============================================================================
