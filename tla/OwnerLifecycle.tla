---------------------------- MODULE OwnerLifecycle ----------------------------
(***************************************************************************)
(* LockManager with time: the TTL that the main thread of an owner process *)
(* waits out (DaemonOwner::start), the channel of capacity one by which    *)
(* every request renews it (owner_receiving_loop), and the cleanup         *)
(* thread's interval.                                                      *)
(*                                                                         *)
(* Time advances in ticks; timers count down and are restarted, no clock   *)
(* grows. A thread whose timer has run out, or whose channel has a         *)
(* message, is woken before the next tick. Calls take any time. A request  *)
(* that fails although its process lives is not timed: the instances leave *)
(* Faulty empty.                                                           *)
(***************************************************************************)
EXTENDS LockManager

CONSTANTS
  Ttl,     \* LockManager.ttl, five seconds in build()
  Period   \* the cleanup thread's interval, one second

ASSUME LifecycleAssumption == Ttl \in Nat \ {0} /\ Period \in Nat \ {0}

VARIABLES
  limit,     \* the TTL each process was started with
  ttl,       \* what is left of its main thread's recv_timeout
  renewed,   \* processes whose TTL channel holds a message
  sweep,     \* what is left of the cleanup thread's recv_timeout
  todo       \* entries that its retain() has still to visit

timeVars == <<limit, ttl, renewed, sweep, todo>>
lifecycleVars == <<vars, timeVars>>

LifecycleInit ==
  /\ Init
  /\ limit = [p \in Procs |-> 0]
  /\ ttl = [p \in Procs |-> 0]
  /\ renewed = {}
  /\ sweep = Period
  /\ todo = {}

-----------------------------------------------------------------------------
(* owner_receiving_loop() of p gets a request: try_send() leaves a message *)
(* in the TTL channel unless one is there.                                 *)
Receives(p) ==
  /\ renewed' = IF phase[p] \in {"serving", "exiting"} THEN renewed \cup {p} ELSE renewed
  /\ UNCHANGED <<limit, ttl, sweep, todo>>

(* get_or_create_owner() and register(): what they send renews the TTL.    *)
CallStep(c) ==
  \/ (Get(c) \/ Find(c) \/ Remove(c)) /\ UNCHANGED timeVars
  \/ /\ Ping(c)
     /\ IF SkipsPing(c) THEN UNCHANGED timeVars ELSE Receives(owner[c])
  \/ (Register(c) \/ RegisterFails(c) \/ RegisterRetries(c)) /\ Receives(owner[c])

(* spawn_owner_process(ttl).                                               *)
SpawnStep(c, p) ==
  LET t == IF zero[c] THEN 0 ELSE Ttl IN
  /\ Spawn(c, p)
  /\ limit' = [limit EXCEPT ![p] = t]
  /\ ttl' = [ttl EXCEPT ![p] = t]
  /\ renewed' = renewed \ {p}
  /\ UNCHANGED <<sweep, todo>>

DropStep(c) == Drop(c) /\ Receives(lockable[c].proc)

-----------------------------------------------------------------------------
(* The main thread of p: DaemonOwner::start().                             *)

(* A main thread that restarts with the manager's TTL, not its own.        *)
MainRenew_Default(p) ==
  /\ phase[p] = "serving" /\ p \in renewed
  /\ renewed' = renewed \ {p}
  /\ ttl' = [ttl EXCEPT ![p] = Ttl]
  /\ UNCHANGED <<vars, limit, sweep, todo>>

(* recv_timeout() returns the message: it is called again with the TTL.    *)
MainRenew(p) ==
  /\ phase[p] = "serving" /\ p \in renewed
  /\ renewed' = renewed \ {p}
  /\ ttl' = [ttl EXCEPT ![p] = limit[p]]
  /\ UNCHANGED <<vars, limit, sweep, todo>>

(* A main thread that also waits for the manager to forget its owner.      *)
MainTimeout_Mapped(p) ==
  /\ ttl[p] = 0 /\ p \notin renewed
  /\ \A k \in OwnerIds : owners[k] # p
  /\ Expire(p)
  /\ UNCHANGED timeVars

(* It times out, and try_exit() succeeds.                                  *)
MainTimeout(p) ==
  /\ ttl[p] = 0 /\ p \notin renewed
  /\ Expire(p)
  /\ UNCHANGED timeVars

(* It times out, and files are registered.                                 *)
MainBusy(p) ==
  /\ phase[p] = "serving" /\ ttl[p] = 0 /\ p \notin renewed /\ HasFiles(p)
  /\ ttl' = [ttl EXCEPT ![p] = limit[p]]
  /\ UNCHANGED <<vars, limit, renewed, sweep, todo>>

Ends(p) == (ProcessExit(p) \/ HangUp(p)) /\ UNCHANGED timeVars

-----------------------------------------------------------------------------
(* The cleanup thread wakes up and visits the owners it finds.             *)
SweepStart ==
  /\ manager /\ sweep = 0 /\ todo = {}
  /\ todo' = {k \in OwnerIds : owners[k] # None}
  /\ sweep' = Period
  /\ UNCHANGED <<vars, limit, ttl, renewed>>

(* retain() removes an owner whose ping fails; one that answers has its    *)
(* TTL renewed by the ping; one removed meanwhile is not visited.          *)
SweepEntry(k) ==
  LET p == owners[k] IN
  /\ k \in todo
  /\ todo' = todo \ {k}
  /\ \/ Cleanup(k) /\ UNCHANGED renewed
     \/ /\ p # None /\ phase[p] # "gone"
        /\ renewed' = renewed \cup {p}
        /\ UNCHANGED vars
     \/ p = None /\ UNCHANGED <<vars, renewed>>
  /\ UNCHANGED <<limit, ttl, sweep>>

(* LockManager::drop() joins the cleanup thread, which finishes its round. *)
DropManagerStep == todo = {} /\ DropManager /\ UNCHANGED timeVars

-----------------------------------------------------------------------------
(* A thread has been woken and has not run yet.                            *)
Due ==
  \/ \E p \in Procs :
       /\ phase[p] = "serving"
       /\ p \in renewed \/ (ttl[p] = 0 /\ (limit[p] > 0 \/ ~HasFiles(p)))
  \/ manager /\ (sweep = 0 \/ todo # {})

Countdown(n) == IF n = 0 THEN 0 ELSE n - 1

Tick ==
  /\ ~Due
  /\ ttl' = [p \in Procs |-> Countdown(ttl[p])]
  /\ sweep' = IF manager THEN Countdown(sweep) ELSE sweep
  /\ UNCHANGED <<vars, limit, renewed, todo>>

SweepStep == SweepStart \/ \E k \in OwnerIds : SweepEntry(k)
MainStep(p) == MainRenew(p) \/ MainTimeout(p) \/ MainBusy(p)
CallerGoesOn(c) ==
  \/ CallStep(c) \/ (\E p \in Procs : SpawnStep(c, p))
  \/ SpawnFails(c) /\ UNCHANGED timeVars

LifecycleNext ==
  \/ \E c \in Callers :
       \/ \E k \in OwnerIds, z \in BOOLEAN : Begin(c, k, z) /\ UNCHANGED timeVars
       \/ CallerGoesOn(c) \/ DropStep(c)
  \/ \E p \in Procs : MainStep(p) \/ Ends(p)
  \/ SweepStep \/ DropManagerStep \/ Tick

(* Threads run, and a process that is exiting or hung up on ends. Time     *)
(* passes however many calls are made.                                     *)
LifecycleFairness ==
  /\ \A c \in Callers : WF_lifecycleVars(CallerGoesOn(c))
  /\ \A p \in Procs :
       WF_lifecycleVars(MainStep(p)) /\ WF_lifecycleVars(Ends(p))
  /\ WF_lifecycleVars(SweepStep)
  /\ SF_lifecycleVars(Tick)

LifecycleSpec == LifecycleInit /\ [][LifecycleNext]_lifecycleVars /\ LifecycleFairness

-----------------------------------------------------------------------------
(* Timers stay within the time they are set to, and retain() runs only     *)
(* while there is a cleanup thread.                                        *)
LifecycleTypeOK ==
  /\ TypeOK
  /\ limit \in [Procs -> {0, Ttl}]
  /\ \A p \in Procs : ttl[p] \in 0 .. limit[p]
  /\ renewed \subseteq Procs
  /\ sweep \in 0 .. Period
  /\ todo \subseteq OwnerIds /\ (todo # {} => manager)

(* An owner that is gone leaves the map, by the cleanup thread if nobody   *)
(* asks for it.                                                            *)
GoneOwnerEvicted ==
  \A k \in OwnerIds, p \in Procs :
    (owners[k] = p /\ phase[p] = "gone") ~> owners[k] # p

(* get_or_create_owner() with a TTL of zero returns although each process  *)
(* it starts may be gone before it could be pinged.                        *)
ZeroTtlReturns == \A c \in Callers : (pc[c] = "get" /\ zero[c]) ~> pc[c] = "idle"

(* Once the LockManager is dropped, a process with no files left ends: no  *)
(* thread keeps an end of its socket.                                      *)
DropEndsProcesses == \A p \in Procs : (~manager /\ ~HasFiles(p)) ~> phase[p] = "none"

(* When the coordinator has ended, register() and get_or_create_owner()    *)
(* still return, with an error if it takes a new process: neither a        *)
(* request to the coordinator nor the loop around it goes on for ever.     *)
ReturnsWithoutCoordinator ==
  \A c \in Callers : (~coordinator /\ pc[c] # "idle") ~> pc[c] = "idle"

(* "These processes exit if they are not in use": a process does not stay  *)
(* for ever with no file registered and no call that uses it.              *)
IdleOwnerExits ==
  \A p \in Procs :
    []<>~(phase[p] = "serving" /\ ~HasFiles(p) /\ \A c \in Callers : owner[c] # p)
=============================================================================
