----------------------------- MODULE LockManager -----------------------------
(***************************************************************************)
(* src/src/lib.rs: the LockManager's map from owner ids to owner           *)
(* processes, the threads that call register() and get_or_create_owner(),  *)
(* the cleanup thread, and the coordinator (src/src/owner_spawner.rs) that *)
(* starts the processes (src/src/processes.rs).                            *)
(*                                                                         *)
(* An owner process is abstracted to what LockSystem shows of it: it       *)
(* serves, it is exiting and only answers pings, or it is gone; while a    *)
(* file is registered with it, it serves (AbstractOwner). The map's shard  *)
(* lock is held over an insertion, including the coordinator's answer, and *)
(* over the cleanup thread's ping and removal, so each is one action.      *)
(*                                                                         *)
(* A request may fail although its process lives: the daemon has no        *)
(* descriptor left for the oneshot, or the process none to receive it, and *)
(* then the frame is discarded (Discard of OwnerDaemon). The manager sees  *)
(* an error either way.                                                    *)
(***************************************************************************)
EXTENDS Naturals, FiniteSets

CONSTANTS
  OwnerIds,    \* lock owner ids, the keys of the map
  Callers,     \* threads of the filesystem daemon
  Procs,       \* owner processes that may be in use at a time
  None,
  Expiring,    \* owner ids whose processes' TTLs may run out
  Faulty,      \* owner ids whose requests may fail though the process lives
  CanFail      \* whether the coordinator may fail to start a process

ASSUME ManagerAssumption ==
  /\ None \notin Procs /\ None \notin OwnerIds
  /\ Expiring \subseteq OwnerIds /\ Faulty \subseteq OwnerIds
  /\ CanFail \in BOOLEAN

VARIABLES
  manager,      \* the LockManager has not been dropped
  owners,       \* LockManager.owners: the process of each owner id
  coordinator,  \* the coordinator runs
  phase,        \* each process: "none", "serving", "exiting", "gone"
  ident,        \* the owner id it was started for
  leaked,       \* processes with a file whose Unregister was lost
  pc,           \* where each caller is
  key,          \* the owner id it was called with
  zero,         \* it called get_or_create_owner() with a TTL of zero
  new_owner,    \* get_or_create_owner()'s flag
  owner,        \* the Arc<Owner> it holds
  lockable      \* the process and the owner id of the Lockable it holds

callerVars  == <<pc, key, zero, new_owner, owner>>
processVars == <<phase, ident, leaked>>
vars == <<manager, owners, coordinator, processVars, callerVars, lockable>>

NoLockable == [proc |-> None, id |-> None]

Init ==
  /\ manager = TRUE
  /\ owners = [k \in OwnerIds |-> None]
  /\ coordinator = TRUE
  /\ phase = [p \in Procs |-> "none"]
  /\ ident = [p \in Procs |-> None]
  /\ leaked = {}
  /\ pc = [c \in Callers |-> "idle"]
  /\ key = [c \in Callers |-> None]
  /\ zero = [c \in Callers |-> FALSE]
  /\ new_owner = [c \in Callers |-> FALSE]
  /\ owner = [c \in Callers |-> None]
  /\ lockable = [c \in Callers |-> NoLockable]

-----------------------------------------------------------------------------
Goto(c, to) == pc' = [pc EXCEPT ![c] = to]

(* A look-up that borrows the map's Arc instead of cloning it.             *)
InUse_Borrowed(p) ==
  \/ \E k \in OwnerIds : owners[k] = p
  \/ \E c \in Callers : lockable[c].proc = p

(* The daemon still has an end of the socket to p.                         *)
InUse(p) ==
  \/ \E k \in OwnerIds : owners[k] = p
  \/ \E c \in Callers : owner[c] = p \/ lockable[c].proc = p

(* Some FdData of p exists.                                                *)
HasFiles(p) == p \in leaked \/ \E c \in Callers : lockable[c].proc = p

(* The call returns: its Arc<Owner> is dropped.                            *)
Return(c) ==
  /\ Goto(c, "idle")
  /\ owner' = [owner EXCEPT ![c] = None]
  /\ key' = [key EXCEPT ![c] = None]
  /\ zero' = [zero EXCEPT ![c] = FALSE]
  /\ new_owner' = [new_owner EXCEPT ![c] = FALSE]

(* register(k) is called, or get_or_create_owner(k) with a TTL of zero.    *)
Begin(c, k, z) ==
  /\ manager /\ pc[c] = "idle" /\ lockable[c] = NoLockable
  /\ Goto(c, "get")
  /\ key' = [key EXCEPT ![c] = k]
  /\ zero' = [zero EXCEPT ![c] = z]
  /\ UNCHANGED <<manager, owners, coordinator, processVars, new_owner, owner, lockable>>

(* owners.get().                                                           *)
Get(c) ==
  LET p == owners[key[c]] IN
  /\ pc[c] = "get"
  /\ Goto(c, IF p = None THEN "insert" ELSE "ping")
  /\ owner' = [owner EXCEPT ![c] = p]
  /\ UNCHANGED <<manager, owners, coordinator, processVars, key, zero, new_owner, lockable>>

(* or_try_insert_with(): under the lock of the entry, what is there is     *)
(* taken, and what is not is made.                                         *)
Find(c) ==
  /\ pc[c] = "insert" /\ owners[key[c]] # None
  /\ owner' = [owner EXCEPT ![c] = owners[key[c]]]
  /\ Goto(c, "ping")
  /\ UNCHANGED <<manager, owners, coordinator, processVars, key, zero, new_owner, lockable>>

(* An insertion that does not look again under the lock.                   *)
Spawn_Unchecked(c, p) ==
  /\ pc[c] = "insert"
  /\ coordinator /\ phase[p] = "none"
  /\ phase' = [phase EXCEPT ![p] = "serving"]
  /\ ident' = [ident EXCEPT ![p] = key[c]]
  /\ owners' = [owners EXCEPT ![key[c]] = p]
  /\ owner' = [owner EXCEPT ![c] = p]
  /\ new_owner' = [new_owner EXCEPT ![c] = TRUE]
  /\ Goto(c, "ping")
  /\ UNCHANGED <<manager, coordinator, leaked, key, zero, lockable>>

(* RequestSpawnOwner, and OwnerSpawner::run starts process p.              *)
Spawn(c, p) ==
  /\ pc[c] = "insert" /\ owners[key[c]] = None
  /\ coordinator /\ phase[p] = "none"
  /\ phase' = [phase EXCEPT ![p] = "serving"]
  /\ ident' = [ident EXCEPT ![p] = key[c]]
  /\ owners' = [owners EXCEPT ![key[c]] = p]
  /\ owner' = [owner EXCEPT ![c] = p]
  /\ new_owner' = [new_owner EXCEPT ![c] = TRUE]
  /\ Goto(c, "ping")
  /\ UNCHANGED <<manager, coordinator, leaked, key, zero, lockable>>

(* A request to the coordinator that is never told that it has ended.      *)
SpawnFails_Waits(c) ==
  /\ pc[c] = "insert" /\ owners[key[c]] = None
  /\ \/ CanFail /\ coordinator /\ coordinator' = FALSE
     \/ key[c] \in Faulty /\ UNCHANGED coordinator
  /\ Return(c)
  /\ UNCHANGED <<manager, owners, processVars, lockable>>

(* spawn_owner_process() fails, which ends OwnerSpawner::run: the request  *)
(* sees its oneshot closed, every later one a closed socket. Or the daemon *)
(* has no descriptor for the oneshot or for the new process's socket,      *)
(* which then closes, and the process with it.                             *)
SpawnFails(c) ==
  /\ pc[c] = "insert" /\ owners[key[c]] = None
  /\ \/ (CanFail \/ ~coordinator) /\ coordinator' = FALSE
     \/ key[c] \in Faulty /\ UNCHANGED coordinator
  /\ Return(c)
  /\ UNCHANGED <<manager, owners, processVars, lockable>>

(* A ping in spite of a TTL of zero.                                       *)
SkipsPing_Never(c) == FALSE

(* new_owner_with_zero_ttl.                                                *)
SkipsPing(c) == zero[c] /\ new_owner[c]

(* owner.ping() may return an error. A process that is exiting answers.    *)
PingMayFail(p) == phase[p] = "gone" \/ ident[p] \in Faulty

(* The ping in get_or_create_owner(), and its return.                      *)
Ping(c) ==
  /\ pc[c] = "ping"
  /\ \/ /\ ~SkipsPing(c) /\ PingMayFail(owner[c])
        /\ Goto(c, "remove") /\ UNCHANGED <<key, zero, new_owner, owner>>
     \/ /\ SkipsPing(c) \/ phase[owner[c]] # "gone"
        /\ IF zero[c] THEN Return(c)
           ELSE Goto(c, "register") /\ UNCHANGED <<key, zero, new_owner, owner>>
  /\ UNCHANGED <<manager, owners, coordinator, processVars, lockable>>

(* owners.remove(&owner_id), whichever owner is there by now.              *)
Remove(c) ==
  /\ pc[c] = "remove"
  /\ owners' = [owners EXCEPT ![key[c]] = None]
  /\ owner' = [owner EXCEPT ![c] = None]
  /\ Goto(c, "get")
  /\ UNCHANGED <<manager, coordinator, processVars, key, zero, new_owner, lockable>>

(* A process that takes files until it is gone.                            *)
Register_Exiting(c) ==
  LET p == owner[c] IN
  /\ pc[c] = "register" /\ phase[p] \in {"serving", "exiting"}
  /\ lockable' = [lockable EXCEPT ![c] = [proc |-> p, id |-> key[c]]]
  /\ Return(c)
  /\ UNCHANGED <<manager, owners, coordinator, processVars>>

(* Owner::register(), and what LockManager::register() makes of it. A      *)
(* serving process makes a Lockable.                                       *)
Register(c) ==
  LET p == owner[c] IN
  /\ pc[c] = "register" /\ phase[p] = "serving"
  /\ lockable' = [lockable EXCEPT ![c] = [proc |-> p, id |-> key[c]]]
  /\ Return(c)
  /\ UNCHANGED <<manager, owners, coordinator, processVars>>

(* An error is returned to the caller: EIO from a process that is exiting, *)
(* a BrokenPipe with a ping that succeeds, or what kept the daemon from    *)
(* sending, whether the process lives or not.                              *)
RegisterFails(c) ==
  LET p == owner[c] IN
  /\ pc[c] = "register"
  /\ phase[p] = "exiting" \/ ident[p] \in Faulty
  /\ Return(c)
  /\ UNCHANGED <<manager, owners, coordinator, processVars, lockable>>

(* A BrokenPipe and a ping that fails: all is done again. The process is   *)
(* gone, or has discarded both requests.                                   *)
RegisterRetries(c) ==
  LET p == owner[c] IN
  /\ pc[c] = "register" /\ PingMayFail(p)
  /\ owner' = [owner EXCEPT ![c] = None]
  /\ new_owner' = [new_owner EXCEPT ![c] = FALSE]
  /\ Goto(c, "get")
  /\ UNCHANGED <<manager, owners, coordinator, processVars, key, zero, lockable>>

(* Lockable::drop(). It cannot report that its Unregister was lost.        *)
Drop(c) ==
  LET p == lockable[c].proc IN
  /\ pc[c] = "idle" /\ lockable[c] # NoLockable
  /\ lockable' = [lockable EXCEPT ![c] = NoLockable]
  /\ \/ UNCHANGED leaked
     \/ ident[p] \in Faulty /\ leaked' = leaked \cup {p}
  /\ UNCHANGED <<manager, owners, coordinator, phase, ident, callerVars>>

CallerStep(c) ==
  \/ Get(c) \/ Find(c) \/ (\E p \in Procs : Spawn(c, p)) \/ SpawnFails(c)
  \/ Ping(c) \/ Remove(c)
  \/ Register(c) \/ RegisterFails(c) \/ RegisterRetries(c)

-----------------------------------------------------------------------------
(* A cleanup that keeps every owner.                                       *)
Cleanup_Keeps(k) ==
  /\ owners[k] # None /\ phase[owners[k]] = "gone"
  /\ UNCHANGED vars

(* cleanup_thread(): retain() pings and removes under the entry's lock.    *)
Cleanup(k) ==
  /\ owners[k] # None /\ PingMayFail(owners[k])
  /\ owners' = [owners EXCEPT ![k] = None]
  /\ UNCHANGED <<manager, coordinator, processVars, callerVars, lockable>>

(* The manager goes and its cleanup thread, with its clone of the map,     *)
(* stays.                                                                  *)
DropManager_NotJoined ==
  /\ manager /\ \A c \in Callers : pc[c] = "idle"
  /\ manager' = FALSE
  /\ coordinator' = FALSE
  /\ UNCHANGED <<owners, processVars, callerVars, lockable>>

(* LockManager::drop(): nobody borrows the manager any more, the cleanup   *)
(* thread is joined, the map and the socket to the coordinator are closed. *)
(* A Lockable has its own Arc of its owner's socket.                       *)
DropManager ==
  /\ manager /\ \A c \in Callers : pc[c] = "idle"
  /\ manager' = FALSE
  /\ owners' = [k \in OwnerIds |-> None]
  /\ coordinator' = FALSE
  /\ UNCHANGED <<processVars, callerVars, lockable>>

-----------------------------------------------------------------------------
(* An owner process, as LockSystem shows it to behave.                     *)

(* A TTL that runs out although files are registered.                      *)
Expire_InUse(p) ==
  /\ ident[p] \in Expiring /\ phase[p] = "serving"
  /\ phase' = [phase EXCEPT ![p] = "exiting"]
  /\ UNCHANGED <<manager, owners, coordinator, ident, leaked, callerVars, lockable>>

(* The TTL runs out and try_exit() succeeds.                               *)
Expire(p) ==
  /\ ident[p] \in Expiring /\ phase[p] = "serving" /\ ~HasFiles(p)
  /\ phase' = [phase EXCEPT ![p] = "exiting"]
  /\ UNCHANGED <<manager, owners, coordinator, ident, leaked, callerVars, lockable>>

ProcessExit(p) ==
  /\ phase[p] = "exiting"
  /\ phase' = [phase EXCEPT ![p] = "gone"]
  /\ UNCHANGED <<manager, owners, coordinator, ident, leaked, callerVars, lockable>>

(* Nobody has the other end of the socket: the process ends, if it has not *)
(* ended before, and its name may be used again.                           *)
HangUp(p) ==
  /\ phase[p] # "none" /\ ~InUse(p)
  /\ phase' = [phase EXCEPT ![p] = "none"]
  /\ ident' = [ident EXCEPT ![p] = None]
  /\ leaked' = leaked \ {p}
  /\ UNCHANGED <<manager, owners, coordinator, callerVars, lockable>>

-----------------------------------------------------------------------------
Next ==
  \/ \E c \in Callers :
       \/ \E k \in OwnerIds, z \in BOOLEAN : Begin(c, k, z)
       \/ CallerStep(c) \/ Drop(c)
  \/ \E k \in OwnerIds : Cleanup(k)
  \/ DropManager
  \/ \E p \in Procs : Expire(p) \/ ProcessExit(p) \/ HangUp(p)

Spec == Init /\ [][Next]_vars

-----------------------------------------------------------------------------
(* Every variable has its type, a caller past the look-up has an owner,    *)
(* and whatever process is referred to has been started.                   *)
TypeOK ==
  /\ manager \in BOOLEAN
  /\ owners \in [OwnerIds -> Procs \cup {None}]
  /\ coordinator \in BOOLEAN
  /\ phase \in [Procs -> {"none", "serving", "exiting", "gone"}]
  /\ ident \in [Procs -> OwnerIds \cup {None}]
  /\ leaked \subseteq Procs
  /\ pc \in [Callers -> {"idle", "get", "insert", "ping", "remove", "register"}]
  /\ key \in [Callers -> OwnerIds \cup {None}]
  /\ zero \in [Callers -> BOOLEAN] /\ new_owner \in [Callers -> BOOLEAN]
  /\ owner \in [Callers -> Procs \cup {None}]
  /\ lockable \in [Callers -> [proc : Procs \cup {None}, id : OwnerIds \cup {None}]]
  /\ \A c \in Callers : pc[c] \in {"ping", "remove", "register"} => owner[c] # None
  /\ \A p \in Procs : phase[p] = "none" =>
       /\ \A k \in OwnerIds : owners[k] # p
       /\ \A c \in Callers : owner[c] # p /\ lockable[c].proc # p

(* What register() returns, however the owner died and was restarted while *)
(* it looked, is a Lockable of a process that serves, and stays so.        *)
LockableServed ==
  \A c \in Callers : lockable[c] # NoLockable => phase[lockable[c].proc] = "serving"

(* The files of one lock owner are all registered with one process: POSIX  *)
(* locks of the same owner never conflict with one another.                *)
OneProcessPerOwner ==
  \A c, d \in Callers :
    lockable[c].id = lockable[d].id => lockable[c].proc = lockable[d].proc

(* So it is, whatever happens to other owners, while every ping of this    *)
(* one finds it alive: a race between two insertions is no exception.      *)
SteadyOwnerOneProcess ==
  \A c, d \in Callers :
    /\ lockable[c].id = lockable[d].id
    /\ lockable[c].id \notin Expiring \cup Faulty
    => lockable[c].proc = lockable[d].proc

(* Process p as its daemon has it, which keeps the other end of the socket *)
(* until it has no more use for the process.                               *)
Process(p) == INSTANCE AbstractOwner WITH
  phase <- phase[p], open <- TRUE, files <- HasFiles(p)

(* From the time it is started until its daemon lets go of it, a process   *)
(* does what AbstractOwner says, which is what LockSystem implements:      *)
(* nothing that callers, the cleanup thread or lost requests do takes more *)
(* of it than an owner process gives.                                      *)
ProcessesAreOwners ==
  [][\A p \in Procs : phase'[p] # "none" =>
       IF phase[p] = "none" THEN Process(p)!Init'
       ELSE Process(p)!Next \/ UNCHANGED <<phase[p], HasFiles(p)>>]_vars
=============================================================================
