# A TLA+ model of ulockmgr

ulockmgr lets a FUSE filesystem pass POSIX file locks through to the kernel.
POSIX locks belong to processes, so each *lock owner id* gets a process of its
own that takes the locks on its behalf. This directory models the concurrency
of that design, checks it with TLC and proves its safety properties with TLAPS.

## The system

| Part | Source | Module | State |
|---|---|---|---|
| Tracker of interruptible threads, guards, handles | `tracker.rs`, signal masks of `helpers.rs` | `Tracker`, `AbstractTracker`, `TrackerProofs` | modelled, proved |
| Requests, their descriptors, oneshot replies, end of file | `messages.rs` | `Channels` | whole messages only |
| Lock types | `types.rs` | `Types` | not ranges, whence, pid |
| Owner process (`DaemonOwner`) | `owner.rs` 29-454 | `OwnerDaemon` | one file, one range; proved with `LockSystem` |
| Client side (`Owner`, `Lockable`) | `owner.rs` 456-732 | `OwnerClient` | |
| The two together, and what they promise | `owner.rs` | `LockSystem`, `AbstractOwner`; `ShapeProofs`, `OwnerProofs`, `CallProofs`, `ReplyProofs`, `LockableProofs`, `InterruptProofs` | safety proved |
| `LockManager`, cleanup thread | `lib.rs` | `LockManager`, `ManagerProofs` | over abstract processes; nobody keeps an `Arc<Owner>`; safety proved |
| TTLs, cleanup interval | `owner.rs` 124-198, `lib.rs` 148-161 | `OwnerLifecycle`, `ManagerProofs` | discrete time |
| Coordinator, process creation | `owner_spawner.rs`, `processes.rs` | `LockManager`, `OwnerLifecycle` | spawn and its failure; not the reaping |
| `Waiter` | `waiter.rs` | guard of `UnregisterClose` | |
| Server binary | `main.rs`, `communication.rs` | `ProcessExit` | start-up not modelled |

A daemon thread calls `LockManager::register(id, file)`. The manager looks the
id up in its map, has the coordinator start an owner process if there is none,
pings it, and sends it the file. The process keeps the file in an `FdData`,
whose read guard of the exit lock keeps the process alive. Lock commands go
through the resulting `Lockable`. The process's receiving loop handles them in
order; a blocking lock gets a thread, tracked by the file's own tracker, and
Interrupt and Unregister get threads too, since both wait for lock threads.
Replies come back on a socket pair made for each request. A blocking lock that
cannot be granted is answered `Pending(id)`, and `id` is what the client sends
to have the thread interrupted.

## Modules

**Tracker.** A *guard* is an `InterruptibleGuard` with the work it guards:
`none, starting, working, window, syscall, returned, untracked, exited`, or
`refused`. `window` is the span in which SIGUSR1 is unmasked but the blocking
call has not been entered: a signal handled there is lost, which is why both
`stop()` methods repeat theirs. A *stopper* runs `InterruptibleTracker::stop`,
an *interrupter* `InterruptibleHandle::stop`. Both hold their mutex from the
check (`check`) to the signals (`kill`), release it, and come back after a
snooze or a 1 ms wait. `Host` says which thread a guard lives on: `spawn()`
gives each its own, `guard()` uses the caller's. `AbstractTracker` is the
promise: guards enter while the gate is open, `stop` closes it, and returns
only when all have left.

**Channels, OwnerDaemon, OwnerClient, LockSystem.** The socket is a sequence
of requests, each with its oneshot; a oneshot is a queue of replies and the
state of its two ends. In `OwnerDaemon` each message handler is an action; a
lock command is two or three (look-up, command, wait for the thread), since
an unregister may come in between. An unregister is four: it takes the file out
of the map, begins `stop()`, drops the `FdData` when it has the last reference,
and replies; the process may exit between the last two, and `drop()` then sees
the end of its replies. `stop()` of trackers and handles is used by
its promise: `TrackersAreGates` says that the tracker of each file behaves as
`AbstractTracker`, which `Tracker` implements. The kernel is `held` and `others`: the type
of lock that this process and the others have on the one file and range, as
one of fcntl()'s integers. `Types` has the conversions by which the handlers go
from a request's `LockType` to that integer and back. Closing any descriptor of
the file drops the lock, as POSIX says. The TTL may run out at any moment, so
nothing depends on how long it is. A process has at most `FdLimit` files and
replies open; a request that finds no room is discarded, and its caller sees
the end of its replies. In `OwnerClient` the threads make calls; `stop` means
that somebody keeps signalling a thread. A detached blocking lock begins with `pre`, its pre-callback: its thread has a clone of
the `RawLockable`, so its request may come after the Lockable was dropped. This
is the one way a lock command can meet an unregister of its own descriptor.
The detached locks share one tracker of the daemon, whose `stop()` interrupts
them all. For a detached lock, to return is to invoke the done-callback; when
the tracker refuses it, the `Invoker` that is dropped with the closure does so
(`RefusedDone`). `AbstractOwner` is what all this amounts to for the manager:
files are registered only with a process that serves, and it goes on serving
while it has files and a daemon.

**LockManager.** A caller goes through the steps of `get_or_create_owner`
(`get`, `insert`, `ping`, `remove`) and of `register`. The map's shard lock
makes an insertion with its spawn one step, and the cleanup thread's ping with
its removal another. A process is `serving`, `exiting` (it answers pings and
refuses files, with EIO) or `gone`. `ProcessesAreOwners` says that each does only
what `AbstractOwner` allows, which `LockSystem` implements. Processes of ids in `Expiring` may expire;
requests for ids in `Faulty` may fail although the process lives, because the
daemon or the process has no descriptor left: then a ping looks like a death,
and the Unregister of a drop may be lost (`leaked`).

**OwnerLifecycle.** `LockManager` with time in ticks: the `recv_timeout` of each
process's main thread (`ttl`), the channel of capacity one by which any request
renews it (`renewed`), and the cleanup thread's interval (`sweep`) and round
(`todo`). A tick waits for the threads that are due.

## Runs

| Run | Shows | Bounds | States |
|---|---|---|---|
| `tracker` | stop() is safe and signals only live threads | 2 guards on 2 threads, 2 stoppers, 2 interrupters of one handle, 2 snoozes | 0.5 M |
| `tracker_live` | stop() returns; the tracker implements `AbstractTracker` | 2 guards on 2 threads, 1 stopper, 1 interrupter, 1 snooze | 8 k |
| `tracker_nested` | **violated**: two guards on one thread, `stop()` returns early | 2 guards on 1 thread | - |
| `lock_system` | a Lockable keeps its process; no use after unregister; locks go with their descriptors; interrupts reach their own call and do not leak | 2 clients registering, dropping and locking, 3 ids, 2 lock threads | 0.8 M |
| `lock_calls` | no unexpected `Pending`; answers fit the question; an answered drop has closed the file; `AbstractOwner` is implemented; over every kind of call | 1 client, 3 ids, read, write and unlock, 3 descriptors | 1.0 M |
| `lock_live` | calls, stopped calls and dropped calls return, and so does the tracker's stop(); an unregister ends without its drop(); the process ends with the daemon; no lock thread slips past an unregister (`AbstractTracker`) | 2 clients, 2 ids, 1 lock thread, 3 descriptors | 63 k |
| `stale_lock` | **violated**: a lock taken after the unlock | 1 client | - |
| `register_exit` | **violated**: EIO where BrokenPipe is meant | 1 client | - |
| `manager` | what `register()` returns is served; every referenced process exists; one process per id that neither expires nor fails; processes behave as `AbstractOwner` | 2 callers, 2 ids, one of them expiring and faulty, 4 processes | 0.3 M |
| `lifecycle` | idle owners exit, dead owners leave the map, a zero TTL returns, calls return when the coordinator has ended, dropping the manager ends its processes | 1 caller, 1 id, 2 processes, TTL 2, cleanup every 3 | 17 k |
| `idle_exit` | **violated**: an idle owner never exits | TTL 5, cleanup every 1 | - |
| `two_owners` | **violated**: two processes for one owner id | 2 callers, 1 id, 4 processes | - |

*Why the bounds are enough to be interesting.* Two threads and two
callers of either `stop()` give every pair of roles in the tracker, and let
callers of one kind contend for their mutex; two snoozes let a `try_lock()`
fail before the Backoff is completed. Two clients and two lock threads let
a drop, an interrupt and a grant race on one descriptor, with a second
descriptor of the same file around; three ids allow register, register, lock
and register, lock, lock. Read-only files, whose write locks fail with EBADF,
are covered where `Acts` has `Read` (`lock_calls`). Three descriptors are enough
for a file, a blocked lock and one request that interrupts or unregisters it,
and too few for a fourth, so in `lock_calls` requests of each kind are served as
well as discarded; in `lock_live` those it makes are, but for the blocking lock
itself, which is never discarded there. `lock_system` has room for all (`FdLimit` 20), since `NoInterruptLeak`
does not survive the loss of a RemoveInterrupt. `MaxOneshots` is large
enough that no call waits for one. `lifecycle` has one caller, because with
two the zero-TTL promise does not hold: a call may for ever find processes that
the other has started and that are gone when it pings them. Its TTL is shorter
than the interval: with one as long (1 and 1, 2 and 2) or longer (3 and 2, and
the code's own 5 and 1 of `idle_exit`) the ping may always come first, and an
idle owner need not exit. Deadlock is not checked: all clients may be done, the manager dropped and the process gone.

*What the bounds do not reach.* `GetLk` and `SetLk` are checked with one client
only (`lock_calls`), so not against a second client's calls, and `lock_live`
leaves them and `Ping` out: its `CallReturns` is about `register()` and `drop()`.
`TrackersAreGates` is checked there too, so with one lock thread: in `lock_system`
it would double the time, and its theorem `Gates` is for any number of them. Some branches of
`LockSystem` are translated but never taken:
the ENOENT answers to `GetLk`, `SetLk`, `Interrupt`, `RemoveInterrupt` and
`Unregister`; the EINVAL of a lock type that does not convert; and a request on
a Lockable, other than a detached blocking lock, that finds the process gone.
A client that follows the API does not reach them there, the last because of
`LockableKeepsProcess`; the code keeps them as defences.

*Fairness.* Threads are scheduled, so what a thread can go on doing it does
(weak fairness). A parking_lot mutex is got in the end by whoever waits for it
(strong fairness in `Tracker`); its eventual fairness hands it over to a waiter.
In `LockSystem` the TTL need not run out, since every request renews it; in
`OwnerLifecycle` it is counted, and time passes however many calls are made
(strong fairness of `Tick`), so that `idle_exit` is not a clock standing still.
The properties of `lifecycle` hold with weak fairness of `Tick` as well.
Nobody is obliged to begin a call, to stop one, to release a lock, or to
complete a blocking system call that was not signalled. In `LockSystem` a
blocked thread that is being signalled does leave its call, which is
`StopReturns` of `Tracker`.

## Where code and documentation disagree

1. `tracker.rs:49`: two guards on one thread share one entry of the set
   (`tracker_nested`).
2. `owner.rs:424`: after an immediate success the thread goes on to F_SETLKW
   and may lock again after an unlock (`stale_lock`). An unlock is repeated in
   the same way and may release a later lock: the run stops at the first kind,
   but its property, restricted to releases, fails on the same instance.
3. `owner.rs:256`: an exiting owner is reported as EIO, so `register()` does
   not start a new one (`register_exit`).
4. `lib.rs:117`: the removal by key may remove another thread's fresh owner
   (`two_owners`).
5. `lib.rs:159`: the cleanup thread's ping each second renews the TTL of five
   seconds, so processes that are not in use do not exit (`idle_exit`).

`PROJECT.json` quotes the text each of these contradicts. A sixth is read off
the code and not checked, as there is nothing to explore: `processes.rs:67` says
"Do not allow the process to become a zombie.", but the `waitpid(NOHANG)` after
it finds the child just started, and nothing waits for it again, so an owner
process that ends stays a zombie until the coordinator ends.

## Proofs

`TrackerProofs` proves, for any sets of guards, threads, stoppers and
interrupters and any backoff limit (`TrackerAssumption`):

- `TypeCorrect`: `Spec => []TypeOK`, without further assumption.
- `Invariance`: `Spec => []TrackerInv`, assuming `OneGuardPerThread`, which
  `spawn()` guarantees and `tracker_nested` shows to be needed.
- `StopSafe`, `HandleStopSafe`, `SignalsSafe`: the three safety properties.
- `Refinement`: `Spec => ImplementsGate`.

None of the three properties is inductive. `TrackerInv` adds that the thread
set is exactly the threads of tracked guards (`ThreadsAreTracked`), that a
stop() between check and signal holds the mutex, that every stop() past its
first step has found the tracker closed for good and a returned one has found
it empty (`StopHoldsMutex`), the same for handles (`HandleHoldsMutex`), and
that the exit flag is set by the guard's last step (`ExitMarkedLast`).
`GuardStepInv`, `StopStepInv` and `HandleStepInv` preserve it action by action.

### The lock system

For any clients, lock threads, numbers of ids, oneshots and calls, operations,
lock types and descriptor limit (`ChannelsAssumption`, `DaemonAssumption`,
`ClientAssumption`, `SystemAssumption`), every safety property that
`lock_system`, `lock_calls` and `lock_live` check is a theorem. The proof goes up in layers,
each an invariant that needs those below it and that TLC checked first:

| Module | Invariant | Says | Gives |
|---|---|---|---|
| `ShapeProofs` | `Shape` | types; a call that waits has a oneshot; interrupt ids in requests, replies and calls were allocated | - |
| `OwnerProofs` | `MainInv` | an exiting process has the exit lock, or nobody can send to it | `Implements`: `ImplementsOwner` |
| `OwnerProofs` | `FileInv` | whoever uses a descriptor finds its `FdData` | `ClosedUnused`: `NoUseAfterUnregister`; `LockHasDescriptor`: `LockNeedsDescriptor` |
| `CallProofs` | `EndsInv` | the server's end of a oneshot is in one place (socket, loop, one thread, one job) and open there; the client's end belongs to one call | - |
| `ReplyProofs` | `ReplyInv` | what has not been served has no reply; the server works on what the call asked for; the replies that wait fit the call | `TypeCorrectness`: `TypeOK`; `PendingFirst`: `PendingOnlyFirst`; `DoneAnswers`: `DoneAnswersCall` |
| `LockableProofs` | `RegisterInv` | one job closes a descriptor; an id that a Lockable has, or that a reply is bringing, is registered with a process that goes on, and nobody unregisters it | `ProcessKept`: `LockableKeepsProcess`; `DropCloses`: `DropClosesFile`; `Gates`: `TrackersAreGates` |
| `InterruptProofs` | `OwnInv` | until it is removed, an interrupt id names the thread of the one call that has it | `InterruptsOwn`: `InterruptsOwnCall` |
| `InterruptProofs` | `AwaitedInv`, `LeakInv` | what may yet be told to wait has a call that waits; each stored handle has a call that holds its id or has sent its removal | `NoLeak`: `NoInterruptLeak` |

Most of the properties speak of two ends that change in different steps, a call and the
server's record of it, with a oneshot between them, and none of them is
inductive. `EndsInv` is the key: because a oneshot is never in two
places, a reply that is written reaches the one call that asked, and a oneshot
that a call has given up is not given to another while the server can still
write to it. The steps of the process and of the clients are first reduced to a
few kinds (`ServerStep`, `CallStep`), by what they do to requests, oneshots and
calls, so that the layers above need not look at each action again.

`NoLeak` assumes `EnoughDescriptors`: `FdLimit > MaxIds + MaxOneshots`, that
the process can open every file and reply there can be. It is used through
`NothingDiscarded`: each reply that is open comes with a oneshot of its own, so
there is room for the next request. Without it the property does not hold,
since a RemoveInterrupt may be discarded; the others hold with any `FdLimit`.

The leaves of these six modules go to Zenon, and to the SMT solver where they
say so: most are first-order, and SMT is needed for sequences and numbers.

`next_id \in Ids` in `LoopRegister` is a bound of the model: the counter of
the code has 64 bits.

### The manager

`ManagerProofs` proves `TypeCorrect` (`TypeOK`), `Served` (`LockableServed`),
`SteadyOwner` (`SteadyOwnerOneProcess`) and `ProcessesOwners`
(`ProcessesAreOwners`) for any callers, owner ids,
processes, `Expiring` and `Faulty` (`ManagerAssumption`). `ManagerInv` adds that
a process is known everywhere under the id it was started for (`IdentInv`), and
that whoever has looked up a steady owner, or has a Lockable of it, has what the
map still has (`SteadyInv`): no ping of it fails, so nothing removes it.
`ProcessesOwners` needs `LeakedServe` besides: a process with a file that nobody
will unregister does not expire.

`Untimed` shows that `OwnerLifecycle` implements `LockManager`, whatever the TTL
and the interval (`LifecycleAssumption`); so `TimedServed` has the two properties with time, and
`LifecycleTypes` that no timer exceeds what it was set to (`LifecycleTypeOK`).

### How the parts meet

Two pairs of theorems join what is modelled apart, each pair in one abstract
specification:

| Above | Below | Meet in |
|---|---|---|
| `LockManager`: `ProcessesOwners` | `LockSystem`: `Implements` | `AbstractOwner` |
| `LockSystem`: `Gates` | `Tracker`: `Refinement` | `AbstractTracker` |

`Refinement` assumes one guard per thread, which holds for the lock threads,
since each is made by `spawn()`. What is shown is that both sides keep to the
abstract steps. That the upper side also leaves the lower one its freedom is by
the way its actions are written: a process without files may expire at any
moment if its id is in `Expiring`, and a tracked thread may leave at any moment
at which its system call may return.

### Only model-checked

Liveness: `StopReturns`, `HandleStopReturns`, the properties of `lock_live` but `TrackersAreGates`,
and `GoneOwnerEvicted`, `ZeroTtlReturns`, `DropEndsProcesses`,
`ReturnsWithoutCoordinator` and `IdleOwnerExits` of `lifecycle`. They rest on fairness and ENABLED, which the prover does not have.

The exit of a process is outside `TrackersAreGates`, and what the daemon leaves
behind outside `ProcessesAreOwners`: there the whole process goes, with trackers
and files. `OwnerLifecycle` is proved with any `Faulty`; its run leaves `Faulty`
empty (`NoLostRequest`), since a request that is lost is not timed there.

## Not modelled

- Frames byte by byte. A frame is one sendmsg() of a few dozen bytes and
  arrives whole, so the short reads of `receive_raw_message` do not happen
  between these programs; what does is a frame without its descriptors.
- Byte ranges, whence and pid: the code copies them and never looks at them,
  so a second range would only check the kernel. `LockAction`'s conversion
  from an integer has no caller in the repository.
- Failure to create a thread, panics, a `stop()` called on a tracked thread
  itself (it waits for itself, `tracker.rs:213`).
- Processes that inherit a descriptor over fork and exec; argument parsing and
  the other start-up code of `main.rs`, `processes.rs` and `helpers.rs`.
- A manager under which several callers use an owner id with tiny TTLs:
  `get_or_create_owner` then need not return, and nothing claims it does.
