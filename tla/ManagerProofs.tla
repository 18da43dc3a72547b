---------------------------- MODULE ManagerProofs ----------------------------
(***************************************************************************)
(* Proofs about LockManager for any owner ids, callers and processes, and  *)
(* any choice of the owner ids whose processes expire or whose requests    *)
(* fail, and about OwnerLifecycle for any TTL and cleanup interval.        *)
(***************************************************************************)
EXTENDS OwnerLifecycle, TLAPS

(* A call has an owner id, one that is over has no Arc<Owner>, and calls   *)
(* and map entries exist only while the manager does. A Lockable has both  *)
(* a process and an owner id.                                              *)
CallsInv ==
  /\ \A c \in Callers : IF pc[c] = "idle" THEN key[c] = None /\ owner[c] = None
                                          ELSE key[c] \in OwnerIds /\ manager
  /\ ~manager => \A k \in OwnerIds : owners[k] = None
  /\ \A c \in Callers : lockable[c] # NoLockable =>
       lockable[c].proc # None /\ lockable[c].id \in OwnerIds

(* A process is known to the map, to calls and to Lockables under the id   *)
(* it was started for, and has ended only if that id's processes expire.   *)
IdentInv ==
  /\ \A k \in OwnerIds : owners[k] # None => ident[owners[k]] = k
  /\ \A c \in Callers : owner[c] # None => ident[owner[c]] = key[c]
  /\ \A p \in Procs : phase[p] \in {"exiting", "gone"} => ident[p] \in Expiring

(* The owner of a steady id is never removed: whoever has looked it up,    *)
(* and whoever has a Lockable of it, has what the map still has.           *)
SteadyInv ==
  \A k \in OwnerIds \ (Expiring \cup Faulty) :
    /\ \A c \in Callers : key[c] = k =>
         pc[c] # "remove" /\ owner[c] \in {None, owners[k]}
    /\ \A c \in Callers : lockable[c].id = k /\ manager => lockable[c].proc = owners[k]

(* Together with the types these are inductive.                            *)
ManagerInv ==
  CallsInv /\ IdentInv /\ LockableServed /\ SteadyInv /\ SteadyOwnerOneProcess

-----------------------------------------------------------------------------
(* No step of src/src/lib.rs, of the coordinator or of a process leaves a  *)
(* variable without its type, or a reference to a process that is not.     *)
LEMMA TypeStep == TypeOK /\ CallsInv /\ [Next]_vars => TypeOK'
<1> SUFFICES ASSUME TypeOK, CallsInv, [Next]_vars PROVE TypeOK'
  OBVIOUS
<1> USE ManagerAssumption DEF TypeOK, CallsInv, callerVars, processVars, NoLockable
<1>1. ASSUME NEW c \in Callers, NEW k \in OwnerIds, NEW z \in BOOLEAN, Begin(c, k, z)
      PROVE  TypeOK'
  BY <1>1 DEF Begin, Goto
<1>2. ASSUME NEW c \in Callers, Get(c) PROVE TypeOK'
  BY <1>2 DEF Get, Goto
<1>3. ASSUME NEW c \in Callers, Find(c) PROVE TypeOK'
  BY <1>3 DEF Find, Goto
<1>4. ASSUME NEW c \in Callers, NEW p \in Procs, Spawn(c, p) PROVE TypeOK'
  BY <1>4 DEF Spawn, Goto
<1>5. ASSUME NEW c \in Callers, SpawnFails(c) PROVE TypeOK'
  <2>1. coordinator' \in BOOLEAN
    BY <1>5 DEF SpawnFails
  <2> QED  BY <1>5, <2>1 DEF SpawnFails, Return, Goto
<1>6. ASSUME NEW c \in Callers, Ping(c) PROVE TypeOK'
  <2>1. \/ Return(c)
        \/ \E to \in {"remove", "register"} :
             Goto(c, to) /\ UNCHANGED <<key, zero, new_owner, owner>>
    BY <1>6 DEF Ping
  <2>2. pc[c] = "ping" /\ UNCHANGED <<manager, owners, coordinator, processVars, lockable>>
    BY <1>6 DEF Ping
  <2>3. CASE Return(c)
    BY <2>2, <2>3 DEF Return, Goto
  <2>4. ASSUME NEW to \in {"remove", "register"}, Goto(c, to),
               UNCHANGED <<key, zero, new_owner, owner>>
        PROVE  TypeOK'
    BY <2>2, <2>4 DEF Goto
  <2> HIDE DEF TypeOK
  <2> QED  BY <2>1, <2>3, <2>4
<1>7. ASSUME NEW c \in Callers, Remove(c) PROVE TypeOK'
  BY <1>7 DEF Remove, Goto
<1>8. ASSUME NEW c \in Callers, Register(c) PROVE TypeOK'
  BY <1>8 DEF Register, Return, Goto
<1>9. ASSUME NEW c \in Callers, RegisterFails(c) PROVE TypeOK'
  BY <1>9 DEF RegisterFails, Return, Goto
<1>10. ASSUME NEW c \in Callers, RegisterRetries(c) PROVE TypeOK'
  BY <1>10 DEF RegisterRetries, Goto
<1>11. ASSUME NEW c \in Callers, Drop(c) PROVE TypeOK'
  <2>1. leaked' \subseteq Procs
    BY <1>11 DEF Drop
  <2> QED  BY <1>11, <2>1 DEF Drop
<1>12. ASSUME NEW k \in OwnerIds, Cleanup(k) PROVE TypeOK'
  BY <1>12 DEF Cleanup
<1>13. CASE DropManager
  BY <1>13 DEF DropManager
<1>14. ASSUME NEW p \in Procs, Expire(p) PROVE TypeOK'
  BY <1>14 DEF Expire
<1>15. ASSUME NEW p \in Procs, ProcessExit(p) PROVE TypeOK'
  BY <1>15 DEF ProcessExit
<1>16. ASSUME NEW p \in Procs, HangUp(p) PROVE TypeOK'
  BY <1>16 DEF HangUp, InUse
<1>17. CASE UNCHANGED vars
  BY <1>17 DEF vars
<1> HIDE DEF TypeOK, CallsInv
<1> QED
  BY <1>1, <1>2, <1>3, <1>4, <1>5, <1>6, <1>7, <1>8, <1>9, <1>10, <1>11, <1>12,
     <1>13, <1>14, <1>15, <1>16, <1>17 DEF Next, CallerStep

(* The inductive step. A Lockable comes from a process that serves, which  *)
(* cannot expire while the Lockable exists. Pings of a steady owner        *)
(* succeed, so neither get_or_create_owner() nor the cleanup thread        *)
(* removes it, and no second process is started for it.                    *)
LEMMA InvStep == TypeOK /\ ManagerInv /\ [Next]_vars => ManagerInv'
<1> SUFFICES ASSUME TypeOK, ManagerInv, [Next]_vars PROVE ManagerInv'
  OBVIOUS
<1> USE ManagerAssumption
    DEF TypeOK, ManagerInv, CallsInv, IdentInv, LockableServed, SteadyInv,
        SteadyOwnerOneProcess, callerVars, processVars, NoLockable
<1>1. ASSUME NEW c \in Callers, NEW k \in OwnerIds, NEW z \in BOOLEAN, Begin(c, k, z) PROVE ManagerInv'
  BY <1>1 DEF Begin, Goto
<1>2. ASSUME NEW c \in Callers, Get(c) PROVE ManagerInv'
  BY <1>2 DEF Get, Goto
<1>3. ASSUME NEW c \in Callers, Find(c) PROVE ManagerInv'
  BY <1>3 DEF Find, Goto
<1>4. ASSUME NEW c \in Callers, NEW p \in Procs, Spawn(c, p) PROVE ManagerInv'
  BY <1>4 DEF Spawn, Goto
<1>5. ASSUME NEW c \in Callers, SpawnFails(c) PROVE ManagerInv'
  BY <1>5 DEF SpawnFails, Return, Goto
<1>6. ASSUME NEW c \in Callers, Ping(c) PROVE ManagerInv'
  <2>1. UNCHANGED <<manager, owners, coordinator, processVars, lockable>>
    BY <1>6 DEF Ping
  <2>2. CASE Return(c)
    BY <2>1, <2>2 DEF Return, Goto
  <2>3. CASE Goto(c, "register") /\ UNCHANGED <<key, zero, new_owner, owner>>
    BY <1>6, <2>1, <2>3 DEF Ping, Goto
  <2>4. CASE /\ Goto(c, "remove") /\ UNCHANGED <<key, zero, new_owner, owner>>
             /\ PingMayFail(owner[c])
    BY <1>6, <2>1, <2>4 DEF Ping, PingMayFail, Goto
  <2> HIDE DEF ManagerInv
  <2> QED  BY <1>6, <2>2, <2>3, <2>4 DEF Ping
<1>7. ASSUME NEW c \in Callers, Remove(c) PROVE ManagerInv'
  BY <1>7 DEF Remove, Goto
<1>8. ASSUME NEW c \in Callers, Register(c) PROVE ManagerInv'
  BY <1>8 DEF Register, Return, Goto
<1>9. ASSUME NEW c \in Callers, RegisterFails(c) PROVE ManagerInv'
  BY <1>9 DEF RegisterFails, Return, Goto
<1>10. ASSUME NEW c \in Callers, RegisterRetries(c) PROVE ManagerInv'
  BY <1>10 DEF RegisterRetries, Goto
<1>11. ASSUME NEW c \in Callers, Drop(c) PROVE ManagerInv'
  BY <1>11 DEF Drop
<1>12. ASSUME NEW k \in OwnerIds, Cleanup(k) PROVE ManagerInv'
  BY <1>12 DEF Cleanup, PingMayFail
<1>13. CASE DropManager
  BY <1>13 DEF DropManager
<1>14. ASSUME NEW p \in Procs, Expire(p) PROVE ManagerInv'
  BY <1>14 DEF Expire, HasFiles
<1>15. ASSUME NEW p \in Procs, ProcessExit(p) PROVE ManagerInv'
  BY <1>15 DEF ProcessExit
<1>16. ASSUME NEW p \in Procs, HangUp(p) PROVE ManagerInv'
  BY <1>16 DEF HangUp, InUse
<1>17. CASE UNCHANGED vars
  BY <1>17 DEF vars
<1> HIDE DEF TypeOK, ManagerInv
<1> QED
  BY <1>1, <1>2, <1>3, <1>4, <1>5, <1>6, <1>7, <1>8, <1>9, <1>10, <1>11,
     <1>12, <1>13, <1>14, <1>15, <1>16, <1>17 DEF Next, CallerStep

-----------------------------------------------------------------------------
(* Types and the inductive invariant hold together.                        *)
THEOREM Invariance == Spec => [](TypeOK /\ ManagerInv)
<1>1. Init => TypeOK /\ ManagerInv
  BY ManagerAssumption
  DEF Init, TypeOK, ManagerInv, CallsInv, IdentInv, LockableServed, SteadyInv,
      SteadyOwnerOneProcess, NoLockable
<1>2. TypeOK /\ ManagerInv /\ [Next]_vars => (TypeOK /\ ManagerInv)'
  BY TypeStep, InvStep DEF ManagerInv
<1> QED  BY <1>1, <1>2, PTL DEF Spec

(* Variables keep their types, a call past its look-up has an owner, and   *)
(* whatever process the map, a call or a Lockable refers to exists.        *)
THEOREM TypeCorrect == Spec => []TypeOK
  BY Invariance, PTL

(* What register() returned is served while it exists, for any number of   *)
(* callers that race the TTLs, the cleanup thread and lost requests.       *)
THEOREM Served == Spec => []LockableServed
  BY Invariance, PTL DEF ManagerInv

(* Files of an owner whose processes neither expire nor lose requests are  *)
(* all registered with one process, however the calls of src/src/lib.rs    *)
(* for it and for other owners interleave.                                 *)
THEOREM SteadyOwner == Spec => []SteadyOwnerOneProcess
  BY Invariance, PTL DEF ManagerInv

-----------------------------------------------------------------------------
(* A process with a file that nobody unregisters any more does not expire. *)
LeakedServe == \A p \in leaked : phase[p] = "serving"

(* A leaked file comes from a Lockable, whose process serves.              *)
LEMMA LeakedStep == TypeOK /\ ManagerInv /\ LeakedServe /\ [Next]_vars => LeakedServe'
<1> SUFFICES ASSUME TypeOK, ManagerInv, LeakedServe, [Next]_vars PROVE LeakedServe'
  OBVIOUS
<1> USE DEF LeakedServe
<1>1. ASSUME UNCHANGED processVars PROVE LeakedServe'
  BY <1>1 DEF processVars
<1>2. ASSUME NEW c \in Callers, NEW p \in Procs, Spawn(c, p) PROVE LeakedServe'
  BY <1>2 DEF Spawn, TypeOK
<1>3. ASSUME NEW c \in Callers, Drop(c) PROVE LeakedServe'
  BY <1>3 DEF Drop, ManagerInv, LockableServed
<1>4. ASSUME NEW p \in Procs, Expire(p) PROVE LeakedServe'
  BY <1>4 DEF Expire, HasFiles, TypeOK
<1>5. ASSUME NEW p \in Procs, ProcessExit(p) PROVE LeakedServe'
  BY <1>5 DEF ProcessExit, TypeOK
<1>6. ASSUME NEW p \in Procs, HangUp(p) PROVE LeakedServe'
  BY <1>6 DEF HangUp, TypeOK
<1> HIDE DEF LeakedServe
<1> QED
  BY <1>1, <1>2, <1>3, <1>4, <1>5, <1>6
  DEF Next, CallerStep, Begin, Get, Find, SpawnFails, Ping, Remove, Register, RegisterFails, RegisterRetries,
      Cleanup, DropManager, vars

(* A process that somebody has a Lockable of, or had one and could not say *)
(* that it is gone, is a process that serves.                              *)
LEMMA FilesServe ==
  ASSUME TypeOK, ManagerInv, LeakedServe, NEW p \in Procs, HasFiles(p)
  PROVE  phase[p] = "serving"
BY ManagerAssumption DEF TypeOK, ManagerInv, LockableServed, LeakedServe, HasFiles, NoLockable

(* The step of process p that a step of the manager is.                    *)
OwnerStep(p) ==
  IF phase[p] = "none" THEN Process(p)!Init'
  ELSE Process(p)!Next \/ UNCHANGED <<phase[p], HasFiles(p)>>

(* A step that only takes files from a process.                            *)
LEMMA FewerFiles ==
  ASSUME TypeOK, NEW p \in Procs, UNCHANGED phase, phase'[p] # "none", HasFiles(p)' => HasFiles(p)
  PROVE  OwnerStep(p)
<1>1. CASE HasFiles(p)' = HasFiles(p)
  BY <1>1 DEF OwnerStep
<1>2. CASE HasFiles(p)' = FALSE
  BY <1>2 DEF OwnerStep, Process!Next, Process!Unregister
<1> QED  BY <1>1, <1>2 DEF HasFiles

(* No other step of src/src/lib.rs changes what a process is or has.       *)
LEMMA ProcessStep ==
  ASSUME TypeOK, ManagerInv, LeakedServe, Next, NEW p \in Procs, phase'[p] # "none"
  PROVE  OwnerStep(p)
<1> USE DEF OwnerStep
<1>1. ASSUME UNCHANGED <<phase, leaked, lockable>> PROVE OwnerStep(p)
  BY <1>1 DEF HasFiles
<1>2. ASSUME NEW c \in Callers, NEW q \in Procs, Spawn(c, q) PROVE OwnerStep(p)
  <2>1. CASE p = q
    <3>1. phase[p] = "none" /\ phase'[p] = "serving" /\ UNCHANGED <<leaked, lockable>>
      BY <1>2, <2>1 DEF Spawn, TypeOK
    <3>2. ~HasFiles(p)
      BY <3>1, FilesServe
    <3> QED  BY <3>1, <3>2 DEF HasFiles, Process!Init
  <2>2. CASE p # q
    BY <1>1, <1>2, <2>2 DEF Spawn, TypeOK, HasFiles
  <2> QED  BY <2>1, <2>2
<1>3. ASSUME NEW c \in Callers, Register(c) PROVE OwnerStep(p)
  <2>1. UNCHANGED <<phase, leaked>> /\ phase[owner[c]] = "serving"
    BY <1>3 DEF Register, processVars
  <2>2. \A d \in Callers : d # c => lockable'[d] = lockable[d]
    BY <1>3 DEF Register, TypeOK
  <2>3. lockable'[c].proc = owner[c]
    BY <1>3 DEF Register, TypeOK
  <2>4. CASE p = owner[c]
    <3>1. HasFiles(p)' = TRUE
      BY <2>3, <2>4 DEF HasFiles
    <3> QED  BY <2>1, <2>4, <3>1 DEF Process!Next, Process!Register
  <2>5. CASE p # owner[c]
    <3>1. HasFiles(p)' => HasFiles(p)
      BY <2>1, <2>2, <2>3, <2>5 DEF HasFiles
    <3> QED  BY <2>1, <3>1, FewerFiles
  <2> QED  BY <2>4, <2>5
<1>4. ASSUME NEW c \in Callers, Drop(c) PROVE OwnerStep(p)
  <2>1. UNCHANGED phase
    BY <1>4 DEF Drop
  <2>2. HasFiles(p)' => HasFiles(p)
    BY <1>4, ManagerAssumption DEF Drop, TypeOK, HasFiles, NoLockable
  <2> QED  BY <2>1, <2>2, FewerFiles
<1>5. ASSUME NEW q \in Procs, Expire(q) PROVE OwnerStep(p)
  <2>1. UNCHANGED <<leaked, lockable>> /\ HasFiles(p)' = HasFiles(p)
    BY <1>5 DEF Expire, HasFiles
  <2>2. CASE p = q
    BY <1>5, <2>1, <2>2 DEF Expire, TypeOK, Process!Next, Process!Expire
  <2>3. CASE p # q
    BY <1>5, <2>1, <2>3 DEF Expire, TypeOK
  <2> QED  BY <2>2, <2>3
<1>6. ASSUME NEW q \in Procs, ProcessExit(q) PROVE OwnerStep(p)
  <2>1. UNCHANGED <<leaked, lockable>> /\ HasFiles(p)' = HasFiles(p)
    BY <1>6 DEF ProcessExit, HasFiles
  <2>2. CASE p = q
    <3>1. phase[p] = "exiting" /\ phase'[p] = "gone"
      BY <1>6, <2>2 DEF ProcessExit, TypeOK
    <3>2. HasFiles(p) = FALSE
      BY <3>1, FilesServe DEF HasFiles
    <3> QED  BY <2>1, <3>1, <3>2 DEF Process!Next, Process!Exit
  <2>3. CASE p # q
    BY <1>6, <2>1, <2>3 DEF ProcessExit, TypeOK
  <2> QED  BY <2>2, <2>3
<1>7. ASSUME NEW q \in Procs, HangUp(q) PROVE OwnerStep(p)
  <2>1. p # q
    BY <1>7 DEF HangUp, TypeOK
  <2>2. phase'[p] = phase[p] /\ HasFiles(p)' = HasFiles(p)
    BY <1>7, <2>1 DEF HangUp, TypeOK, HasFiles
  <2> QED  BY <2>2
<1> HIDE DEF OwnerStep
<1> QED
  BY <1>1, <1>2, <1>3, <1>4, <1>5, <1>6, <1>7
  DEF Next, CallerStep, Begin, Get, Find, SpawnFails, Ping, Remove, RegisterFails, RegisterRetries,
      Cleanup, DropManager, processVars

(* The processes of the manager do what LockSystem shows an owner process  *)
(* to do: Implements of OwnerProofs and this theorem meet in               *)
(* AbstractOwner.                                                          *)
THEOREM ProcessesOwners == Spec => ProcessesAreOwners
<1>1. Init => LeakedServe
  BY DEF Init, LeakedServe
<1>2. TypeOK /\ ManagerInv /\ LeakedServe /\ [Next]_vars =>
        [\A p \in Procs : phase'[p] # "none" => OwnerStep(p)]_vars
  BY ProcessStep
<1>3. TypeOK /\ ManagerInv /\ LeakedServe /\ [Next]_vars =>
        [\A p \in Procs : phase'[p] # "none" =>
           IF phase[p] = "none" THEN Process(p)!Init'
           ELSE Process(p)!Next \/ UNCHANGED <<phase[p], HasFiles(p)>>]_vars
  BY <1>2 DEF OwnerStep
<1> QED  BY <1>1, <1>3, Invariance, LeakedStep, PTL DEF Spec, ProcessesAreOwners

-----------------------------------------------------------------------------
(* OwnerLifecycle: time only restricts what LockManager allows, so what is *)
(* proved of that holds of the timed system as well.                       *)

(* A timer of src/src/owner.rs or src/src/lib.rs is only observed, or is a *)
(* further guard, in the steps that change the manager and its processes.  *)
LEMMA StepOfManager == [LifecycleNext]_lifecycleVars => [Next]_vars
<1> SUFFICES ASSUME [LifecycleNext]_lifecycleVars PROVE [Next]_vars
  OBVIOUS
<1>1. ASSUME NEW c \in Callers, CallerGoesOn(c) PROVE CallerStep(c)
  BY <1>1 DEF CallerGoesOn, CallStep, SpawnStep, CallerStep
<1>2. ASSUME NEW c \in Callers,
             \/ \E k \in OwnerIds, z \in BOOLEAN : Begin(c, k, z) /\ UNCHANGED timeVars
             \/ CallerGoesOn(c) \/ DropStep(c)
      PROVE  Next
  BY <1>1, <1>2 DEF DropStep, Next
<1>3. ASSUME NEW p \in Procs, MainStep(p) \/ Ends(p) PROVE [Next]_vars
  BY <1>3 DEF MainStep, MainRenew, MainTimeout, MainBusy, Ends, Next
<1>4. CASE SweepStep
  BY <1>4 DEF SweepStep, SweepStart, SweepEntry, Next
<1>5. CASE DropManagerStep \/ Tick
  BY <1>5 DEF DropManagerStep, Tick, Next
<1>6. CASE UNCHANGED lifecycleVars
  BY <1>6 DEF lifecycleVars
<1> QED  BY <1>2, <1>3, <1>4, <1>5, <1>6 DEF LifecycleNext

(* The timed system implements the untimed LockManager.                    *)
THEOREM Untimed == LifecycleSpec => Spec
<1>1. LifecycleInit => Init
  BY DEF LifecycleInit
<1> QED  BY <1>1, StepOfManager, PTL DEF LifecycleSpec, Spec

-----------------------------------------------------------------------------
(* The timers and the sweep of the cleanup thread.                         *)
TimersOK ==
  /\ limit \in [Procs -> {0, Ttl}]
  /\ ttl \in [Procs -> Nat] /\ \A p \in Procs : ttl[p] \in 0 .. limit[p]
  /\ renewed \subseteq Procs
  /\ sweep \in 0 .. Period
  /\ todo \subseteq OwnerIds /\ (todo # {} => manager)

(* A request renews at most the TTL of a process that exists.              *)
LEMMA ReceivesKeepsTimers ==
  ASSUME TimersOK, UNCHANGED manager, NEW p \in Procs, Receives(p)
  PROVE  TimersOK'
BY DEF TimersOK, Receives

(* No step lets a timer exceed what it was set to, and LockManager::drop() *)
(* joins the cleanup thread before the map goes.                           *)
LEMMA TimersStep ==
  TypeOK /\ ManagerInv /\ TimersOK /\ [LifecycleNext]_lifecycleVars => TimersOK'
<1> SUFFICES ASSUME TypeOK, ManagerInv, TimersOK, [LifecycleNext]_lifecycleVars
             PROVE  TimersOK'
  OBVIOUS
<1> USE ManagerAssumption, LifecycleAssumption
<1>1. ASSUME UNCHANGED <<timeVars, manager>> PROVE TimersOK'
  BY <1>1 DEF timeVars, TimersOK
<1>2. ASSUME NEW c \in Callers, CallStep(c) PROVE TimersOK'
  <2>1. UNCHANGED manager
    BY <1>2 DEF CallStep, Get, Find, Remove, Ping, Register, RegisterFails, RegisterRetries
  <2>2. pc[c] \in {"ping", "register"} => owner[c] \in Procs
    BY DEF TypeOK
  <2>3. UNCHANGED timeVars \/ (pc[c] \in {"ping", "register"} /\ Receives(owner[c]))
    BY <1>2 DEF CallStep, Ping, Register, RegisterFails, RegisterRetries
  <2> QED  BY <1>1, <2>1, <2>2, <2>3, ReceivesKeepsTimers
<1>3. ASSUME NEW c \in Callers, NEW p \in Procs, SpawnStep(c, p) PROVE TimersOK'
  <2> DEFINE t == IF zero[c] THEN 0 ELSE Ttl
  <2>1. t \in {0, Ttl} /\ t \in Nat /\ t \in 0 .. t
    OBVIOUS
  <2>2. limit' = [limit EXCEPT ![p] = t] /\ ttl' = [ttl EXCEPT ![p] = t]
    BY <1>3 DEF SpawnStep
  <2> HIDE DEF t
  <2>3. limit' \in [Procs -> {0, Ttl}]
    BY <2>1, <2>2 DEF TimersOK
  <2>4. ttl' \in [Procs -> Nat] /\ \A q \in Procs : ttl'[q] \in 0 .. limit'[q]
    BY <2>1, <2>2 DEF TimersOK
  <2>5. renewed' \subseteq Procs /\ UNCHANGED <<sweep, todo, manager>>
    BY <1>3 DEF SpawnStep, Spawn, TimersOK
  <2> QED  BY <2>3, <2>4, <2>5 DEF TimersOK
<1>4. ASSUME NEW c \in Callers, SpawnFails(c), UNCHANGED timeVars PROVE TimersOK'
  BY <1>1, <1>4 DEF SpawnFails
<1>5. ASSUME NEW c \in Callers, DropStep(c) PROVE TimersOK'
  <2>1. UNCHANGED manager /\ lockable[c] # NoLockable
    BY <1>5 DEF DropStep, Drop
  <2>2. lockable[c].proc \in Procs
    BY <2>1 DEF TypeOK, ManagerInv, CallsInv
  <2> QED  BY <1>5, <2>1, <2>2, ReceivesKeepsTimers DEF DropStep
<1>6. ASSUME NEW p \in Procs, MainStep(p) PROVE TimersOK'
  <2>1. ASSUME ttl' = [ttl EXCEPT ![p] = limit[p]], renewed' \subseteq renewed,
               UNCHANGED <<manager, limit, sweep, todo>>
        PROVE  TimersOK'
    <3>1. limit[p] \in Nat /\ limit[p] \in 0 .. limit[p]
      BY DEF TimersOK
    <3>2. ttl' \in [Procs -> Nat] /\ \A q \in Procs : ttl'[q] \in 0 .. limit'[q]
      BY <2>1, <3>1 DEF TimersOK
    <3> QED  BY <2>1, <3>2 DEF TimersOK
  <2>2. CASE MainRenew(p)
    BY <2>1, <2>2 DEF MainRenew, vars
  <2>3. CASE MainTimeout(p)
    BY <1>1, <2>3 DEF MainTimeout, Expire
  <2>4. CASE MainBusy(p)
    BY <2>1, <2>4 DEF MainBusy, vars
  <2> QED  BY <1>6, <2>2, <2>3, <2>4 DEF MainStep
<1>7. ASSUME NEW p \in Procs, Ends(p) PROVE TimersOK'
  BY <1>1, <1>7 DEF Ends, ProcessExit, HangUp
<1>8. CASE SweepStart
  BY <1>8 DEF SweepStart, TimersOK, vars
<1>9. ASSUME NEW k \in OwnerIds, SweepEntry(k) PROVE TimersOK'
  BY <1>9 DEF SweepEntry, Cleanup, TypeOK, TimersOK, vars
<1>10. CASE DropManagerStep
  BY <1>10 DEF DropManagerStep, DropManager, TimersOK, timeVars
<1>11. CASE Tick
  BY <1>11 DEF Tick, Countdown, TimersOK, vars
<1>12. ASSUME NEW c \in Callers, NEW k \in OwnerIds, NEW z \in BOOLEAN,
              Begin(c, k, z), UNCHANGED timeVars
       PROVE  TimersOK'
  BY <1>1, <1>12 DEF Begin
<1>13. CASE UNCHANGED lifecycleVars
  BY <1>1, <1>13 DEF lifecycleVars, vars
<1> QED
  BY <1>2, <1>3, <1>4, <1>5, <1>6, <1>7, <1>8, <1>9, <1>10, <1>11, <1>12, <1>13
  DEF LifecycleNext, CallerGoesOn, SweepStep

(* Every timer stays within the time it is set to: a zero TTL passed to    *)
(* get_or_create_owner() is never replaced by the manager's, and retain()  *)
(* runs only while the manager exists.                                     *)
THEOREM LifecycleTypes == LifecycleSpec => []LifecycleTypeOK
<1>1. LifecycleInit => TimersOK
  BY LifecycleAssumption DEF LifecycleInit, TimersOK
<1>2. TypeOK /\ TimersOK => LifecycleTypeOK
  BY DEF TimersOK, LifecycleTypeOK
<1> QED  BY <1>1, <1>2, TimersStep, Untimed, Invariance, PTL DEF LifecycleSpec

(* With the TTLs counted, the Lockables of src/src/lib.rs are served and a *)
(* steady owner has one process.                                           *)
THEOREM TimedServed == LifecycleSpec => [](LockableServed /\ SteadyOwnerOneProcess)
  BY Untimed, Served, SteadyOwner, PTL
=============================================================================
