----------------------------- MODULE OwnerProofs -----------------------------
(***************************************************************************)
(* Proofs about the life of an owner process in LockSystem: when it exits, *)
(* and who may still use a descriptor that is being unregistered.          *)
(***************************************************************************)
EXTENDS ShapeProofs

(* Leaves are Zenon's unless they name another prover.                     *)
USE ZenonT(60)

(* The receiving loop does not touch what the main thread decides.         *)
LEMMA LoopFrame ==
  ASSUME LoopStep
  PROVE  server_open /\ loop.pc # "ended" /\ UNCHANGED <<mainVars, client_open, server_open>>
<1>1. CASE LoopPing \/ LoopRegister \/ LoopRemoveInterrupt \/ LoopDetach("Interrupt")
           \/ LoopDetach("Unregister") \/ LoopLookUp("GetLk") \/ LoopLookUp("SetLk")
           \/ LoopLookUp("SetLkw")
  BY <1>1 DEF LoopPing, LoopRegister, LoopRemoveInterrupt, LoopDetach, LoopLookUp, Receive
<1>2. CASE Discard
  BY <1>2 DEF Discard, daemonVars
<1>3. CASE LoopGetLk \/ LoopSetLk
  BY <1>3 DEF LoopGetLk, LoopSetLk
<1>4. CASE LoopSpawn \/ LoopSpawned \/ LoopEnds
  BY <1>4 DEF LoopSpawn, LoopSpawned, LoopEnds, channelVars
<1> QED  BY <1>1, <1>2, <1>3, <1>4 DEF LoopStep

(* Nor do the clients, who never open or close the server's end.           *)
LEMMA ClientFrame ==
  ASSUME ClientStep
  PROVE  UNCHANGED daemonVars /\ server_open' = server_open /\ (HangUp \/ client_open' = client_open)
<1>1. CASE HangUp
  BY <1>1 DEF HangUp, ClientStep
<1>2. CASE Stops
  BY <1>2 DEF Stops, ClientStep, channelVars
<1>3. ASSUME NEW c, ClientCase(c)
      PROVE  UNCHANGED <<client_open, server_open>>
  BY <1>3 DEF ClientCase, SendsCall, SendRequest, Detach, GivesUp, Abandon, EndsSimple, EndSimple,
              DropInterrupted, Return, Pends, ReturnsLkw, SendsNested, Nested, InterruptReply,
              RemoveReply, channelVars
<1> QED  BY <1>1, <1>2, <1>3 DEF ClientStep

(* A process that is about to exit registers nothing any more: it has the  *)
(* exit lock, or its receiving loop has ended, because nobody can send.    *)
MainInv ==
  /\ server_open /\ main = "exiting" => exit_lock \/ loop.pc = "ended"
  /\ loop.pc = "ended" => ~client_open

(* try_exit() takes the exit lock, and join() returns once nobody can      *)
(* send: no other step lets the process exit.                              *)
LEMMA MainStepInv ==
  ASSUME Shape, MainInv, [Next]_vars
  PROVE  MainInv'
<1> USE DEF MainInv
<1>1. ASSUME UNCHANGED <<mainVars, client_open, server_open, loop>>
      PROVE  MainInv'
  BY <1>1 DEF mainVars
<1>2. CASE UNCHANGED vars
  BY <1>1, <1>2 DEF vars, channelVars, daemonVars
<1>3. CASE LoopStep
  <2>1. UNCHANGED <<mainVars, client_open, server_open>> /\ server_open /\ loop.pc # "ended"
    BY <1>3, LoopFrame
  <2>2. loop'.pc = "ended" => ~client_open
    <3>1. CASE LoopEnds
      BY <3>1 DEF LoopEnds
    <3>2. CASE LoopSpawn \/ \E op : LoopLookUp(op)
      <4>1. loop'.pc \in {loop.pc, "cmd", "spawn"}
        BY <3>2 DEF Shape, DaemonShape, LoopShape, LoopSpawn, LoopLookUp
      <4> QED  BY <2>1, <4>1
    <3>3. CASE loop' = AtRecv \/ loop' = loop
      BY <2>1, <3>3, SMTT(60) DEF AtRecv
    <3> QED  BY <1>3, <3>1, <3>2, <3>3 DEF LoopStep, Discard, LoopPing, LoopRegister,
               LoopRemoveInterrupt, LoopDetach, LoopGetLk, LoopSetLk, LoopSpawned, daemonVars
  <2> QED  BY <2>1, <2>2 DEF mainVars
<1>4. ASSUME NEW t \in LockThreads, ThreadStep(t) \/ ThreadReturns(t, "EDEADLK")
      PROVE  MainInv'
  BY <1>1, <1>4 DEF ThreadStep, ThreadTrack, ThreadRefused, ThreadTryLk, ThreadReturns, ThreadExit, Step
<1>5. ASSUME NEW j \in jobs, JobStep(j)
      PROVE  MainInv'
  BY <1>1, <1>5 DEF JobStep, InterruptLookUp, InterruptDone, UnregisterRemove, UnregisterStop,
                    UnregisterClose, UnregisterReply, JobFrame
<1>6. CASE MainStep
  BY <1>6, SMTT(60) DEF MainStep, MainTryExit, MainJoin, ProcessExit, MainFrame, channelVars, mainVars, AtRecv
<1>7. CASE \E act \in Acts \cup {"Unlock"} : OthersLock(Flock(act))
  BY <1>1, <1>7 DEF OthersLock, channelVars
<1>8. CASE ClientStep
  <2>1. UNCHANGED daemonVars /\ server_open' = server_open /\ (HangUp \/ client_open' = client_open)
    BY <1>8, ClientFrame
  <2>2. CASE HangUp
    BY <2>1, <2>2, SMTT(60) DEF HangUp, daemonVars, mainVars
  <2> QED  BY <1>1, <2>1, <2>2 DEF daemonVars
<1> QED  BY <1>2, <1>3, <1>4, <1>5, <1>6, <1>7, <1>8, NextCases

(* A process that exits does so with the exit lock in its hands or with    *)
(* its receiving loop ended (DaemonOwner::start).                          *)
THEOREM MainInvariance == Spec => [](Shape /\ MainInv)
<1>1. Init => MainInv
  BY SMTT(60) DEF Init, DaemonInit, AtRecv, MainInv
<1> QED  BY <1>1, ShapeInit, ShapeStep, MainStepInv, PTL DEF Spec

-----------------------------------------------------------------------------
(* The step from LockSystem to AbstractOwner.                              *)

(* A step that neither registers nor closes anything, nor changes whether  *)
(* the process and its client are there, is a stutter of AbstractOwner.    *)
LEMMA Stutters ==
  ASSUME UNCHANGED <<main, client_open, server_open>>, \A id \in Ids : FdExists(id)' <=> FdExists(id)
  PROVE  UNCHANGED Abstract!vars
BY DEF Abstract!vars

(* The requests' threads: only an unregister closes, when it may.          *)
LEMMA JobFiles ==
  ASSUME Shape, NEW j \in jobs, JobStep(j)
  PROVE  /\ UNCHANGED <<main, client_open, server_open>>
         /\ \A id : FdExists(id)' => FdExists(id)
         /\ \A id : FdExists(id) => FdExists(id)' \/ (UnregisterClose(j) /\ id = j.id)
<1> USE DEF FdExists, Unregistering
<1>1. UNCHANGED <<main, client_open, server_open>>
  BY DEF JobStep, InterruptLookUp, InterruptDone, UnregisterRemove, UnregisterStop, UnregisterClose,
         UnregisterReply, JobFrame, mainVars
<1>2. CASE InterruptLookUp(j) \/ InterruptDone(j)
  <2>1. /\ UNCHANGED descriptors /\ j.op = "Interrupt"
        /\ \/ jobs' = jobs \ {j}
           \/ jobs' = (jobs \ {j}) \cup {[j EXCEPT !.st = "stopping", !.thread = interrupts[j.id]]}
    BY <1>2 DEF InterruptLookUp, InterruptDone, JobEnds, JobGoes
  <2>2. [j EXCEPT !.st = "stopping", !.thread = interrupts[j.id]].op = "Interrupt"
    BY <2>1 DEF Shape, DaemonShape, JobShape
  <2>3. \A k : k.op = "Unregister" => (k \in jobs' <=> k \in jobs)
    BY <2>1, <2>2
  <2> QED  BY <1>1, <2>1, <2>3
<1>3. CASE UnregisterRemove(j)
  <2>1. CASE j.id \notin descriptors
    <3>1. jobs' = jobs \ {j} /\ descriptors' = descriptors /\ j.st = "start"
      BY <1>3, <2>1 DEF UnregisterRemove, JobEnds
    <3> QED  BY <1>1, <3>1
  <2>2. CASE j.id \in descriptors
    <3> DEFINE k == [j EXCEPT !.st = "removed"]
    <3>1. jobs' = (jobs \ {j}) \cup {k} /\ descriptors' = descriptors \ {j.id} /\ j.st = "start"
          /\ j.op = "Unregister"
      BY <1>3, <2>2 DEF UnregisterRemove, JobGoes
    <3>2. k.op = "Unregister" /\ k.id = j.id /\ k.st = "removed"
      BY <3>1 DEF Shape, DaemonShape, JobShape
    <3> HIDE DEF k
    <3> QED  BY <1>1, <2>2, <3>1, <3>2
  <2> QED  BY <2>1, <2>2
<1>4. CASE UnregisterStop(j)
  <2> DEFINE k == [j EXCEPT !.st = "stopping"]
  <2>1. /\ jobs' = (jobs \ {j}) \cup {k} /\ UNCHANGED descriptors
        /\ j.st = "removed" /\ j.op = "Unregister"
    BY <1>4 DEF UnregisterStop, JobGoes
  <2>2. k.op = "Unregister" /\ k.id = j.id /\ k.st = "stopping"
    BY <2>1 DEF Shape, DaemonShape, JobShape
  <2> HIDE DEF k
  <2> QED  BY <1>1, <2>1, <2>2
<1>5. CASE UnregisterClose(j)
  <2> DEFINE k == [j EXCEPT !.st = "closed"]
  <2>1. jobs' = (jobs \ {j}) \cup {k} /\ UNCHANGED descriptors
    BY <1>5 DEF UnregisterClose, JobGoes
  <2>2. k.st = "closed"
    BY DEF Shape, DaemonShape, JobShape
  <2> HIDE DEF k
  <2> QED  BY <1>1, <1>5, <2>1, <2>2
<1>6. CASE UnregisterReply(j)
  <2>1. jobs' = jobs \ {j} /\ UNCHANGED descriptors /\ j.st = "closed"
    BY <1>6 DEF UnregisterReply, JobEnds
  <2> QED  BY <1>1, <2>1
<1> QED  BY <1>2, <1>3, <1>4, <1>5, <1>6 DEF JobStep

(* The receiving loop: only a register that gets the exit lock opens.      *)
LEMMA LoopFiles ==
  ASSUME Shape, LoopStep
  PROVE  /\ \A id : FdExists(id) => FdExists(id)'
         /\ \/ \A id : FdExists(id)' => FdExists(id)
            \/ /\ loop.pc = "recv" /\ ~exit_lock /\ next_id \in Ids
               /\ (\E id \in Ids : FdExists(id)')
               /\ \A id \in Ids : FdExists(id)' => FdExists(id) \/ id = next_id
<1> USE DEF FdExists, Unregistering
<1>1. CASE UNCHANGED <<fdVars, jobs>>
  BY <1>1 DEF fdVars
<1>2. CASE LoopRegister
  <2>1. CASE UNCHANGED fdVars
    BY <1>1, <1>2, <2>1 DEF LoopRegister
  <2>2. CASE ~UNCHANGED fdVars
    <3>1. /\ loop.pc = "recv" /\ ~exit_lock /\ next_id \in Ids /\ UNCHANGED jobs
          /\ descriptors' = descriptors \cup {next_id}
      BY <1>2, <2>2 DEF LoopRegister, Receive
    <3> QED  BY <3>1
  <2> QED  BY <2>1, <2>2
<1>3. ASSUME NEW op, LoopDetach(op)
      PROVE  \A id : FdExists(id)' <=> FdExists(id)
  <2>1. PICK k : k.st = "start" /\ jobs' = jobs \cup {k} /\ UNCHANGED descriptors
    BY <1>3 DEF LoopDetach, fdVars
  <2> QED  BY <2>1
<1>4. CASE Discard \/ LoopPing \/ LoopRemoveInterrupt \/ LoopSpawn \/ LoopSpawned \/ LoopEnds
           \/ LoopGetLk \/ LoopSetLk \/ \E op : LoopLookUp(op)
  BY <1>1, <1>4 DEF Discard, LoopPing, LoopRemoveInterrupt, LoopLookUp, LoopGetLk, LoopSetLk,
                    LoopSpawn, LoopSpawned, LoopEnds, daemonVars
<1> QED  BY <1>2, <1>3, <1>4, SMTT(60) DEF LoopStep

(* Each step of the lock system is one of AbstractOwner, or none.          *)
LEMMA OwnerRefines ==
  ASSUME Shape, MainInv, [Next]_vars
  PROVE  [Abstract!Next]_Abstract!vars
<1>1. CASE UNCHANGED vars
  BY <1>1 DEF Abstract!vars, vars, channelVars, daemonVars, mainVars, fdVars, FdExists, Unregistering
<1>2. CASE LoopStep
  <2>1. server_open /\ UNCHANGED <<main, client_open, server_open>>
    BY <1>2, LoopFrame DEF mainVars
  <2>2. CASE \A id \in Ids : FdExists(id)' => FdExists(id)
    BY <1>2, <2>1, <2>2, LoopFiles, Stutters
  <2>3. CASE loop.pc = "recv" /\ ~exit_lock /\ \E id \in Ids : FdExists(id)'
    <3>1. main # "exiting"
      BY <2>1, <2>3 DEF MainInv
    <3>2. (\E id \in Ids : FdExists(id))' = TRUE
      BY <2>3
    <3>3. Abstract!Register
      BY <2>1, <3>1, <3>2 DEF Abstract!Register
    <3> QED  BY <3>3 DEF Abstract!Next
  <2> QED  BY <1>2, <2>2, <2>3, LoopFiles
<1>3. ASSUME NEW t \in LockThreads, ThreadStep(t) \/ ThreadReturns(t, "EDEADLK")
      PROVE  UNCHANGED Abstract!vars
  <2>1. PICK from, to : Step(t, from, to)
    BY <1>3 DEF ThreadStep, ThreadTrack, ThreadRefused, ThreadTryLk, ThreadReturns, ThreadExit
  <2> QED  BY <2>1, Stutters DEF Step, mainVars, fdVars, FdExists, Unregistering
<1>4. ASSUME NEW j \in jobs, JobStep(j)
      PROVE  [Abstract!Next]_Abstract!vars
  <2>1. UNCHANGED <<main, client_open, server_open>> /\ \A id \in Ids : FdExists(id)' => FdExists(id)
    BY <1>4, JobFiles
  <2>2. CASE \A id \in Ids : FdExists(id) => FdExists(id)'
    BY <2>1, <2>2, Stutters
  <2>3. CASE \A id \in Ids : ~FdExists(id)'
    <3>1. Abstract!Unregister
      BY <2>1, <2>3 DEF Abstract!Unregister
    <3> QED  BY <3>1 DEF Abstract!Next
  <2>4. CASE (\E id \in Ids : FdExists(id)') /\ \E id \in Ids : FdExists(id)
    BY <2>1, <2>4 DEF Abstract!vars
  <2> QED  BY <2>1, <2>2, <2>3, <2>4
<1>5. CASE MainStep
  <2>1. CASE MainTryExit \/ MainJoin
    <3>1. /\ server_open /\ main = "waiting" /\ main' = "exiting" /\ UNCHANGED <<client_open, server_open>>
          /\ client_open => \A id \in Ids : ~FdExists(id)
          /\ UNCHANGED <<descriptors, jobs>>
      BY <2>1 DEF MainTryExit, MainJoin, MainFrame, MainInv, channelVars, fdVars
    <3>2. \A id \in Ids : FdExists(id)' <=> FdExists(id)
      BY <3>1 DEF FdExists, Unregistering
    <3>3. Abstract!Expire
      BY <3>1, <3>2 DEF Abstract!Expire
    <3> QED  BY <3>3 DEF Abstract!Next
  <2>2. CASE ProcessExit
    <3>1. \A id \in Ids : ~FdExists(id)'
      BY <2>2 DEF ProcessExit, FdExists, Unregistering
    <3>2. Abstract!Exit
      <4>1. server_open /\ main = "exiting" /\ ~server_open' /\ UNCHANGED client_open
        BY <2>2 DEF ProcessExit
      <4>2. (\E id \in Ids : FdExists(id))' = FALSE
        BY <3>1
      <4> QED  BY <4>1, <4>2 DEF Abstract!Exit
    <3> QED  BY <3>2 DEF Abstract!Next
  <2> QED  BY <1>5, <2>1, <2>2 DEF MainStep
<1>6. CASE \E act \in Acts \cup {"Unlock"} : OthersLock(Flock(act))
  BY <1>6, Stutters DEF OthersLock, channelVars, mainVars, fdVars, FdExists, Unregistering
<1>7. CASE ClientStep
  <2>1. UNCHANGED daemonVars /\ server_open' = server_open /\ (HangUp \/ client_open' = client_open)
    BY <1>7, ClientFrame
  <2>2. main' = main /\ \A id \in Ids : FdExists(id)' <=> FdExists(id)
    BY <2>1 DEF daemonVars, mainVars, fdVars, FdExists, Unregistering
  <2>3. CASE HangUp
    <3>1. Abstract!HangUp
      BY <2>1, <2>2, <2>3, SMTT(60) DEF HangUp, Abstract!HangUp
    <3> QED  BY <3>1 DEF Abstract!Next
  <2> QED  BY <2>1, <2>2, <2>3, Stutters
<1> QED  BY <1>1, <1>2, <1>3, <1>4, <1>5, <1>6, <1>7, NextCases

(* The owner process and its client implement what LockManager relies on:  *)
(* register() succeeds only at a process that serves, and neither the TTL  *)
(* (try_exit) nor an unregister ends a process that has a file registered  *)
(* and whose socket is open.                                               *)
THEOREM Implements == Spec => ImplementsOwner
<1>1. Init => Abstract!Init
  BY DEF Init, ChannelsInit, DaemonInit, Abstract!Init, FdExists, Unregistering
<1> QED
  BY <1>1, MainInvariance, OwnerRefines, PTL DEF Spec, Abstract!Spec, ImplementsOwner

-----------------------------------------------------------------------------
(* Who uses a descriptor.                                                  *)

(* Every clone of an Arc<FdData> is of one that exists, those of the lock  *)
(* threads and that of the receiving loop.                                 *)
ThreadsHaveFile == \A t \in LockThreads : threads[t].pc # "none" => FdExists(threads[t].id)
LoopHasFile == loop.pc \in {"cmd", "spawn"} => FdExists(loop.req.id)

(* What is being closed has been registered.                               *)
ClosesKnown == \A j \in jobs : j.op = "Unregister" /\ j.st # "start" => j.id \in Ids

(* With the lock, which must have a descriptor, this is inductive.         *)
FileInv == ThreadsHaveFile /\ LoopHasFile /\ ClosesKnown /\ LockNeedsDescriptor

(* A step that closes nothing and adds no user keeps it.                   *)
LEMMA FileKept ==
  ASSUME FileInv, \A id : FdExists(id) => FdExists(id)'
  PROVE  /\ (\A t \in LockThreads : threads'[t].pc # "none" =>
               threads[t].pc # "none" /\ threads'[t].id = threads[t].id) => ThreadsHaveFile'
         /\ loop' = loop \/ loop'.pc \notin {"cmd", "spawn"} => LoopHasFile'
         /\ held' = held \/ (\E id \in Ids : FdExists(id)) => LockNeedsDescriptor'
<1>1. \A t \in LockThreads : threads'[t].pc # "none" /\ FdExists(threads[t].id) /\ threads'[t].id = threads[t].id
                              => FdExists(threads[t].id)'
  BY SMTT(60) DEF FdExists, Unregistering
<1>2. loop' = loop /\ FdExists(loop.req.id) => FdExists(loop.req.id)'
  BY SMTT(60) DEF FdExists, Unregistering
<1> QED  BY <1>1, <1>2 DEF FileInv, ThreadsHaveFile, LoopHasFile, LockNeedsDescriptor

(* The receiving loop clones only what is in the map.                      *)
LEMMA FileLoop ==
  ASSUME Shape, FileInv, LoopStep
  PROVE  FileInv'
<1>1. \A id : FdExists(id) => FdExists(id)'
  BY LoopFiles
<1>2. \A id \in descriptors : FdExists(id)
  BY DEF FdExists
<1>3. FdShape /\ LoopShape /\ ThreadShape
  BY DEF Shape, DaemonShape
<1>4. ASSUME UNCHANGED <<loop, threads, jobs, held>>
      PROVE  FileInv'
  BY <1>1, <1>4, FileKept DEF FileInv, ClosesKnown
<1>5. CASE Discard \/ LoopPing \/ LoopRegister \/ LoopRemoveInterrupt
  BY <1>4, <1>5 DEF Discard, LoopPing, LoopRegister, LoopRemoveInterrupt, daemonVars, kernelVars
<1>6. ASSUME NEW op, LoopDetach(op)
      PROVE  FileInv'
  <2>1. ClosesKnown'
    BY <1>6, SMTT(60) DEF LoopDetach, FileInv, ClosesKnown
  <2> QED  BY <1>1, <1>6, <2>1, FileKept DEF LoopDetach, kernelVars, FileInv
<1>7. ASSUME NEW op, LoopLookUp(op)
      PROVE  FileInv'
  <2>1. ClosesKnown' /\ UNCHANGED <<threads, held, descriptors, jobs>>
    BY <1>7 DEF LoopLookUp, FileInv, ClosesKnown, kernelVars, fdVars
  <2>2. LoopHasFile'
    <3>1. CASE loop' = loop
      BY <1>1, <3>1, FileKept
    <3>2. CASE Head(sock).id \in descriptors /\ loop' = [loop EXCEPT !.pc = "cmd", !.req = Head(sock)]
      <4>1. loop'.req.id \in descriptors'
        BY <1>3, <2>1, <3>2 DEF LoopShape
      <4> QED  BY <4>1 DEF LoopHasFile, FdExists
    <3> QED  BY <1>7, <3>1, <3>2 DEF LoopLookUp
  <2> QED  BY <1>1, <2>1, <2>2, FileKept DEF FileInv
<1>8. CASE LoopGetLk \/ LoopSpawned \/ LoopEnds
  <2>1. UNCHANGED <<threads, held, jobs>>
    BY <1>8 DEF LoopGetLk, LoopSpawned, LoopEnds, kernelVars
  <2>2. loop'.pc \notin {"cmd", "spawn"}
    BY <1>3, <1>8, SMTT(60) DEF LoopGetLk, LoopSpawned, LoopEnds, AtRecv, LoopShape
  <2> QED  BY <1>1, <2>1, <2>2, FileKept DEF FileInv, ClosesKnown
<1>9. CASE LoopSetLk
  <2>1. UNCHANGED <<threads, jobs>> /\ loop'.pc \notin {"cmd", "spawn"}
    BY <1>9 DEF LoopSetLk, AtRecv
  <2>2. \E id \in Ids : FdExists(id)
    <3>1. FdExists(loop.req.id)
      BY <1>9 DEF LoopSetLk, FileInv, LoopHasFile
    <3>2. loop.req.id \in Ids
      BY <1>3, <3>1 DEF FdShape, FdExists, Unregistering, FileInv, ClosesKnown
    <3> QED  BY <3>1, <3>2
  <2> QED  BY <1>1, <2>1, <2>2, FileKept DEF FileInv, ClosesKnown
<1>10. CASE LoopSpawn
  <2>1. /\ UNCHANGED <<held, jobs, descriptors>> /\ loop.pc = "cmd"
        /\ \E t \in LockThreads :
             /\ loop' = [loop EXCEPT !.pc = "spawn", !.thread = t]
             /\ threads' = [threads EXCEPT ![t] = [pc |-> "starting", id |-> loop.req.id,
                                                  act |-> loop.req.act, o |-> loop.req.o]]
    BY <1>10 DEF LoopSpawn, kernelVars, fdVars
  <2>2. FdExists(loop.req.id)
    BY <2>1 DEF FileInv, LoopHasFile
  <2>3. LoopHasFile'
    BY <1>3, <2>1, <2>2 DEF LoopHasFile, LoopShape, FdExists, Unregistering
  <2>4. ThreadsHaveFile'
    BY <1>3, <2>1, <2>2, SMTT(60) DEF ThreadsHaveFile, FileInv, ThreadShape, FdExists, Unregistering
  <2> QED  BY <1>1, <2>1, <2>3, <2>4, FileKept DEF FileInv, ClosesKnown
<1> QED
  BY <1>5, <1>6, <1>7, <1>8, <1>9, <1>10 DEF LoopStep

(* A lock thread keeps its clone until it ends.                            *)
LEMMA FileThread ==
  ASSUME Shape, FileInv, NEW t \in LockThreads, ThreadStep(t) \/ ThreadReturns(t, "EDEADLK")
  PROVE  FileInv'
<1>1. PICK from, to : from \in HoldingPcs /\ Step(t, from, to)
  BY DEF ThreadStep, ThreadTrack, ThreadRefused, ThreadTryLk, ThreadReturns, ThreadExit, HoldingPcs, TrackedPcs
<1>2. /\ UNCHANGED <<loop, jobs, descriptors>>
      /\ threads' = [threads EXCEPT ![t] = IF to = "none" THEN Idle ELSE [@ EXCEPT !.pc = to]]
      /\ threads[t].pc # "none"
  BY <1>1 DEF Step, fdVars, HoldingPcs, TrackedPcs
<1>3. \A id : FdExists(id) => FdExists(id)'
  BY <1>2 DEF FdExists, Unregistering
<1>4. \A u \in LockThreads : threads'[u].pc # "none" =>
        threads[u].pc # "none" /\ threads'[u].id = threads[u].id
  BY <1>2 DEF Shape, DaemonShape, ThreadShape, Idle
<1>5. FdExists(threads[t].id)
  BY <1>2 DEF FileInv, ThreadsHaveFile
<1>6. threads[t].id \in Ids
  BY <1>5 DEF FdExists, Unregistering, FileInv, ClosesKnown, Shape, DaemonShape, FdShape
<1> QED  BY <1>2, <1>3, <1>4, <1>5, <1>6, FileKept DEF FileInv, ClosesKnown

(* A file is closed only by the one that has the last clone of it, which   *)
(* also releases the lock.                                                 *)
LEMMA FileJob ==
  ASSUME Shape, FileInv, NEW j \in jobs, JobStep(j)
  PROVE  FileInv'
<1>1. UNCHANGED <<loop, threads>>
  BY DEF JobStep, InterruptLookUp, InterruptDone, UnregisterRemove, UnregisterStop,
         UnregisterClose, UnregisterReply, JobFrame
<1>2. ClosesKnown'
  <2>1. CASE UnregisterRemove(j)
    <3>1. jobs' \subseteq jobs \/ (j.id \in Ids /\ jobs' = (jobs \ {j}) \cup {[j EXCEPT !.st = "removed"]})
      BY <2>1 DEF UnregisterRemove, JobEnds, JobGoes, Shape, DaemonShape, FdShape
    <3> QED  BY <3>1 DEF FileInv, ClosesKnown, Shape, DaemonShape, JobShape
  <2>2. CASE InterruptLookUp(j) \/ InterruptDone(j)
    <3>1. /\ j.op = "Interrupt"
          /\ \/ jobs' = jobs \ {j}
             \/ jobs' = (jobs \ {j}) \cup {[j EXCEPT !.st = "stopping", !.thread = interrupts[j.id]]}
      BY <2>2 DEF InterruptLookUp, InterruptDone, JobEnds, JobGoes
    <3> QED  BY <3>1 DEF FileInv, ClosesKnown, Shape, DaemonShape, JobShape
  <2>3. CASE UnregisterStop(j)
    <3>1. j.st = "removed" /\ j.op = "Unregister" /\ jobs' = (jobs \ {j}) \cup {[j EXCEPT !.st = "stopping"]}
      BY <2>3 DEF UnregisterStop, JobGoes
    <3> QED  BY <3>1 DEF FileInv, ClosesKnown, Shape, DaemonShape, JobShape
  <2>4. CASE UnregisterClose(j)
    <3>1. j.st = "stopping" /\ j.op = "Unregister" /\ jobs' = (jobs \ {j}) \cup {[j EXCEPT !.st = "closed"]}
      BY <2>4 DEF UnregisterClose, JobGoes
    <3> QED  BY <3>1 DEF FileInv, ClosesKnown, Shape, DaemonShape, JobShape
  <2>5. CASE UnregisterReply(j)
    BY <2>5 DEF UnregisterReply, JobEnds, FileInv, ClosesKnown
  <2> QED  BY <2>1, <2>2, <2>3, <2>4, <2>5 DEF JobStep
<1>3. CASE UnregisterClose(j)
  <2>1. held' = F_UNLCK /\ LastReference(j.id)
    BY <1>3 DEF UnregisterClose
  <2>2. \A t \in LockThreads : threads[t].pc # "none" => threads[t].id # j.id
    BY <2>1 DEF LastReference, ThreadsOn, Shape, DaemonShape, ThreadShape
  <2>3. loop.pc \in {"cmd", "spawn"} => loop.req.id # j.id
    BY <2>1 DEF LastReference, LoopHolds
  <2>4. \A id : FdExists(id) => FdExists(id)' \/ id = j.id
    BY JobFiles
  <2>5. ThreadsHaveFile'
    BY <1>1, <2>2, <2>4 DEF FileInv, ThreadsHaveFile, FdExists, Unregistering
  <2>6. LoopHasFile'
    BY <1>1, <2>3, <2>4 DEF FileInv, LoopHasFile, FdExists, Unregistering
  <2> QED  BY <1>2, <2>1, <2>5, <2>6 DEF FileInv, LockNeedsDescriptor
<1>4. CASE ~UnregisterClose(j)
  <2>1. \A id : FdExists(id) => FdExists(id)'
    BY <1>4, JobFiles
  <2>2. UNCHANGED held
    BY <1>4 DEF JobStep, InterruptLookUp, InterruptDone, UnregisterRemove, UnregisterStop, UnregisterReply
  <2> QED  BY <1>1, <1>2, <2>1, <2>2, FileKept DEF FileInv
<1> QED  BY <1>3, <1>4

(* Nobody else touches the files, but for the exit, which ends all.        *)
LEMMA FileStep ==
  ASSUME Shape, FileInv, [Next]_vars
  PROVE  FileInv'
<1>1. ASSUME UNCHANGED <<loop, threads, jobs, held, descriptors>>
      PROVE  FileInv'
  BY <1>1 DEF FileInv, ThreadsHaveFile, LoopHasFile, ClosesKnown, LockNeedsDescriptor, FdExists, Unregistering
<1>2. CASE UNCHANGED vars
  BY <1>1, <1>2 DEF vars, daemonVars, kernelVars, fdVars
<1>3. CASE MainTryExit \/ MainJoin
  BY <1>1, <1>3 DEF MainTryExit, MainJoin, MainFrame, kernelVars, fdVars
<1>4. CASE ProcessExit
  BY <1>4 DEF ProcessExit, AtRecv, Idle, FileInv, ThreadsHaveFile, LoopHasFile, ClosesKnown, LockNeedsDescriptor
<1>5. CASE \E act \in Acts \cup {"Unlock"} : OthersLock(Flock(act))
  BY <1>1, <1>5 DEF OthersLock, fdVars
<1>6. CASE ClientStep
  BY <1>1, <1>6, ClientFrame DEF daemonVars, kernelVars, fdVars
<1> QED
  BY <1>2, <1>3, <1>4, <1>5, <1>6, FileLoop, FileThread, FileJob, NextCases DEF MainStep

(* Every clone of an Arc<FdData>, in a lock thread or in the receiving     *)
(* loop, is of a file that is not closed.                                  *)
THEOREM FileInvariance == Spec => []FileInv
<1>1. Init => FileInv
  BY SMTT(60) DEF Init, DaemonInit, AtRecv, Idle, FileInv, ThreadsHaveFile, LoopHasFile, ClosesKnown, LockNeedsDescriptor
<1> QED  BY <1>1, Shapes, FileStep, PTL DEF Spec

(* handle_fd_unregister() waits for the last clone of the Arc<FdData>      *)
(* (Arc::strong_count) and no clone is made once it is out of the map, so  *)
(* no thread and no command uses a descriptor that has been closed.        *)
THEOREM ClosedUnused == Spec => []NoUseAfterUnregister
<1>1. Shape /\ FileInv => NoUseAfterUnregister
  BY SMTT(60) DEF FileInv, ThreadsHaveFile, LoopHasFile, NoUseAfterUnregister, LastReference, ThreadsOn, LoopHolds,
         Shape, DaemonShape, ThreadShape, HoldingPcs, TrackedPcs
<1> QED  BY <1>1, Shapes, FileInvariance, PTL

(* The owner process has a lock only while it has a descriptor: no late    *)
(* F_SETLK or F_SETLKW takes one after the file has been closed.           *)
THEOREM LockHasDescriptor == Spec => []LockNeedsDescriptor
<1>1. FileInv => LockNeedsDescriptor
  BY DEF FileInv
<1> QED  BY <1>1, FileInvariance, PTL
=============================================================================
