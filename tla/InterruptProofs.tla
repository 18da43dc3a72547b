---------------------------- MODULE InterruptProofs ----------------------------
(***************************************************************************)
(* Proofs about the interrupts of LockSystem: an interrupt reaches the     *)
(* thread of its own call, and none is left behind.                        *)
(***************************************************************************)
EXTENDS LockableProofs, FiniteSetTheorems

(* Leaves are Zenon's unless they name another prover.                     *)
USE ZenonT(60)

(* The id by which a blocking lock interrupts the server's thread, from    *)
(* the reply that brings it on.                                            *)
HasIid(c) ==
  \/ cpc[c] = "SetLkw" /\ HasReply(call[c].o) /\ NextReply(call[c].o).tag = "Pending"
  \/ cpc[c] \in IidPcs

Iid(c) == IF cpc[c] = "SetLkw" THEN NextReply(call[c].o).val ELSE call[c].iid

(* Until the call has it removed, the id names the thread that serves the  *)
(* call, or served it.                                                     *)
OwnThread(c) ==
  LET t == interrupts[Iid(c)] IN
  t \in LockThreads /\ (threads[t].pc = "none" \/ threads[t].o = call[c].o)

(* No two calls have the same id, and a removal is for the call that sent  *)
(* it.                                                                     *)
OwnInv ==
  /\ \A c \in Clients : HasIid(c) /\ cpc[c] # "remove" /\ server_open => OwnThread(c)
  /\ \A c, d \in Clients : HasIid(c) /\ HasIid(d) /\ Iid(c) = Iid(d) => c = d
  /\ \A c \in Clients : \A k \in 1 .. Len(sock) :
       sock[k].op = "RemoveInterrupt" /\ HasIid(c) /\ Iid(c) = sock[k].id => cpc[c] = "remove"

(* A request, a command or a thread that may still be told Pending has a   *)
(* call that waits for it.                                                 *)
Awaited(o) == \E c \in Clients : cpc[c] = "SetLkw" /\ call[c].o = o

(* So it is while there is a daemon.                                       *)
AwaitedInv ==
  client_open =>
    /\ \A k \in 1 .. Len(sock) : sock[k].op = "SetLkw" => Awaited(sock[k].o)
    /\ loop.pc = "cmd" /\ loop.req.op = "SetLkw" => Awaited(loop.req.o)
    /\ \A t \in LockThreads : threads[t].pc \in {"starting", "trylk"} => Awaited(threads[t].o)

(* A call has the interrupt i, or has told the server to remove it.        *)
Owns(c, i) ==
  \/ cpc[c] = "SetLkw" /\ HasReply(call[c].o) /\ NextReply(call[c].o) = Pending(i)
  \/ cpc[c] \in IidPcs \ {"remove"} /\ call[c].iid = i
  \/ /\ cpc[c] = "remove" /\ call[c].iid = i
     /\ \E k \in 1 .. Len(sock) : sock[k].op = "RemoveInterrupt" /\ sock[k].o = call[c].nested

(* Every interrupt has such a call, or there is no process.                *)
LeakInv ==
  /\ \A i \in Ids : interrupts[i] # NoThread /\ client_open => \E c \in Clients : Owns(c, i)
  /\ ~server_open => \A i \in Ids : interrupts[i] = NoThread

-----------------------------------------------------------------------------
(* The steps of the process, by what they do with interrupts.              *)

NoNewPending ==
  \A o \in Oneshots :
    /\ HasReply(o) => HasReply(o)' /\ NextReply(o)' = NextReply(o)
    /\ ~HasReply(o) /\ HasReply(o)' => NextReply(o)'.tag # "Pending"

(* A lock thread has to wait: handle_interrupt_add().                      *)
AddsInterrupt(t) ==
  /\ threads[t].pc = "trylk" /\ interrupt_next_id \in Ids
  /\ interrupts' = [interrupts EXCEPT ![interrupt_next_id] = t]
  /\ interrupt_next_id' = interrupt_next_id + 1
  /\ oneshot' = Replied(threads[t].o, Pending(interrupt_next_id))
  /\ threads' = [threads EXCEPT ![t] = [threads[t] EXCEPT !.pc = "waitlk"]]
  /\ server_open /\ UNCHANGED <<sock, client_open, server_open>>

(* No interrupt is added or removed.                                       *)
NoInterrupts ==
  /\ NoNewPending
  /\ UNCHANGED <<interruptVars, client_open, server_open>>
  /\ sock' = sock \/ (sock # << >> /\ sock' = Tail(sock) /\ (Discard \/ Head(sock).op # "RemoveInterrupt"))
  /\ \A t \in LockThreads : \/ threads'[t].pc = "none" \/ FreeThread(t)
                            \/ threads[t].pc # "none" /\ threads'[t].o = threads[t].o

(* No other reply is a Pending.                                            *)
LEMMA HeadsPending ==
  ASSUME NEW o, NEW r, Heads(o, r), r.tag # "Pending"
  PROVE  NoNewPending
BY DEF Heads, NoNewPending

(* Nor is no reply at all.                                                 *)
LEMMA SameReplies ==
  ASSUME \A o \in Oneshots : oneshot'[o].q = oneshot[o].q
  PROVE  NoNewPending
BY DEF NoNewPending, HasReply, NextReply

(* Only a lock thread tells anyone to wait.                                *)
LEMMA ServerPending ==
  ASSUME Shape, ServerStep, threads' = threads
  PROVE  NoNewPending
<1>1. sock \in Seq(Requests) /\ \A k \in 1 .. Len(sock) : sock[k].o \in Oneshots
  BY EndShapes
<1>2. ASSUME NEW r, SockAnswers(r)
      PROVE  NoNewPending
  <2>1. r \in Replies /\ r.tag # "Pending" /\ Head(sock).o \in Oneshots
        /\ oneshot' \in {Answered(Head(sock).o, r), Hushed(Head(sock).o)}
    BY <1>1, <1>2, SockTail DEF SockAnswers
  <2> QED  BY <2>1, WriteHeads, HeadsPending
<1>3. ASSUME NEW r, LoopAnswers(r)
      PROVE  NoNewPending
  <2>1. r \in Replies /\ r.tag # "Pending" /\ loop.req.o \in Oneshots /\ oneshot' = Answered(loop.req.o, r)
    BY <1>3, EndShapes DEF LoopAnswers
  <2> QED  BY <2>1, WriteHeads, HeadsPending
<1>4. ASSUME NEW j \in jobs, NEW tag, JobAnswers(j, tag)
      PROVE  NoNewPending
  <2>1. R(tag) \in Replies /\ R(tag).tag = tag /\ tag # "Pending" /\ j.o \in Oneshots
        /\ oneshot' = Answered(j.o, R(tag))
    BY <1>4, EndShapes, ReplyShapes DEF JobAnswers, Tags
  <2> QED  BY <2>1, WriteHeads, HeadsPending
<1>5. ASSUME NEW t \in LockThreads
      PROVE  /\ ~ThreadEnds(t)
             /\ \A to, r : ~ThreadReplies(t, to, r)
  <2>1. threads \in [LockThreads -> [pc : HoldingPcs \cup {"none"}, id : Nat, act : LockTypes, o : Oneshots \cup {0}]]
    BY DEF Shape, DaemonShape, ThreadShape
  <2>2. ~ThreadEnds(t)
    BY <2>1, SMTT(60) DEF ThreadEnds, Idle
  <2>3. \A to, r : ~ThreadReplies(t, to, r)
    <3>1. ASSUME NEW to, NEW r, ThreadReplies(t, to, r)
          PROVE  FALSE
      <4>1. threads'[t].pc = to /\ threads[t].pc # to
        BY <2>1, <3>1 DEF ThreadReplies
      <4> QED  BY <4>1
    <3> QED  BY <3>1
  <2> QED  BY <2>2, <2>3
<1>6. ASSUME UNCHANGED oneshot
      PROVE  NoNewPending
  BY <1>6, SameReplies
<1> QED
  BY <1>2, <1>3, <1>4, <1>5, <1>6 DEF ServerStep, SockToJob, SockToLoop, LoopToThread, ThreadStarts, JobMoves,
     Quiet, channelVars

(* Every step of the process is one of these.                              *)
LEMMA InterruptCases ==
  ASSUME Shape, Next, UNCHANGED clientVars
  PROVE  LoopRemoveInterrupt \/ ProcessExit \/ NoInterrupts \/ ClientStep
         \/ \E t \in LockThreads : AddsInterrupt(t)
<1>1. ASSUME LoopStep
      PROVE  LoopRemoveInterrupt \/ NoInterrupts
  <2>1. ASSUME ~LoopRemoveInterrupt
        PROVE  /\ UNCHANGED <<interruptVars, client_open, server_open>>
               /\ sock' = sock \/ (sock # << >> /\ sock' = Tail(sock) /\ (Discard \/ Head(sock).op # "RemoveInterrupt"))
    <3>1. CASE Discard
      BY <3>1 DEF Discard, daemonVars
    <3>2. CASE LoopPing \/ LoopRegister \/ LoopDetach("Interrupt") \/ LoopDetach("Unregister")
               \/ LoopLookUp("GetLk") \/ LoopLookUp("SetLk") \/ LoopLookUp("SetLkw")
      BY <3>2 DEF LoopPing, LoopRegister, LoopDetach, LoopLookUp, Receive
    <3>3. CASE LoopGetLk \/ LoopSetLk \/ LoopSpawn \/ LoopSpawned \/ LoopEnds
      BY <3>3 DEF LoopGetLk, LoopSetLk, LoopSpawn, LoopSpawned, LoopEnds, channelVars
    <3> QED  BY <1>1, <2>1, <3>1, <3>2, <3>3 DEF LoopStep
  <2>2. CASE LoopSpawn
    <3>1. PICK t \in LockThreads : FreeThread(t) /\ \E n : threads' = [threads EXCEPT ![t] = n]
      <4> DEFINE free == {u \in LockThreads : FreeThread(u)}
                 t == CHOOSE f \in free : TRUE
      <4>1. t \in LockThreads /\ FreeThread(t)
        BY <2>2 DEF LoopSpawn
      <4>2. \E n : threads' = [threads EXCEPT ![t] = n]
        BY <2>2 DEF LoopSpawn
      <4> QED  BY <4>1, <4>2
    <3>2. \A u \in LockThreads : threads'[u] = threads[u] \/ FreeThread(u)
      BY <3>1 DEF Shape, DaemonShape, ThreadShape
    <3>3. NoNewPending
      BY <2>2, SameReplies DEF LoopSpawn, channelVars
    <3>4. ~LoopRemoveInterrupt
      BY <2>2 DEF LoopSpawn, LoopRemoveInterrupt, Receive
    <3> QED  BY <2>1, <3>2, <3>3, <3>4 DEF NoInterrupts
  <2>3. CASE ~LoopSpawn
    <3>1. UNCHANGED threads
      BY <1>1, <2>3 DEF LoopStep, Discard, LoopPing, LoopRegister, LoopRemoveInterrupt, LoopDetach, LoopLookUp,
         LoopGetLk, LoopSetLk, LoopSpawned, LoopEnds, daemonVars
    <3>2. NoNewPending
      BY <1>1, <3>1, ServerLoop, ServerPending
    <3> QED  BY <2>1, <3>1, <3>2 DEF NoInterrupts
  <2> QED  BY <2>2, <2>3
<1>2. ASSUME NEW j \in jobs, JobStep(j)
      PROVE  NoInterrupts
  <2>1. UNCHANGED <<sock, client_open, server_open, interruptVars, threads>>
    BY <1>2 DEF JobStep, InterruptLookUp, InterruptDone, UnregisterRemove, UnregisterStop,
                UnregisterClose, UnregisterReply, JobFrame
  <2>2. NoNewPending
    BY <1>2, <2>1, ServerJob, ServerPending
  <2> QED  BY <2>1, <2>2 DEF NoInterrupts
<1>3. ASSUME MainTryExit \/ MainJoin \/ \E l : OthersLock(l)
      PROVE  NoInterrupts
  <2>1. UNCHANGED <<channelVars, interruptVars, threads>>
    BY <1>3 DEF MainTryExit, MainJoin, MainFrame, OthersLock
  <2> QED  BY <2>1, SameReplies DEF NoInterrupts, channelVars
<1>4. ASSUME NEW t \in LockThreads, ThreadStep(t) \/ ThreadReturns(t, "EDEADLK")
      PROVE  NoInterrupts \/ AddsInterrupt(t)
  <2>1. threads \in [LockThreads -> [pc : HoldingPcs \cup {"none"}, id : Nat, act : LockTypes, o : Oneshots \cup {0}]]
    BY DEF Shape, DaemonShape, ThreadShape
  <2>2. PICK from, to : Step(t, from, to) /\ from # "none"
    BY <1>4, SMTT(60) DEF ThreadStep, ThreadTrack, ThreadRefused, ThreadTryLk, ThreadReturns, ThreadExit
  <2>3. threads[t].o \in Oneshots /\ threads[t].act \in LockTypes
    BY <2>1, <2>2 DEF Step, Shape, DaemonShape, ThreadShape
  <2>4. \A u \in LockThreads : \/ threads'[u].pc = "none"
                               \/ threads[u].pc # "none" /\ threads'[u].o = threads[u].o
    <3>1. threads' = [threads EXCEPT ![t] = IF to = "none" THEN Idle ELSE [threads[t] EXCEPT !.pc = to]]
      BY <2>2 DEF Step
    <3>2. Idle.pc = "none" /\ [threads[t] EXCEPT !.pc = to].o = threads[t].o
      BY <2>1 DEF Idle
    <3>3. threads[t].pc # "none"
      BY <2>2 DEF Step
    <3>4. \A u \in LockThreads : u # t => threads'[u] = threads[u]
      BY <2>1, <3>1
    <3>5. threads'[t] = IF to = "none" THEN Idle ELSE [threads[t] EXCEPT !.pc = to]
      BY <2>1, <3>1
    <3> QED  BY <3>2, <3>3, <3>4, <3>5
  <2>5. ASSUME NoNewPending, UNCHANGED interruptVars
        PROVE  NoInterrupts
    BY <2>2, <2>4, <2>5 DEF NoInterrupts, Step
  <2>6. ASSUME NEW errno \in Tags, errno # "Pending", oneshot' = Replied(threads[t].o, BlockingReply(t, errno))
        PROVE  NoNewPending
    <3>1. BlockingReply(t, errno) \in Replies /\ BlockingReply(t, errno).tag = errno
      BY <2>3, ReplyShapes DEF BlockingReply
    <3> QED  BY <2>3, <2>6, <3>1, WriteHeads, HeadsPending
  <2>7. CASE ThreadTrack(t)
    BY <2>5, <2>7, SameReplies DEF ThreadTrack
  <2>8. CASE ThreadRefused(t) \/ ThreadExit(t)
    <3>1. R("Ok") \in Replies /\ R("Ok").tag # "Pending"
      BY ReplyShapes DEF Tags
    <3>2. Heads(threads[t].o, R("Ok"))
      BY <2>3, <2>8, <3>1, WriteHeads DEF ThreadRefused, ThreadExit
    <3> QED  BY <2>5, <2>8, <3>1, <3>2, HeadsPending DEF ThreadRefused, ThreadExit
  <2>9. ASSUME NEW errno \in {"Done", "EBADF", "EINTR", "EDEADLK"}, ThreadReturns(t, errno)
        PROVE  NoInterrupts
    BY <2>5, <2>6, <2>9 DEF ThreadReturns, Tags
  <2>10. CASE ThreadTryLk(t)
    <3> DEFINE try == SetLkErrno(threads[t].id, Flock(threads[t].act))
    <3>1. try \in {"Done", "EBADF", "EAGAIN"}
      BY <2>3, LkTypes, LkAnswers DEF Tags
    <3>2. CASE try = "EAGAIN"
      <4>1. AddsInterrupt(t)
        BY <2>10, <3>2 DEF ThreadTryLk, Step, AddsInterrupt
      <4> QED  BY <4>1
    <3>3. CASE try # "EAGAIN"
      <4>1. oneshot' = Replied(threads[t].o, BlockingReply(t, try)) /\ UNCHANGED interruptVars
        BY <2>10, <3>3 DEF ThreadTryLk
      <4> QED  BY <2>5, <2>6, <3>1, <4>1 DEF Tags
    <3> QED  BY <3>2, <3>3
  <2> QED  BY <1>4, <2>7, <2>8, <2>9, <2>10 DEF ThreadStep
<1> QED  BY <1>1, <1>2, <1>3, <1>4, NextCases DEF MainStep

-----------------------------------------------------------------------------
(* An interrupt id that a call has was allocated, and names an entry.      *)
LEMMA IidKnown ==
  ASSUME Shape, NEW c \in Clients, HasIid(c)
  PROVE  /\ Iid(c) \in Ids /\ Iid(c) < interrupt_next_id
         /\ cpc[c] \in Waiting /\ call[c].o \in Oneshots
<1>1. cpc[c] \in Waiting /\ call[c].o \in Oneshots
  BY CallShapes DEF HasIid, IidPcs, Waiting, Detached
<1>2. InterruptIds /\ interrupt_next_id \in 0 .. MaxIds /\ call[c].iid \in Nat
  BY DEF Shape, DaemonShape, InterruptShape, ClientShape
<1>3. oneshot[call[c].o].q \in Seq(Replies)
  BY <1>1, EndShapes DEF OneshotStates
<1>4. CASE cpc[c] = "SetLkw"
  <2> DEFINE q == oneshot[call[c].o].q
  <2>1. q # << >> /\ Head(q).tag = "Pending" /\ Iid(c) = Head(q).val
    BY <1>4 DEF HasIid, Iid, HasReply, NextReply, IidPcs
  <2>2. 1 \in 1 .. Len(q) /\ Head(q) = q[1] /\ Head(q) \in Replies
    BY <1>3, <2>1, SMTT(60)
  <2>3. Head(q).val < interrupt_next_id /\ Head(q).val \in Nat
    BY <1>1, <1>2, <2>1, <2>2 DEF InterruptIds, PendingBelow, Replies
  <2>4. \A v \in Nat : v < interrupt_next_id => v \in Ids
    BY <1>2, DaemonAssumption, SMTT(60) DEF Ids
  <2> QED  BY <1>1, <2>1, <2>3, <2>4
<1>5. CASE cpc[c] # "SetLkw"
  BY <1>1, <1>2, <1>5, DaemonAssumption, SMTT(60) DEF HasIid, Iid, InterruptIds, Ids
<1> QED  BY <1>4, <1>5

(* Nothing but the owner's request removes an interrupt.                   *)
LEMMA OwnServer ==
  ASSUME Shape, EndsInv, OwnInv, UNCHANGED clientVars, LoopRemoveInterrupt \/ NoInterrupts
  PROVE  OwnInv'
<1>1. UNCHANGED <<cpc, call>>
  BY DEF clientVars
<1>2. sock \in Seq(Requests) /\ interrupts \in [Ids -> LockThreads \cup {NoThread}] /\ NoThread \notin LockThreads
  BY EndShapes, DaemonAssumption DEF Shape, DaemonShape, InterruptShape
<1>3. NoNewPending /\ UNCHANGED server_open
  <2>1. CASE LoopRemoveInterrupt
    <3>1. UNCHANGED <<server_open, threads>> /\ LoopStep
      BY <2>1 DEF LoopRemoveInterrupt, Receive, LoopStep
    <3> QED  BY <3>1, ServerLoop, ServerPending
  <2> QED  BY <2>1 DEF NoInterrupts
<1>4. sock' = sock \/ (sock # << >> /\ sock' = Tail(sock))
  BY DEF LoopRemoveInterrupt, Receive, NoInterrupts
<1>5. ASSUME NEW c \in Clients, HasIid(c)'
      PROVE  HasIid(c) /\ Iid(c)' = Iid(c)
  <2>1. CASE cpc[c] = "SetLkw"
    <3>1. call[c].o \in Oneshots
      BY <2>1, CallShapes DEF Waiting, Detached
    <3>2. HasReply(call[c].o)' /\ NextReply(call[c].o)'.tag = "Pending"
          /\ Iid(c)' = NextReply(call[c].o)'.val
      BY <1>1, <1>5, <2>1 DEF HasIid, Iid, HasReply, NextReply, IidPcs
    <3>3. HasReply(call[c].o) /\ NextReply(call[c].o)' = NextReply(call[c].o)
      BY <1>1, <1>3, <3>1, <3>2 DEF NoNewPending
    <3> QED  BY <2>1, <3>2, <3>3 DEF HasIid, Iid
  <2>2. CASE cpc[c] # "SetLkw"
    BY <1>1, <1>5, <2>2 DEF HasIid, Iid
  <2> QED  BY <2>1, <2>2
<1>6. ASSUME NEW c \in Clients, HasIid(c), cpc[c] # "remove", server_open, NEW i \in Ids, i = Iid(c)
      PROVE  interrupts'[i] \in LockThreads /\ (threads'[interrupts'[i]].pc = "none"
                                                \/ threads'[interrupts'[i]].o = call[c].o)
  <2>1. interrupts[i] \in LockThreads /\ (threads[interrupts[i]].pc = "none" \/ threads[interrupts[i]].o = call[c].o)
    BY <1>6 DEF OwnInv, OwnThread
  <2>2. CASE LoopRemoveInterrupt
    <3>1. 1 \in 1 .. Len(sock) /\ sock[1] = Head(sock) /\ Head(sock).op = "RemoveInterrupt"
      BY <1>2, <2>2, SockTail DEF LoopRemoveInterrupt, Receive
    <3>2. Head(sock).id # i
      BY <1>6, <3>1 DEF OwnInv
    <3> QED  BY <1>2, <2>1, <2>2, <3>2 DEF LoopRemoveInterrupt
  <2>3. CASE NoInterrupts
    <3>1. interrupts' = interrupts /\ ~FreeThread(interrupts[i])
      BY <1>6, <2>3 DEF NoInterrupts, interruptVars, FreeThread
    <3> QED  BY <2>1, <2>3, <3>1 DEF NoInterrupts
  <2> QED  BY <2>2, <2>3
<1>7. ASSUME NEW c \in Clients, HasIid(c)', cpc'[c] # "remove", server_open'
      PROVE  OwnThread(c)'
  <2>1. Iid(c) \in Ids
    BY <1>5, <1>7, IidKnown
  <2> QED  BY <1>1, <1>3, <1>5, <1>6, <1>7, <2>1 DEF OwnThread
<1>8. \A c \in Clients : \A k \in 1 .. Len(sock') :
        sock'[k].op = "RemoveInterrupt" /\ HasIid(c)' /\ Iid(c)' = sock'[k].id => cpc'[c] = "remove"
  BY <1>1, <1>2, <1>4, <1>5, SockTail, SMTT(60) DEF OwnInv
<1>9. \A c, d \in Clients : HasIid(c)' /\ HasIid(d)' /\ Iid(c)' = Iid(d)' => c = d
  BY <1>5 DEF OwnInv
<1> QED  BY <1>7, <1>8, <1>9 DEF OwnInv

(* A new interrupt has a new id, and goes to the call that asked.          *)
LEMMA OwnAdds ==
  ASSUME Shape, EndsInv, OwnInv, UNCHANGED clientVars, NEW t \in LockThreads, AddsInterrupt(t)
  PROVE  OwnInv'
<1>1. UNCHANGED <<cpc, call, sock, server_open>> /\ OneClient
  BY DEF clientVars, AddsInterrupt, EndsInv
<1>2. /\ interrupts \in [Ids -> LockThreads \cup {NoThread}] /\ interrupt_next_id \in Ids /\ interrupt_next_id \in Nat
      /\ threads[t].o \in Oneshots /\ threads[t].pc # "none"
  BY SMTT(60) DEF AddsInterrupt, Shape, DaemonShape, InterruptShape, ThreadShape, Ids
<1>3. /\ Pending(interrupt_next_id) \in Replies /\ Pending(interrupt_next_id).val = interrupt_next_id
      /\ Pending(interrupt_next_id).tag = "Pending"
  BY <1>2, ReplyShapes
<1>4. Heads(threads[t].o, Pending(interrupt_next_id))
  BY <1>2, <1>3, WriteHeads DEF AddsInterrupt
<1>5. \A u \in LockThreads : threads'[u].o = threads[u].o /\ (threads[u].pc = "none" => threads'[u].pc = "none")
  <2>1. threads \in [LockThreads -> [pc : HoldingPcs \cup {"none"}, id : Nat, act : LockTypes, o : Oneshots \cup {0}]]
    BY DEF Shape, DaemonShape, ThreadShape
  <2>2. threads' = [threads EXCEPT ![t] = [threads[t] EXCEPT !.pc = "waitlk"]]
    BY DEF AddsInterrupt
  <2>3. \A u \in LockThreads : u # t => threads'[u] = threads[u]
    BY <2>1, <2>2
  <2>4. threads'[t].o = threads[t].o
    BY <2>1, <2>2
  <2> QED  BY <1>2, <2>3, <2>4
<1>6. \A i \in Ids : interrupts'[i] = IF i = interrupt_next_id THEN t ELSE interrupts[i]
  BY <1>2 DEF AddsInterrupt
<1>7. ASSUME NEW c \in Clients, HasIid(c)'
      PROVE  \/ HasIid(c) /\ Iid(c)' = Iid(c)
             \/ /\ cpc[c] = "SetLkw" /\ call[c].o = threads[t].o /\ Iid(c)' = interrupt_next_id
                /\ cpc[c] \in Waiting
  <2>1. CASE cpc[c] = "SetLkw"
    <3>1. call[c].o \in Oneshots /\ cpc[c] \in Waiting
      BY <2>1, CallShapes DEF Waiting, Detached
    <3>2. HasReply(call[c].o)' /\ NextReply(call[c].o)'.tag = "Pending"
          /\ Iid(c)' = NextReply(call[c].o)'.val
      BY <1>1, <1>7, <2>1 DEF HasIid, Iid, HasReply, NextReply, IidPcs
    <3>3. CASE HasReply(call[c].o) /\ NextReply(call[c].o)' = NextReply(call[c].o)
      BY <2>1, <3>2, <3>3 DEF HasIid, Iid
    <3>4. CASE call[c].o = threads[t].o /\ NextReply(call[c].o)' = Pending(interrupt_next_id)
      BY <1>3, <2>1, <3>1, <3>2, <3>4
    <3>5. HasReply(call[c].o)' <=> oneshot'[call[c].o].q # << >>
      BY <1>1 DEF HasReply
    <3> QED  BY <1>1, <1>4, <3>1, <3>2, <3>3, <3>4, <3>5 DEF Heads, HasReply, NextReply
  <2>2. CASE cpc[c] # "SetLkw"
    BY <1>1, <1>7, <2>2 DEF HasIid, Iid
  <2> QED  BY <2>1, <2>2
<1>8. \A c \in Clients : HasIid(c) => Iid(c) # interrupt_next_id /\ Iid(c) \in Ids
  BY <1>2, IidKnown, SMTT(60) DEF Ids
<1>9. ASSUME NEW c \in Clients, HasIid(c)', cpc'[c] # "remove", server_open'
      PROVE  OwnThread(c)'
  <2>1. CASE HasIid(c) /\ Iid(c)' = Iid(c)
    <3>1. OwnThread(c)
      BY <1>1, <1>9, <2>1 DEF OwnInv
    <3> QED  BY <1>1, <1>5, <1>6, <1>8, <2>1, <3>1 DEF OwnThread
  <2>2. CASE call[c].o = threads[t].o /\ Iid(c)' = interrupt_next_id
    BY <1>1, <1>2, <1>5, <1>6, <2>2 DEF OwnThread
  <2> QED  BY <1>7, <1>9, <2>1, <2>2
<1>10. \A c, d \in Clients : HasIid(c)' /\ HasIid(d)' /\ Iid(c)' = Iid(d)' => c = d
  BY <1>1, <1>7, <1>8, SMTT(60) DEF OwnInv, OneClient
<1>11. \A c \in Clients : \A k \in 1 .. Len(sock') :
        sock'[k].op = "RemoveInterrupt" /\ HasIid(c)' /\ Iid(c)' = sock'[k].id => cpc'[c] = "remove"
  <2>1. \A k \in 1 .. Len(sock) : sock[k].op = "RemoveInterrupt" => sock[k].id < interrupt_next_id
    BY DEF Shape, InterruptIds
  <2> QED  BY <1>1, <1>2, <1>7, <2>1, SMTT(60) DEF OwnInv
<1> QED  BY <1>9, <1>10, <1>11 DEF OwnInv

(* A call removes its own interrupt, as the last thing.                    *)
LEMMA OwnClient ==
  ASSUME Shape, EndsInv, OwnInv, CallStep
  PROVE  OwnInv'
<1>1. UNCHANGED <<interrupts, threads>>
  BY DEF CallStep, daemonVars, interruptVars
<1>2. sock \in Seq(Requests) /\ OneClient /\ \A c \in Clients : cpc[c] \in Waiting => call[c].o \in Oneshots
  BY EndShapes, CallShapes DEF EndsInv
<1>3. ASSUME UNCHANGED server_open,
             \A c \in Clients : HasIid(c)' =>
               /\ HasIid(c) /\ Iid(c)' = Iid(c) /\ call'[c].o = call[c].o
               /\ cpc[c] = "remove" => cpc'[c] = "remove",
             \A k \in 1 .. Len(sock') : sock'[k].op = "RemoveInterrupt" =>
               \/ \E l \in 1 .. Len(sock) : sock'[k] = sock[l]
               \/ \E c \in Clients : HasIid(c) /\ Iid(c) = sock'[k].id /\ cpc'[c] = "remove"
      PROVE  OwnInv'
  <2>1. ASSUME NEW c \in Clients, HasIid(c)', cpc'[c] # "remove", server_open'
        PROVE  OwnThread(c)'
    <3>1. OwnThread(c) /\ Iid(c)' = Iid(c) /\ call'[c].o = call[c].o
      BY <1>3, <2>1 DEF OwnInv
    <3> QED  BY <1>1, <3>1 DEF OwnThread
  <2>2. \A c, d \in Clients : HasIid(c)' /\ HasIid(d)' /\ Iid(c)' = Iid(d)' => c = d
    BY <1>3 DEF OwnInv
  <2>3. \A c \in Clients : \A k \in 1 .. Len(sock') :
          sock'[k].op = "RemoveInterrupt" /\ HasIid(c)' /\ Iid(c)' = sock'[k].id => cpc'[c] = "remove"
    BY <1>3, SMTT(60) DEF OwnInv
  <2> QED  BY <2>1, <2>2, <2>3 DEF OwnInv
<1>4. ASSUME NEW c \in Clients, Elsewhere(c), NEW d \in Clients, d # c, HasIid(d)',
             cpc[d] \in Waiting => oneshot'[call[d].o].q = oneshot[call[d].o].q
      PROVE  HasIid(d) /\ Iid(d)' = Iid(d) /\ call'[d].o = call[d].o /\ cpc'[d] = cpc[d]
  <2>1. cpc'[d] = cpc[d] /\ call'[d] = call[d]
    BY <1>4 DEF Elsewhere
  <2>2. cpc[d] \in IidPcs \cup {"SetLkw"} => cpc[d] \in Waiting
    BY DEF IidPcs, Waiting, Detached
  <2> QED  BY <1>4, <2>1, <2>2 DEF HasIid, Iid, HasReply, NextReply
<1>5. ASSUME NEW req, SendsOn(req)
      PROVE  /\ \A k \in 1 .. Len(sock') : sock'[k] = req \/ \E l \in 1 .. Len(sock) : sock'[k] = sock[l]
             /\ \A d \in Clients : cpc[d] \in Waiting => oneshot'[call[d].o].q = oneshot[call[d].o].q
             /\ oneshot'[req.o].q = << >> /\ UNCHANGED server_open
  <2>1. \A k \in 1 .. Len(sock') : sock'[k] = req \/ \E l \in 1 .. Len(sock) : sock'[k] = sock[l]
    <3>1. req \in Requests /\ sock' = Append(sock, req)
      BY <1>5 DEF SendsOn
    <3>2. \A k \in 1 .. Len(sock') : k \in 1 .. Len(sock) \/ k = Len(sock) + 1
      BY <1>2, <3>1, SockAppend, SMTT(60)
    <3> QED  BY <1>2, <3>1, <3>2, SockAppend
  <2>2. \A d \in Clients : cpc[d] \in Waiting => call[d].o # req.o
    BY <1>2, <1>5, SMTT(60) DEF SendsOn, OneClient, Closed
  <2> QED  BY <1>2, <1>5, <2>1, <2>2 DEF SendsOn
<1>6. CASE UNCHANGED <<channelVars, lockables, cpc, call>>
  BY <1>3, <1>6 DEF channelVars, HasIid, Iid, HasReply, NextReply
<1>7. CASE HangUp
  <2>1. UNCHANGED <<sock, server_open>> /\ \A c \in Clients : ~HasIid(c)'
    BY <1>7 DEF HangUp, HasIid, IidPcs
  <2> QED  BY <1>3, <2>1
<1>8. ASSUME NEW c \in Clients, NEW req, CallSends(c, req)
      PROVE  OwnInv'
  <2>1. SendsOn(req) /\ Elsewhere(c) /\ cpc'[c] = req.op /\ call'[c].o = req.o /\ req.op \in Simple \cup {"SetLkw"}
    BY <1>8 DEF CallSends
  <2>2. ~HasIid(c)' /\ req.op # "RemoveInterrupt"
    BY <1>5, <2>1 DEF HasIid, HasReply, IidPcs, Simple
  <2> QED  BY <1>3, <1>4, <1>5, <2>1, <2>2
<1>9. ASSUME NEW c \in Clients, NEW req, CallNests(c, req)
      PROVE  OwnInv'
  <2>1. SendsOn(req) /\ Elsewhere(c) /\ HasIid(c) /\ Iid(c)' = Iid(c) /\ call'[c].o = call[c].o /\ req.id = Iid(c)
        /\ cpc[c] # "remove" /\ (req.op = "RemoveInterrupt" => cpc'[c] = "remove")
    BY <1>9 DEF CallNests, SameCall, HasIid, Iid, IidPcs
  <2> QED  BY <1>3, <1>4, <1>5, <2>1, SMTT(60)
<1>10. ASSUME NEW c \in Clients, CallWaits(c)
       PROVE  OwnInv'
  <2>1. UNCHANGED <<sock, server_open>> /\ Elsewhere(c) /\ cpc[c] = "SetLkw"
        /\ \A p \in Oneshots : p # call[c].o => oneshot'[p] = oneshot[p]
    BY <1>10 DEF CallWaits
  <2>2. HasIid(c) /\ Iid(c)' = Iid(c) /\ call'[c].o = call[c].o /\ cpc[c] # "remove"
    BY <1>10 DEF CallWaits, SameCall, HasIid, Iid
  <2>3. \A d \in Clients : d # c /\ cpc[d] \in Waiting => oneshot'[call[d].o].q = oneshot[call[d].o].q
    BY <1>2, <2>1 DEF OneClient, Waiting, Detached
  <2> QED  BY <1>3, <1>4, <2>1, <2>2, <2>3
<1>11. ASSUME NEW c \in Clients, CallResumes(c)
       PROVE  OwnInv'
  <2>1. UNCHANGED <<sock, server_open>> /\ Elsewhere(c) /\ cpc[c] \in NestedPcs
        /\ \A p \in Oneshots : p # call[c].nested => oneshot'[p] = oneshot[p]
    BY <1>11 DEF CallResumes, DropsEnd, NestedPcs
  <2>2. HasIid(c)' => HasIid(c) /\ Iid(c)' = Iid(c) /\ call'[c].o = call[c].o /\ cpc[c] # "remove"
    BY <1>11 DEF CallResumes, SameCall, HasIid, Iid, IidPcs
  <2>3. \A d \in Clients : d # c /\ cpc[d] \in Waiting => oneshot'[call[d].o].q = oneshot[call[d].o].q
    BY <1>2, <2>1 DEF OneClient
  <2> QED  BY <1>3, <1>4, <2>1, <2>2, <2>3
<1>12. ASSUME NEW c \in Clients, CallEnds(c)
       PROVE  OwnInv'
  <2>1. UNCHANGED <<sock, server_open>> /\ Elsewhere(c) /\ cpc'[c] \in {"idle", "pre", "refused"}
    BY <1>12 DEF CallEnds, DropsEnd, channelVars
  <2>2. \A d \in Clients : d # c /\ cpc[d] \in Waiting => oneshot'[call[d].o].q = oneshot[call[d].o].q
    BY <1>2, <1>12 DEF CallEnds, DropsEnd, channelVars, OneClient
  <2>3. ~HasIid(c)'
    BY <2>1 DEF HasIid, IidPcs
  <2> QED  BY <1>3, <1>4, <2>1, <2>2, <2>3
<1> QED
  BY <1>6, <1>7, <1>8, <1>9, <1>10, <1>11, <1>12 DEF CallStep

(* It is kept by every step.                                               *)
LEMMA OwnStep ==
  ASSUME Shape, EndsInv, OwnInv, [Next]_vars
  PROVE  OwnInv'
<1>1. CASE ProcessExit /\ UNCHANGED clientVars
  <2>1. UNCHANGED <<cpc, call>> /\ ~server_open' /\ sock' = << >>
        /\ \A o \in Oneshots : oneshot'[o].q = oneshot[o].q
    BY <1>1, EndShapes DEF clientVars, ProcessExit, OneshotStates
  <2>2. \A c \in Clients : cpc[c] \in {"SetLkw"} => call[c].o \in Oneshots
    BY CallShapes DEF Waiting, Detached
  <2>3. \A c \in Clients : HasIid(c)' => HasIid(c) /\ Iid(c)' = Iid(c)
    BY <2>1, <2>2 DEF HasIid, Iid, HasReply, NextReply
  <2> QED  BY <2>1, <2>3, SMTT(60) DEF OwnInv
<1>2. CASE UNCHANGED vars
  <2>1. UNCHANGED <<sock, oneshot, server_open, interrupts, threads, cpc, call>>
    BY <1>2 DEF vars, channelVars, daemonVars, interruptVars, clientVars
  <2>2. \A c \in Clients : (HasIid(c)' <=> HasIid(c)) /\ Iid(c)' = Iid(c)
    BY <2>1 DEF HasIid, Iid, HasReply, NextReply
  <2>3. \A c \in Clients : OwnThread(c) => OwnThread(c)'
    BY <2>1, <2>2 DEF OwnThread
  <2> QED  BY <2>1, <2>2, <2>3 DEF OwnInv
<1>3. ASSUME Next, UNCHANGED clientVars
      PROVE  OwnInv'
  BY <1>1, <1>3, InterruptCases, OwnServer, OwnAdds, CallCases, OwnClient
<1>4. ASSUME Next, ~UNCHANGED clientVars
      PROVE  ClientStep
  BY <1>4, NextCases
<1> QED  BY <1>2, <1>3, <1>4, CallCases, OwnClient

(* An interrupt id that a call was given names its thread and no other's.  *)
THEOREM OwnInvariance == Spec => []OwnInv
<1>1. Init => OwnInv
  BY DEF Init, ChannelsInit, ClientInit, OwnInv, HasIid, IidPcs
<1> QED  BY <1>1, Shapes, EndsInvariance, OwnStep, PTL DEF Spec

(* A signal meant for one blocking lock never interrupts another, however  *)
(* late the Interrupt request is served and whatever threads have ended    *)
(* meanwhile (handle_interrupt_add, handle_interrupt, Interruptable).      *)
THEOREM InterruptsOwn == Spec => []InterruptsOwnCall
<1>1. OwnInv => InterruptsOwnCall
  BY DEF OwnInv, OwnThread, HasIid, Iid, IidPcs, InterruptsOwnCall
<1> QED  BY <1>1, OwnInvariance, PTL

-----------------------------------------------------------------------------
(* A call waits while it has not been answered.                            *)
LEMMA AwaitedKept ==
  ASSUME CallStep, client_open', NEW o, Awaited(o), ~Readable(o)
  PROVE  Awaited(o)'
<1>1. PICK c \in Clients : cpc[c] = "SetLkw" /\ call[c].o = o
  BY DEF Awaited
<1>2. ASSUME NEW d \in Clients, d # c, Elsewhere(d)
      PROVE  Awaited(o)'
  BY <1>1, <1>2 DEF Elsewhere, Awaited
<1>3. CASE UNCHANGED <<channelVars, lockables, cpc, call>>
  BY <1>1, <1>3 DEF Awaited
<1>4. CASE HangUp
  BY <1>4 DEF HangUp
<1>5. ASSUME NEW d \in Clients, NEW req, CallSends(d, req)
      PROVE  Awaited(o)'
  BY <1>1, <1>2, <1>5 DEF CallSends
<1>6. ASSUME NEW d \in Clients, NEW req, CallNests(d, req)
      PROVE  Awaited(o)'
  BY <1>1, <1>2, <1>6 DEF CallNests
<1>7. ASSUME NEW d \in Clients, CallEnds(d)
      PROVE  Awaited(o)'
  BY <1>1, <1>2, <1>7 DEF CallEnds
<1>8. ASSUME NEW d \in Clients, CallWaits(d)
      PROVE  Awaited(o)'
  BY <1>1, <1>2, <1>8 DEF CallWaits, Readable
<1>9. ASSUME NEW d \in Clients, CallResumes(d)
      PROVE  Awaited(o)'
  BY <1>1, <1>2, <1>9 DEF CallResumes
<1> QED
  BY <1>3, <1>4, <1>5, <1>6, <1>7, <1>8, <1>9 DEF CallStep

(* What the server has not answered cannot be read.                        *)
LEMMA NotReadable ==
  ASSUME EndsInv, ReplyInv
  PROVE  /\ \A k \in 1 .. Len(sock) : ~Readable(sock[k].o)
         /\ loop.pc = "cmd" => ~Readable(loop.req.o)
         /\ \A t \in LockThreads : threads[t].pc \in EarlyPcs => ~Readable(threads[t].o)
BY DEF EndsInv, ServerOpen, ReplyInv, Unanswered, Readable, HasReply, AtEof, EarlyPcs

(* A call that has no answer stays.                                        *)
LEMMA AwaitedClient ==
  ASSUME Shape, EndsInv, ReplyInv, AwaitedInv, CallStep
  PROVE  AwaitedInv'
<1>1. UNCHANGED <<loop, threads>> /\ sock \in Seq(Requests)
  BY EndShapes DEF CallStep, daemonVars
<1>2. SUFFICES ASSUME client_open'
               PROVE  AwaitedInv'
  BY DEF AwaitedInv
<1>3. client_open
  BY <1>2 DEF CallStep, channelVars, HangUp, CallSends, CallNests, CallEnds, CallWaits, CallResumes,
     SendsOn, DropsEnd
<1>4. loop.pc = "cmd" /\ loop.req.op = "SetLkw" => Awaited(loop.req.o)'
  BY <1>1, <1>2, <1>3, AwaitedKept, NotReadable DEF AwaitedInv, Awaited
<1>5. \A t \in LockThreads : threads[t].pc \in {"starting", "trylk"} => Awaited(threads[t].o)'
  BY <1>1, <1>2, <1>3, AwaitedKept, NotReadable DEF AwaitedInv, EarlyPcs, Awaited
<1>6. \A k \in 1 .. Len(sock) : sock[k].op = "SetLkw" => \E c \in Clients : cpc'[c] = "SetLkw" /\ call'[c].o = sock[k].o
  BY <1>2, <1>3, AwaitedKept, NotReadable DEF AwaitedInv, Awaited
<1>7. ASSUME NEW k \in 1 .. Len(sock'), sock'[k].op = "SetLkw"
      PROVE  \/ \E l \in 1 .. Len(sock) : sock'[k] = sock[l]
             \/ \E c \in Clients : cpc'[c] = "SetLkw" /\ call'[c].o = sock'[k].o
  <2>1. CASE UNCHANGED sock
    BY <1>7, <2>1
  <2>2. ASSUME NEW req, SendsOn(req)
        PROVE  sock'[k] = req \/ \E l \in 1 .. Len(sock) : sock'[k] = sock[l]
    <3>1. req \in Requests /\ sock' = Append(sock, req)
      BY <2>2 DEF SendsOn
    <3>2. k \in 1 .. Len(sock) \/ k = Len(sock) + 1
      BY <1>1, <1>7, <3>1, SockAppend, SMTT(60)
    <3> QED  BY <1>1, <3>1, <3>2, SockAppend
  <2>3. ASSUME NEW c \in Clients, NEW req, CallSends(c, req)
        PROVE  \/ \E l \in 1 .. Len(sock) : sock'[k] = sock[l]
               \/ cpc'[c] = "SetLkw" /\ call'[c].o = sock'[k].o
    BY <1>7, <2>2, <2>3 DEF CallSends
  <2>4. ASSUME NEW c \in Clients, NEW req, CallNests(c, req)
        PROVE  \E l \in 1 .. Len(sock) : sock'[k] = sock[l]
    BY <1>7, <2>2, <2>4 DEF CallNests
  <2> QED
    BY <2>1, <2>3, <2>4 DEF CallStep, channelVars, HangUp, CallEnds, CallWaits, CallResumes, DropsEnd
<1>8. \A k \in 1 .. Len(sock') : sock'[k].op = "SetLkw" => Awaited(sock[k].o)'
  BY <1>6, <1>7, SMTT(60) DEF Awaited
<1> QED  BY <1>1, <1>4, <1>5, <1>8 DEF AwaitedInv

(* The request is handed from socket to loop to thread.                    *)
LEMMA AwaitedServer ==
  ASSUME Shape, AwaitedInv, ServerStep
  PROVE  AwaitedInv'
<1>1. UNCHANGED <<cpc, call>> /\ \A o : Awaited(o)' <=> Awaited(o)
  BY DEF ServerStep, clientVars, Awaited
<1>2. sock \in Seq(Requests)
  BY EndShapes
<1>3. LoopShape /\ ThreadShape
  BY DEF Shape, DaemonShape
<1>4. ASSUME sock' = sock \/ (sock # << >> /\ sock' = Tail(sock)), UNCHANGED client_open,
             loop' = loop \/ ~(loop'.pc = "cmd" /\ loop'.req.op = "SetLkw" /\ client_open) \/ Awaited(loop'.req.o),
             \A t \in LockThreads : threads'[t].pc \in {"starting", "trylk"} =>
               \/ threads[t].pc \in {"starting", "trylk"} /\ threads'[t].o = threads[t].o
               \/ ~client_open \/ Awaited(threads'[t].o)
      PROVE  AwaitedInv'
  <2>1. \A k \in 1 .. Len(sock') : \E l \in 1 .. Len(sock) : sock'[k] = sock[l]
    BY <1>2, <1>4, SockTail
  <2>2. SUFFICES ASSUME client_open
                 PROVE  /\ \A k \in 1 .. Len(sock') : sock'[k].op = "SetLkw" => Awaited(sock'[k].o)
                        /\ loop'.pc = "cmd" /\ loop'.req.op = "SetLkw" => Awaited(loop'.req.o)
                        /\ \A t \in LockThreads : threads'[t].pc \in {"starting", "trylk"} => Awaited(threads'[t].o)
    BY <1>1, <1>4 DEF AwaitedInv, Awaited
  <2>3. \A k \in 1 .. Len(sock') : sock'[k].op = "SetLkw" => Awaited(sock'[k].o)
    BY <2>1, <2>2 DEF AwaitedInv
  <2>4. loop'.pc = "cmd" /\ loop'.req.op = "SetLkw" => Awaited(loop'.req.o)
    BY <1>4, <2>2 DEF AwaitedInv
  <2>5. \A t \in LockThreads : threads'[t].pc \in {"starting", "trylk"} => Awaited(threads'[t].o)
    BY <1>4, <2>2 DEF AwaitedInv
  <2> QED  BY <2>3, <2>4, <2>5
<1>5. ASSUME NEW r, SockAnswers(r)
      PROVE  AwaitedInv'
  BY <1>4, <1>5 DEF SockAnswers
<1>6. ASSUME NEW op, SockToJob(op)
      PROVE  AwaitedInv'
  BY <1>4, <1>6 DEF SockToJob
<1>7. CASE SockToLoop
  <2>1. loop'.req = Head(sock) /\ Head(sock) = sock[1] /\ 1 \in 1 .. Len(sock)
    BY <1>2, <1>3, <1>7, SockTail DEF SockToLoop, LoopShape
  <2>2. ~(loop'.pc = "cmd" /\ loop'.req.op = "SetLkw" /\ client_open) \/ Awaited(loop'.req.o)
    BY <2>1 DEF AwaitedInv
  <2> QED  BY <1>4, <1>7, <2>2 DEF SockToLoop
<1>8. ASSUME NEW r, LoopAnswers(r)
      PROVE  AwaitedInv'
  BY <1>4, <1>8 DEF LoopAnswers, AtRecv
<1>9. ASSUME NEW t \in LockThreads, LoopToThread(t)
      PROVE  AwaitedInv'
  <2>1. loop'.pc = "spawn"
    BY <1>3, <1>9 DEF LoopToThread, LoopShape
  <2>2. threads'[t].o = loop.req.o /\ \A u \in LockThreads : u # t => threads'[u] = threads[u]
    BY <1>3, <1>9 DEF LoopToThread, ThreadShape
  <2>3. client_open => Awaited(loop.req.o)
    BY <1>9 DEF LoopToThread, AwaitedInv
  <2> QED  BY <1>4, <1>9, <2>1, <2>2, <2>3 DEF LoopToThread, channelVars
<1>10. ASSUME NEW t \in LockThreads, NEW to, threads' = [threads EXCEPT ![t] = [threads[t] EXCEPT !.pc = to]]
       PROVE  /\ threads'[t].o = threads[t].o /\ threads'[t].pc = to
              /\ \A u \in LockThreads : u # t => threads'[u] = threads[u]
  BY <1>3, <1>10 DEF ThreadShape
<1>11. ASSUME NEW t \in LockThreads, NEW to, ThreadStarts(t, to)
       PROVE  AwaitedInv'
  BY <1>4, <1>10, <1>11 DEF ThreadStarts, channelVars
<1>12. ASSUME NEW t \in LockThreads, NEW to, NEW r, ThreadReplies(t, to, r)
       PROVE  AwaitedInv'
  BY <1>4, <1>10, <1>12 DEF ThreadReplies
<1>13. ASSUME NEW t \in LockThreads, ThreadEnds(t)
       PROVE  AwaitedInv'
  <2>1. threads'[t].pc = "none" /\ \A u \in LockThreads : u # t => threads'[u] = threads[u]
    BY <1>3, <1>13 DEF ThreadEnds, ThreadShape, Idle
  <2> QED  BY <1>4, <1>13, <2>1 DEF ThreadEnds
<1>14. ASSUME NEW j, NEW k, JobMoves(j, k)
       PROVE  AwaitedInv'
  BY <1>4, <1>14 DEF JobMoves, channelVars
<1>15. ASSUME NEW j, NEW tag, JobAnswers(j, tag)
       PROVE  AwaitedInv'
  BY <1>4, <1>15 DEF JobAnswers
<1>16. CASE Quiet
  BY <1>4, <1>16 DEF Quiet, channelVars
<1> QED
  BY <1>5, <1>6, <1>7, <1>8, <1>9, <1>11, <1>12, <1>13, <1>14, <1>15, <1>16 DEF ServerStep

(* The invariant behind "a thread is told to wait while its call waits".   *)
LEMMA AwaitedStep ==
  ASSUME Shape, EndsInv, ReplyInv, AwaitedInv, [Next]_vars
  PROVE  AwaitedInv'
<1>1. CASE ProcessExit /\ UNCHANGED clientVars
  <2>1. sock' = << >> /\ loop'.pc = "recv" /\ \A t \in LockThreads : threads'[t].pc = "none"
    BY <1>1 DEF ProcessExit, AtRecv, Idle
  <2> QED  BY <2>1, SMTT(60) DEF AwaitedInv
<1>2. CASE UNCHANGED vars
  BY <1>2 DEF vars, channelVars, daemonVars, clientVars, AwaitedInv, Awaited
<1>3. ASSUME Next
      PROVE  AwaitedInv'
  BY <1>1, <1>3, ServerCases, AwaitedServer, CallCases, AwaitedClient
<1> QED  BY <1>2, <1>3

(* Whatever the process may yet tell to wait has a call that waits for it. *)
THEOREM AwaitedInvariance == Spec => []AwaitedInv
<1>1. Init => AwaitedInv
  BY SMTT(60) DEF Init, ChannelsInit, DaemonInit, AtRecv, Idle, AwaitedInv
<1> QED  BY <1>1, Shapes, EndsInvariance, ReplyInvariance, AwaitedStep, PTL DEF Spec

-----------------------------------------------------------------------------
(* A step of the process that adds no interrupt takes none from its call.  *)
LEMMA OwnsServer ==
  ASSUME Shape, ReplyInv, UNCHANGED clientVars, ~Discard, LoopRemoveInterrupt \/ NoInterrupts,
         NEW c \in Clients, NEW i \in Ids, Owns(c, i), interrupts'[i] # NoThread
  PROVE  Owns(c, i)'
<1>1. UNCHANGED <<cpc, call>>
  BY DEF clientVars
<1>2. sock \in Seq(Requests) /\ interrupts \in [Ids -> LockThreads \cup {NoThread}]
  BY EndShapes DEF Shape, DaemonShape, InterruptShape
<1>3. NoNewPending
  <2>1. ASSUME LoopRemoveInterrupt
        PROVE  NoNewPending
    <3>1. UNCHANGED threads /\ LoopStep
      BY <2>1 DEF LoopRemoveInterrupt, LoopStep
    <3> QED  BY <3>1, ServerLoop, ServerPending
  <2> QED  BY <2>1 DEF NoInterrupts
<1>4. CASE cpc[c] = "SetLkw" /\ HasReply(call[c].o) /\ NextReply(call[c].o) = Pending(i)
  <2>1. call[c].o \in Oneshots
    BY <1>4, CallShapes DEF Waiting, Detached
  <2>2. oneshot'[call[c].o].q # << >> /\ Head(oneshot'[call[c].o].q) = Pending(i)
    BY <1>3, <1>4, <2>1 DEF NoNewPending, HasReply, NextReply
  <2> QED  BY <1>1, <1>4, <2>2 DEF Owns, HasReply, NextReply, Pending, R
<1>5. CASE cpc[c] \in IidPcs \ {"remove"} /\ call[c].iid = i
  BY <1>1, <1>5 DEF Owns
<1>6. ASSUME cpc[c] = "remove", call[c].iid = i, NEW k \in 1 .. Len(sock),
             sock[k].op = "RemoveInterrupt", sock[k].o = call[c].nested
      PROVE  Owns(c, i)'
  <2>1. ASSUME NEW l \in 1 .. Len(sock'), sock'[l] = sock[k]
        PROVE  Owns(c, i)'
    BY <1>1, <1>6, <2>1 DEF Owns
  <2>2. CASE sock' = sock
    BY <2>1, <2>2
  <2>3. CASE sock # << >> /\ sock' = Tail(sock) /\ k # 1
    <3>1. k - 1 \in 1 .. Len(sock') /\ sock'[k - 1] = sock[k]
      BY <1>2, <2>3, SockTail, SMTT(60)
    <3> QED  BY <2>1, <3>1
  <2>4. CASE NoInterrupts /\ sock' # sock
    BY <1>2, <1>6, <2>3, <2>4, SockTail DEF NoInterrupts
  <2>5. CASE LoopRemoveInterrupt
    <3>1. sock # << >> /\ sock' = Tail(sock) /\ interrupts' = [interrupts EXCEPT ![Head(sock).id] = NoThread]
      BY <2>5 DEF LoopRemoveInterrupt, Receive
    <3>2. k = 1 => Head(sock).id = i
      BY <1>2, <1>6, <3>1, SockTail, SMTT(60) DEF ReplyInv, NestedMatch, NestedPcs, MatchNested
    <3> QED  BY <1>2, <2>3, <3>1, <3>2
  <2> QED  BY <2>2, <2>4, <2>5
<1> QED  BY <1>4, <1>5, <1>6 DEF Owns

(* The call that is told to wait owns the interrupt from then on.          *)
LEMMA OwnsAdds ==
  ASSUME Shape, EndsInv, ReplyInv, AwaitedInv, LeakInv, UNCHANGED clientVars, client_open,
         NEW t \in LockThreads, AddsInterrupt(t)
  PROVE  LeakInv'
<1>1. UNCHANGED <<cpc, call, sock, client_open, server_open>> /\ server_open
  BY DEF clientVars, AddsInterrupt
<1>2. /\ interrupts \in [Ids -> LockThreads \cup {NoThread}] /\ interrupt_next_id \in Ids /\ interrupt_next_id \in Nat
      /\ threads[t].o \in Oneshots /\ threads[t].pc = "trylk"
  BY SMTT(60) DEF AddsInterrupt, Shape, DaemonShape, InterruptShape, ThreadShape, Ids
<1>3. Pending(interrupt_next_id) \in Replies
  BY <1>2, ReplyShapes
<1>4. Heads(threads[t].o, Pending(interrupt_next_id))
  BY <1>2, <1>3, WriteHeads DEF AddsInterrupt
<1>5. ASSUME NEW c \in Clients, NEW i, cpc[c] = "SetLkw",
             oneshot'[call[c].o].q # << >>, Head(oneshot'[call[c].o].q) = Pending(i)
      PROVE  Owns(c, i)'
  BY <1>1, <1>5 DEF Owns, HasReply, NextReply, Pending, R
<1>6. ASSUME NEW i \in Ids, NEW c \in Clients, Owns(c, i)
      PROVE  Owns(c, i)'
  <2>1. CASE cpc[c] = "SetLkw"
    <3>1. call[c].o \in Oneshots /\ HasReply(call[c].o) /\ NextReply(call[c].o) = Pending(i)
      BY <1>6, <2>1, CallShapes DEF Owns, Waiting, Detached, IidPcs
    <3> QED  BY <1>4, <1>5, <2>1, <3>1 DEF Heads, HasReply, NextReply
  <2>2. CASE cpc[c] # "SetLkw"
    BY <1>1, <1>6, <2>2 DEF Owns
  <2> QED  BY <2>1, <2>2
<1>7. \E c \in Clients : \A i : i = interrupt_next_id => Owns(c, i)'
  <2>1. PICK c \in Clients : cpc[c] = "SetLkw" /\ call[c].o = threads[t].o
    BY <1>2 DEF AwaitedInv, Awaited
  <2>2. oneshot[call[c].o].rx /\ oneshot[call[c].o].q = << >> /\ oneshot \in [Oneshots -> OneshotStates]
    BY <1>2, <2>1, EndShapes DEF EndsInv, OneClient, ReplyInv, Unanswered, EarlyPcs, Waiting, Detached
  <2>3. oneshot'[call[c].o].q = Append(oneshot[call[c].o].q, Pending(interrupt_next_id))
    <3>1. oneshot' = Replied(threads[t].o, Pending(interrupt_next_id))
      BY DEF AddsInterrupt
    <3>2. Replied(threads[t].o, Pending(interrupt_next_id))[threads[t].o].q
            = IF oneshot[threads[t].o].rx THEN Append(oneshot[threads[t].o].q, Pending(interrupt_next_id))
              ELSE oneshot[threads[t].o].q
      BY <1>2, <1>3, <2>2, RepliedOneshot
    <3> QED  BY <2>1, <2>2, <3>1, <3>2
  <2>4. oneshot'[call[c].o].q # << >> /\ Head(oneshot'[call[c].o].q) = Pending(interrupt_next_id)
    <3>1. \A q \in Seq(Replies), r \in Replies : q = << >> => Append(q, r) # << >> /\ Head(Append(q, r)) = r
      BY SMTT(60)
    <3>2. oneshot[call[c].o].q \in Seq(Replies)
      BY <1>2, <2>1, <2>2 DEF OneshotStates
    <3> QED  BY <1>3, <2>2, <2>3, <3>1, <3>2
  <2> QED  BY <1>5, <2>1, <2>4
<1>8. \A i \in Ids : i # interrupt_next_id => interrupts'[i] = interrupts[i]
  BY <1>2 DEF AddsInterrupt
<1>9. ASSUME NEW i \in Ids, interrupts'[i] # NoThread
      PROVE  \E c \in Clients : Owns(c, i)'
  BY <1>6, <1>7, <1>8, <1>9 DEF LeakInv
<1> QED  BY <1>1, <1>9 DEF LeakInv

(* A call removes its interrupt before it ends, and does not take the      *)
(* removal for done before the process has read the request.               *)
LEMMA OwnsClient ==
  ASSUME Shape, EndsInv, ReplyInv, LeakInv, CallStep, client_open', server_open,
         NEW i \in Ids, NEW c \in Clients, Owns(c, i)
  PROVE  Owns(c, i)'
<1>1. sock \in Seq(Requests) /\ OneClient /\ \A d \in Clients : cpc[d] \in Waiting => call[d].o \in Oneshots
  BY EndShapes, CallShapes DEF EndsInv
<1>2. cpc[c] \in Waiting /\ cpc[c] \in IidPcs \cup {"SetLkw"}
  BY DEF Owns, IidPcs, Waiting, Detached
<1>3. ASSUME cpc'[c] = cpc[c], call'[c] = call[c], oneshot'[call[c].o].q = oneshot[call[c].o].q,
             \A k \in 1 .. Len(sock) : k \in 1 .. Len(sock') /\ sock'[k] = sock[k]
      PROVE  Owns(c, i)'
  <2>1. CASE cpc[c] = "SetLkw"
    BY <1>3, <2>1 DEF Owns, HasReply, NextReply, IidPcs, Pending, R
  <2>2. CASE cpc[c] # "SetLkw"
    BY <1>3, <2>2 DEF Owns
  <2> QED  BY <2>1, <2>2
<1>4. ASSUME cpc'[c] \in IidPcs \ {"remove"}, call'[c].iid = i
      PROVE  Owns(c, i)'
  BY <1>4 DEF Owns
<1>5. ASSUME NEW req, SendsOn(req)
      PROVE  /\ \A k \in 1 .. Len(sock) : k \in 1 .. Len(sock') /\ sock'[k] = sock[k]
             /\ Len(sock) + 1 \in 1 .. Len(sock') /\ sock'[Len(sock) + 1] = req
             /\ oneshot'[call[c].o].q = oneshot[call[c].o].q
  <2>1. req \in Requests /\ sock' = Append(sock, req)
    BY <1>5 DEF SendsOn
  <2>2. call[c].o # req.o
    BY <1>1, <1>2, <1>5, SMTT(60) DEF SendsOn, OneClient, Closed
  <2> QED  BY <1>1, <1>2, <1>5, <2>1, <2>2, SockAppend, SMTT(60) DEF SendsOn
<1>6. CASE UNCHANGED <<channelVars, lockables, cpc, call>>
  BY <1>3, <1>6 DEF channelVars
<1>7. CASE HangUp
  BY <1>7 DEF HangUp
<1>8. ASSUME NEW d \in Clients, NEW req, CallSends(d, req)
      PROVE  Owns(c, i)'
  <2>1. d # c
    BY <1>2, <1>8 DEF CallSends, IidPcs
  <2> QED  BY <1>3, <1>5, <1>8, <2>1 DEF CallSends, Elsewhere
<1>9. ASSUME NEW d \in Clients, NEW req, CallNests(d, req)
      PROVE  Owns(c, i)'
  <2>1. CASE d # c
    BY <1>3, <1>5, <1>9, <2>1 DEF CallNests, Elsewhere
  <2>2. CASE d = c
    <3>1. call'[c].iid = i /\ call'[c].nested = req.o
      BY <1>9, <2>2 DEF CallNests, Owns
    <3>2. CASE cpc'[c] = "interrupt"
      BY <1>4, <3>1, <3>2 DEF IidPcs
    <3>3. CASE cpc'[c] = "remove" /\ req.op = "RemoveInterrupt"
      <4>1. \E k \in 1 .. Len(sock') : sock'[k].op = "RemoveInterrupt" /\ sock'[k].o = call'[c].nested
        BY <1>5, <1>9, <3>1, <3>3 DEF CallNests
      <4> QED  BY <3>1, <3>3, <4>1 DEF Owns
    <3> QED  BY <1>9, <2>2, <3>2, <3>3 DEF CallNests
  <2> QED  BY <2>1, <2>2
<1>10. ASSUME NEW d \in Clients, CallWaits(d)
       PROVE  Owns(c, i)'
  <2>1. CASE d # c
    <3>1. call[c].o # call[d].o
      BY <1>1, <1>2, <1>10, <2>1 DEF CallWaits, OneClient, Waiting, Detached
    <3> QED  BY <1>1, <1>2, <1>3, <1>10, <2>1, <3>1 DEF CallWaits, Elsewhere
  <2>2. CASE d = c
    <3>1. i \in Nat
      BY SMTT(60) DEF Ids
    <3>2. NextReply(call[c].o) = Pending(i)
      BY <1>10, <2>2 DEF CallWaits, Owns, IidPcs
    <3> QED  BY <1>4, <1>10, <2>2, <3>1, <3>2, ReplyShapes, SMTT(60) DEF CallWaits, IidPcs
  <2> QED  BY <2>1, <2>2
<1>11. ASSUME NEW d \in Clients, CallResumes(d)
       PROVE  Owns(c, i)'
  <2>1. CASE d # c
    <3>1. call[c].o # call[d].nested
      BY <1>1, <1>2, <1>11, <2>1 DEF CallResumes, OneClient, NestedPcs
    <3> QED  BY <1>1, <1>2, <1>3, <1>11, <2>1, <3>1 DEF CallResumes, Elsewhere, DropsEnd
  <2>2. CASE d = c
    <3>1. cpc[c] # "remove"
      BY <1>11, <2>2, NotReadable DEF CallResumes, Owns
    <3> QED  BY <1>4, <1>11, <2>2, <3>1 DEF CallResumes, Owns, IidPcs
  <2> QED  BY <2>1, <2>2
<1>12. ASSUME NEW d \in Clients, CallEnds(d)
       PROVE  Owns(c, i)'
  <2>1. d # c
    <3>1. CASE cpc[c] = "SetLkw"
      <4>1. HasReply(call[c].o) /\ NextReply(call[c].o).tag = "Pending"
        BY <3>1, ReplyShapes, SMTT(60) DEF Owns, IidPcs, Ids
      <4> QED  BY <1>12, <3>1, <4>1 DEF CallEnds, Outcome, AtEof, HasReply
    <3> QED  BY <1>2, <1>12, <3>1 DEF CallEnds
  <2>2. CASE UNCHANGED channelVars
    BY <1>3, <1>12, <2>1, <2>2 DEF CallEnds, Elsewhere, channelVars
  <2>3. CASE cpc[d] \in Waiting /\ DropsEnd(call[d].o)
    <3>1. call[c].o # call[d].o
      BY <1>1, <1>2, <2>1, <2>3 DEF OneClient
    <3> QED  BY <1>1, <1>2, <1>3, <1>12, <2>1, <2>3, <3>1 DEF CallEnds, Elsewhere, DropsEnd
  <2> QED  BY <1>12, <2>2, <2>3 DEF CallEnds
<1> QED
  BY <1>6, <1>7, <1>8, <1>9, <1>10, <1>11, <1>12 DEF CallStep

(* Nothing but a request that the process could not take in loses an       *)
(* interrupt.                                                              *)
LEMMA LeakStep ==
  ASSUME Shape, EndsInv, ReplyInv, AwaitedInv, LeakInv, ~Discard, [Next]_vars
  PROVE  LeakInv'
<1>1. interrupts \in [Ids -> LockThreads \cup {NoThread}]
  BY DEF Shape, DaemonShape, InterruptShape
<1>2. CASE UNCHANGED vars
  BY <1>2, SMTT(60) DEF vars, channelVars, daemonVars, interruptVars, clientVars, LeakInv, Owns, HasReply, NextReply,
              Pending, R
<1>3. ASSUME LoopRemoveInterrupt \/ NoInterrupts, UNCHANGED clientVars
      PROVE  LeakInv'
  <2>1. UNCHANGED <<client_open, server_open>>
    BY <1>3 DEF LoopRemoveInterrupt, Receive, NoInterrupts
  <2>2. \A i \in Ids : interrupts'[i] # NoThread => interrupts[i] # NoThread
    BY <1>1, <1>3 DEF LoopRemoveInterrupt, NoInterrupts, interruptVars
  <2> QED  BY <1>3, <2>1, <2>2, OwnsServer DEF LeakInv
<1>4. ASSUME NEW t \in LockThreads, AddsInterrupt(t), UNCHANGED clientVars
      PROVE  LeakInv'
  <2>1. CASE client_open
    BY <1>4, <2>1, OwnsAdds
  <2>2. CASE ~client_open
    BY <1>4, <2>2 DEF AddsInterrupt, LeakInv
  <2> QED  BY <2>1, <2>2
<1>5. CASE ProcessExit
  BY <1>5 DEF ProcessExit, LeakInv
<1>6. CASE CallStep
  <2>1. UNCHANGED <<interrupts, server_open>>
    BY <1>6 DEF CallStep, daemonVars, interruptVars, channelVars, HangUp, CallSends, CallNests, CallEnds,
       CallWaits, CallResumes, SendsOn, DropsEnd
  <2>2. client_open' => client_open
    BY <1>6 DEF CallStep, channelVars, HangUp, CallSends, CallNests, CallEnds, CallWaits, CallResumes,
       SendsOn, DropsEnd
  <2>3. CASE server_open
    BY <1>6, <2>1, <2>2, <2>3, OwnsClient DEF LeakInv
  <2>4. CASE ~server_open
    BY <2>1, <2>4 DEF LeakInv
  <2> QED  BY <2>3, <2>4
<1>7. ASSUME Next, UNCHANGED clientVars
      PROVE  LeakInv'
  BY <1>3, <1>4, <1>5, <1>6, <1>7, InterruptCases, CallCases
<1>8. ASSUME Next, ~UNCHANGED clientVars
      PROVE  LeakInv'
  BY <1>6, <1>8, NextCases, CallCases
<1> QED  BY <1>2, <1>7, <1>8

-----------------------------------------------------------------------------
(* The process may have every descriptor and every reply open at a time.   *)
EnoughDescriptors == FdLimit > MaxIds + MaxOneshots

(* Sets that share no element fit together in a finite set.                *)
LEMMA DisjointFit ==
  ASSUME NEW S, IsFiniteSet(S), NEW A, NEW B, A \subseteq S, B \subseteq S, A \cap B = {}
  PROVE  /\ IsFiniteSet(A) /\ IsFiniteSet(B) /\ IsFiniteSet(A \cup B) /\ A \cup B \subseteq S
         /\ Cardinality(A) \in Nat /\ Cardinality(B) \in Nat
         /\ Cardinality(A \cup B) = Cardinality(A) + Cardinality(B)
         /\ Cardinality(A) + Cardinality(B) <= Cardinality(S)
<1>1. IsFiniteSet(A) /\ IsFiniteSet(B) /\ A \cup B \subseteq S
  BY FS_Subset
<1>2. Cardinality(A) \in Nat /\ Cardinality(B) \in Nat /\ Cardinality(S) \in Nat
  BY <1>1, FS_CardinalityType
<1>3. Cardinality({}) = 0
  BY FS_EmptySet
<1>4. IsFiniteSet(A \cup B) /\ Cardinality(A \cup B) = Cardinality(A) + Cardinality(B) - Cardinality({})
  BY <1>1, FS_Union
<1>5. Cardinality(A \cup B) <= Cardinality(S)
  BY <1>1, FS_Subset
<1> QED  BY <1>1, <1>2, <1>3, <1>4, <1>5, SMTT(60)

(* Every reply that the process has open comes with a oneshot of its own.  *)
LEMMA FdsFit ==
  ASSUME Shape, EndsInv, sock # << >>
  PROVE  OpenFds \in Nat /\ OpenFds < MaxIds + MaxOneshots
<1> DEFINE busy == {t \in LockThreads : threads[t].pc # "none"}
           JO == {j.o : j \in jobs}
           TO == {threads[t].o : t \in busy}
           LO == IF loop.pc = "cmd" THEN {loop.req.o} ELSE {}
           SO == {Head(sock).o}
<1>1. MaxIds \in Nat /\ MaxOneshots \in Nat
  BY DaemonAssumption, ChannelsAssumption
<1>2. IsFiniteSet(Oneshots) /\ Cardinality(Oneshots) = MaxOneshots
  BY <1>1, FS_Interval, SMTT(60) DEF Oneshots
<1>3. IsFiniteSet(Ids) /\ Cardinality(Ids) = MaxIds
  BY <1>1, FS_Interval, SMTT(60) DEF Ids
<1>4. JO \subseteq Oneshots /\ TO \subseteq Oneshots /\ LO \subseteq Oneshots /\ SO \subseteq Oneshots
  <2>1. sock[1] = Head(sock) /\ 1 \in 1 .. Len(sock)
    BY EndShapes, SockTail
  <2> QED  BY <2>1, EndShapes
<1>5. /\ JO \cap TO = {} /\ (JO \cup TO) \cap LO = {}
      /\ ((JO \cup TO) \cup LO) \cap SO = {}
  <2>1. sock[1] = Head(sock) /\ 1 \in 1 .. Len(sock)
    BY EndShapes, SockTail
  <2>2. ~InJobs(Head(sock).o) /\ ~InThreads(Head(sock).o) /\ ~InLoop(Head(sock).o)
    BY <2>1 DEF EndsInv, OneServer
  <2>3. loop.pc = "cmd" => ~InJobs(loop.req.o) /\ ~InThreads(loop.req.o)
    BY DEF EndsInv, OneServer
  <2>4. \A t \in busy : ~InJobs(threads[t].o)
    BY DEF EndsInv, OneServer
  <2> QED  BY <2>2, <2>3, <2>4 DEF InJobs, InThreads, InLoop
<1>6. IsFiniteSet(jobs) /\ Cardinality(jobs) <= Cardinality(JO)
  <2> DEFINE f == [j \in jobs |-> j.o]
  <2>1. f \in Injection(jobs, JO)
    BY DEF EndsInv, OneServer, Injection, IsInjective
  <2>2. IsFiniteSet(JO)
    BY <1>2, <1>4, FS_Subset
  <2> HIDE DEF f, JO
  <2> QED  BY <2>1, <2>2, FS_Injection
<1>7. IsFiniteSet(busy) /\ Cardinality(busy) <= Cardinality(TO)
  <2> DEFINE f == [t \in busy |-> threads[t].o]
  <2>1. f \in Injection(busy, TO)
    BY DEF EndsInv, OneServer, Injection, IsInjective
  <2>2. IsFiniteSet(TO)
    BY <1>2, <1>4, FS_Subset
  <2> HIDE DEF f, TO, busy
  <2> QED  BY <2>1, <2>2, FS_Injection
<1>8. Cardinality(LO) = IF loop.pc = "cmd" THEN 1 ELSE 0
  BY FS_EmptySet, FS_Singleton
<1>9. Cardinality(SO) = 1
  BY FS_Singleton
<1>10. Cardinality({id \in Ids : FdExists(id)}) \in Nat /\ Cardinality({id \in Ids : FdExists(id)}) <= MaxIds
  <2>1. {id \in Ids : FdExists(id)} \in SUBSET Ids
    OBVIOUS
  <2> QED  BY <1>3, <2>1, FS_Subset, FS_CardinalityType
<1>11. Cardinality(jobs) \in Nat /\ Cardinality(busy) \in Nat
  BY <1>6, <1>7, FS_CardinalityType
<1>12. OpenFds = Cardinality({id \in Ids : FdExists(id)}) + Cardinality(jobs) + Cardinality(busy) + Cardinality(LO)
  BY <1>8 DEF OpenFds
<1> HIDE DEF JO, TO, LO, SO, busy
<1>13. Cardinality(JO) + Cardinality(TO) + Cardinality(LO) + Cardinality(SO) <= MaxOneshots
       /\ Cardinality(JO) \in Nat /\ Cardinality(TO) \in Nat /\ Cardinality(LO) \in Nat
  <2>1. PICK two : two = JO \cup TO
    OBVIOUS
  <2>2. PICK three : three = two \cup LO
    OBVIOUS
  <2>3. Cardinality(two) = Cardinality(JO) + Cardinality(TO) /\ two \subseteq Oneshots
        /\ Cardinality(JO) \in Nat /\ Cardinality(TO) \in Nat
    <3>1. /\ JO \cup TO \subseteq Oneshots /\ Cardinality(JO) \in Nat /\ Cardinality(TO) \in Nat
          /\ Cardinality(JO \cup TO) = Cardinality(JO) + Cardinality(TO)
      BY <1>2, <1>4, <1>5, DisjointFit
    <3> QED  BY <2>1, <3>1
  <2>4. two \cap LO = {} /\ three \cap SO = {}
    BY <1>5, <2>1, <2>2
  <2>5. Cardinality(three) = Cardinality(two) + Cardinality(LO) /\ three \subseteq Oneshots
        /\ Cardinality(LO) \in Nat
    <3>1. IsFiniteSet(Oneshots) /\ two \subseteq Oneshots /\ LO \subseteq Oneshots /\ two \cap LO = {}
      BY <1>2, <1>4, <2>3, <2>4
    <3>2. /\ two \cup LO \subseteq Oneshots /\ Cardinality(LO) \in Nat
          /\ Cardinality(two \cup LO) = Cardinality(two) + Cardinality(LO)
      BY <3>1, DisjointFit
    <3> QED  BY <2>2, <3>2
  <2>6. Cardinality(three) + Cardinality(SO) <= Cardinality(Oneshots)
    BY <1>2, <1>4, <2>4, <2>5, DisjointFit
  <2> QED  BY <1>2, <2>3, <2>5, <2>6
<1> QED  BY <1>1, <1>6, <1>7, <1>9, <1>10, <1>11, <1>12, <1>13, SMTT(60)

(* With enough descriptors every request is taken in whole.                *)
LEMMA NothingDiscarded ==
  ASSUME EnoughDescriptors, Shape, EndsInv
  PROVE  ~Discard
<1>1. SUFFICES ASSUME sock # << >>
               PROVE  \A op : HasRoom(op)
  BY DEF Discard
<1>2. OpenFds \in Nat /\ OpenFds < MaxIds + MaxOneshots
  BY <1>1, FdsFit
<1>3. \A op : FdsOf(op) \in {1, 2}
  BY DEF FdsOf
<1> QED
  BY <1>2, <1>3, DaemonAssumption, ChannelsAssumption, SMTT(60) DEF HasRoom, EnoughDescriptors

(* While the daemon lives, every handle that the process keeps for an      *)
(* interrupt (DaemonOwnerInner.interrupts) has a call that is on its way   *)
(* to remove it, if the process can open what it is sent. If it cannot, a  *)
(* RemoveInterrupt request may be dropped and its handle stays.            *)
THEOREM NoLeak ==
  ASSUME EnoughDescriptors
  PROVE  Spec => []NoInterruptLeak
<1>1. Init => LeakInv
  BY DEF Init, ChannelsInit, DaemonInit, LeakInv
<1>2. Shape /\ EndsInv => ~Discard
  BY NothingDiscarded
<1>3. Shape /\ EndsInv /\ ReplyInv /\ AwaitedInv /\ LeakInv /\ [Next]_vars => LeakInv'
  BY <1>2, LeakStep
<1>4. LeakInv => NoInterruptLeak
  BY DEF LeakInv, Owns, IidPcs, NoInterruptLeak
<1> QED  BY <1>1, <1>3, <1>4, Shapes, EndsInvariance, ReplyInvariance, AwaitedInvariance, PTL DEF Spec
=============================================================================
