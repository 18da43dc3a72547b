------------------------------ MODULE CallProofs ------------------------------
(***************************************************************************)
(* Proofs about the calls of LockSystem: every reply goes to the call that *)
(* asked for it, and what the replies say holds.                           *)
(***************************************************************************)
EXTENDS ShapeProofs

(* Leaves are Zenon's unless they name another prover.                     *)
USE ZenonT(60)

(* The lock commands.                                                      *)
LkOps == {"GetLk", "SetLk", "SetLkw"}

(* What a reply to a lock command may say of the lock.                     *)
Fits(op, act, r) ==
  r.tag = "Done" =>
    IF op = "GetLk" THEN r.type = "Unlock" \/ (act # "Unlock" /\ "Write" \in {act, r.type})
                    ELSE r.type = act

-----------------------------------------------------------------------------
(* The steps of the server, by what they do with the oneshots.             *)

(* The first request is answered, or dropped, by the receiving loop.       *)
SockAnswers(r) ==
  /\ sock # << >> /\ sock' = Tail(sock)
  /\ \/ oneshot' = Answered(Head(sock).o, r) /\ Head(sock).op \notin {"Interrupt", "Unregister"}
     \/ oneshot' = Hushed(Head(sock).o)
  /\ r \in Replies /\ r.tag \notin {"Pending", "Done"}
  /\ UNCHANGED <<client_open, server_open, loop, threads, jobs>>

(* It goes to a thread of its own, or is looked up.                        *)
SockToJob(op) ==
  /\ sock # << >> /\ sock' = Tail(sock) /\ Head(sock).op = op
  /\ jobs' = jobs \cup {[op |-> op, id |-> Head(sock).id, o |-> Head(sock).o,
                         st |-> "start", thread |-> NoThread]}
  /\ UNCHANGED <<client_open, server_open, oneshot, loop, threads>>

SockToLoop ==
  /\ sock # << >> /\ sock' = Tail(sock) /\ Head(sock).op \in LkOps /\ loop.pc = "recv"
  /\ loop' = [loop EXCEPT !.pc = "cmd", !.req = Head(sock)]
  /\ UNCHANGED <<client_open, server_open, oneshot, threads, jobs>>

(* The lock command is answered, or goes to a lock thread.                 *)
LoopAnswers(r) ==
  /\ loop.pc = "cmd" /\ loop.req.op \in LkOps /\ loop' = AtRecv
  /\ oneshot' = Answered(loop.req.o, r)
  /\ r \in Replies /\ r.tag # "Pending" /\ Fits(loop.req.op, loop.req.act, r)
  /\ UNCHANGED <<client_open, server_open, sock, threads, jobs>>

LoopToThread(t) ==
  /\ loop.pc = "cmd" /\ loop.req.op = "SetLkw" /\ FreeThread(t)
  /\ threads' = [threads EXCEPT ![t] = [pc |-> "starting", id |-> loop.req.id,
                                       act |-> loop.req.act, o |-> loop.req.o]]
  /\ loop' = [loop EXCEPT !.pc = "spawn", !.thread = t]
  /\ UNCHANGED <<channelVars, jobs>>

(* A lock thread goes on, replies, or ends.                                *)
ThreadStarts(t, to) ==
  /\ threads[t].pc = "starting" /\ to \in {"trylk", "refused"}
  /\ threads' = [threads EXCEPT ![t] = [threads[t] EXCEPT !.pc = to]]
  /\ UNCHANGED <<channelVars, loop, jobs>>

ThreadReplies(t, to, r) ==
  /\ <<threads[t].pc, to>> \in {<<"trylk", "waitlk">>, <<"waitlk", "replied">>}
  /\ threads' = [threads EXCEPT ![t] = [threads[t] EXCEPT !.pc = to]]
  /\ oneshot' = Replied(threads[t].o, r)
  /\ r \in Replies /\ Fits("SetLkw", threads[t].act, r) /\ (r.tag = "Pending" => to = "waitlk")
  /\ UNCHANGED <<sock, client_open, server_open, loop, jobs>>

ThreadEnds(t) ==
  /\ threads[t].pc \in {"refused", "replied"} /\ threads' = [threads EXCEPT ![t] = Idle]
  /\ oneshot' = Hushed(threads[t].o)
  /\ UNCHANGED <<sock, client_open, server_open, loop, jobs>>

(* A job goes on, or answers.                                              *)
JobMoves(j, k) ==
  /\ k.op = j.op /\ k.id = j.id /\ k.o = j.o /\ k.st # "start" /\ jobs' = (jobs \ {j}) \cup {k}
  /\ UNCHANGED <<channelVars, loop, threads>>

JobAnswers(j, tag) ==
  /\ tag \in {"Ok", "ENOENT"} /\ jobs' = jobs \ {j}
  /\ oneshot' = Answered(j.o, R(tag))
  /\ UNCHANGED <<sock, client_open, server_open, loop, threads>>

(* Nothing happens to a oneshot.                                           *)
Quiet ==
  /\ UNCHANGED <<channelVars, threads, jobs>>
  /\ loop' = loop \/ (loop.pc # "cmd" /\ loop'.pc \notin {"cmd", "spawn"})

(* All of them.                                                            *)
ServerStep ==
  /\ UNCHANGED clientVars
  /\ \/ \E r : SockAnswers(r) \/ LoopAnswers(r)
     \/ SockToJob("Interrupt") \/ SockToJob("Unregister") \/ SockToLoop
     \/ \E t \in LockThreads :
          \/ LoopToThread(t) \/ (\E to : ThreadStarts(t, to)) \/ ThreadEnds(t)
          \/ \E to, r : ThreadReplies(t, to, r)
     \/ \E j \in jobs : (\E k : JobMoves(j, k)) \/ (\E tag : JobAnswers(j, tag))
     \/ Quiet

(* Every step of the process but its exit is one of these.                 *)
LEMMA ServerLoop ==
  ASSUME Shape, LoopStep, UNCHANGED clientVars
  PROVE  ServerStep
<1> USE DEF ServerStep, Receive
<1>1. LoopShape /\ ThreadShape /\ LkShape
  BY DEF Shape, DaemonShape
<1>2. ASSUME NEW r \in Replies, r.tag \notin {"Pending", "Done"}, sock # << >>, sock' = Tail(sock),
             \/ oneshot' = Answered(Head(sock).o, r) /\ Head(sock).op \notin {"Interrupt", "Unregister"}
             \/ oneshot' = Hushed(Head(sock).o),
             UNCHANGED <<client_open, server_open, loop, threads, jobs>>
      PROVE  ServerStep
  BY <1>2 DEF SockAnswers
<1>3. /\ \A tag \in {"Ok", "EIO", "ENOENT"} : R(tag) \in Replies /\ R(tag).tag = tag
      /\ \A i \in Nat : Registered(i) \in Replies /\ Registered(i).tag = "Ok"
  BY ReplyShapes DEF Tags
<1>4. CASE Discard
  BY <1>2, <1>3, <1>4 DEF Discard, daemonVars
<1>5. CASE LoopPing
  BY <1>2, <1>3, <1>5 DEF LoopPing
<1>6. CASE LoopRegister
  <2>1. next_id \in Nat
    BY DaemonAssumption, SMTT(60) DEF Shape, DaemonShape, FdShape
  <2>2. PICK r \in {R("EIO"), Registered(next_id)} : oneshot' = Answered(Head(sock).o, r)
    BY <1>6 DEF LoopRegister, ExitingErrno
  <2> QED  BY <1>2, <1>3, <1>6, <2>1, <2>2 DEF LoopRegister
<1>7. CASE LoopRemoveInterrupt
  <2>1. PICK r \in {R("Ok"), R("ENOENT")} : oneshot' = Answered(Head(sock).o, r)
    BY <1>7 DEF LoopRemoveInterrupt
  <2> QED  BY <1>2, <1>3, <1>7, <2>1 DEF LoopRemoveInterrupt
<1>8. ASSUME NEW op \in {"Interrupt", "Unregister"}, LoopDetach(op)
      PROVE  ServerStep
  <2>1. SockToJob(op)
    BY <1>8 DEF LoopDetach, SockToJob
  <2> QED  BY <2>1
<1>9. ASSUME NEW op \in LkOps, LoopLookUp(op)
      PROVE  ServerStep
  <2>1. CASE UNCHANGED loop /\ oneshot' = Answered(Head(sock).o, R("ENOENT"))
    BY <1>2, <1>3, <1>9, <2>1 DEF LoopLookUp, LkOps
  <2>2. CASE UNCHANGED oneshot /\ loop' = [loop EXCEPT !.pc = "cmd", !.req = Head(sock)]
    <3>1. SockToLoop
      BY <1>9, <2>2 DEF LoopLookUp, SockToLoop
    <3> QED  BY <3>1
  <2> QED  BY <1>9, <2>1, <2>2 DEF LoopLookUp
<1>10. CASE LoopGetLk
  <2> DEFINE l == Flock(loop.req.act)
             errno == IF l = F_UNLCK THEN "EINVAL" ELSE "Done"
             r == LkReply(errno, GetLkType(l))
  <2>1. loop.pc = "cmd" /\ loop.req.op = "GetLk" /\ loop.req.act \in LockTypes
    BY <1>1, <1>10 DEF LoopGetLk, LoopShape, Requests
  <2>2. l \in {F_RDLCK, F_WRLCK, F_UNLCK} /\ TryFrom(l) = loop.req.act
        /\ GetLkType(l) \in {F_RDLCK, F_WRLCK, F_UNLCK}
    BY <1>1, <2>1, LkTypes DEF GetLkType, LkShape
  <2>3. errno \in Tags /\ errno # "Pending"
    BY DEF Tags
  <2>4. r \in Replies /\ r.tag = errno /\ (errno = "Done" => r.type = TryFrom(GetLkType(l)))
    BY <2>2, <2>3, LkAnswers
  <2>5. Fits("GetLk", loop.req.act, r)
    BY <2>1, <2>2, <2>4 DEF Fits, GetLkType, Conflict, TryFrom, F_RDLCK, F_WRLCK, F_UNLCK
  <2>6. LoopAnswers(r)
    BY <1>10, <2>1, <2>3, <2>4, <2>5 DEF LoopGetLk, LoopAnswers, LkOps
  <2> QED  BY <2>6
<1>11. CASE LoopSetLk
  <2> DEFINE l == Flock(loop.req.act)
             errno == SetLkErrno(loop.req.id, l)
             r == LkReply(errno, l)
  <2>1. loop.pc = "cmd" /\ loop.req.op = "SetLk" /\ loop.req.act \in LockTypes
    BY <1>1, <1>11 DEF LoopSetLk, LoopShape, Requests
  <2>2. l \in {F_RDLCK, F_WRLCK, F_UNLCK} /\ TryFrom(l) = loop.req.act
    BY <2>1, LkTypes
  <2>3. errno \in {"Done", "EBADF", "EAGAIN"}
    BY <2>2, LkAnswers, SMTT(60) DEF Tags
  <2>4. r \in Replies /\ r.tag = errno /\ (errno = "Done" => r.type = TryFrom(l))
    BY <2>2, <2>3, LkAnswers, SMTT(60) DEF Tags
  <2>5. Fits("SetLk", loop.req.act, r)
    BY <2>2, <2>4 DEF Fits
  <2>6. LoopAnswers(r)
    BY <1>11, <2>1, <2>3, <2>4, <2>5 DEF LoopSetLk, LoopAnswers, LkOps
  <2> QED  BY <2>6
<1>12. CASE LoopSpawn
  <2>1. PICK t \in LockThreads : LoopToThread(t)
    <3> DEFINE free == {u \in LockThreads : FreeThread(u)}
               t == CHOOSE f \in free : TRUE
    <3>1. t \in LockThreads /\ FreeThread(t)
      BY <1>12 DEF LoopSpawn
    <3>2. LoopToThread(t)
      BY <1>12, <3>1 DEF LoopSpawn, LoopToThread
    <3> QED  BY <3>1, <3>2
  <2> QED  BY <2>1
<1>13. CASE LoopSpawned \/ LoopEnds
  <2>1. Quiet
    BY <1>1, <1>13, SMTT(60) DEF LoopSpawned, LoopEnds, Quiet, AtRecv, LoopShape
  <2> QED  BY <2>1
<1> QED
  BY <1>4, <1>5, <1>6, <1>7, <1>8, <1>9, <1>10, <1>11, <1>12, <1>13 DEF LoopStep, LkOps

(* The steps of a lock thread.                                             *)
LEMMA ServerThread ==
  ASSUME Shape, NEW t \in LockThreads, ThreadStep(t) \/ ThreadReturns(t, "EDEADLK"),
         UNCHANGED clientVars
  PROVE  ServerStep
<1> DEFINE l == Flock(threads[t].act)
           try == SetLkErrno(threads[t].id, l)
<1>1. ThreadShape
  BY DEF Shape, DaemonShape
<1>2. threads[t].act \in LockTypes /\ l \in {F_RDLCK, F_WRLCK, F_UNLCK}
  BY <1>1, LkTypes DEF ThreadShape
<1>3. try \in {"Done", "EBADF", "EAGAIN"}
  BY <1>2, LkAnswers DEF Tags
<1>4. \A errno \in Tags : /\ BlockingReply(t, errno) \in Replies /\ BlockingReply(t, errno).tag = errno
                          /\ Fits("SetLkw", threads[t].act, BlockingReply(t, errno))
  BY <1>2, ReplyShapes, SMTT(60) DEF BlockingReply, Fits
<1>5. CASE ThreadTrack(t)
  <2>1. PICK to \in {"trylk", "refused"} : Step(t, "starting", to)
    BY <1>5 DEF ThreadTrack
  <2>2. ThreadStarts(t, to)
    BY <1>5, <2>1 DEF ThreadTrack, ThreadStarts, Step, channelVars
  <2> QED  BY <2>2 DEF ServerStep
<1>6. CASE ThreadRefused(t) \/ ThreadExit(t)
  <2>1. ThreadEnds(t)
    BY <1>6 DEF ThreadRefused, ThreadExit, Step, ThreadEnds
  <2> QED  BY <2>1 DEF ServerStep
<1>7. ASSUME NEW from, NEW to, NEW r \in Replies, Step(t, from, to),
             <<from, to>> \in {<<"trylk", "waitlk">>, <<"waitlk", "replied">>},
             Fits("SetLkw", threads[t].act, r), r.tag = "Pending" => to = "waitlk",
             oneshot' = Replied(threads[t].o, r)
      PROVE  ServerStep
  <2>1. ThreadReplies(t, to, r)
    BY <1>7 DEF Step, ThreadReplies
  <2> QED  BY <2>1 DEF ServerStep
<1>8. CASE ThreadTryLk(t)
  <2>1. CASE try = "EAGAIN"
    <3>1. interrupt_next_id \in Nat /\ oneshot' = Replied(threads[t].o, Pending(interrupt_next_id))
          /\ Step(t, "trylk", "waitlk")
      BY <1>8, <2>1, SMTT(60) DEF ThreadTryLk, Ids
    <3>2. Pending(interrupt_next_id) \in Replies /\ Pending(interrupt_next_id).tag = "Pending"
      BY <3>1, ReplyShapes
    <3> QED  BY <1>7, <3>1, <3>2 DEF Fits
  <2>2. CASE try # "EAGAIN"
    <3>1. oneshot' = Replied(threads[t].o, BlockingReply(t, try)) /\ Step(t, "trylk", "waitlk")
      BY <1>8, <2>2 DEF ThreadTryLk
    <3> QED  BY <1>3, <1>4, <1>7, <3>1 DEF Tags
  <2> QED  BY <2>1, <2>2
<1>9. ASSUME NEW errno \in {"Done", "EBADF", "EINTR", "EDEADLK"}, ThreadReturns(t, errno)
      PROVE  ServerStep
  <2>1. oneshot' = Replied(threads[t].o, BlockingReply(t, errno)) /\ Step(t, "waitlk", "replied")
    BY <1>9 DEF ThreadReturns
  <2> QED  BY <1>4, <1>7, <2>1 DEF Tags
<1> QED  BY <1>5, <1>6, <1>8, <1>9 DEF ThreadStep

(* The steps of a thread for one interrupt or one unregister.              *)
LEMMA ServerJob ==
  ASSUME Shape, NEW j \in jobs, JobStep(j), UNCHANGED clientVars
  PROVE  ServerStep
<1>1. JobFrame
  BY DEF JobStep, InterruptLookUp, InterruptDone, UnregisterRemove, UnregisterStop,
         UnregisterClose, UnregisterReply
<1>2. \/ \E tag \in {"Ok", "ENOENT"} : JobEnds(j, tag)
      \/ JobGoes(j, [j EXCEPT !.st = "removed"])
      \/ JobGoes(j, [j EXCEPT !.st = "stopping"])
      \/ JobGoes(j, [j EXCEPT !.st = "closed"])
      \/ JobGoes(j, [j EXCEPT !.st = "stopping", !.thread = interrupts[j.id]])
  BY DEF JobStep, InterruptLookUp, InterruptDone, UnregisterRemove, UnregisterStop,
         UnregisterClose, UnregisterReply
<1>3. ASSUME NEW tag \in {"Ok", "ENOENT"}, JobEnds(j, tag)
      PROVE  ServerStep
  <2>1. JobAnswers(j, tag)
    BY <1>1, <1>3 DEF JobEnds, JobAnswers, JobFrame
  <2> QED  BY <2>1 DEF ServerStep
<1>4. ASSUME NEW k, JobGoes(j, k), k.op = j.op, k.id = j.id, k.o = j.o, k.st # "start"
      PROVE  ServerStep
  <2>1. JobMoves(j, k)
    BY <1>1, <1>4 DEF JobGoes, JobMoves, JobFrame, channelVars
  <2> QED  BY <2>1 DEF ServerStep
<1>5. \A st \in {"removed", "stopping", "closed"} :
        LET k == [j EXCEPT !.st = st]
        IN  k.op = j.op /\ k.id = j.id /\ k.o = j.o /\ k.st # "start"
  BY DEF Shape, DaemonShape, JobShape
<1>6. LET k == [j EXCEPT !.st = "stopping", !.thread = interrupts[j.id]]
      IN  k.op = j.op /\ k.id = j.id /\ k.o = j.o /\ k.st # "start"
  BY DEF Shape, DaemonShape, JobShape
<1> QED  BY <1>2, <1>3, <1>4, <1>5, <1>6

(* So a step is one of these, the exit, or one of a client.                *)
LEMMA ServerCases ==
  ASSUME Shape, Next
  PROVE  ServerStep \/ (ProcessExit /\ UNCHANGED clientVars) \/ ClientStep
<1>1. ASSUME UNCHANGED clientVars, MainTryExit \/ MainJoin
      PROVE  ServerStep
  BY <1>1 DEF MainTryExit, MainJoin, MainFrame, ServerStep, Quiet
<1>2. ASSUME UNCHANGED clientVars, NEW l, OthersLock(l)
      PROVE  ServerStep
  BY <1>2 DEF OthersLock, ServerStep, Quiet
<1> QED  BY <1>1, <1>2, NextCases, ServerLoop, ServerThread, ServerJob DEF MainStep

-----------------------------------------------------------------------------
(* The steps of the clients, by what they do with the oneshots and to the  *)
(* fields of a call.                                                       *)

(* The other calls, and what this one asked for, stay as they are.         *)
Elsewhere(c) == \A d \in Clients : d # c => cpc'[d] = cpc[d] /\ call'[d] = call[d]

SameCall(c) ==
  call'[c].o = call[c].o /\ call'[c].id = call[c].id /\ call'[c].act = call[c].act

(* Nothing but the client's end of o changes.                              *)
DropsEnd(o) ==
  /\ UNCHANGED <<sock, client_open, server_open>>
  /\ \A p \in Oneshots : p # o => oneshot'[p] = oneshot[p]
  /\ oneshot'[o].q = << >> /\ oneshot'[o].tx = oneshot[o].tx /\ ~oneshot'[o].rx

(* A request is sent with a oneshot that nobody has.                       *)
SendsOn(req) ==
  /\ req \in Requests /\ req.o \in Oneshots /\ oneshot[req.o] = Closed
  /\ sock' = Append(sock, req) /\ UNCHANGED <<client_open, server_open>>
  /\ \A p \in Oneshots : p # req.o => oneshot'[p] = oneshot[p]
  /\ oneshot'[req.o].q = << >> /\ oneshot'[req.o].tx /\ oneshot'[req.o].rx

(* A call sends its request.                                               *)
CallSends(c, req) ==
  /\ client_open /\ server_open /\ SendsOn(req) /\ Elsewhere(c)
  /\ req.op \in Simple \cup {"SetLkw"} /\ cpc[c] \in {"idle", "pre"} /\ cpc'[c] = req.op
  /\ call'[c].o = req.o /\ call'[c].id = req.id /\ call'[c].act = req.act
  /\ req.op = "Unregister" => req.id \in lockables
  /\ lockables' = IF req.op = "Unregister" THEN lockables \ {req.id} ELSE lockables

(* A call is over, or has not sent anything yet.                           *)
CallEnds(c) ==
  /\ Elsewhere(c) /\ cpc'[c] \in {"idle", "pre", "refused"}
  /\ \/ cpc[c] \in {"idle", "pre", "refused"} /\ UNCHANGED channelVars
     \/ cpc[c] \in Waiting \ NestedPcs /\ DropsEnd(call[c].o)
  /\ cpc[c] = "SetLkw" => Readable(call[c].o) /\ Outcome(call[c].o) # "Pending"
  /\ cpc[c] \in IidPcs => ~server_open
  /\ \/ lockables' \subseteq lockables
     \/ /\ cpc[c] = "Register" /\ HasReply(call[c].o) /\ NextReply(call[c].o).tag = "Ok"
        /\ lockables' = lockables \cup {NextReply(call[c].o).val}

(* A blocking lock reads that it has to wait.                              *)
CallWaits(c) ==
  LET o == call[c].o IN
  /\ Elsewhere(c) /\ SameCall(c) /\ cpc[c] = "SetLkw" /\ cpc'[c] = "wait"
  /\ HasReply(o) /\ NextReply(o).tag = "Pending" /\ call'[c].iid = NextReply(o).val
  /\ \A p \in Oneshots : p # o => oneshot'[p] = oneshot[p]
  /\ oneshot'[o].q = Tail(oneshot[o].q) /\ oneshot'[o].tx = oneshot[o].tx
  /\ oneshot'[o].rx = oneshot[o].rx
  /\ UNCHANGED <<sock, client_open, server_open, lockables>>

(* It sends a request about its interrupt, and reads the answer.           *)
CallNests(c, req) ==
  /\ Elsewhere(c) /\ SameCall(c) /\ SendsOn(req)
  /\ call'[c].iid = call[c].iid /\ call'[c].nested = req.o
  /\ req.id = call[c].iid
  /\ \/ req.op = "RemoveInterrupt" /\ cpc[c] \in {"wait", "again", "failed"} /\ cpc'[c] = "remove"
        /\ server_open
     \/ req.op = "Interrupt" /\ cpc[c] = "wait" /\ cpc'[c] = "interrupt"
  /\ UNCHANGED lockables

CallResumes(c) ==
  /\ Elsewhere(c) /\ SameCall(c) /\ DropsEnd(call[c].nested) /\ Readable(call[c].nested)
  /\ call'[c].iid = call[c].iid
  /\ \/ cpc[c] = "interrupt" /\ cpc'[c] \in {"again", "failed"}
     \/ cpc[c] = "remove" /\ cpc'[c] = "leave"
  /\ UNCHANGED lockables

(* All of them.                                                            *)
CallStep ==
  /\ UNCHANGED daemonVars
  /\ \/ UNCHANGED <<channelVars, lockables, cpc, call>>
     \/ HangUp
     \/ \E c \in Clients :
          \/ (\E req : CallSends(c, req) \/ CallNests(c, req))
          \/ CallEnds(c) \/ CallWaits(c) \/ CallResumes(c)

(* Sending takes a fresh oneshot; a returning call drops its own.          *)
LEMMA Sending ==
  ASSUME Shape, NEW req, SendRequest(Fresh, req), Unused # {}, req \in Requests, req.o = Fresh
  PROVE  SendsOn(req)
BY FreshOneshot DEF Shape, ChannelShape, SendRequest, SendsOn

(* The end that is dropped loses its replies.                              *)
LEMMA Dropping ==
  ASSUME Shape, NEW o \in Oneshots, oneshot' = Dropped(o), UNCHANGED <<sock, client_open, server_open>>
  PROVE  DropsEnd(o)
BY ClosedOneshot DEF Shape, ChannelShape, DropsEnd

(* Every step of the clients is one of these.                              *)
LEMMA CallCases ==
  ASSUME Shape, ClientStep
  PROVE  CallStep
<1> USE DEF CallStep
<1>1. UNCHANGED daemonVars
  BY DEF ClientStep
<1>2. ClientShape
  BY DEF Shape
<1>3. CASE Stops \/ HangUp
  BY <1>1, <1>3 DEF Stops
<1>4. ASSUME NEW c \in Clients, NEW op \in Simple \cup {"SetLkw"}, NEW id \in Nat, NEW act \in LockTypes,
             SendsCall(c, op, id, act)
      PROVE  CallStep
  <2> DEFINE req == Request(op, id, act, Fresh)
  <2>1. Fresh \in Oneshots
    BY <1>4, FreshOneshot DEF SendsCall
  <2>2. req \in Requests /\ req.op = op /\ req.id = id /\ req.act = act /\ req.o = Fresh
    BY <2>1 DEF Request, Requests, RequestOps
  <2>3. SendsOn(req)
    BY <1>4, <2>2, Sending DEF SendsCall
  <2>4. Elsewhere(c) /\ cpc'[c] = op
    BY <1>2, <1>4 DEF SendsCall, Elsewhere, ClientShape
  <2>5. call'[c].o = Fresh /\ call'[c].id = id /\ call'[c].act = act
    BY <1>2, <1>4 DEF SendsCall, ClientShape, NoCall
  <2>6. CallSends(c, req)
    BY <1>4, <2>2, <2>3, <2>4, <2>5 DEF SendsCall, CallSends
  <2> QED  BY <1>1, <2>6
<1>5. ASSUME NEW c \in Clients, NEW id, NEW act, Detach(c, id, act) \/ GivesUp(c)
      PROVE  CallStep
  <2>1. Elsewhere(c) /\ cpc'[c] \in {"idle", "pre", "refused"}
    BY <1>2, <1>5 DEF Detach, GivesUp, Abandon, Elsewhere, ClientShape
  <2>2. CallEnds(c)
    BY <1>5, <2>1 DEF Detach, GivesUp, Abandon, CallEnds, IidPcs
  <2> QED  BY <1>1, <2>2
<1>6. ASSUME NEW c \in Clients, Return(c)
      PROVE  Elsewhere(c) /\ cpc'[c] = "idle" /\ (cpc[c] \in Waiting => DropsEnd(call[c].o))
  <2>1. Elsewhere(c) /\ cpc'[c] = "idle"
    BY <1>2, <1>6 DEF Return, Elsewhere, ClientShape
  <2>2. cpc[c] \in Waiting => DropsEnd(call[c].o)
    BY <1>2, <1>6, Dropping DEF Return, ClientShape
  <2> QED  BY <2>1, <2>2
<1>7. ASSUME NEW c \in Clients, EndsSimple(c)
      PROVE  CallStep
  <2>1. /\ cpc[c] \in Simple /\ Return(c)
        /\ \/ lockables' = lockables
           \/ /\ cpc[c] = "Register" /\ Outcome(call[c].o) = "Ok" /\ Readable(call[c].o)
              /\ lockables' = lockables \cup {NextReply(call[c].o).val}
    BY <1>7 DEF EndsSimple, EndSimple, DropInterrupted, Simple
  <2>2. Readable(call[c].o) /\ Outcome(call[c].o) = "Ok" =>
          HasReply(call[c].o) /\ NextReply(call[c].o).tag = "Ok"
    BY DEF Readable, Outcome, HasReply, AtEof
  <2>3. CallEnds(c)
    BY <1>6, <2>1, <2>2 DEF CallEnds, Simple, Waiting, NestedPcs, IidPcs
  <2> QED  BY <1>1, <2>3
<1>8. ASSUME NEW c \in Clients, ReturnsLkw(c)
      PROVE  CallStep
  <2>1. CallEnds(c)
    BY <1>6, <1>8 DEF ReturnsLkw, CallEnds, Waiting, Detached, NestedPcs, IidPcs
  <2> QED  BY <1>1, <2>1
<1>9. ASSUME NEW c \in Clients, Pends(c)
      PROVE  CallStep
  <2>1. oneshot \in [Oneshots -> OneshotStates] /\ call[c].o \in Oneshots
    BY <1>2, <1>9 DEF Shape, ChannelShape, ClientShape, Pends, Waiting, Detached
  <2>2. Elsewhere(c) /\ SameCall(c) /\ cpc'[c] = "wait" /\ call'[c].iid = NextReply(call[c].o).val
    BY <1>2, <1>9 DEF Pends, Elsewhere, SameCall, ClientShape
  <2>3. CallWaits(c)
    BY <1>9, <2>1, <2>2, TakenOneshot DEF Pends, CallWaits
  <2> QED  BY <1>1, <2>3
<1>10. ASSUME NEW c \in Clients, NEW op, NEW to, SendsNested(c, op, to)
      PROVE  CallStep
  <2> DEFINE req == Request(op, call[c].iid, "Unlock", Fresh)
  <2>1. Fresh \in Oneshots /\ op \in {"Interrupt", "RemoveInterrupt"} /\ call[c].iid \in Nat
    BY <1>2, <1>10, FreshOneshot DEF SendsNested, ClientShape
  <2>2. req \in Requests /\ req.op = op /\ req.id = call[c].iid /\ req.o = Fresh
    BY <2>1 DEF Request, Requests, RequestOps, LockTypes
  <2>3. SendsOn(req)
    BY <1>10, <2>2, Sending DEF SendsNested, Nested
  <2>4. /\ Elsewhere(c) /\ SameCall(c) /\ cpc'[c] = to
        /\ call'[c].iid = call[c].iid /\ call'[c].nested = Fresh
    BY <1>2, <1>10 DEF SendsNested, Nested, Elsewhere, SameCall, ClientShape
  <2>5. CallNests(c, req)
    BY <1>10, <2>2, <2>3, <2>4 DEF SendsNested, CallNests
  <2> QED  BY <1>1, <2>5
<1>11. ASSUME NEW c \in Clients, InterruptReply(c) \/ RemoveReply(c)
      PROVE  CallStep
  <2>1. call[c].nested \in Oneshots
    BY <1>2, <1>11 DEF InterruptReply, RemoveReply, ClientShape, NestedPcs
  <2>2. DropsEnd(call[c].nested)
    BY <1>11, <2>1, Dropping DEF InterruptReply, RemoveReply
  <2>3. Elsewhere(c) /\ SameCall(c) /\ call'[c].iid = call[c].iid
    BY <1>2, <1>11, SMTT(60) DEF InterruptReply, RemoveReply, Elsewhere, SameCall, ClientShape
  <2>4. \/ cpc[c] = "interrupt" /\ cpc'[c] \in {"again", "failed"}
        \/ cpc[c] = "remove" /\ cpc'[c] = "leave"
    BY <1>2, <1>11 DEF InterruptReply, RemoveReply, ClientShape
  <2>5. CallResumes(c)
    BY <1>11, <2>2, <2>3, <2>4 DEF InterruptReply, RemoveReply, CallResumes
  <2> QED  BY <1>1, <2>5
<1> QED
  BY <1>3, <1>4, <1>5, <1>7, <1>8, <1>9, <1>10, <1>11 DEF ClientStep, ClientCase

-----------------------------------------------------------------------------
(* The ends of the oneshots.                                               *)

(* Where the server's end may be.                                          *)
InLoop(o)    == loop.pc = "cmd" /\ loop.req.o = o
InThreads(o) == \E t \in LockThreads : threads[t].pc # "none" /\ threads[t].o = o
InJobs(o)    == \E j \in jobs : j.o = o

(* The server's end of a oneshot is in one place: in a request that is on  *)
(* its way, in the receiving loop, in a lock thread or in a job.           *)
OneServer ==
  /\ \A k \in 1 .. Len(sock) :
       LET o == sock[k].o IN
       /\ \A l \in 1 .. Len(sock) : sock[l].o = o => l = k
       /\ ~InLoop(o) /\ ~InThreads(o) /\ ~InJobs(o)
  /\ loop.pc = "cmd" => ~InThreads(loop.req.o) /\ ~InJobs(loop.req.o)
  /\ \A t \in LockThreads : threads[t].pc # "none" =>
       /\ \A u \in LockThreads : threads[u].pc # "none" /\ threads[u].o = threads[t].o => u = t
       /\ ~InJobs(threads[t].o)
  /\ \A j, k \in jobs : j.o = k.o => j = k

(* Where it is, it is open.                                                *)
ServerOpen ==
  /\ \A k \in 1 .. Len(sock) : oneshot[sock[k].o].tx
  /\ loop.pc = "cmd" => oneshot[loop.req.o].tx
  /\ \A t \in LockThreads : threads[t].pc # "none" => oneshot[threads[t].o].tx
  /\ \A j \in jobs : oneshot[j.o].tx

(* The oneshots in requests, threads and jobs.                             *)
LEMMA EndShapes ==
  ASSUME Shape
  PROVE  /\ oneshot \in [Oneshots -> OneshotStates] /\ sock \in Seq(Requests)
         /\ \A k \in 1 .. Len(sock) : sock[k].o \in Oneshots
         /\ loop.pc = "cmd" => loop.req.o \in Oneshots
         /\ \A t \in LockThreads : threads[t].pc # "none" => threads[t].o \in Oneshots
         /\ \A j \in jobs : j.o \in Oneshots
<1>1. oneshot \in [Oneshots -> OneshotStates] /\ sock \in Seq(Requests)
  BY DEF Shape, ChannelShape
<1>2. \A k \in 1 .. Len(sock) : sock[k].o \in Oneshots
  <2>1. \A k \in 1 .. Len(sock) : sock[k] \in Requests
    BY <1>1, SMTT(60)
  <2> QED  BY <2>1 DEF Requests
<1>3. loop.pc = "cmd" => loop.req.o \in Oneshots
  BY DEF Shape, DaemonShape, LoopShape, Requests
<1>4. \A t \in LockThreads : threads[t].pc # "none" => threads[t].o \in Oneshots
  BY DEF Shape, DaemonShape, ThreadShape
<1>5. \A j \in jobs : j.o \in Oneshots
  BY DEF Shape, DaemonShape, JobShape
<1> QED  BY <1>1, <1>2, <1>3, <1>4, <1>5

(* Those of the calls.                                                     *)
LEMMA CallShapes ==
  ASSUME Shape
  PROVE  /\ \A c \in Clients : cpc[c] \in Waiting => call[c].o \in Oneshots
         /\ \A c \in Clients : cpc[c] \in NestedPcs => call[c].nested \in Oneshots
         /\ \A c \in Clients : cpc[c] \in NestedPcs => cpc[c] \in Waiting
BY DEF Shape, ClientShape, NestedPcs, Waiting, Detached

(* The server passes its end on, or drops it.                              *)
LEMMA ServerEnds ==
  ASSUME Shape, OneServer, ServerOpen, ServerStep
  PROVE  OneServer' /\ ServerOpen'
<1> USE DEF InLoop, InThreads, InJobs
<1>1. /\ oneshot \in [Oneshots -> OneshotStates] /\ sock \in Seq(Requests)
      /\ \A k \in 1 .. Len(sock) : sock[k].o \in Oneshots
      /\ loop.pc = "cmd" => loop.req.o \in Oneshots
      /\ \A t \in LockThreads : threads[t].pc # "none" => threads[t].o \in Oneshots
      /\ \A j \in jobs : j.o \in Oneshots
  BY EndShapes
<1>2. LoopShape /\ ThreadShape
  BY DEF Shape, DaemonShape
<1>3. ASSUME NEW r, SockAnswers(r)
      PROVE  OneServer' /\ ServerOpen'
  <2>1. \A p \in Oneshots : p # Head(sock).o => oneshot'[p] = oneshot[p]
    <3>1. r \in Replies /\ (oneshot' = Answered(Head(sock).o, r) \/ oneshot' = Hushed(Head(sock).o))
      BY <1>3 DEF SockAnswers
    <3>2. CASE oneshot' = Answered(Head(sock).o, r)
      BY <1>1, <3>1, <3>2, AnsweredOneshot
    <3>3. CASE oneshot' = Hushed(Head(sock).o)
      BY <1>1, <3>3, ClosedOneshot
    <3> QED  BY <3>1, <3>2, <3>3
  <2>2. OneServer'
    BY <1>1, <1>3, SockTail, SMTT(60) DEF SockAnswers, OneServer
  <2>3. ServerOpen'
    BY <1>1, <1>3, <2>1, SockTail, SMTT(60) DEF SockAnswers, OneServer, ServerOpen
  <2> QED  BY <2>2, <2>3
<1>4. ASSUME NEW op, SockToJob(op)
      PROVE  OneServer' /\ ServerOpen'
  <2>1. PICK n : n.o = Head(sock).o /\ jobs' = jobs \cup {n}
    BY <1>4 DEF SockToJob
  <2>2. OneServer'
    BY <1>1, <1>4, <2>1, SockTail, SMTT(60) DEF SockToJob, OneServer
  <2>3. ServerOpen'
    BY <1>1, <1>4, <2>1, SockTail, SMTT(60) DEF SockToJob, OneServer, ServerOpen
  <2> QED  BY <2>2, <2>3
<1>5. CASE SockToLoop
  <2>1. loop.pc # "cmd" /\ loop'.pc = "cmd" /\ loop'.req = Head(sock)
    BY <1>2, <1>5 DEF SockToLoop, LoopShape
  <2>2. OneServer'
    BY <1>1, <1>5, <2>1, SockTail, SMTT(60) DEF SockToLoop, OneServer
  <2>3. ServerOpen'
    BY <1>1, <1>5, <2>1, SockTail DEF SockToLoop, OneServer, ServerOpen
  <2> QED  BY <2>2, <2>3
<1>6. ASSUME NEW r, LoopAnswers(r)
      PROVE  OneServer' /\ ServerOpen'
  <2>1. \A p \in Oneshots : p # loop.req.o => oneshot'[p] = oneshot[p]
    BY <1>1, <1>6, AnsweredOneshot DEF LoopAnswers
  <2>2. OneServer'
    BY <1>1, <1>6 DEF LoopAnswers, OneServer, AtRecv
  <2>3. ServerOpen'
    BY <1>1, <1>6, <2>1 DEF LoopAnswers, OneServer, ServerOpen, AtRecv
  <2> QED  BY <2>2, <2>3
<1>7. ASSUME NEW t \in LockThreads, LoopToThread(t)
      PROVE  OneServer' /\ ServerOpen'
  <2>1. /\ loop.pc = "cmd" /\ loop'.pc = "spawn" /\ threads[t].pc = "none"
        /\ threads'[t].o = loop.req.o /\ \A u \in LockThreads : u # t => threads'[u] = threads[u]
        /\ UNCHANGED <<sock, oneshot, jobs>>
    BY <1>2, <1>7 DEF LoopToThread, LoopShape, ThreadShape, FreeThread, channelVars
  <2>2. OneServer'
    BY <1>1, <2>1, SMTT(60) DEF OneServer
  <2>3. ServerOpen'
    BY <1>1, <2>1 DEF ServerOpen
  <2> QED  BY <2>2, <2>3
<1>8. ASSUME NEW t \in LockThreads, NEW to,
             threads[t].pc # "none", threads' = [threads EXCEPT ![t] = [threads[t] EXCEPT !.pc = to]],
             UNCHANGED <<sock, loop, jobs>>,
             \A o \in Oneshots : oneshot'[o].tx = oneshot[o].tx
      PROVE  OneServer' /\ ServerOpen'
  <2>1. \A u \in LockThreads : /\ threads'[u].o = threads[u].o
                               /\ threads'[u].pc # "none" => threads[u].pc # "none"
    BY <1>2, <1>8 DEF ThreadShape
  <2>2. OneServer'
    BY <1>1, <1>8, <2>1, SMTT(60) DEF OneServer
  <2>3. ServerOpen'
    BY <1>1, <1>8, <2>1 DEF ServerOpen
  <2> QED  BY <2>2, <2>3
<1>9. ASSUME NEW t \in LockThreads, NEW to, ThreadStarts(t, to)
      PROVE  OneServer' /\ ServerOpen'
  BY <1>8, <1>9 DEF ThreadStarts, channelVars
<1>10. ASSUME NEW t \in LockThreads, NEW to, NEW r, ThreadReplies(t, to, r)
      PROVE  OneServer' /\ ServerOpen'
  <2>1. \A o \in Oneshots : oneshot'[o].tx = oneshot[o].tx
    BY <1>1, <1>10, RepliedOneshot, SMTT(60) DEF ThreadReplies
  <2> QED  BY <1>8, <1>10, <2>1 DEF ThreadReplies
<1>11. ASSUME NEW t \in LockThreads, ThreadEnds(t)
      PROVE  OneServer' /\ ServerOpen'
  <2>1. \A p \in Oneshots : p # threads[t].o => oneshot'[p] = oneshot[p]
    BY <1>1, <1>11, ClosedOneshot DEF ThreadEnds
  <2>2. /\ threads[t].pc # "none" /\ threads'[t].pc = "none"
        /\ \A u \in LockThreads : u # t => threads'[u] = threads[u]
    BY <1>2, <1>11 DEF ThreadEnds, ThreadShape, Idle
  <2>3. OneServer'
    BY <1>1, <1>11, <2>2, SMTT(60) DEF ThreadEnds, OneServer
  <2>4. ServerOpen'
    BY <1>1, <1>11, <2>1, <2>2, SMTT(60) DEF ThreadEnds, OneServer, ServerOpen
  <2> QED  BY <2>3, <2>4
<1>12. ASSUME NEW j \in jobs, NEW k, JobMoves(j, k)
      PROVE  OneServer' /\ ServerOpen'
  <2>1. OneServer'
    BY <1>1, <1>12, SMTT(60) DEF JobMoves, OneServer, channelVars
  <2>2. ServerOpen'
    BY <1>1, <1>12 DEF JobMoves, ServerOpen, channelVars
  <2> QED  BY <2>1, <2>2
<1>13. ASSUME NEW j \in jobs, NEW tag, JobAnswers(j, tag)
      PROVE  OneServer' /\ ServerOpen'
  <2>1. \A p \in Oneshots : p # j.o => oneshot'[p] = oneshot[p]
    <3>1. R(tag) \in Replies /\ oneshot' = Answered(j.o, R(tag))
      BY <1>13, ReplyShapes DEF JobAnswers, Tags
    <3> QED  BY <1>1, <3>1, AnsweredOneshot
  <2>2. OneServer'
    BY <1>1, <1>13 DEF JobAnswers, OneServer
  <2>3. ServerOpen'
    BY <1>1, <1>13, <2>1, SMTT(60) DEF JobAnswers, OneServer, ServerOpen
  <2> QED  BY <2>2, <2>3
<1>14. CASE Quiet
  <2>1. OneServer'
    BY <1>1, <1>14, SMTT(60) DEF Quiet, OneServer, channelVars
  <2>2. ServerOpen'
    BY <1>1, <1>14 DEF Quiet, ServerOpen, channelVars
  <2> QED  BY <2>1, <2>2
<1> QED
  BY <1>3, <1>4, <1>5, <1>6, <1>7, <1>9, <1>10, <1>11, <1>12, <1>13, <1>14 DEF ServerStep

(* The client's end belongs to one call, as its own or as a nested one,    *)
(* and is open; nothing is left to read where it is closed.                *)
OneClient ==
  /\ \A c \in Clients : cpc[c] \in Waiting =>
       /\ oneshot[call[c].o].rx
       /\ \A d \in Clients : /\ cpc[d] \in Waiting /\ call[d].o = call[c].o => d = c
                             /\ cpc[d] \in NestedPcs => call[d].nested # call[c].o
  /\ \A c \in Clients : cpc[c] \in NestedPcs =>
       /\ oneshot[call[c].nested].rx
       /\ \A d \in Clients : cpc[d] \in NestedPcs /\ call[d].nested = call[c].nested => d = c
  /\ \A o \in Oneshots : ~oneshot[o].rx => oneshot[o].q = << >>

(* Both ends.                                                              *)
EndsInv == OneServer /\ ServerOpen /\ OneClient

(* The server does not touch the clients' ends, and writes nothing where   *)
(* there is no reader.                                                     *)
LEMMA ServerWrites ==
  ASSUME Shape, ServerStep \/ ProcessExit
  PROVE  \A o \in Oneshots : /\ oneshot'[o].rx <=> oneshot[o].rx
                             /\ ~oneshot[o].rx => oneshot'[o].q = oneshot[o].q
<1>1. oneshot \in [Oneshots -> OneshotStates]
  BY EndShapes
<1>2. CASE ProcessExit
  BY <1>1, <1>2 DEF ProcessExit, OneshotStates
<1>3. ASSUME NEW o, NEW r \in Replies, oneshot' \in {Answered(o, r), Replied(o, r), Hushed(o), oneshot}
      PROVE  \A p \in Oneshots : /\ oneshot'[p].rx <=> oneshot[p].rx
                                 /\ ~oneshot[p].rx => oneshot'[p].q = oneshot[p].q
  <2>1. CASE oneshot' = Answered(o, r)
    <3>1. /\ \A p \in Oneshots : p # o => oneshot'[p] = oneshot[p]
          /\ o \in Oneshots => /\ oneshot'[o].rx = oneshot[o].rx
                               /\ oneshot'[o].q = IF oneshot[o].rx THEN Append(oneshot[o].q, r) ELSE oneshot[o].q
      BY <1>1, <2>1, AnsweredOneshot
    <3> QED  BY <3>1
  <2>2. CASE oneshot' = Replied(o, r)
    BY <1>1, <2>2, RepliedOneshot, SMTT(60)
  <2>3. CASE oneshot' = Hushed(o)
    BY <1>1, <2>3, ClosedOneshot
  <2>4. CASE oneshot' = oneshot
    BY <2>4
  <2> QED  BY <1>3, <2>1, <2>2, <2>3, <2>4
<1>4. ASSUME ServerStep
      PROVE  \E o : \E r \in Replies : oneshot' \in {Answered(o, r), Replied(o, r), Hushed(o), oneshot}
  <2>1. R("Ok") \in Replies /\ R("ENOENT") \in Replies
    BY ReplyShapes DEF Tags
  <2>2. CASE \E r : SockAnswers(r) \/ LoopAnswers(r)
    BY <2>2 DEF SockAnswers, LoopAnswers
  <2>3. CASE UNCHANGED oneshot
    BY <2>1, <2>3
  <2>4. CASE \E t \in LockThreads : ThreadEnds(t) \/ \E to, r : ThreadReplies(t, to, r)
    BY <2>1, <2>4 DEF ThreadEnds, ThreadReplies
  <2>5. CASE \E j \in jobs : \E tag : JobAnswers(j, tag)
    BY <2>1, <2>5 DEF JobAnswers
  <2> QED
    BY <1>4, <2>2, <2>3, <2>4, <2>5 DEF ServerStep, SockToJob, SockToLoop, LoopToThread, ThreadStarts,
                                        JobMoves, Quiet, channelVars
<1> QED  BY <1>2, <1>3, <1>4

(* When the process exits, nothing serves any more.                        *)
LEMMA ExitEnds ==
  ASSUME ProcessExit
  PROVE  OneServer' /\ ServerOpen'
BY SMTT(60) DEF ProcessExit, OneServer, ServerOpen, AtRecv, Idle, InJobs, InLoop, InThreads

(* A client sends on a oneshot that nobody serves.                         *)
LEMMA ClientEnds ==
  ASSUME Shape, OneServer, ServerOpen, CallStep
  PROVE  OneServer' /\ ServerOpen'
<1> USE DEF InLoop, InThreads, InJobs
<1>1. /\ oneshot \in [Oneshots -> OneshotStates] /\ sock \in Seq(Requests)
      /\ \A k \in 1 .. Len(sock) : sock[k].o \in Oneshots
      /\ loop.pc = "cmd" => loop.req.o \in Oneshots
      /\ \A t \in LockThreads : threads[t].pc # "none" => threads[t].o \in Oneshots
      /\ \A j \in jobs : j.o \in Oneshots
  BY EndShapes
<1>2. UNCHANGED <<loop, threads, jobs>>
  BY DEF CallStep, daemonVars
<1>3. ASSUME UNCHANGED sock, \A o \in Oneshots : oneshot'[o].tx = oneshot[o].tx
      PROVE  OneServer' /\ ServerOpen'
  BY <1>1, <1>2, <1>3, SMTT(60) DEF OneServer, ServerOpen
<1>4. ASSUME NEW req, SendsOn(req)
      PROVE  OneServer' /\ ServerOpen'
  <2>1. /\ \A k \in 1 .. Len(sock) : sock[k].o # req.o
        /\ loop.pc = "cmd" => loop.req.o # req.o
        /\ \A t \in LockThreads : threads[t].pc # "none" => threads[t].o # req.o
        /\ \A j \in jobs : j.o # req.o
    BY <1>4, SMTT(60) DEF SendsOn, ServerOpen, Closed
  <2>2. /\ Len(sock') = Len(sock) + 1 /\ \A k \in 1 .. Len(sock) : sock'[k] = sock[k]
        /\ sock'[Len(sock) + 1] = req /\ Len(sock) \in Nat
    BY <1>1, <1>4, SockAppend, SMTT(60) DEF SendsOn
  <2>3. OneServer'
    BY <1>2, <2>1, <2>2, SMTT(60) DEF OneServer
  <2>4. ServerOpen'
    BY <1>1, <1>2, <1>4, <2>1, <2>2, SMTT(60) DEF SendsOn, ServerOpen
  <2> QED  BY <2>3, <2>4
<1>5. CASE HangUp
  BY <1>3, <1>5 DEF HangUp
<1>6. CASE UNCHANGED channelVars
  BY <1>3, <1>6 DEF channelVars
<1>7. ASSUME NEW o, DropsEnd(o)
      PROVE  OneServer' /\ ServerOpen'
  BY <1>3, <1>7 DEF DropsEnd
<1>8. ASSUME NEW c, CallWaits(c)
      PROVE  OneServer' /\ ServerOpen'
  BY <1>3, <1>8 DEF CallWaits
<1> QED
  BY <1>4, <1>5, <1>6, <1>7, <1>8 DEF CallStep, CallSends, CallNests, CallEnds, CallResumes

(* A call takes a oneshot that nobody has and keeps it until it drops it.  *)
LEMMA OneClientStep ==
  ASSUME Shape, OneClient, CallStep
  PROVE  OneClient'
<1>1. /\ \A c \in Clients : cpc[c] \in Waiting => call[c].o \in Oneshots
      /\ \A c \in Clients : cpc[c] \in NestedPcs => call[c].nested \in Oneshots
      /\ \A c \in Clients : cpc[c] \in NestedPcs => cpc[c] \in Waiting
  BY CallShapes
<1>2. CASE UNCHANGED <<channelVars, lockables, cpc, call>>
  BY <1>2 DEF OneClient, channelVars
<1>3. CASE HangUp
  BY <1>3 DEF OneClient, HangUp, Waiting, NestedPcs, Simple, Detached
<1>4. ASSUME NEW c \in Clients, NEW req, CallSends(c, req)
      PROVE  OneClient'
  <2>1. \A d \in Clients : /\ cpc[d] \in Waiting => call[d].o # req.o
                           /\ cpc[d] \in NestedPcs => call[d].nested # req.o
    BY <1>4, SMTT(60) DEF CallSends, SendsOn, OneClient, Closed
  <2>2. cpc[c] \notin Waiting /\ cpc'[c] \in Waiting /\ cpc'[c] \notin NestedPcs
    BY <1>4 DEF CallSends, Waiting, NestedPcs, Simple, Detached
  <2> QED  BY <1>1, <1>4, <2>1, <2>2, SMTT(60) DEF CallSends, SendsOn, Elsewhere, OneClient
<1>5. ASSUME NEW c \in Clients, NEW req, CallNests(c, req)
      PROVE  OneClient'
  <2>1. \A d \in Clients : /\ cpc[d] \in Waiting => call[d].o # req.o
                           /\ cpc[d] \in NestedPcs => call[d].nested # req.o
    BY <1>5, SMTT(60) DEF CallNests, SendsOn, OneClient, Closed
  <2>2. cpc[c] \in Waiting \ NestedPcs /\ cpc'[c] \in NestedPcs /\ cpc'[c] \in Waiting
    BY <1>5 DEF CallNests, Waiting, NestedPcs, Simple, Detached
  <2>3. \A d \in Clients : cpc'[d] \in Waiting => cpc[d] \in Waiting /\ call'[d].o = call[d].o
    BY <1>5, <2>2 DEF CallNests, Elsewhere, SameCall
  <2>4. \A d \in Clients : cpc'[d] \in NestedPcs =>
          \/ d = c /\ call'[d].nested = req.o
          \/ cpc[d] \in NestedPcs /\ call'[d].nested = call[d].nested
    BY <1>5 DEF CallNests, Elsewhere
  <2>5. /\ \A o \in Oneshots : o # req.o => oneshot'[o] = oneshot[o]
        /\ oneshot'[req.o].rx /\ oneshot'[req.o].q = << >>
    BY <1>5 DEF CallNests, SendsOn
  <2>6. \A d \in Clients : cpc'[d] \in Waiting =>
          /\ oneshot'[call'[d].o].rx
          /\ \A e \in Clients : /\ cpc'[e] \in Waiting /\ call'[e].o = call'[d].o => e = d
                                /\ cpc'[e] \in NestedPcs => call'[e].nested # call'[d].o
    <3> SUFFICES ASSUME NEW d \in Clients, cpc'[d] \in Waiting
                 PROVE  /\ oneshot'[call'[d].o].rx
                        /\ \A e \in Clients :
                             /\ cpc'[e] \in Waiting /\ call'[e].o = call'[d].o => e = d
                             /\ cpc'[e] \in NestedPcs => call'[e].nested # call'[d].o
      OBVIOUS
    <3>1. /\ cpc[d] \in Waiting /\ call'[d].o = call[d].o
          /\ call[d].o \in Oneshots /\ call[d].o # req.o /\ oneshot[call[d].o].rx
      BY <1>1, <2>1, <2>3 DEF OneClient
    <3>2. oneshot'[call'[d].o] = oneshot[call[d].o]
      BY <2>5, <3>1
    <3>3. \A e \in Clients : cpc'[e] \in Waiting /\ call'[e].o = call'[d].o => e = d
      BY <2>3, <3>1 DEF OneClient
    <3>4. \A e \in Clients : cpc'[e] \in NestedPcs => call'[e].nested # call'[d].o
      BY <2>4, <3>1 DEF OneClient
    <3> QED  BY <3>1, <3>2, <3>3, <3>4
  <2>7. \A d \in Clients : cpc'[d] \in NestedPcs =>
          /\ oneshot'[call'[d].nested].rx
          /\ \A e \in Clients : cpc'[e] \in NestedPcs /\ call'[e].nested = call'[d].nested => e = d
    <3>1. \A d \in Clients : cpc'[d] \in NestedPcs => oneshot'[call'[d].nested].rx
      <4> SUFFICES ASSUME NEW d \in Clients, cpc'[d] \in NestedPcs
                   PROVE  oneshot'[call'[d].nested].rx
        OBVIOUS
      <4>1. CASE call'[d].nested = req.o
        BY <2>5, <4>1
      <4>2. CASE cpc[d] \in NestedPcs /\ call'[d].nested = call[d].nested
        <5>1. call[d].nested \in Oneshots /\ call[d].nested # req.o /\ oneshot[call[d].nested].rx
          BY <1>1, <2>1, <4>2 DEF OneClient
        <5>2. oneshot'[call'[d].nested] = oneshot[call[d].nested]
          BY <2>5, <4>2, <5>1
        <5> QED  BY <5>1, <5>2
      <4> QED  BY <2>4, <4>1, <4>2
    <3>2. \A d, e \in Clients :
            cpc'[d] \in NestedPcs /\ cpc'[e] \in NestedPcs /\ call'[e].nested = call'[d].nested => e = d
      <4> SUFFICES ASSUME NEW d \in Clients, NEW e \in Clients, cpc'[d] \in NestedPcs,
                          cpc'[e] \in NestedPcs, call'[e].nested = call'[d].nested
                   PROVE  e = d
        OBVIOUS
      <4>1. CASE d = c
        BY <2>1, <2>2, <2>4, <4>1
      <4>2. CASE e = c
        BY <2>1, <2>2, <2>4, <4>2
      <4>3. CASE d # c /\ e # c
        BY <2>4, <4>3 DEF OneClient
      <4> QED  BY <4>1, <4>2, <4>3
    <3> QED  BY <3>1, <3>2
  <2>8. \A o \in Oneshots : ~oneshot'[o].rx => oneshot'[o].q = << >>
    BY <2>5 DEF OneClient
  <2> QED  BY <2>6, <2>7, <2>8 DEF OneClient
<1>6. ASSUME NEW c \in Clients, CallEnds(c)
      PROVE  OneClient'
  <2>1. cpc'[c] \notin Waiting /\ cpc'[c] \notin NestedPcs
    BY <1>6 DEF CallEnds, Waiting, NestedPcs, Simple, Detached
  <2>2. CASE UNCHANGED channelVars
    BY <1>6, <2>1, <2>2, SMTT(60) DEF CallEnds, Elsewhere, OneClient, channelVars
  <2>3. CASE cpc[c] \in Waiting \ NestedPcs /\ DropsEnd(call[c].o)
    BY <1>1, <1>6, <2>1, <2>3, SMTT(60) DEF CallEnds, DropsEnd, Elsewhere, OneClient
  <2> QED  BY <1>6, <2>2, <2>3 DEF CallEnds
<1>7. ASSUME NEW c \in Clients, CallWaits(c)
      PROVE  OneClient'
  <2>1. cpc[c] \in Waiting \ NestedPcs /\ cpc'[c] \in Waiting \ NestedPcs
    BY <1>7 DEF CallWaits, Waiting, NestedPcs, Simple, Detached
  <2>2. \A d \in Clients :
          /\ cpc'[d] \in Waiting => cpc[d] \in Waiting /\ call'[d].o = call[d].o
          /\ cpc'[d] \in NestedPcs => cpc[d] \in NestedPcs /\ call'[d].nested = call[d].nested
    BY <1>7, <2>1 DEF CallWaits, Elsewhere, SameCall
  <2>3. \A o \in Oneshots : oneshot'[o].rx = oneshot[o].rx
    BY <1>7 DEF CallWaits
  <2>4. \A o \in Oneshots : ~oneshot'[o].rx => oneshot'[o].q = << >>
    <3>1. oneshot[call[c].o].rx
      BY <2>1 DEF OneClient
    <3> QED  BY <1>7, <2>3, <3>1 DEF CallWaits, OneClient
  <2> QED  BY <1>1, <2>2, <2>3, <2>4 DEF OneClient
<1>8. ASSUME NEW c \in Clients, CallResumes(c)
      PROVE  OneClient'
  <2>1. cpc[c] \in Waiting /\ cpc[c] \in NestedPcs /\ cpc'[c] \in Waiting \ NestedPcs
    BY <1>8 DEF CallResumes, Waiting, NestedPcs, Simple, Detached
  <2>2. \A d \in Clients :
          /\ cpc'[d] \in Waiting => cpc[d] \in Waiting /\ call'[d].o = call[d].o
          /\ cpc'[d] \in NestedPcs => d # c /\ cpc[d] \in NestedPcs /\ call'[d].nested = call[d].nested
    BY <1>8, <2>1 DEF CallResumes, Elsewhere, SameCall
  <2>3. /\ \A o \in Oneshots : o # call[c].nested => oneshot'[o] = oneshot[o]
        /\ oneshot'[call[c].nested].q = << >>
    BY <1>8 DEF CallResumes, DropsEnd
  <2>4. \A d \in Clients : /\ cpc'[d] \in Waiting => call[d].o # call[c].nested
                           /\ cpc'[d] \in NestedPcs => call[d].nested # call[c].nested
    BY <2>1, <2>2 DEF OneClient
  <2>5. \A d \in Clients : /\ cpc'[d] \in Waiting => oneshot'[call'[d].o].rx
                           /\ cpc'[d] \in NestedPcs => oneshot'[call'[d].nested].rx
    <3> SUFFICES ASSUME NEW d \in Clients
                 PROVE  /\ cpc'[d] \in Waiting => oneshot'[call'[d].o].rx
                        /\ cpc'[d] \in NestedPcs => oneshot'[call'[d].nested].rx
      OBVIOUS
    <3>1. ASSUME cpc'[d] \in Waiting PROVE oneshot'[call'[d].o].rx
      <4>1. call[d].o \in Oneshots /\ oneshot[call[d].o].rx
        BY <1>1, <2>2, <3>1 DEF OneClient
      <4>2. oneshot'[call'[d].o] = oneshot[call[d].o]
        BY <2>2, <2>3, <2>4, <4>1, <3>1
      <4> QED  BY <4>1, <4>2
    <3>2. ASSUME cpc'[d] \in NestedPcs PROVE oneshot'[call'[d].nested].rx
      <4>1. call[d].nested \in Oneshots /\ oneshot[call[d].nested].rx
        BY <1>1, <2>2, <3>2 DEF OneClient
      <4>2. oneshot'[call'[d].nested] = oneshot[call[d].nested]
        BY <2>2, <2>3, <2>4, <4>1, <3>2
      <4> QED  BY <4>1, <4>2
    <3> QED  BY <3>1, <3>2
  <2>6. \A o \in Oneshots : ~oneshot'[o].rx => oneshot'[o].q = << >>
    BY <2>3 DEF OneClient
  <2> QED  BY <2>2, <2>5, <2>6 DEF OneClient
<1> QED  BY <1>2, <1>3, <1>4, <1>5, <1>6, <1>7, <1>8 DEF CallStep

(* The ends stay apart in every step.                                      *)
LEMMA EndsStep ==
  ASSUME Shape, EndsInv, [Next]_vars
  PROVE  EndsInv'
<1>1. CASE ServerStep \/ (ProcessExit /\ UNCHANGED clientVars)
  <2>1. OneServer' /\ ServerOpen'
    BY <1>1, ServerEnds, ExitEnds DEF EndsInv
  <2>2. UNCHANGED <<cpc, call>>
    BY <1>1 DEF ServerStep, clientVars
  <2>3. OneClient'
    <3>1. \A o \in Oneshots : /\ oneshot'[o].rx <=> oneshot[o].rx
                              /\ ~oneshot[o].rx => oneshot'[o].q = oneshot[o].q
      BY <1>1, ServerWrites
    <3> QED  BY <2>2, <3>1, CallShapes DEF EndsInv, OneClient
  <2> QED  BY <2>1, <2>3 DEF EndsInv
<1>2. CASE ClientStep
  BY <1>2, CallCases, ClientEnds, OneClientStep DEF EndsInv
<1>3. CASE UNCHANGED vars
  BY <1>3 DEF vars, channelVars, daemonVars, clientVars, EndsInv, OneServer, ServerOpen, OneClient,
              InLoop, InThreads, InJobs
<1> QED  BY <1>1, <1>2, <1>3, ServerCases

(* Each end of a oneshot has one owner: the server's is in one request,    *)
(* thread or job at a time, the client's in one call.                      *)
THEOREM EndsInvariance == Spec => []EndsInv
<1>1. Init => EndsInv
  BY SMTT(60) DEF Init, ChannelsInit, DaemonInit, ClientInit, AtRecv, Idle, Closed, EndsInv, OneServer,
         ServerOpen, OneClient, InLoop, InThreads, InJobs, Waiting, NestedPcs, Simple, Detached
<1> QED  BY <1>1, Shapes, EndsStep, PTL DEF Spec
=============================================================================
