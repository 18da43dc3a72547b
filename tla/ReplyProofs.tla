----------------------------- MODULE ReplyProofs -----------------------------
(***************************************************************************)
(* Proofs about the replies of LockSystem: each goes to the call that      *)
(* asked for it, and what it says holds.                                   *)
(***************************************************************************)
EXTENDS CallProofs

(* Leaves are Zenon's unless they name another prover.                     *)
USE ZenonT(60)

(* What has been answered, by how far the server is.                       *)
EarlyPcs == {"starting", "refused", "trylk"}

(* What is on its way has no reply, and a thread that waits for its lock   *)
(* has written at most the Pending.                                        *)
Unanswered ==
  /\ \A k \in 1 .. Len(sock) : oneshot[sock[k].o].q = << >>
  /\ loop.pc = "cmd" => oneshot[loop.req.o].q = << >>
  /\ \A t \in LockThreads :
       /\ threads[t].pc \in EarlyPcs => oneshot[threads[t].o].q = << >>
       /\ threads[t].pc = "waitlk" => Len(oneshot[threads[t].o].q) <= 1
  /\ \A j \in jobs : oneshot[j.o].q = << >>
  /\ \A o \in Oneshots : Len(oneshot[o].q) <= 2

(* A reply may have been added to o, and to no other oneshot.              *)
Writes(o, r) ==
  /\ \A p \in Oneshots : p # o => oneshot'[p].q = oneshot[p].q
  /\ oneshot'[o].q \in {oneshot[o].q, Append(oneshot[o].q, r)}

(* What the steps of the server write.                                     *)
LEMMA ServerReplies ==
  ASSUME Shape
  PROVE  /\ \A r : SockAnswers(r) => Writes(Head(sock).o, r) /\ r \in Replies
         /\ \A r : LoopAnswers(r) => Writes(loop.req.o, r) /\ r \in Replies
         /\ \A t \in LockThreads : \A to, r :
              ThreadReplies(t, to, r) => Writes(threads[t].o, r) /\ r \in Replies
         /\ \A t \in LockThreads : ThreadEnds(t) => \A o \in Oneshots : oneshot'[o].q = oneshot[o].q
         /\ \A j \in jobs : \A tag : JobAnswers(j, tag) =>
              Writes(j.o, R(tag)) /\ R(tag) \in Replies /\ R(tag).tag = tag
<1>1. oneshot \in [Oneshots -> OneshotStates] /\ sock \in Seq(Requests)
  BY EndShapes
<1>2. ASSUME NEW o \in Oneshots, NEW r \in Replies, oneshot' = Answered(o, r) \/ oneshot' = Replied(o, r)
      PROVE  Writes(o, r)
  <2>1. /\ \A p \in Oneshots : p # o => oneshot'[p] = oneshot[p]
        /\ oneshot'[o].q = IF oneshot[o].rx THEN Append(oneshot[o].q, r) ELSE oneshot[o].q
    <3>1. CASE oneshot' = Answered(o, r)
      BY <1>1, <3>1, AnsweredOneshot
    <3>2. CASE oneshot' = Replied(o, r)
      BY <1>1, <3>2, RepliedOneshot
    <3> QED  BY <1>2, <3>1, <3>2
  <2> QED  BY <2>1 DEF Writes
<1>8. ASSUME NEW o \in Oneshots, oneshot' = Hushed(o)
      PROVE  \A p \in Oneshots : oneshot'[p].q = oneshot[p].q
  BY <1>1, <1>8, ClosedOneshot
<1>3. ASSUME NEW r, SockAnswers(r)
      PROVE  Writes(Head(sock).o, r) /\ r \in Replies
  <2>1. Head(sock).o \in Oneshots /\ r \in Replies
    BY <1>1, <1>3, SockTail DEF SockAnswers, Requests
  <2>2. CASE oneshot' = Hushed(Head(sock).o)
    BY <1>8, <2>1, <2>2 DEF Writes
  <2> QED  BY <1>2, <1>3, <2>1, <2>2 DEF SockAnswers
<1>4. ASSUME NEW r, LoopAnswers(r)
      PROVE  Writes(loop.req.o, r) /\ r \in Replies
  BY <1>2, <1>4, EndShapes DEF LoopAnswers
<1>5. ASSUME NEW t \in LockThreads, NEW to, NEW r, ThreadReplies(t, to, r)
      PROVE  Writes(threads[t].o, r) /\ r \in Replies
  <2>1. threads[t].o \in Oneshots
    BY <1>5, EndShapes DEF ThreadReplies
  <2> QED  BY <1>2, <1>5, <2>1 DEF ThreadReplies
<1>6. ASSUME NEW t \in LockThreads, ThreadEnds(t)
      PROVE  \A o \in Oneshots : oneshot'[o].q = oneshot[o].q
  BY <1>6, <1>8, EndShapes DEF ThreadEnds
<1>7. ASSUME NEW j \in jobs, NEW tag, JobAnswers(j, tag)
      PROVE  Writes(j.o, R(tag)) /\ R(tag) \in Replies /\ R(tag).tag = tag
  <2>1. R(tag) \in Replies /\ R(tag).tag = tag /\ j.o \in Oneshots
    BY <1>7, ReplyShapes, EndShapes DEF JobAnswers, Tags
  <2> QED  BY <1>2, <1>7, <2>1 DEF JobAnswers
<1> QED  BY <1>3, <1>4, <1>5, <1>6, <1>7

(* The clients only take replies away.                                     *)
LEMMA ClientReads ==
  ASSUME Shape, CallStep
  PROVE  \A o \in Oneshots : /\ Len(oneshot'[o].q) <= Len(oneshot[o].q) /\ Len(oneshot'[o].q) \in Nat
                             /\ oneshot[o].q = << >> => oneshot'[o].q = << >>
<1>1. \A o \in Oneshots : oneshot[o].q \in Seq(Replies)
  BY EndShapes DEF OneshotStates
<1>2. ASSUME \A o \in Oneshots : \/ oneshot'[o].q \in {<< >>, oneshot[o].q}
                                 \/ oneshot[o].q # << >> /\ oneshot'[o].q = Tail(oneshot[o].q)
      PROVE  \A o \in Oneshots : /\ Len(oneshot'[o].q) <= Len(oneshot[o].q) /\ Len(oneshot'[o].q) \in Nat
                                 /\ oneshot[o].q = << >> => oneshot'[o].q = << >>
  <2> SUFFICES ASSUME NEW o \in Oneshots
               PROVE  /\ Len(oneshot'[o].q) <= Len(oneshot[o].q) /\ Len(oneshot'[o].q) \in Nat
                      /\ oneshot[o].q = << >> => oneshot'[o].q = << >>
    OBVIOUS
  <2> DEFINE q == oneshot[o].q
  <2>1. q \in Seq(Replies)
    BY <1>1
  <2>2. q # << >> => Len(Tail(q)) <= Len(q) /\ Len(Tail(q)) \in Nat
    BY <2>1, SMTT(60)
  <2>3. Len(<< >>) <= Len(q) /\ Len(q) <= Len(q) /\ Len(q) \in Nat /\ Len(<< >>) \in Nat
    BY <2>1, SMTT(60)
  <2> QED  BY <1>2, <2>2, <2>3
<1>3. CASE HangUp
  BY <1>2, <1>3 DEF HangUp
<1>4. CASE UNCHANGED channelVars
  BY <1>2, <1>4 DEF channelVars
<1>5. ASSUME NEW o, DropsEnd(o)
      PROVE  \A p \in Oneshots : oneshot'[p].q \in {<< >>, oneshot[p].q}
  BY <1>5 DEF DropsEnd
<1>6. ASSUME NEW req, SendsOn(req)
      PROVE  \A p \in Oneshots : oneshot'[p].q \in {<< >>, oneshot[p].q}
  BY <1>6 DEF SendsOn
<1>7. ASSUME NEW c, CallWaits(c)
      PROVE  \A p \in Oneshots : \/ oneshot'[p].q \in {<< >>, oneshot[p].q}
                                 \/ oneshot[p].q # << >> /\ oneshot'[p].q = Tail(oneshot[p].q)
  <2>1. /\ \A p \in Oneshots : p # call[c].o => oneshot'[p] = oneshot[p]
        /\ oneshot[call[c].o].q # << >> /\ oneshot'[call[c].o].q = Tail(oneshot[call[c].o].q)
    BY <1>7 DEF CallWaits, HasReply
  <2> QED  BY <2>1
<1> QED
  BY <1>2, <1>3, <1>4, <1>5, <1>6, <1>7 DEF CallStep, CallSends, CallNests, CallEnds, CallResumes

(* The server answers once, and twice only if it first says Pending.       *)
LEMMA UnansweredServer ==
  ASSUME Shape, EndsInv, Unanswered, ServerStep
  PROVE  Unanswered'
<1> USE DEF InLoop, InThreads, InJobs
<1>1. /\ sock \in Seq(Requests)
      /\ \A k \in 1 .. Len(sock) : sock[k].o \in Oneshots
      /\ loop.pc = "cmd" => loop.req.o \in Oneshots
      /\ \A t \in LockThreads : threads[t].pc # "none" => threads[t].o \in Oneshots
      /\ \A j \in jobs : j.o \in Oneshots
  BY EndShapes
<1>2. OneServer /\ LoopShape /\ ThreadShape /\ \A o \in Oneshots : oneshot[o].q \in Seq(Replies)
  BY EndShapes DEF EndsInv, Shape, DaemonShape, OneshotStates
<1>3. "none" \notin EarlyPcs /\ "waitlk" \notin EarlyPcs
  BY DEF EarlyPcs
<1>4. ASSUME NEW o \in Oneshots, NEW r \in Replies, Writes(o, r), Len(oneshot[o].q) <= 1
      PROVE  /\ \A p \in Oneshots : Len(oneshot'[p].q) <= 2
             /\ oneshot[o].q = << >> => Len(oneshot'[o].q) <= 1
  <2>1. Len(oneshot'[o].q) <= Len(oneshot[o].q) + 1 /\ Len(oneshot[o].q) \in Nat
    BY <1>2, <1>4, SMTT(60) DEF Writes
  <2>2. oneshot[o].q = << >> => Len(oneshot[o].q) = 0
    BY SMTT(60)
  <2>3. \A p \in Oneshots : p # o => Len(oneshot'[p].q) <= 2
    BY <1>4 DEF Unanswered, Writes
  <2> QED  BY <1>4, <2>1, <2>2, <2>3, SMTT(60)
<1>5. ASSUME NEW r, SockAnswers(r)
      PROVE  Unanswered'
  <2>1. Writes(Head(sock).o, r) /\ r \in Replies
    BY <1>5, ServerReplies
  <2>2. Head(sock).o \in Oneshots /\ oneshot[Head(sock).o].q = << >>
    BY <1>1, <1>5, SockTail DEF SockAnswers, Unanswered
  <2>3. \A p \in Oneshots : Len(oneshot'[p].q) <= 2
    BY <1>4, <2>1, <2>2, SMTT(60)
  <2>4. /\ loop.pc = "cmd" => loop.req.o # Head(sock).o
        /\ \A t \in LockThreads : threads[t].pc # "none" => threads[t].o # Head(sock).o
        /\ \A j \in jobs : j.o # Head(sock).o
        /\ \A l \in 1 .. Len(sock) : sock[l].o = Head(sock).o => l = 1
    <3>1. 1 \in 1 .. Len(sock) /\ Head(sock) = sock[1]
      BY <1>1, <1>5, SockTail DEF SockAnswers
    <3>2. /\ \A l \in 1 .. Len(sock) : sock[l].o = sock[1].o => l = 1
          /\ ~InLoop(sock[1].o) /\ ~InThreads(sock[1].o) /\ ~InJobs(sock[1].o)
      BY <1>2, <3>1 DEF OneServer
    <3> QED  BY <3>1, <3>2 DEF InLoop, InThreads, InJobs
  <2>5. ASSUME NEW k \in 1 .. Len(sock')
        PROVE  oneshot'[sock'[k].o].q = << >>
    <3>1. k + 1 # 1
      BY SMTT(60)
    <3>2. k + 1 \in 1 .. Len(sock) /\ sock'[k] = sock[k + 1]
      BY <1>1, <1>5, <2>5, SockTail DEF SockAnswers
    <3>3. sock[k + 1].o \in Oneshots /\ sock[k + 1].o # Head(sock).o
      BY <1>1, <2>4, <3>1, <3>2
    <3> QED  BY <2>1, <3>2, <3>3 DEF Writes, Unanswered
  <2> QED  BY <1>1, <1>3, <1>5, <2>1, <2>3, <2>4, <2>5 DEF SockAnswers, Writes, Unanswered
<1>6. ASSUME NEW op, SockToJob(op)
      PROVE  Unanswered'
  <2>1. PICK n : n.o = Head(sock).o /\ jobs' = jobs \cup {n}
    BY <1>6 DEF SockToJob
  <2> QED  BY <1>1, <1>6, <2>1, SockTail DEF SockToJob, Unanswered
<1>7. CASE SockToLoop
  <2>1. loop'.pc = "cmd" /\ loop'.req = Head(sock)
    BY <1>2, <1>7 DEF SockToLoop, LoopShape
  <2> QED  BY <1>1, <1>7, <2>1, SockTail DEF SockToLoop, Unanswered
<1>8. ASSUME NEW r, LoopAnswers(r)
      PROVE  Unanswered'
  <2>1. Writes(loop.req.o, r) /\ r \in Replies
    BY <1>8, ServerReplies
  <2>2. \A p \in Oneshots : Len(oneshot'[p].q) <= 2
    BY <1>1, <1>4, <1>8, <2>1, SMTT(60) DEF LoopAnswers, Unanswered
  <2> QED  BY <1>1, <1>2, <1>3, <1>8, <2>1, <2>2 DEF LoopAnswers, AtRecv, Writes, OneServer, Unanswered
<1>9. ASSUME NEW t \in LockThreads, LoopToThread(t)
      PROVE  Unanswered'
  <2>1. /\ loop.pc = "cmd" /\ loop'.pc = "spawn" /\ threads'[t].pc = "starting"
        /\ threads'[t].o = loop.req.o /\ \A u \in LockThreads : u # t => threads'[u] = threads[u]
        /\ UNCHANGED <<sock, oneshot, jobs>>
    BY <1>2, <1>9 DEF LoopToThread, LoopShape, ThreadShape, channelVars
  <2> QED  BY <2>1 DEF Unanswered
<1>10. ASSUME NEW t \in LockThreads, NEW to, ThreadStarts(t, to)
      PROVE  Unanswered'
  <2>1. /\ \A u \in LockThreads : threads'[u].o = threads[u].o
        /\ \A u \in LockThreads : u # t => threads'[u].pc = threads[u].pc
        /\ threads[t].pc \in EarlyPcs /\ threads'[t].pc # "waitlk"
        /\ UNCHANGED <<sock, oneshot, loop, jobs>>
    BY <1>2, <1>10 DEF ThreadStarts, ThreadShape, channelVars, EarlyPcs
  <2> QED  BY <2>1 DEF Unanswered
<1>11. ASSUME NEW t \in LockThreads, NEW to, NEW r, ThreadReplies(t, to, r)
      PROVE  Unanswered'
  <2>1. /\ \A u \in LockThreads : threads'[u].o = threads[u].o
        /\ \A u \in LockThreads : u # t => threads'[u].pc = threads[u].pc
        /\ threads[t].pc # "none" /\ threads'[t].pc \notin EarlyPcs
        /\ threads'[t].pc = "waitlk" => threads[t].pc \in EarlyPcs
        /\ threads[t].pc \in EarlyPcs \cup {"waitlk"}
        /\ UNCHANGED <<sock, loop, jobs>>
    BY <1>2, <1>11 DEF ThreadReplies, ThreadShape, EarlyPcs
  <2>2. Writes(threads[t].o, r) /\ r \in Replies /\ threads[t].o \in Oneshots
    BY <1>1, <1>11, <2>1, ServerReplies
  <2>3. /\ Len(oneshot[threads[t].o].q) <= 1
        /\ threads[t].pc \in EarlyPcs => oneshot[threads[t].o].q = << >>
    BY <2>1, SMTT(60) DEF Unanswered
  <2>4. /\ \A p \in Oneshots : Len(oneshot'[p].q) <= 2
        /\ oneshot[threads[t].o].q = << >> => Len(oneshot'[threads[t].o].q) <= 1
    BY <1>4, <2>2, <2>3
  <2>5. \A u \in LockThreads : u # t /\ threads[u].pc # "none" => threads[u].o # threads[t].o
    BY <1>2, <2>1 DEF OneServer
  <2>6. \A u \in LockThreads : /\ threads'[u].pc \in EarlyPcs => oneshot'[threads[u].o].q = << >>
                               /\ threads'[u].pc = "waitlk" => Len(oneshot'[threads[u].o].q) <= 1
    <3> SUFFICES ASSUME NEW u \in LockThreads
                 PROVE  /\ threads'[u].pc \in EarlyPcs => oneshot'[threads[u].o].q = << >>
                        /\ threads'[u].pc = "waitlk" => Len(oneshot'[threads[u].o].q) <= 1
      OBVIOUS
    <3>1. CASE u = t
      BY <2>1, <2>3, <2>4, <3>1
    <3>2. CASE u # t
      BY <1>1, <1>3, <2>1, <2>2, <2>5, <3>2 DEF Writes, Unanswered
    <3> QED  BY <3>1, <3>2
  <2>7. /\ \A k \in 1 .. Len(sock) : oneshot'[sock[k].o].q = << >>
        /\ loop.pc = "cmd" => oneshot'[loop.req.o].q = << >>
        /\ \A j \in jobs : oneshot'[j.o].q = << >>
    <3>1. /\ \A k \in 1 .. Len(sock) : sock[k].o # threads[t].o
          /\ loop.pc = "cmd" => loop.req.o # threads[t].o
          /\ \A j \in jobs : j.o # threads[t].o
      BY <1>2, <2>1 DEF OneServer
    <3> QED  BY <1>1, <2>2, <3>1 DEF Writes, Unanswered
  <2> QED  BY <2>1, <2>4, <2>6, <2>7 DEF Unanswered
<1>12. ASSUME NEW t \in LockThreads, ThreadEnds(t)
      PROVE  Unanswered'
  <2>1. \A o \in Oneshots : oneshot'[o].q = oneshot[o].q
    BY <1>12, ServerReplies
  <2>2. threads'[t].pc = "none" /\ \A u \in LockThreads : u # t => threads'[u] = threads[u]
    BY <1>2, <1>12 DEF ThreadEnds, ThreadShape, Idle
  <2>3. \A u \in LockThreads :
          /\ threads'[u].pc \in EarlyPcs => oneshot'[threads'[u].o].q = << >>
          /\ threads'[u].pc = "waitlk" => Len(oneshot'[threads'[u].o].q) <= 1
    <3> SUFFICES ASSUME NEW u \in LockThreads
                 PROVE  /\ threads'[u].pc \in EarlyPcs => oneshot'[threads'[u].o].q = << >>
                        /\ threads'[u].pc = "waitlk" => Len(oneshot'[threads'[u].o].q) <= 1
      OBVIOUS
    <3>1. CASE u = t
      BY <1>3, <2>2, <3>1
    <3>2. CASE u # t
      <4>1. threads'[u] = threads[u]
        BY <2>2, <3>2
      <4>2. threads[u].pc # "none" => oneshot'[threads'[u].o].q = oneshot[threads[u].o].q
        BY <1>1, <2>1, <4>1
      <4> QED  BY <1>3, <4>1, <4>2 DEF Unanswered
    <3> QED  BY <3>1, <3>2
  <2> QED  BY <1>1, <1>12, <2>1, <2>3 DEF ThreadEnds, Unanswered
<1>13. ASSUME NEW j \in jobs, NEW k, JobMoves(j, k)
      PROVE  Unanswered'
  BY <1>13 DEF JobMoves, Unanswered, channelVars
<1>14. ASSUME NEW j \in jobs, NEW tag, JobAnswers(j, tag)
      PROVE  Unanswered'
  <2>1. Writes(j.o, R(tag)) /\ R(tag) \in Replies /\ j.o \in Oneshots /\ oneshot[j.o].q = << >>
    BY <1>1, <1>14, ServerReplies DEF Unanswered
  <2>2. \A p \in Oneshots : Len(oneshot'[p].q) <= 2
    BY <1>4, <2>1, SMTT(60)
  <2>3. /\ \A k \in 1 .. Len(sock) : sock[k].o # j.o
        /\ loop.pc = "cmd" => loop.req.o # j.o
        /\ \A t \in LockThreads : threads[t].pc # "none" => threads[t].o # j.o
        /\ \A k \in jobs' : k \in jobs /\ k.o # j.o
    BY <1>2, <1>14 DEF JobAnswers, OneServer
  <2>4. \A t \in LockThreads :
          /\ threads[t].pc \in EarlyPcs => oneshot'[threads[t].o].q = << >>
          /\ threads[t].pc = "waitlk" => Len(oneshot'[threads[t].o].q) <= 1
    BY <1>1, <1>3, <2>1, <2>3 DEF Writes, Unanswered
  <2> QED  BY <1>1, <1>14, <2>1, <2>2, <2>3, <2>4 DEF JobAnswers, Writes, Unanswered
<1>15. CASE Quiet
  BY <1>15 DEF Quiet, Unanswered, channelVars
<1> QED
  BY <1>5, <1>6, <1>7, <1>8, <1>9, <1>10, <1>11, <1>12, <1>13, <1>14, <1>15 DEF ServerStep

(* The clients write no replies, and send with an empty oneshot.           *)
LEMMA UnansweredClient ==
  ASSUME Shape, EndsInv, Unanswered, CallStep
  PROVE  Unanswered'
<1>1. /\ sock \in Seq(Requests)
      /\ \A k \in 1 .. Len(sock) : sock[k].o \in Oneshots
      /\ loop.pc = "cmd" => loop.req.o \in Oneshots
      /\ \A t \in LockThreads : threads[t].pc # "none" => threads[t].o \in Oneshots
      /\ \A j \in jobs : j.o \in Oneshots
  BY EndShapes
<1>2. UNCHANGED <<loop, threads, jobs>>
  BY DEF CallStep, daemonVars
<1>3. /\ \A o \in Oneshots : /\ Len(oneshot'[o].q) <= Len(oneshot[o].q)
                             /\ oneshot[o].q = << >> => oneshot'[o].q = << >>
      /\ \A o \in Oneshots : Len(oneshot[o].q) \in Nat /\ Len(oneshot'[o].q) \in Nat
  <2>1. \A o \in Oneshots : Len(oneshot[o].q) \in Nat
    BY EndShapes, SMTT(60) DEF OneshotStates
  <2> QED  BY <2>1, ClientReads
<1>4. \/ UNCHANGED sock
      \/ \E req \in Requests : sock' = Append(sock, req) /\ req.o \in Oneshots /\ oneshot[req.o] = Closed
  <2>1. CASE UNCHANGED <<channelVars, lockables, cpc, call>>
    BY <2>1 DEF channelVars
  <2>2. CASE HangUp
    BY <2>2 DEF HangUp
  <2>3. ASSUME NEW c \in Clients, NEW req, CallSends(c, req) \/ CallNests(c, req)
        PROVE  req \in Requests /\ sock' = Append(sock, req) /\ req.o \in Oneshots
               /\ oneshot[req.o] = Closed
    BY <2>3 DEF CallSends, CallNests, SendsOn
  <2>4. ASSUME NEW c \in Clients, CallEnds(c) \/ CallWaits(c) \/ CallResumes(c)
        PROVE  UNCHANGED sock
    BY <2>4 DEF CallEnds, CallWaits, CallResumes, DropsEnd, channelVars
  <2> QED  BY <2>1, <2>2, <2>3, <2>4 DEF CallStep
<1>5. \A k \in 1 .. Len(sock') : oneshot'[sock'[k].o].q = << >>
  <2>1. CASE UNCHANGED sock
    BY <1>1, <1>3, <2>1 DEF Unanswered
  <2>2. ASSUME NEW req \in Requests, sock' = Append(sock, req), req.o \in Oneshots, oneshot[req.o] = Closed
        PROVE  \A k \in 1 .. Len(sock') : oneshot'[sock'[k].o].q = << >>
    BY <1>1, <1>3, <2>2, SockAppend, SMTT(60) DEF Unanswered, Closed
  <2> QED  BY <1>4, <2>1, <2>2
<1>6. "none" \notin EarlyPcs
  BY DEF EarlyPcs
<1> QED  BY <1>1, <1>2, <1>3, <1>5, <1>6, SMTT(60) DEF Unanswered

(* So it is for every step.                                                *)
LEMMA UnansweredStep ==
  ASSUME Shape, EndsInv, Unanswered, [Next]_vars
  PROVE  Unanswered'
<1>1. CASE ProcessExit
  <2>1. \A o \in Oneshots : oneshot'[o].q = oneshot[o].q
    BY <1>1, EndShapes DEF ProcessExit, OneshotStates
  <2>2. sock' = << >> /\ loop'.pc = "recv" /\ jobs' = {} /\ \A t \in LockThreads : threads'[t].pc = "none"
    BY <1>1 DEF ProcessExit, AtRecv, Idle
  <2> QED  BY <2>1, <2>2, SMTT(60) DEF Unanswered, EarlyPcs
<1>2. CASE UNCHANGED vars
  BY <1>2 DEF vars, channelVars, daemonVars, Unanswered
<1> QED  BY <1>1, <1>2, UnansweredServer, UnansweredClient, ServerCases, CallCases

-----------------------------------------------------------------------------
(* The server works on what the call asked for, wherever the call's reply  *)
(* is.                                                                     *)
MatchSock(c) ==
  \A k \in 1 .. Len(sock) : sock[k].o = call[c].o =>
    sock[k].op = cpc[c] /\ sock[k].id = call[c].id /\ sock[k].act = call[c].act

MatchLoop(c) ==
  InLoop(call[c].o) =>
    loop.req.op = cpc[c] /\ loop.req.id = call[c].id /\ loop.req.act = call[c].act

MatchThreads(c) ==
  \A t \in LockThreads : threads[t].pc # "none" /\ threads[t].o = call[c].o =>
    /\ cpc[c] \in Detached /\ threads[t].id = call[c].id /\ threads[t].act = call[c].act
    /\ threads[t].pc \in EarlyPcs => cpc[c] = "SetLkw"

MatchJobs(c) ==
  \A j \in jobs : j.o = call[c].o => cpc[c] = "Unregister" /\ j.op = "Unregister" /\ j.id = call[c].id

MatchInv ==
  \A c \in Clients : cpc[c] \in Waiting =>
    MatchSock(c) /\ MatchLoop(c) /\ MatchThreads(c) /\ MatchJobs(c)

(* And on the interrupt that the nested request names.                     *)
MatchNested(c) ==
  LET n == call[c].nested IN
  /\ \A k \in 1 .. Len(sock) : sock[k].o = n =>
       /\ sock[k].op = (IF cpc[c] = "interrupt" THEN "Interrupt" ELSE "RemoveInterrupt")
       /\ sock[k].id = call[c].iid
  /\ ~InLoop(n) /\ ~InThreads(n)
  /\ \A j \in jobs : j.o = n =>
       cpc[c] = "interrupt" /\ j.op = "Interrupt" /\ j.id = call[c].iid

NestedMatch == \A c \in Clients : cpc[c] \in NestedPcs => MatchNested(c)

(* The server takes operation, file and lock type from the request.        *)
LEMMA MatchServer ==
  ASSUME Shape, MatchInv, NestedMatch, ServerStep
  PROVE  MatchInv' /\ NestedMatch'
<1> USE DEF InLoop, InThreads, InJobs
<1>1. sock \in Seq(Requests) /\ LoopShape /\ ThreadShape
  BY DEF Shape, ChannelShape, DaemonShape
<1>2. UNCHANGED <<cpc, call>>
  BY DEF ServerStep, clientVars
<1>3. ASSUME UNCHANGED <<threads, jobs>>, sock' = sock \/ (sock # << >> /\ sock' = Tail(sock)),
             loop' = loop \/ loop'.pc # "cmd"
      PROVE  MatchInv' /\ NestedMatch'
  <2>1. \A k \in 1 .. Len(sock') : \E l \in 1 .. Len(sock) : sock'[k] = sock[l]
    BY <1>1, <1>3, SockTail
  <2>2. \A c \in Clients : cpc[c] \in Waiting => MatchSock(c)'
    BY <1>2, <2>1, SMTT(60) DEF MatchInv, MatchSock
  <2>3. \A c \in Clients : cpc[c] \in Waiting => MatchLoop(c)' /\ MatchThreads(c)' /\ MatchJobs(c)'
    BY <1>2, <1>3, SMTT(60) DEF MatchInv, MatchLoop, MatchThreads, MatchJobs
  <2>4. NestedMatch'
    <3>1. ASSUME NEW c \in Clients, cpc[c] \in NestedPcs
          PROVE  MatchNested(c)'
      BY <1>2, <1>3, <2>1, <3>1, SMTT(60) DEF NestedMatch, MatchNested
    <3> QED  BY <1>2, <3>1 DEF NestedMatch
  <2> QED  BY <1>2, <2>2, <2>3, <2>4 DEF MatchInv
<1>4. CASE (\E r : SockAnswers(r) \/ LoopAnswers(r)) \/ Quiet
  BY <1>3, <1>4, SMTT(60) DEF SockAnswers, LoopAnswers, Quiet, AtRecv, channelVars
<1>5. ASSUME NEW op \in {"Interrupt", "Unregister"}, SockToJob(op)
      PROVE  MatchInv' /\ NestedMatch'
  <2>1. PICK n : n.o = Head(sock).o /\ n.op = op /\ n.id = Head(sock).id /\ jobs' = jobs \cup {n}
    BY <1>5 DEF SockToJob
  <2>2. UNCHANGED <<loop, threads>> /\ sock # << >> /\ sock' = Tail(sock) /\ Head(sock).op = op
    BY <1>5 DEF SockToJob
  <2>3. \A c \in Clients : cpc[c] \in Waiting => MatchSock(c)' /\ MatchLoop(c)' /\ MatchThreads(c)'
    BY <1>1, <1>2, <2>2, SockTail, SMTT(60) DEF MatchInv, MatchSock, MatchLoop, MatchThreads
  <2>4. \A c \in Clients : cpc[c] \in Waiting => MatchJobs(c)'
    <3>1. ASSUME NEW c \in Clients, cpc[c] \in Waiting, Head(sock).o = call[c].o
          PROVE  cpc[c] = op /\ op = "Unregister" /\ Head(sock).id = call[c].id
      BY <1>1, <2>2, <3>1, SockTail, SMTT(60) DEF MatchInv, MatchSock, Waiting, Simple, Detached
    <3> QED  BY <1>2, <2>1, <3>1 DEF MatchInv, MatchJobs
  <2>5. NestedMatch'
    <3>1. ASSUME NEW c \in Clients, cpc[c] \in NestedPcs, Head(sock).o = call[c].nested
          PROVE  cpc[c] = "interrupt" /\ op = "Interrupt" /\ Head(sock).id = call[c].iid
      BY <1>1, <2>2, <3>1, SockTail, SMTT(60) DEF NestedMatch, MatchNested, NestedPcs
    <3> QED  BY <1>1, <1>2, <2>1, <2>2, <3>1, SockTail, SMTT(60) DEF NestedMatch, MatchNested
  <2> QED  BY <1>2, <2>3, <2>4, <2>5 DEF MatchInv
<1>6. CASE SockToLoop
  <2>1. /\ loop'.pc = "cmd" /\ loop'.req = Head(sock) /\ Head(sock).op \in LkOps
        /\ UNCHANGED <<threads, jobs>> /\ sock # << >> /\ sock' = Tail(sock)
    BY <1>1, <1>6 DEF SockToLoop, LoopShape
  <2>2. \A c \in Clients : cpc[c] \in Waiting => MatchSock(c)' /\ MatchLoop(c)'
    BY <1>1, <1>2, <2>1, SockTail, SMTT(60) DEF MatchInv, MatchSock, MatchLoop
  <2>3. \A c \in Clients : cpc[c] \in Waiting => MatchThreads(c)' /\ MatchJobs(c)'
    BY <1>2, <2>1 DEF MatchInv, MatchThreads, MatchJobs
  <2>4. \A c \in Clients : cpc[c] \in NestedPcs => Head(sock).o # call[c].nested
    BY <1>1, <2>1, SockTail, SMTT(60) DEF NestedMatch, MatchNested, LkOps
  <2>5. NestedMatch'
    BY <1>1, <1>2, <2>1, <2>4, SockTail, SMTT(60) DEF NestedMatch, MatchNested
  <2> QED  BY <1>2, <2>2, <2>3, <2>5 DEF MatchInv
<1>7. ASSUME NEW t \in LockThreads, LoopToThread(t)
      PROVE  MatchInv' /\ NestedMatch'
  <2>1. /\ loop.pc = "cmd" /\ loop.req.op = "SetLkw" /\ loop'.pc = "spawn" /\ threads'[t].pc = "starting"
        /\ threads'[t].o = loop.req.o /\ threads'[t].id = loop.req.id /\ threads'[t].act = loop.req.act
        /\ \A u \in LockThreads : u # t => threads'[u] = threads[u]
        /\ UNCHANGED <<sock, jobs>>
    BY <1>1, <1>7 DEF LoopToThread, LoopShape, ThreadShape, channelVars
  <2>2. \A c \in Clients : cpc[c] \in Waiting => MatchSock(c)' /\ MatchLoop(c)' /\ MatchJobs(c)'
    BY <1>2, <2>1, SMTT(60) DEF MatchInv, MatchSock, MatchLoop, MatchJobs
  <2>3. \A c \in Clients : cpc[c] \in Waiting => MatchThreads(c)'
    BY <1>2, <2>1, SMTT(60) DEF MatchInv, MatchLoop, MatchThreads, Detached
  <2>4. NestedMatch'
    BY <1>2, <2>1, SMTT(60) DEF NestedMatch, MatchNested
  <2> QED  BY <1>2, <2>2, <2>3, <2>4 DEF MatchInv
<1>8. ASSUME UNCHANGED <<sock, loop, jobs>>,
             \A u \in LockThreads : threads'[u].pc # "none" =>
               /\ threads[u].pc # "none" /\ threads'[u].o = threads[u].o
               /\ threads'[u].id = threads[u].id /\ threads'[u].act = threads[u].act
               /\ threads'[u].pc \in EarlyPcs => threads[u].pc \in EarlyPcs
      PROVE  MatchInv' /\ NestedMatch'
  <2>1. \A c \in Clients : cpc[c] \in Waiting => MatchSock(c)' /\ MatchLoop(c)' /\ MatchJobs(c)'
    BY <1>2, <1>8 DEF MatchInv, MatchSock, MatchLoop, MatchJobs
  <2>2. \A c \in Clients : cpc[c] \in Waiting => MatchThreads(c)'
    BY <1>2, <1>8, SMTT(60) DEF MatchInv, MatchThreads
  <2>3. NestedMatch'
    BY <1>2, <1>8, SMTT(60) DEF NestedMatch, MatchNested
  <2> QED  BY <1>2, <2>1, <2>2, <2>3 DEF MatchInv
<1>9. ASSUME NEW t \in LockThreads, (\E to : ThreadStarts(t, to)) \/ (\E to, r : ThreadReplies(t, to, r))
      PROVE  MatchInv' /\ NestedMatch'
  <2>1. PICK to : /\ threads' = [threads EXCEPT ![t] = [threads[t] EXCEPT !.pc = to]]
                  /\ UNCHANGED <<sock, loop, jobs>>
                  /\ \/ threads[t].pc = "starting"
                     \/ to \notin EarlyPcs /\ threads[t].pc # "none"
    BY <1>9 DEF ThreadStarts, ThreadReplies, channelVars, EarlyPcs
  <2>2. \A u \in LockThreads : threads'[u].pc # "none" =>
               /\ threads[u].pc # "none" /\ threads'[u].o = threads[u].o
               /\ threads'[u].id = threads[u].id /\ threads'[u].act = threads[u].act
               /\ threads'[u].pc \in EarlyPcs => threads[u].pc \in EarlyPcs
    BY <1>1, <2>1 DEF ThreadShape, EarlyPcs
  <2> QED  BY <1>8, <2>1, <2>2
<1>10. ASSUME NEW t \in LockThreads, ThreadEnds(t)
      PROVE  MatchInv' /\ NestedMatch'
  <2>1. \A u \in LockThreads : threads'[u].pc # "none" => threads'[u] = threads[u]
    BY <1>1, <1>10 DEF ThreadEnds, ThreadShape, Idle
  <2> QED  BY <1>8, <1>10, <2>1 DEF ThreadEnds
<1>11. ASSUME UNCHANGED <<sock, loop, threads>>,
              \A k \in jobs' : \E j \in jobs : k.op = j.op /\ k.id = j.id /\ k.o = j.o
      PROVE  MatchInv' /\ NestedMatch'
  <2>1. \A c \in Clients : cpc[c] \in Waiting => MatchSock(c)' /\ MatchLoop(c)' /\ MatchThreads(c)'
    BY <1>2, <1>11 DEF MatchInv, MatchSock, MatchLoop, MatchThreads
  <2>2. \A c \in Clients : cpc[c] \in Waiting => MatchJobs(c)'
    BY <1>2, <1>11 DEF MatchInv, MatchJobs
  <2>3. NestedMatch'
    BY <1>2, <1>11, SMTT(60) DEF NestedMatch, MatchNested
  <2> QED  BY <1>2, <2>1, <2>2, <2>3 DEF MatchInv
<1>12. ASSUME NEW j \in jobs, (\E k : JobMoves(j, k)) \/ (\E tag : JobAnswers(j, tag))
      PROVE  MatchInv' /\ NestedMatch'
  BY <1>11, <1>12 DEF JobMoves, JobAnswers, channelVars
<1> QED
  BY <1>4, <1>5, <1>6, <1>7, <1>9, <1>10, <1>12 DEF ServerStep

(* A call keeps what it asked for until it ends, and has read an answer    *)
(* when it goes on.                                                        *)
LEMMA MatchClient ==
  ASSUME Shape, EndsInv, Unanswered, MatchInv, NestedMatch, CallStep
  PROVE  MatchInv' /\ NestedMatch'
<1> USE DEF InLoop, InThreads, InJobs
<1> DEFINE Matches(c) == MatchSock(c) /\ MatchLoop(c) /\ MatchThreads(c) /\ MatchJobs(c)
<1>1. /\ sock \in Seq(Requests)
      /\ \A k \in 1 .. Len(sock) : sock[k].op \in RequestOps
      /\ loop.pc = "cmd" => loop.req.op \in RequestOps
  <2>1. sock \in Seq(Requests) /\ (loop.pc = "cmd" => loop.req \in Requests)
    BY DEF Shape, ChannelShape, DaemonShape, LoopShape
  <2>2. \A k \in 1 .. Len(sock) : sock[k] \in Requests
    BY <2>1, SMTT(60)
  <2> QED  BY <2>1, <2>2 DEF Requests
<1>2. UNCHANGED <<loop, threads, jobs>>
  BY DEF CallStep, daemonVars
<1>3. OneClient /\ ServerOpen
  BY DEF EndsInv
<1>4. \A c \in Clients : cpc[c] \in NestedPcs => cpc[c] \in Waiting
  BY CallShapes
<1>5. \A c \in Clients : /\ cpc[c] \in Waiting => Matches(c)
                         /\ cpc[c] \in NestedPcs => MatchNested(c)
  BY DEF MatchInv, NestedMatch
<1>6. SUFFICES \A c \in Clients : /\ cpc'[c] \in Waiting => Matches(c)'
                                  /\ cpc'[c] \in NestedPcs => MatchNested(c)'
  BY DEF MatchInv, NestedMatch
<1> HIDE DEF Matches
<1>7. ASSUME NEW d \in Clients, cpc'[d] = cpc[d], call'[d] = call[d], UNCHANGED sock
      PROVE  /\ cpc'[d] \in Waiting => Matches(d)'
             /\ cpc'[d] \in NestedPcs => MatchNested(d)'
  BY <1>2, <1>5, <1>7, SMTT(60) DEF Matches, MatchSock, MatchLoop, MatchThreads, MatchJobs, MatchNested
<1>8. ASSUME NEW req, SendsOn(req)
      PROVE  /\ \A k \in 1 .. Len(sock') : sock'[k] = req \/ \E l \in 1 .. Len(sock) : sock'[k] = sock[l]
             /\ \A k \in 1 .. Len(sock) : sock[k].o # req.o
             /\ loop.pc = "cmd" => loop.req.o # req.o
             /\ \A t \in LockThreads : threads[t].pc # "none" => threads[t].o # req.o
             /\ \A j \in jobs : j.o # req.o
             /\ \A d \in Clients : cpc[d] \in Waiting => call[d].o # req.o
             /\ \A d \in Clients : cpc[d] \in NestedPcs => call[d].nested # req.o
  <2>1. \A k \in 1 .. Len(sock') : sock'[k] = req \/ \E l \in 1 .. Len(sock) : sock'[k] = sock[l]
    <3>1. sock' = Append(sock, req) /\ req \in Requests /\ sock \in Seq(Requests)
      BY <1>8 DEF SendsOn, Shape, ChannelShape
    <3> QED  BY <3>1, SockAppend
  <2>2. ~oneshot[req.o].tx /\ ~oneshot[req.o].rx
    BY <1>8, SMTT(60) DEF SendsOn, Closed
  <2> QED  BY <1>3, <2>1, <2>2 DEF ServerOpen, OneClient
<1>9. ASSUME NEW d \in Clients, cpc'[d] = cpc[d], call'[d] = call[d], NEW req, SendsOn(req)
      PROVE  /\ cpc'[d] \in Waiting => Matches(d)'
             /\ cpc'[d] \in NestedPcs => MatchNested(d)'
  <2>1. /\ \A k \in 1 .. Len(sock') : sock'[k] = req \/ \E l \in 1 .. Len(sock) : sock'[k] = sock[l]
        /\ cpc[d] \in Waiting => call[d].o # req.o
        /\ cpc[d] \in NestedPcs => call[d].nested # req.o
    BY <1>8, <1>9
  <2>2. cpc'[d] \in Waiting => Matches(d)'
    BY <1>2, <1>5, <1>9, <2>1, SMTT(60) DEF Matches, MatchSock, MatchLoop, MatchThreads, MatchJobs
  <2>3. cpc'[d] \in NestedPcs => MatchNested(d)'
    BY <1>2, <1>5, <1>9, <2>1, SMTT(60) DEF MatchNested
  <2> QED  BY <2>2, <2>3
<1>10. CASE UNCHANGED <<channelVars, lockables, cpc, call>>
  BY <1>7, <1>10 DEF channelVars
<1>11. CASE HangUp
  BY <1>11 DEF HangUp, Waiting, NestedPcs, Simple, Detached
<1>12. ASSUME NEW c \in Clients, NEW req, CallSends(c, req)
      PROVE  \A d \in Clients : /\ cpc'[d] \in Waiting => Matches(d)'
                                /\ cpc'[d] \in NestedPcs => MatchNested(d)'
  <2>1. SendsOn(req) /\ Elsewhere(c)
    BY <1>12 DEF CallSends
  <2>2. cpc'[c] \notin NestedPcs
    BY <1>12 DEF CallSends, NestedPcs, Simple
  <2>3. Matches(c)'
    <3>1. /\ \A k \in 1 .. Len(sock') : sock'[k] = req \/ \E l \in 1 .. Len(sock) : sock'[k] = sock[l]
          /\ \A k \in 1 .. Len(sock) : sock[k].o # req.o
          /\ loop.pc = "cmd" => loop.req.o # req.o
          /\ \A t \in LockThreads : threads[t].pc # "none" => threads[t].o # req.o
          /\ \A j \in jobs : j.o # req.o
      BY <1>8, <2>1
    <3>2. /\ cpc'[c] = req.op /\ call'[c].o = req.o /\ call'[c].id = req.id /\ call'[c].act = req.act
      BY <1>12 DEF CallSends
    <3>3. MatchSock(c)'
      BY <3>1, <3>2 DEF MatchSock
    <3>4. MatchLoop(c)' /\ MatchThreads(c)' /\ MatchJobs(c)'
      BY <1>2, <3>1, <3>2 DEF MatchLoop, MatchThreads, MatchJobs
    <3> QED  BY <3>3, <3>4 DEF Matches
  <2> QED  BY <1>9, <2>1, <2>2, <2>3 DEF Elsewhere
<1>13. ASSUME NEW c \in Clients, UNCHANGED sock, SameCall(c), cpc[c] \in Waiting,
              cpc[c] \in Detached, cpc'[c] \in Detached,
              \A k \in 1 .. Len(sock) : sock[k].o # call[c].o,
              loop.pc = "cmd" => loop.req.o # call[c].o,
              \A t \in LockThreads : threads[t].o = call[c].o => threads[t].pc \notin EarlyPcs
      PROVE  Matches(c)'
  <2>1. MatchSock(c)' /\ MatchLoop(c)'
    BY <1>2, <1>13 DEF SameCall, MatchSock, MatchLoop
  <2>2. MatchThreads(c)'
    BY <1>2, <1>5, <1>13 DEF SameCall, Matches, MatchThreads
  <2>3. MatchJobs(c)'
    <3>1. cpc[c] # "Unregister"
      BY <1>13 DEF Detached
    <3> QED  BY <1>2, <1>5, <1>13, <3>1 DEF SameCall, Matches, MatchJobs
  <2> QED  BY <2>1, <2>2, <2>3 DEF Matches
<1>14. ASSUME NEW c \in Clients, cpc[c] \in Waiting, cpc[c] \notin RequestOps
      PROVE  /\ \A k \in 1 .. Len(sock) : sock[k].o # call[c].o
             /\ loop.pc = "cmd" => loop.req.o # call[c].o
             /\ \A t \in LockThreads : threads[t].o = call[c].o => threads[t].pc \notin EarlyPcs
  <2>1. cpc[c] # "SetLkw" /\ "none" \notin EarlyPcs
    BY <1>14 DEF RequestOps, EarlyPcs
  <2> QED  BY <1>1, <1>5, <1>14, <2>1 DEF Matches, MatchSock, MatchLoop, MatchThreads
<1>15. ASSUME NEW c \in Clients, NEW req, CallNests(c, req)
      PROVE  \A d \in Clients : /\ cpc'[d] \in Waiting => Matches(d)'
                                /\ cpc'[d] \in NestedPcs => MatchNested(d)'
  <2>1. SendsOn(req) /\ Elsewhere(c) /\ SameCall(c)
    BY <1>15 DEF CallNests
  <2>2. cpc[c] \in {"wait", "again", "failed"} /\ cpc'[c] \in {"interrupt", "remove"}
    BY <1>15 DEF CallNests
  <2>3. /\ \A k \in 1 .. Len(sock') : sock'[k] = req \/ \E l \in 1 .. Len(sock) : sock'[k] = sock[l]
        /\ \A k \in 1 .. Len(sock) : sock[k].o # req.o
        /\ loop.pc = "cmd" => loop.req.o # req.o
        /\ \A t \in LockThreads : threads[t].pc # "none" => threads[t].o # req.o
        /\ \A j \in jobs : j.o # req.o
    BY <1>8, <2>1
  <2>4. Matches(c)'
    <3>1. cpc[c] \in Waiting /\ cpc[c] \notin RequestOps /\ cpc[c] \in Detached /\ cpc'[c] \in Detached
          /\ cpc[c] # "Unregister"
      BY <2>2 DEF Waiting, RequestOps, Simple, Detached
    <3>2. call[c].o # req.o
      BY <1>8, <2>1, <3>1
    <3>3. MatchSock(c)'
      BY <1>14, <2>1, <2>3, <3>1, <3>2 DEF SameCall, MatchSock
    <3>4. MatchLoop(c)'
      BY <1>2, <1>14, <2>1, <3>1 DEF SameCall, MatchLoop
    <3>5. MatchThreads(c)'
      BY <1>2, <1>5, <1>14, <2>1, <3>1 DEF SameCall, Matches, MatchThreads
    <3>6. MatchJobs(c)'
      BY <1>2, <1>5, <2>1, <3>1 DEF SameCall, Matches, MatchJobs
    <3> QED  BY <3>3, <3>4, <3>5, <3>6 DEF Matches
  <2>5. MatchNested(c)'
    <3>1. /\ call'[c].nested = req.o /\ req.id = call'[c].iid
          /\ req.op = (IF cpc'[c] = "interrupt" THEN "Interrupt" ELSE "RemoveInterrupt")
      BY <1>15 DEF CallNests
    <3> QED  BY <1>2, <2>3, <3>1 DEF MatchNested
  <2> QED  BY <1>9, <2>1, <2>4, <2>5 DEF Elsewhere
<1>16. ASSUME NEW c \in Clients, UNCHANGED sock, Elsewhere(c), cpc'[c] \in Waiting => Matches(c)',
              cpc'[c] \notin NestedPcs
      PROVE  \A d \in Clients : /\ cpc'[d] \in Waiting => Matches(d)'
                                /\ cpc'[d] \in NestedPcs => MatchNested(d)'
  BY <1>7, <1>16 DEF Elsewhere
<1>17. ASSUME NEW c \in Clients, CallEnds(c)
      PROVE  \A d \in Clients : /\ cpc'[d] \in Waiting => Matches(d)'
                                /\ cpc'[d] \in NestedPcs => MatchNested(d)'
  <2>1. UNCHANGED sock /\ Elsewhere(c)
    BY <1>17 DEF CallEnds, DropsEnd, channelVars
  <2>2. cpc'[c] \notin Waiting /\ cpc'[c] \notin NestedPcs
    BY <1>17 DEF CallEnds, Waiting, NestedPcs, Simple, Detached
  <2> QED  BY <1>16, <2>1, <2>2
<1>18. ASSUME NEW c \in Clients, CallWaits(c)
      PROVE  \A d \in Clients : /\ cpc'[d] \in Waiting => Matches(d)'
                                /\ cpc'[d] \in NestedPcs => MatchNested(d)'
  <2>1. UNCHANGED sock /\ Elsewhere(c) /\ SameCall(c) /\ cpc[c] = "SetLkw" /\ cpc'[c] = "wait"
        /\ oneshot[call[c].o].q # << >>
    BY <1>18 DEF CallWaits, HasReply
  <2>2. /\ \A k \in 1 .. Len(sock) : sock[k].o # call[c].o
        /\ loop.pc = "cmd" => loop.req.o # call[c].o
        /\ \A t \in LockThreads : threads[t].o = call[c].o => threads[t].pc \notin EarlyPcs
    BY <2>1 DEF Unanswered
  <2>3. Matches(c)'
    BY <1>13, <2>1, <2>2 DEF Waiting, Detached
  <2> QED  BY <1>16, <2>1, <2>3 DEF NestedPcs
<1>19. ASSUME NEW c \in Clients, CallResumes(c)
      PROVE  \A d \in Clients : /\ cpc'[d] \in Waiting => Matches(d)'
                                /\ cpc'[d] \in NestedPcs => MatchNested(d)'
  <2>1. UNCHANGED sock /\ Elsewhere(c) /\ SameCall(c)
        /\ cpc[c] \in {"interrupt", "remove"} /\ cpc'[c] \in {"again", "failed", "leave"}
    BY <1>19 DEF CallResumes, DropsEnd
  <2>2. cpc[c] \in Waiting /\ cpc[c] \notin RequestOps /\ cpc[c] \in Detached /\ cpc'[c] \in Detached
    BY <2>1 DEF Waiting, RequestOps, Simple, Detached
  <2>3. Matches(c)'
    BY <1>13, <1>14, <2>1, <2>2
  <2> QED  BY <1>16, <2>1, <2>3 DEF NestedPcs
<1> QED
  BY <1>10, <1>11, <1>12, <1>15, <1>17, <1>18, <1>19 DEF CallStep

-----------------------------------------------------------------------------
(* A call is told of the lock that it asked for, and told to wait only as  *)
(* the first thing.                                                        *)
RepliesFit ==
  \A c \in Clients : cpc[c] \in Waiting =>
    LET q == oneshot[call[c].o].q IN
    \A i \in 1 .. Len(q) : /\ Fits(cpc[c], call[c].act, q[i])
                           /\ q[i].tag = "Pending" => cpc[c] = "SetLkw" /\ i = 1

(* What is written fits the request, and so the call.                      *)
LEMMA FitServer ==
  ASSUME Shape, Unanswered, MatchInv, RepliesFit, ServerStep
  PROVE  RepliesFit'
<1>1. \A c \in Clients : cpc[c] \in Waiting => call[c].o \in Oneshots
  BY CallShapes
<1>2. UNCHANGED <<cpc, call>>
  BY DEF ServerStep, clientVars
<1>3. \A o \in Oneshots : oneshot[o].q \in Seq(Replies)
  BY EndShapes DEF OneshotStates
<1>4. ASSUME NEW o \in Oneshots, NEW r \in Replies, Writes(o, r),
             \A c \in Clients : cpc[c] \in Waiting /\ call[c].o = o =>
               /\ Fits(cpc[c], call[c].act, r)
               /\ r.tag = "Pending" => cpc[c] = "SetLkw" /\ oneshot[o].q = << >>
      PROVE  RepliesFit'
  <2>1. ASSUME NEW c \in Clients, cpc[c] \in Waiting, NEW i \in 1 .. Len(oneshot'[call[c].o].q)
        PROVE  LET r1 == oneshot'[call[c].o].q[i]
               IN  /\ Fits(cpc[c], call[c].act, r1)
                   /\ r1.tag = "Pending" => cpc[c] = "SetLkw" /\ i = 1
    <3> DEFINE q == oneshot[call[c].o].q
    <3> HIDE DEF q
    <3>1. /\ Append(q, r)[Len(q) + 1] = r /\ (q = << >> => Len(q) + 1 = 1)
          /\ \A k \in 1 .. Len(Append(q, r)) :
               k = Len(q) + 1 \/ (k \in 1 .. Len(q) /\ Append(q, r)[k] = q[k])
      <4>1. q \in Seq(Replies)
        BY <1>1, <1>3, <2>1 DEF q
      <4> QED  BY <4>1, ReplyAppend
    <3>2. CASE i \in 1 .. Len(q) /\ oneshot'[call[c].o].q[i] = q[i]
      BY <2>1, <3>2 DEF RepliesFit, q
    <3>3. CASE call[c].o = o /\ oneshot'[o].q = Append(q, r) /\ i = Len(q) + 1
      <4>1. oneshot'[o].q[i] = r /\ (q = << >> => i = 1)
        BY <3>1, <3>3
      <4> QED  BY <1>4, <2>1, <3>3, <4>1 DEF q
    <3>4. oneshot'[call[c].o].q = q \/ (call[c].o = o /\ oneshot'[o].q = Append(q, r))
      BY <1>1, <1>4, <2>1 DEF Writes, q
    <3>5. ASSUME oneshot'[call[c].o].q = Append(q, r)
          PROVE  (i \in 1 .. Len(q) /\ oneshot'[call[c].o].q[i] = q[i]) \/ i = Len(q) + 1
      BY <2>1, <3>1, <3>5
    <3>6. CASE oneshot'[call[c].o].q = q
      BY <2>1, <3>2, <3>6
    <3> QED  BY <3>2, <3>3, <3>4, <3>5, <3>6
  <2> QED  BY <1>2, <2>1 DEF RepliesFit
<1>5. ASSUME UNCHANGED oneshot \/ \A o \in Oneshots : oneshot'[o].q = oneshot[o].q
      PROVE  RepliesFit'
  BY <1>1, <1>2, <1>5 DEF RepliesFit
<1>6. \A r : r.tag \notin {"Pending", "Done"} => \A op, act : Fits(op, act, r)
  BY DEF Fits
<1>7. ASSUME NEW r, SockAnswers(r)
      PROVE  RepliesFit'
  <2>1. Writes(Head(sock).o, r) /\ r \in Replies
    BY <1>7, ServerReplies
  <2>2. Head(sock).o \in Oneshots
    BY <1>7, EndShapes, SockTail DEF SockAnswers
  <2>3. r.tag \notin {"Pending", "Done"}
    BY <1>7 DEF SockAnswers
  <2> QED  BY <1>4, <1>6, <2>1, <2>2, <2>3
<1>8. ASSUME NEW r, LoopAnswers(r)
      PROVE  RepliesFit'
  <2>1. Writes(loop.req.o, r) /\ r \in Replies /\ loop.req.o \in Oneshots
    BY <1>8, ServerReplies, EndShapes DEF LoopAnswers
  <2>2. \A c \in Clients : cpc[c] \in Waiting /\ call[c].o = loop.req.o =>
          Fits(cpc[c], call[c].act, r) /\ r.tag # "Pending"
    BY <1>8 DEF LoopAnswers, MatchInv, MatchLoop, InLoop
  <2> QED  BY <1>4, <2>1, <2>2
<1>9. ASSUME NEW t \in LockThreads, NEW to, NEW r, ThreadReplies(t, to, r)
      PROVE  RepliesFit'
  <2>1. threads[t].pc # "none" /\ (r.tag = "Pending" => threads[t].pc \in EarlyPcs)
        /\ Fits("SetLkw", threads[t].act, r)
    BY <1>9 DEF ThreadReplies, EarlyPcs
  <2>2. Writes(threads[t].o, r) /\ r \in Replies /\ threads[t].o \in Oneshots
    BY <1>9, <2>1, ServerReplies, EndShapes
  <2>3. ASSUME NEW c \in Clients, cpc[c] \in Waiting, call[c].o = threads[t].o
        PROVE  /\ Fits(cpc[c], call[c].act, r)
               /\ r.tag = "Pending" => cpc[c] = "SetLkw" /\ oneshot[threads[t].o].q = << >>
    <3>1. cpc[c] \in Detached /\ threads[t].act = call[c].act /\ (r.tag = "Pending" => cpc[c] = "SetLkw")
      BY <2>1, <2>3 DEF MatchInv, MatchThreads
    <3>2. Fits(cpc[c], call[c].act, r)
      BY <2>1, <3>1 DEF Fits, Detached
    <3> QED  BY <2>1, <3>1, <3>2 DEF Unanswered
  <2> QED  BY <1>4, <2>2, <2>3, SMTT(60)
<1>10. ASSUME NEW j \in jobs, NEW tag, JobAnswers(j, tag)
      PROVE  RepliesFit'
  <2>1. Writes(j.o, R(tag)) /\ R(tag) \in Replies /\ R(tag).tag = tag /\ j.o \in Oneshots
    BY <1>10, ServerReplies, EndShapes
  <2>2. R(tag).tag \notin {"Pending", "Done"}
    BY <1>10, <2>1 DEF JobAnswers
  <2> QED  BY <1>4, <1>6, <2>1, <2>2
<1>11. ASSUME NEW t \in LockThreads, ThreadEnds(t)
      PROVE  RepliesFit'
  BY <1>5, <1>11, ServerReplies
<1> QED
  BY <1>5, <1>7, <1>8, <1>9, <1>10, <1>11 DEF ServerStep, SockToJob, SockToLoop, LoopToThread,
     ThreadStarts, JobMoves, Quiet, channelVars

(* A call reads the Pending before it waits, so none is left.              *)
LEMMA FitClient ==
  ASSUME Shape, EndsInv, RepliesFit, CallStep
  PROVE  RepliesFit'
<1>1. \A c \in Clients : cpc[c] \in Waiting => call[c].o \in Oneshots
  BY CallShapes
<1>2. OneClient
  BY DEF EndsInv
<1> DEFINE FitsCall(c) == LET q == oneshot[call[c].o].q IN
             \A i \in 1 .. Len(q) : /\ Fits(cpc[c], call[c].act, q[i])
                                    /\ q[i].tag = "Pending" => cpc[c] = "SetLkw" /\ i = 1
<1>3. \A c \in Clients : cpc[c] \in Waiting => FitsCall(c)
  BY DEF RepliesFit
<1>4. SUFFICES \A c \in Clients : cpc'[c] \in Waiting => FitsCall(c)'
  BY DEF RepliesFit
<1>5. ASSUME NEW d \in Clients, cpc'[d] = cpc[d], call'[d] = call[d],
             cpc[d] \in Waiting => oneshot'[call[d].o].q = oneshot[call[d].o].q
      PROVE  cpc'[d] \in Waiting => FitsCall(d)'
  BY <1>3, <1>5
<1>6. ASSUME NEW d \in Clients, call'[d].o = call[d].o, call'[d].act = call[d].act,
             cpc[d] \in Waiting, {cpc[d], cpc'[d]} \subseteq Detached \ {"SetLkw"},
             oneshot'[call[d].o].q = oneshot[call[d].o].q
      PROVE  FitsCall(d)'
  <2>1. cpc[d] \notin {"GetLk", "SetLkw"} /\ cpc'[d] \notin {"GetLk", "SetLkw"}
    BY <1>6 DEF Detached
  <2>2. \A r : Fits(cpc[d], call[d].act, r) => Fits(cpc'[d], call[d].act, r)
    BY <2>1 DEF Fits
  <2>3. \A i \in 1 .. Len(oneshot[call[d].o].q) :
          /\ Fits(cpc[d], call[d].act, oneshot[call[d].o].q[i])
          /\ oneshot[call[d].o].q[i].tag # "Pending"
    BY <1>3, <1>6, <2>1
  <2> QED  BY <1>6, <2>2, <2>3
<1> HIDE DEF FitsCall
<1>7. CASE UNCHANGED <<channelVars, lockables, cpc, call>>
  BY <1>5, <1>7 DEF channelVars
<1>8. CASE HangUp
  BY <1>8 DEF HangUp, Waiting, Simple, Detached
<1>9. ASSUME NEW c \in Clients, NEW req, CallSends(c, req)
      PROVE  \A d \in Clients : cpc'[d] \in Waiting => FitsCall(d)'
  <2>1. FitsCall(c)'
    <3>1. oneshot'[call'[c].o].q = << >>
      BY <1>9 DEF CallSends, SendsOn
    <3> QED  BY <3>1, SMTT(60) DEF FitsCall
  <2>2. \A d \in Clients : cpc[d] \in Waiting => oneshot'[call[d].o].q = oneshot[call[d].o].q
    BY <1>1, <1>2, <1>9, SMTT(60) DEF CallSends, SendsOn, OneClient, Closed
  <2> QED  BY <1>5, <1>9, <2>1, <2>2 DEF CallSends, Elsewhere
<1>10. ASSUME NEW c \in Clients, NEW req, CallNests(c, req)
      PROVE  \A d \in Clients : cpc'[d] \in Waiting => FitsCall(d)'
  <2>1. \A d \in Clients : cpc[d] \in Waiting => oneshot'[call[d].o].q = oneshot[call[d].o].q
    BY <1>1, <1>2, <1>10, SMTT(60) DEF CallNests, SendsOn, OneClient, Closed
  <2>2. cpc[c] \in Waiting /\ {cpc[c], cpc'[c]} \subseteq Detached \ {"SetLkw"}
    BY <1>10 DEF CallNests, Waiting, Detached
  <2>3. FitsCall(c)'
    BY <1>6, <1>10, <2>1, <2>2 DEF CallNests, SameCall
  <2> QED  BY <1>5, <1>10, <2>1, <2>3 DEF CallNests, Elsewhere
<1>11. ASSUME NEW c \in Clients, CallEnds(c)
      PROVE  \A d \in Clients : cpc'[d] \in Waiting => FitsCall(d)'
  <2>1. cpc'[c] \notin Waiting
    BY <1>11 DEF CallEnds, Waiting, Simple, Detached
  <2>2. \A d \in Clients : d # c /\ cpc[d] \in Waiting => oneshot'[call[d].o].q = oneshot[call[d].o].q
    BY <1>1, <1>2, <1>11 DEF CallEnds, DropsEnd, OneClient, channelVars
  <2> QED  BY <1>5, <1>11, <2>1, <2>2 DEF CallEnds, Elsewhere
<1>12. ASSUME NEW c \in Clients, CallResumes(c)
      PROVE  \A d \in Clients : cpc'[d] \in Waiting => FitsCall(d)'
  <2>1. cpc[c] \in Waiting /\ cpc[c] \in NestedPcs /\ {cpc[c], cpc'[c]} \subseteq Detached \ {"SetLkw"}
    BY <1>12 DEF CallResumes, Waiting, NestedPcs, Detached
  <2>2. \A d \in Clients : cpc[d] \in Waiting => oneshot'[call[d].o].q = oneshot[call[d].o].q
    BY <1>1, <1>2, <1>12, <2>1 DEF CallResumes, DropsEnd, OneClient
  <2>3. FitsCall(c)'
    BY <1>6, <1>12, <2>1, <2>2 DEF CallResumes, SameCall
  <2> QED  BY <1>5, <1>12, <2>2, <2>3 DEF CallResumes, Elsewhere
<1>13. ASSUME NEW c \in Clients, CallWaits(c)
      PROVE  \A d \in Clients : cpc'[d] \in Waiting => FitsCall(d)'
  <2>1. /\ cpc[c] = "SetLkw" /\ cpc'[c] = "wait" /\ cpc[c] \in Waiting
        /\ call'[c].o = call[c].o /\ call'[c].act = call[c].act
        /\ oneshot[call[c].o].q # << >> /\ oneshot'[call[c].o].q = Tail(oneshot[call[c].o].q)
    BY <1>13 DEF CallWaits, SameCall, HasReply, Waiting, Detached
  <2>2. \A d \in Clients : d # c /\ cpc[d] \in Waiting => oneshot'[call[d].o].q = oneshot[call[d].o].q
    BY <1>1, <1>2, <1>13, <2>1 DEF CallWaits, OneClient
  <2>3. FitsCall(c)'
    <3> DEFINE q == oneshot[call[c].o].q
    <3>1. q \in Seq(Replies) /\ q # << >>
      BY <1>1, <2>1, EndShapes DEF OneshotStates
    <3>2. \A i \in 1 .. Len(Tail(q)) : i + 1 \in 1 .. Len(q) /\ Tail(q)[i] = q[i + 1] /\ i + 1 # 1
      BY <3>1, SMTT(60)
    <3>3. \A i \in 1 .. Len(Tail(q)) : Fits("SetLkw", call[c].act, Tail(q)[i]) /\ Tail(q)[i].tag # "Pending"
      BY <1>3, <2>1, <3>2 DEF FitsCall
    <3>4. \A i \in 1 .. Len(Tail(q)) : Fits("wait", call[c].act, Tail(q)[i]) /\ Tail(q)[i].tag # "Pending"
      BY <3>3 DEF Fits
    <3> QED  BY <2>1, <3>4 DEF FitsCall
  <2> QED  BY <1>5, <1>13, <2>2, <2>3 DEF CallWaits, Elsewhere
<1> QED
  BY <1>7, <1>8, <1>9, <1>10, <1>11, <1>12, <1>13 DEF CallStep

(* All that is known of replies.                                           *)
ReplyInv == Unanswered /\ MatchInv /\ NestedMatch /\ RepliesFit

(* It is kept by every step.                                               *)
LEMMA ReplyStep ==
  ASSUME Shape, EndsInv, ReplyInv, [Next]_vars
  PROVE  ReplyInv'
<1>1. CASE ServerStep
  BY <1>1, UnansweredServer, MatchServer, FitServer DEF ReplyInv
<1>2. CASE ClientStep
  BY <1>2, CallCases, UnansweredClient, MatchClient, FitClient DEF ReplyInv
<1>3. CASE ProcessExit /\ UNCHANGED clientVars
  <2>1. sock' = << >> /\ loop'.pc = "recv" /\ jobs' = {} /\ \A t \in LockThreads : threads'[t].pc = "none"
    BY <1>3 DEF ProcessExit, AtRecv, Idle
  <2>2. MatchInv' /\ NestedMatch'
    BY <2>1, SMTT(60) DEF MatchInv, NestedMatch, MatchNested, MatchSock, MatchLoop, MatchThreads, MatchJobs, InLoop, InThreads
  <2>3. RepliesFit'
    <3>1. \A o \in Oneshots : oneshot'[o].q = oneshot[o].q
      BY <1>3, EndShapes DEF ProcessExit, OneshotStates
    <3> QED  BY <1>3, <3>1, CallShapes DEF clientVars, ReplyInv, RepliesFit
  <2> QED  BY <2>2, <2>3, UnansweredStep DEF ReplyInv
<1>4. CASE UNCHANGED vars
  <2>1. UNCHANGED <<sock, oneshot, loop, threads, jobs, cpc, call>>
    BY <1>4 DEF vars, channelVars, daemonVars, clientVars
  <2>2. MatchInv'
    <3>1. \A c \in Clients : /\ MatchSock(c) => MatchSock(c)'
                             /\ MatchLoop(c) => MatchLoop(c)'
      BY <2>1 DEF MatchSock, MatchLoop, InLoop
    <3>2. \A c \in Clients : /\ MatchThreads(c) => MatchThreads(c)'
                             /\ MatchJobs(c) => MatchJobs(c)'
      BY <2>1 DEF MatchThreads, MatchJobs
    <3> QED  BY <2>1, <3>1, <3>2 DEF ReplyInv, MatchInv
  <2>3. NestedMatch'
    <3>1. \A c \in Clients : MatchNested(c) => MatchNested(c)'
      BY <2>1 DEF MatchNested, InLoop, InThreads
    <3> QED  BY <2>1, <3>1 DEF ReplyInv, NestedMatch
  <2>4. RepliesFit'
    BY <2>1 DEF ReplyInv, RepliesFit
  <2> QED  BY <2>2, <2>3, <2>4, UnansweredStep DEF ReplyInv
<1> QED  BY <1>1, <1>2, <1>3, <1>4, ServerCases

(* Whatever the order of requests, threads and jobs, each is served for    *)
(* the call that sent it and answered to it alone.                         *)
THEOREM ReplyInvariance == Spec => []ReplyInv
<1>1. Init => ReplyInv
  BY SMTT(60) DEF Init, ChannelsInit, DaemonInit, ClientInit, AtRecv, Idle, Closed, ReplyInv, Unanswered, EarlyPcs,
         MatchInv, NestedMatch, RepliesFit, Waiting, NestedPcs, Simple, Detached
<1> QED  BY <1>1, Shapes, EndsInvariance, ReplyStep, PTL DEF Spec

(* Every variable has its type, and no call gets more than two replies:    *)
(* the server's threads write at most one Pending and one outcome.         *)
THEOREM TypeCorrectness == Spec => []TypeOK
<1>1. Shape /\ ReplyInv => TypeOK
  <2> SUFFICES ASSUME Shape, ReplyInv
               PROVE  TypeOK
    OBVIOUS
  <2>1. DaemonTypeOK
    BY DEF Shape, DaemonShape, MainShape, LoopShape, FdShape, InterruptShape, ThreadShape, JobShape,
           LkShape, DaemonTypeOK
  <2>2. ClientTypeOK
    BY DEF Shape, ClientShape, ClientTypeOK
  <2> QED  BY <2>1, <2>2 DEF ReplyInv, Unanswered, TypeOK
<1> QED  BY <1>1, Shapes, ReplyInvariance, PTL

(* Only set_lock_blocking() is told Pending, once and first: the           *)
(* InvalidData errors of the client's match arms are unreachable.          *)
THEOREM PendingFirst == Spec => []PendingOnlyFirst
<1>1. Shape /\ ReplyInv => PendingOnlyFirst
  BY DEF Shape, ClientShape, ReplyInv, RepliesFit, PendingOnlyFirst, Waiting
<1> QED  BY <1>1, Shapes, ReplyInvariance, PTL

(* set_lock_nonblocking() and set_lock_blocking() are told of a lock of    *)
(* the type they asked for, get_lock() of none or of one in its way.       *)
THEOREM DoneAnswers == Spec => []DoneAnswersCall
<1>1. ReplyInv => DoneAnswersCall
  BY DEF ReplyInv, RepliesFit, Fits, DoneAnswersCall, Waiting, Simple, Detached
<1> QED  BY <1>1, ReplyInvariance, PTL
=============================================================================
