---------------------------- MODULE LockableProofs ----------------------------
(***************************************************************************)
(* Proofs about the Lockables of LockSystem: a Lockable keeps its owner    *)
(* process alive, and drop() closes its file.                              *)
(***************************************************************************)
EXTENDS OwnerProofs, ReplyProofs

(* Leaves are Zenon's unless they name another prover.                     *)
USE ZenonT(60)

(* Only what has been registered is unregistered.                          *)
KnownIds ==
  /\ \A k \in 1 .. Len(sock) : sock[k].op = "Unregister" => sock[k].id < next_id
  /\ \A j \in jobs : j.op = "Unregister" => j.id < next_id
  /\ \A c \in Clients : cpc[c] = "Unregister" => call[c].id < next_id

(* Whoever closes a file took it out of the map, and is the only one.      *)
Closes(j) == j.op = "Unregister" /\ j.st # "start"

(* A file that is being closed is in nobody else's hands.                  *)
OneCloses ==
  /\ \A j, k \in jobs : Closes(j) /\ Closes(k) /\ j.id = k.id => j = k
  /\ \A j \in jobs : Closes(j) => j.id \notin descriptors

(* A drop() that is told so has closed its file.                           *)
ToldOk(c, op) == cpc[c] = op /\ HasReply(call[c].o) /\ NextReply(call[c].o).tag = "Ok"

(* So the file of a drop() that has its answer does not exist.             *)
DropsDone == \A c \in Clients : ToldOk(c, "Unregister") => ~FdExists(call[c].id)

(* A Lockable that exists, or that a register() is being told of, is known *)
(* to a process that serves, and nobody is about to unregister it.         *)
Told(c) == ToldOk(c, "Register")
IdTold(c) == NextReply(call[c].o).val

Unregisters(id) ==
  \/ \E k \in 1 .. Len(sock) : sock[k].op = "Unregister" /\ sock[k].id = id
  \/ \E j \in jobs : j.op = "Unregister" /\ j.id = id

Live(id) == server_open /\ main = "waiting" /\ id \in descriptors /\ ~Unregisters(id)

LockablesLive ==
  /\ \A id \in lockables : Live(id)
  /\ \A c \in Clients : Told(c) => Live(IdTold(c)) /\ IdTold(c) \notin lockables
  /\ \A c, d \in Clients : Told(c) /\ Told(d) /\ IdTold(c) = IdTold(d) => c = d

(* Without a daemon there are no calls.                                    *)
GoneCalls == ~client_open => lockables = {} /\ \A c \in Clients : cpc[c] = "gone"

(* All of it is inductive together with the invariants about main thread,  *)
(* ends and replies.                                                       *)
RegisterInv == KnownIds /\ OneCloses /\ DropsDone /\ LockablesLive /\ GoneCalls

-----------------------------------------------------------------------------
(* What is first in a oneshot stays there, and what comes first has just   *)
(* been written.                                                           *)
Heads(o, r) ==
  \A p \in Oneshots :
    /\ HasReply(p) => HasReply(p)' /\ NextReply(p)' = NextReply(p)
    /\ ~HasReply(p) /\ HasReply(p)' => p = o /\ NextReply(p)' = r

(* So it is with whatever the server does to a oneshot.                    *)
LEMMA WriteHeads ==
  ASSUME Shape, NEW o \in Oneshots, NEW r \in Replies,
         oneshot' \in {oneshot, Hushed(o), Replied(o, r), Answered(o, r)}
  PROVE  Heads(o, r)
<1>1. oneshot \in [Oneshots -> OneshotStates]
  BY EndShapes
<1>2. \A p \in Oneshots : oneshot'[p].q = oneshot[p].q \/ (p = o /\ oneshot'[p].q = Append(oneshot[p].q, r))
  <2>1. CASE oneshot' = oneshot
    BY <2>1
  <2>2. CASE oneshot' = Hushed(o)
    BY <1>1, <2>2, ClosedOneshot
  <2>3. CASE oneshot' = Replied(o, r)
    <3>1. \A p \in Oneshots : p # o => oneshot'[p] = oneshot[p]
      BY <1>1, <2>3, RepliedOneshot
    <3>2. oneshot'[o].q = IF oneshot[o].rx THEN Append(oneshot[o].q, r) ELSE oneshot[o].q
      BY <1>1, <2>3, RepliedOneshot
    <3> QED  BY <3>1, <3>2
  <2>4. CASE oneshot' = Answered(o, r)
    <3>1. \A p \in Oneshots : p # o => oneshot'[p] = oneshot[p]
      BY <1>1, <2>4, AnsweredOneshot
    <3>2. oneshot'[o].q = IF oneshot[o].rx THEN Append(oneshot[o].q, r) ELSE oneshot[o].q
      BY <1>1, <2>4, AnsweredOneshot
    <3> QED  BY <3>1, <3>2
  <2> QED  BY <2>1, <2>2, <2>3, <2>4
<1>3. ASSUME NEW q \in Seq(Replies)
      PROVE  /\ Append(q, r) # << >>
             /\ q # << >> => Head(Append(q, r)) = Head(q)
             /\ q = << >> => Head(Append(q, r)) = r
  BY <1>3, SMTT(60)
<1>4. \A p \in Oneshots : oneshot[p].q \in Seq(Replies)
  BY <1>1 DEF OneshotStates
<1> QED  BY <1>2, <1>3, <1>4 DEF Heads, HasReply, NextReply
-----------------------------------------------------------------------------
(* The steps of the receiving loop, by what they do with files.            *)

Registers ==
  /\ sock # << >> /\ Head(sock).op = "Register" /\ sock' = Tail(sock)
  /\ main = "waiting" /\ next_id \in Ids
  /\ next_id' = next_id + 1 /\ descriptors' = descriptors \cup {next_id}
  /\ oneshot' = Answered(Head(sock).o, Registered(next_id))
  /\ UNCHANGED jobs

ServesOther(r) ==
  /\ sock # << >> /\ sock' = Tail(sock) /\ r \in Replies
  /\ \/ oneshot' = oneshot \/ oneshot' = Hushed(Head(sock).o)
     \/ /\ oneshot' = Answered(Head(sock).o, r) /\ Head(sock).op # "Unregister"
        /\ Head(sock).op = "Register" => r.tag # "Ok"
  /\ UNCHANGED <<next_id, descriptors, jobs>>

Detaches ==
  /\ sock # << >> /\ sock' = Tail(sock)
  /\ \E n : /\ jobs' = jobs \cup {n}
            /\ n.op = Head(sock).op /\ n.id = Head(sock).id /\ n.o = Head(sock).o /\ n.st = "start"
  /\ UNCHANGED <<next_id, descriptors, oneshot>>

Commands(r) ==
  /\ r \in Replies
  /\ \/ oneshot' = oneshot
     \/ oneshot' = Answered(loop.req.o, r) /\ loop.pc = "cmd" /\ loop.req.op \in LkOps
  /\ UNCHANGED <<next_id, descriptors, jobs, sock>>

(* Every step of the receiving loop is one of these.                       *)
LEMMA LoopCases ==
  ASSUME Shape, MainInv, LoopStep
  PROVE  \/ Registers \/ Detaches
         \/ \E r \in Replies : ServesOther(r) \/ Commands(r)
<1>1. /\ \A tag \in {"Ok", "EIO", "ENOENT"} : R(tag) \in Replies /\ R(tag).tag = tag
      /\ loop.pc = "cmd" => loop.req.act \in LockTypes
  BY ReplyShapes, SMTT(60) DEF Tags, Shape, DaemonShape, LoopShape, Requests
<1>2. CASE Discard
  <2>1. ServesOther(R("Ok"))
    BY <1>1, <1>2 DEF Discard, ServesOther, daemonVars, fdVars
  <2> QED  BY <1>1, <2>1
<1>3. CASE LoopPing
  <2>1. ServesOther(R("Ok"))
    BY <1>1, <1>3 DEF LoopPing, Receive, ServesOther, fdVars
  <2> QED  BY <1>1, <2>1
<1>4. CASE LoopRegister
  <2>1. CASE exit_lock
    <3>1. ServesOther(R("EIO"))
      BY <1>1, <1>4, <2>1 DEF LoopRegister, Receive, ServesOther, fdVars, ExitingErrno
    <3> QED  BY <1>1, <3>1
  <2>2. CASE ~exit_lock
    <3>1. main = "waiting"
      BY <1>4, <2>2 DEF LoopRegister, Receive, MainInv, Shape, DaemonShape, MainShape
    <3>2. Registers
      BY <1>4, <2>2, <3>1 DEF LoopRegister, Receive, Registers
    <3> QED  BY <3>2
  <2> QED  BY <2>1, <2>2
<1>5. CASE LoopRemoveInterrupt
  <2>1. PICK tag \in {"Ok", "ENOENT"} : oneshot' = Answered(Head(sock).o, R(tag))
    BY <1>5 DEF LoopRemoveInterrupt
  <2>2. ServesOther(R(tag))
    BY <1>1, <1>5, <2>1 DEF LoopRemoveInterrupt, Receive, ServesOther, fdVars
  <2> QED  BY <1>1, <2>2
<1>6. ASSUME NEW op, LoopDetach(op)
      PROVE  Detaches
  <2>1. \E n : /\ jobs' = jobs \cup {n}
               /\ n.op = Head(sock).op /\ n.id = Head(sock).id /\ n.o = Head(sock).o /\ n.st = "start"
    <3> DEFINE n == [op |-> op, id |-> Head(sock).id, o |-> Head(sock).o, st |-> "start", thread |-> NoThread]
    <3>1. n.op = op /\ n.id = Head(sock).id /\ n.o = Head(sock).o /\ n.st = "start"
      OBVIOUS
    <3>2. jobs' = jobs \cup {n} /\ Head(sock).op = op
      BY <1>6 DEF LoopDetach, Receive
    <3> HIDE DEF n
    <3> QED  BY <3>1, <3>2
  <2> QED  BY <1>6, <2>1 DEF LoopDetach, Receive, Detaches, fdVars
<1>7. ASSUME NEW op \in LkOps, LoopLookUp(op)
      PROVE  ServesOther(R("ENOENT"))
  BY <1>1, <1>7 DEF LoopLookUp, Receive, ServesOther, fdVars, LkOps
<1>8. ASSUME NEW errno \in Tags, NEW l \in {F_RDLCK, F_WRLCK, F_UNLCK}, loop.pc = "cmd", loop.req.op \in LkOps,
             oneshot' = Answered(loop.req.o, LkReply(errno, l)), UNCHANGED <<sock, fdVars, jobs>>
      PROVE  \E r \in Replies : Commands(r)
  <2>1. LkReply(errno, l) \in Replies
    BY LkAnswers
  <2> QED  BY <1>8, <2>1 DEF Commands, fdVars
<1>9. CASE LoopGetLk
  <2>1. Flock(loop.req.act) \in {F_RDLCK, F_WRLCK, F_UNLCK}
        /\ GetLkType(Flock(loop.req.act)) \in {F_RDLCK, F_WRLCK, F_UNLCK}
    BY <1>1, <1>9, LkTypes DEF LoopGetLk, GetLkType, Shape, DaemonShape, LkShape
  <2>2. (IF Flock(loop.req.act) = F_UNLCK THEN "EINVAL" ELSE "Done") \in Tags
    BY DEF Tags
  <2> QED  BY <1>8, <1>9, <2>1, <2>2 DEF LoopGetLk, LkOps
<1>10. CASE LoopSetLk
  <2>1. Flock(loop.req.act) \in {F_RDLCK, F_WRLCK, F_UNLCK}
    BY <1>1, <1>10, LkTypes DEF LoopSetLk
  <2>2. SetLkErrno(loop.req.id, Flock(loop.req.act)) \in Tags
    BY <2>1, LkAnswers DEF Tags
  <2> QED  BY <1>8, <1>10, <2>1, <2>2 DEF LoopSetLk, LkOps
<1>11. CASE LoopSpawn \/ LoopSpawned \/ LoopEnds
  <2>1. Commands(R("Ok"))
    BY <1>1, <1>11 DEF LoopSpawn, LoopSpawned, LoopEnds, Commands, channelVars, fdVars
  <2> QED  BY <1>1, <2>1
<1> QED
  BY <1>1, <1>2, <1>3, <1>4, <1>5, <1>6, <1>7, <1>9, <1>10, <1>11 DEF LoopStep, LkOps
(* A call was told before the step, or is told by it.                      *)
LEMMA HeadsTold ==
  ASSUME Shape, UNCHANGED <<cpc, call>>, NEW o \in Oneshots, NEW r \in Replies, Heads(o, r),
         NEW c \in Clients, NEW op \in {"Register", "Unregister"}, ToldOk(c, op)'
  PROVE  \/ ToldOk(c, op) /\ IdTold(c)' = IdTold(c)
         \/ cpc[c] = op /\ call[c].o = o /\ r.tag = "Ok" /\ IdTold(c)' = r.val
<1>1. cpc[c] = op /\ call[c].o \in Oneshots /\ HasReply(call[c].o)' /\ NextReply(call[c].o)'.tag = "Ok"
      /\ IdTold(c)' = NextReply(call[c].o)'.val
  BY CallShapes DEF ToldOk, IdTold, Waiting, Simple, HasReply, NextReply
<1> QED  BY <1>1 DEF Heads, ToldOk, IdTold

(* The receiving loop registers what nobody knows yet.                     *)
LEMMA LoopRegisterInv ==
  ASSUME Shape, MainInv, EndsInv, ReplyInv, RegisterInv, LoopStep, UNCHANGED clientVars
  PROVE  RegisterInv'
<1> USE DEF RegisterInv
<1>1. UNCHANGED <<main, server_open, client_open, lockables, cpc, call>> /\ server_open
  BY LoopFrame DEF clientVars, mainVars
<1>2. /\ sock \in Seq(Requests) /\ \A k \in 1 .. Len(sock) : sock[k].o \in Oneshots
      /\ next_id \in Nat /\ \A id \in descriptors : id < next_id /\ id \in Nat
      /\ \A c \in Clients : call[c].id \in Nat
      /\ \A j \in jobs : j.id \in Nat
      /\ \A k \in 1 .. Len(sock) : sock[k].id \in Nat
  <2>1. sock \in Seq(Requests) /\ \A k \in 1 .. Len(sock) : sock[k].o \in Oneshots
    BY EndShapes
  <2>2. \A k \in 1 .. Len(sock) : sock[k].id \in Nat
    <3>1. \A k \in 1 .. Len(sock) : sock[k] \in Requests
      BY <2>1, SMTT(60)
    <3> QED  BY <3>1 DEF Requests
  <2> QED  BY <2>1, <2>2, DaemonAssumption, SMTT(60) DEF Shape, DaemonShape, FdShape, Ids, ClientShape, JobShape
<1>3. /\ next_id' \in Nat /\ next_id <= next_id' /\ descriptors \subseteq descriptors'
      /\ \A id \in descriptors' : id \in descriptors \/ (id = next_id /\ Registers)
  <2>1. Registers \/ UNCHANGED <<next_id, descriptors>>
    BY LoopCases DEF Detaches, ServesOther, Commands
  <2> QED  BY <1>2, <2>1, SMTT(60) DEF Registers
<1>4. /\ sock' \in Seq(Requests)
      /\ \A k \in 1 .. Len(sock') : \E l \in 1 .. Len(sock) : sock'[k] = sock[l]
  <2>1. sock' = sock \/ (sock # << >> /\ sock' = Tail(sock))
    BY LoopCases DEF Registers, Detaches, ServesOther, Commands
  <2>2. CASE sock' = sock
    BY <1>2, <2>2
  <2>3. CASE sock # << >> /\ sock' = Tail(sock)
    BY <1>2, <2>3, SockTail
  <2> QED  BY <2>1, <2>2, <2>3
<1>5. /\ jobs \subseteq jobs'
      /\ \A j \in jobs' : \/ j \in jobs
                          \/ j.st = "start" /\ \E l \in 1 .. Len(sock) : sock[l].op = j.op /\ sock[l].id = j.id
  <2>1. CASE Detaches
    BY <1>2, <2>1, SockTail DEF Detaches
  <2>2. Detaches \/ jobs' = jobs
    BY LoopCases DEF Registers, Detaches, ServesOther, Commands
  <2> QED  BY <2>1, <2>2
<1>6. ASSUME NEW c \in Clients, NEW op \in {"Register", "Unregister"}, ToldOk(c, op)'
      PROVE  \/ ToldOk(c, op) /\ IdTold(c)' = IdTold(c)
             \/ op = "Register" /\ Registers /\ call[c].o = Head(sock).o /\ IdTold(c)' = next_id
  <2>1. cpc[c] = op /\ cpc[c] \in Waiting
    BY <1>1, <1>6 DEF ToldOk, Waiting, Simple
  <2>2. MatchSock(c) /\ MatchLoop(c)
    BY <2>1 DEF ReplyInv, MatchInv
  <2>3. CASE Registers
    <3>1. Registered(next_id) \in Replies /\ Registered(next_id).val = next_id
      BY <1>2, ReplyShapes
    <3>2. Head(sock).o \in Oneshots /\ Head(sock) = sock[1] /\ 1 \in 1 .. Len(sock)
      BY <1>2, <2>3, SockTail DEF Registers
    <3>3. Heads(Head(sock).o, Registered(next_id))
      BY <2>3, <3>1, <3>2, WriteHeads DEF Registers
    <3>4. call[c].o = Head(sock).o => op = "Register"
      BY <2>1, <2>2, <2>3, <3>2 DEF MatchSock, Registers
    <3> QED  BY <1>1, <1>6, <2>3, <3>1, <3>2, <3>3, <3>4, HeadsTold, SMTT(60)
  <2>4. ASSUME UNCHANGED oneshot
        PROVE  ToldOk(c, op) /\ IdTold(c)' = IdTold(c)
    BY <1>1, <1>6, <2>4 DEF ToldOk, IdTold, HasReply, NextReply
  <2>5. CASE Detaches
    BY <2>4, <2>5 DEF Detaches
  <2>6. ASSUME NEW r \in Replies, ServesOther(r)
        PROVE  ToldOk(c, op) /\ IdTold(c)' = IdTold(c)
    <3>1. Head(sock).o \in Oneshots /\ Head(sock) = sock[1] /\ 1 \in 1 .. Len(sock)
      BY <1>2, <2>6, SockTail DEF ServesOther
    <3>2. Heads(Head(sock).o, r)
      BY <2>6, <3>1, WriteHeads DEF ServesOther
    <3>4. CASE Head(sock).op # "Unregister" /\ (Head(sock).op = "Register" => r.tag # "Ok")
      <4>1. call[c].o = Head(sock).o => r.tag # "Ok"
        BY <2>1, <2>2, <3>1, <3>4, SMTT(60) DEF MatchSock
      <4> QED  BY <1>1, <1>6, <3>1, <3>2, <4>1, HeadsTold, SMTT(60)
    <3>5. CASE oneshot' = Hushed(Head(sock).o)
      <4>1. oneshot \in [Oneshots -> OneshotStates]
        BY EndShapes
      <4>2. \A p \in Oneshots : oneshot'[p].q = oneshot[p].q
        BY <3>1, <3>5, <4>1, ClosedOneshot
      <4> QED  BY <1>1, <1>6, <2>1, <4>2, CallShapes DEF ToldOk, IdTold, HasReply, NextReply
    <3> QED  BY <2>4, <2>6, <3>4, <3>5 DEF ServesOther
  <2>7. ASSUME NEW r \in Replies, Commands(r)
        PROVE  ToldOk(c, op) /\ IdTold(c)' = IdTold(c)
    <3>1. CASE oneshot' = Answered(loop.req.o, r) /\ loop.pc = "cmd" /\ loop.req.op \in LkOps
      <4>1. loop.req.o \in Oneshots /\ call[c].o # loop.req.o
        BY <2>1, <2>2, <3>1, EndShapes DEF MatchLoop, InLoop, LkOps
      <4>2. Heads(loop.req.o, r)
        BY <3>1, <4>1, WriteHeads
      <4> QED  BY <1>1, <1>6, <4>1, <4>2, HeadsTold, SMTT(60)
    <3> QED  BY <2>4, <2>7, <3>1 DEF Commands
  <2> QED  BY <2>3, <2>5, <2>6, <2>7, LoopCases
<1>7. KnownIds'
  <2>1. \A c \in Clients : cpc'[c] = "Unregister" => call'[c].id < next_id'
    BY <1>1, <1>2, <1>3, SMTT(60) DEF KnownIds
  <2>2. \A k \in 1 .. Len(sock') : sock'[k].op = "Unregister" => sock'[k].id < next_id'
    BY <1>2, <1>3, <1>4, SMTT(60) DEF KnownIds
  <2>3. \A j \in jobs' : j.op = "Unregister" => j.id < next_id'
    BY <1>2, <1>3, <1>5, SMTT(60) DEF KnownIds
  <2> QED  BY <2>1, <2>2, <2>3 DEF KnownIds
<1>8. OneCloses'
  <2>1. \A j \in jobs' : Closes(j) => j \in jobs /\ j.id # next_id
    BY <1>2, <1>5, SMTT(60) DEF Closes, KnownIds
  <2> QED  BY <1>3, <2>1 DEF OneCloses, Closes
<1>9. DropsDone'
  <2>1. SUFFICES ASSUME NEW c \in Clients, ToldOk(c, "Unregister")'
                 PROVE  call[c].id \notin descriptors'
                        /\ \A j \in jobs' : j.op = "Unregister" /\ j.id = call[c].id => j.st \notin {"removed", "stopping"}
    BY <1>1 DEF DropsDone, FdExists, Unregistering
  <2>2. ToldOk(c, "Unregister") /\ call[c].id # next_id
    BY <1>2, <1>6, <2>1, SMTT(60) DEF KnownIds, ToldOk
  <2>3. call[c].id \notin descriptors
        /\ \A j \in jobs : j.op = "Unregister" /\ j.id = call[c].id => j.st \notin {"removed", "stopping"}
    BY <2>2 DEF DropsDone, FdExists, Unregistering
  <2> QED  BY <1>3, <1>5, <2>2, <2>3
<1>10. ASSUME NEW id, Live(id)
       PROVE  Live(id)' /\ id # next_id
  <2>1. id \in descriptors' /\ id # next_id /\ server_open' /\ main' = "waiting"
    BY <1>1, <1>2, <1>3, <1>10, SMTT(60) DEF Live
  <2>2. ~\E k \in 1 .. Len(sock') : sock'[k].op = "Unregister" /\ sock'[k].id = id
    BY <1>4, <1>10 DEF Live, Unregisters
  <2>3. ~\E j \in jobs' : j.op = "Unregister" /\ j.id = id
    BY <1>5, <1>10, SMTT(60) DEF Live, Unregisters
  <2> QED  BY <2>1, <2>2, <2>3 DEF Live, Unregisters
<1>11. LockablesLive'
  <2>1. \A id \in lockables' : Live(id)'
    BY <1>1, <1>10 DEF LockablesLive
  <2>2. \A n : n = next_id /\ Registers => n \notin lockables /\ Live(n)'
    <3>1. Registers => server_open' /\ main' = "waiting" /\ next_id \in descriptors' /\ jobs' = jobs
      BY <1>1 DEF Registers
    <3>2. \A k \in 1 .. Len(sock) : ~(sock[k].op = "Unregister" /\ sock[k].id = next_id)
      BY <1>2, SMTT(60) DEF KnownIds
    <3>3. \A j \in jobs : ~(j.op = "Unregister" /\ j.id = next_id)
      BY <1>2, SMTT(60) DEF KnownIds
    <3>4. ASSUME NEW n, n = next_id, Registers
          PROVE  Live(n)'
      BY <1>4, <3>1, <3>2, <3>3, <3>4 DEF Live, Unregisters
    <3>5. next_id \notin lockables
      BY <1>2, SMTT(60) DEF LockablesLive, Live
    <3> QED  BY <3>4, <3>5
  <2>3. ASSUME NEW c \in Clients, Told(c)'
        PROVE  \/ Told(c) /\ IdTold(c)' = IdTold(c) /\ IdTold(c) # next_id
               \/ Registers /\ call[c].o = Head(sock).o /\ IdTold(c)' = next_id /\ cpc[c] \in Waiting
    <3>1. cpc[c] \in Waiting
      BY <1>1, <2>3 DEF Told, ToldOk, Waiting, Simple
    <3>2. Told(c) => IdTold(c) # next_id
      BY <1>2, SMTT(60) DEF LockablesLive, Live
    <3> QED  BY <1>6, <2>3, <3>1, <3>2 DEF Told
  <2>4. ASSUME NEW c \in Clients, Told(c)'
        PROVE  Live(IdTold(c))' /\ IdTold(c)' \notin lockables'
    <3>0. PICK n : n = IdTold(c)'
      OBVIOUS
    <3>1. Live(n)' /\ n \notin lockables
      <4>1. CASE Told(c) /\ n = IdTold(c)
        <5>1. Live(n) /\ n \notin lockables
          BY <4>1 DEF LockablesLive
        <5> QED  BY <1>10, <5>1
      <4>2. CASE Registers /\ n = next_id
        BY <2>2, <4>2
      <4> QED  BY <2>3, <2>4, <3>0, <4>1, <4>2
    <3> QED  BY <1>1, <3>0, <3>1 DEF Live, Unregisters
  <2>5. ASSUME NEW c \in Clients, NEW d \in Clients, Told(c)', Told(d)', IdTold(c)' = IdTold(d)'
        PROVE  c = d
    <3>1. OneClient
      BY DEF EndsInv
    <3> QED  BY <2>3, <2>5, <3>1 DEF LockablesLive, OneClient
  <2> QED  BY <2>1, <2>4, <2>5 DEF LockablesLive
<1>12. GoneCalls'
  BY <1>1 DEF GoneCalls
<1> QED  BY <1>7, <1>8, <1>9, <1>11, <1>12

(* The threads of blocking locks do nothing about it.                      *)
LEMMA SameFiles ==
  ASSUME RegisterInv,
         UNCHANGED <<sock, jobs, next_id, descriptors, main, server_open, client_open, lockables, cpc, call>>,
         \A c \in Clients : \A op \in {"Register", "Unregister"} :
           ToldOk(c, op)' => ToldOk(c, op) /\ IdTold(c)' = IdTold(c)
  PROVE  RegisterInv'
<1>1. KnownIds' /\ OneCloses' /\ GoneCalls'
  BY DEF RegisterInv, KnownIds, OneCloses, GoneCalls
<1>2. DropsDone'
  BY DEF RegisterInv, DropsDone, FdExists, Unregistering
<1>3. \A id : Live(id) => Live(id)'
  BY DEF Live, Unregisters
<1>4. LockablesLive'
  <2>1. \A c \in Clients : Told(c)' => Told(c) /\ IdTold(c)' = IdTold(c)
    BY DEF Told
  <2>2. \A c \in Clients : Told(c)' => Live(IdTold(c))' /\ IdTold(c)' \notin lockables'
    BY <1>3, <2>1, SMTT(60) DEF RegisterInv, LockablesLive, Live, Unregisters
  <2>3. \A id \in lockables' : Live(id)'
    BY <1>3 DEF RegisterInv, LockablesLive
  <2> QED  BY <2>1, <2>2, <2>3 DEF RegisterInv, LockablesLive
<1> QED  BY <1>1, <1>2, <1>4 DEF RegisterInv

(* A lock thread answers neither a register nor an unregister.             *)
LEMMA ThreadRegisterInv ==
  ASSUME Shape, ReplyInv, RegisterInv, NEW t \in LockThreads,
         ThreadStep(t) \/ ThreadReturns(t, "EDEADLK"), UNCHANGED clientVars
  PROVE  RegisterInv'
<1>1. /\ threads[t].pc # "none"
      /\ UNCHANGED <<sock, jobs, next_id, descriptors, main, server_open, client_open>>
  BY DEF ThreadStep, ThreadTrack, ThreadRefused, ThreadTryLk, ThreadReturns, ThreadExit, Step, mainVars, fdVars
<1>2. threads[t].o \in Oneshots /\ threads[t].act \in LockTypes
  BY <1>1 DEF Shape, DaemonShape, ThreadShape
<1>3. \A errno \in Tags : BlockingReply(t, errno) \in Replies
  BY <1>2, ReplyShapes DEF BlockingReply
<1>4. PICK r \in Replies : oneshot' \in {oneshot, Hushed(threads[t].o), Replied(threads[t].o, r)}
  <2>1. R("Ok") \in Replies
    BY ReplyShapes DEF Tags
  <2>2. CASE ThreadTrack(t) \/ ThreadRefused(t) \/ ThreadExit(t)
    BY <2>1, <2>2 DEF ThreadTrack, ThreadRefused, ThreadExit
  <2>3. CASE ThreadTryLk(t)
    <3>1. SetLkErrno(threads[t].id, Flock(threads[t].act)) \in Tags
      BY <1>2, LkTypes, LkAnswers DEF Tags
    <3>2. interrupt_next_id \in Nat => Pending(interrupt_next_id) \in Replies
      BY ReplyShapes
    <3> QED  BY <1>3, <2>3, <3>1, <3>2, SMTT(60) DEF ThreadTryLk, Ids
  <2>4. ASSUME NEW errno \in {"Done", "EBADF", "EINTR", "EDEADLK"}, ThreadReturns(t, errno)
        PROVE  BlockingReply(t, errno) \in Replies /\ oneshot' = Replied(threads[t].o, BlockingReply(t, errno))
    BY <1>3, <2>4 DEF ThreadReturns, Tags
  <2> QED  BY <2>2, <2>3, <2>4 DEF ThreadStep
<1>5. Heads(threads[t].o, r)
  BY <1>2, <1>4, WriteHeads
<1>6. ASSUME NEW c \in Clients, NEW op \in {"Register", "Unregister"}, ToldOk(c, op)'
      PROVE  ToldOk(c, op) /\ IdTold(c)' = IdTold(c)
  <2>1. cpc[c] = op /\ cpc[c] \in Waiting /\ cpc[c] \notin Detached
    BY <1>6 DEF ToldOk, Waiting, Simple, Detached, clientVars
  <2>2. call[c].o # threads[t].o
    BY <1>1, <2>1 DEF ReplyInv, MatchInv, MatchThreads
  <2> QED  BY <1>2, <1>5, <1>6, <2>2, HeadsTold, SMTT(60) DEF clientVars
<1> QED  BY <1>1, <1>6, SameFiles DEF clientVars

(* An unregister takes its file out of the map, waits, and closes it.      *)
LEMMA JobRegisterInv ==
  ASSUME Shape, ReplyInv, RegisterInv, NEW j \in jobs, JobStep(j), UNCHANGED clientVars
  PROVE  RegisterInv'
<1> USE DEF RegisterInv
<1>1. UNCHANGED <<sock, next_id, main, server_open, client_open, lockables, cpc, call>>
  BY DEF JobStep, InterruptLookUp, InterruptDone, UnregisterRemove, UnregisterStop, UnregisterClose,
         UnregisterReply, JobFrame, mainVars, clientVars
<1>2. /\ \A k \in jobs : k.op \in {"Interrupt", "Unregister"} /\ k.st \in {"start", "removed", "stopping", "closed"}
      /\ j.o \in Oneshots /\ JobShape
  BY DEF Shape, DaemonShape, JobShape
<1>3. \/ jobs' = jobs \ {j}
      \/ \E k : /\ jobs' = (jobs \ {j}) \cup {k} /\ k.op = j.op /\ k.id = j.id
                /\ Closes(k) => Closes(j) \/ (j.id \in descriptors /\ j.id \notin descriptors')
  <2>1. ASSUME NEW k, JobGoes(j, k), k.op = j.op, k.id = j.id,
               Closes(k) => Closes(j) \/ (j.id \in descriptors /\ j.id \notin descriptors')
        PROVE  \E i : /\ jobs' = (jobs \ {j}) \cup {i} /\ i.op = j.op /\ i.id = j.id
                      /\ Closes(i) => Closes(j) \/ (j.id \in descriptors /\ j.id \notin descriptors')
    BY <2>1 DEF JobGoes
  <2>2. \A st \in {"removed", "stopping", "closed"} :
          LET k == [j EXCEPT !.st = st]
          IN  k.op = j.op /\ k.id = j.id /\ k.o = j.o /\ k.st = st
    BY <1>2 DEF JobShape
  <2>3. LET k == [j EXCEPT !.st = "stopping", !.thread = interrupts[j.id]]
        IN  k.op = j.op /\ k.id = j.id /\ k.o = j.o /\ k.st = "stopping"
    BY <1>2 DEF JobShape
  <2>4. CASE InterruptLookUp(j)
    <3>1. CASE JobEnds(j, "ENOENT")
      BY <3>1 DEF JobEnds
    <3>2. CASE JobGoes(j, [j EXCEPT !.st = "stopping", !.thread = interrupts[j.id]])
      <4>1. j.op = "Interrupt"
        BY <2>4 DEF InterruptLookUp
      <4> QED  BY <2>1, <2>3, <3>2, <4>1 DEF Closes
    <3> QED  BY <2>4, <3>1, <3>2 DEF InterruptLookUp
  <2>5. CASE InterruptDone(j) \/ UnregisterReply(j)
    BY <2>5 DEF InterruptDone, UnregisterReply, JobEnds
  <2>6. CASE UnregisterRemove(j)
    <3>1. CASE JobEnds(j, "ENOENT")
      BY <3>1 DEF JobEnds
    <3>2. CASE j.id \in descriptors /\ JobGoes(j, [j EXCEPT !.st = "removed"])
      <4>1. j.id \notin descriptors'
        BY <2>6 DEF UnregisterRemove
      <4> QED  BY <2>1, <2>2, <3>2, <4>1
    <3> QED  BY <2>6, <3>1, <3>2 DEF UnregisterRemove
  <2>7. CASE UnregisterStop(j)
    <3>1. Closes(j)
      BY <2>7 DEF UnregisterStop, Closes
    <3> QED  BY <2>1, <2>2, <2>7, <3>1 DEF UnregisterStop
  <2>8. CASE UnregisterClose(j)
    <3>1. Closes(j)
      BY <2>8 DEF UnregisterClose, Closes
    <3> QED  BY <2>1, <2>2, <2>8, <3>1 DEF UnregisterClose
  <2> QED  BY <2>4, <2>5, <2>6, <2>7, <2>8 DEF JobStep
<1>4. /\ descriptors' \subseteq descriptors
      /\ \A id \in descriptors : id \notin descriptors' => id = j.id /\ j.op = "Unregister"
  BY DEF JobStep, InterruptLookUp, InterruptDone, UnregisterRemove, UnregisterStop,
         UnregisterClose, UnregisterReply
<1>5. \A i \in jobs' : i \in jobs \/ (i.op = j.op /\ i.id = j.id)
  BY <1>3
<1>6. KnownIds'
  BY <1>1, <1>5 DEF KnownIds
<1>7. OneCloses'
  BY <1>3, <1>4 DEF OneCloses, Closes
<1>8. ASSUME NEW c \in Clients, NEW op \in {"Register", "Unregister"}, ToldOk(c, op)'
      PROVE  \/ ToldOk(c, op) /\ IdTold(c)' = IdTold(c)
             \/ op = "Unregister" /\ UnregisterReply(j) /\ call[c].id = j.id
  <2>1. cpc[c] = op /\ cpc[c] \in Waiting /\ MatchJobs(c)
    BY <1>1, <1>8 DEF ToldOk, Waiting, Simple, ReplyInv, MatchInv
  <2>2. ASSUME NEW tag \in {"Ok", "ENOENT"}, JobEnds(j, tag)
        PROVE  \/ ToldOk(c, op) /\ IdTold(c)' = IdTold(c)
               \/ call[c].o = j.o /\ tag = "Ok"
    <3>1. R(tag) \in Replies /\ R(tag).tag = tag
      BY ReplyShapes DEF Tags
    <3>2. Heads(j.o, R(tag))
      BY <1>2, <2>2, <3>1, WriteHeads DEF JobEnds
    <3> QED  BY <1>1, <1>2, <1>8, <3>1, <3>2, HeadsTold, SMTT(60)
  <2>3. ASSUME UNCHANGED oneshot
        PROVE  ToldOk(c, op) /\ IdTold(c)' = IdTold(c)
    BY <1>1, <1>8, <2>3 DEF ToldOk, IdTold, HasReply, NextReply
  <2>4. CASE InterruptLookUp(j)
    BY <2>2, <2>3, <2>4 DEF InterruptLookUp, JobGoes
  <2>5. CASE UnregisterRemove(j) \/ UnregisterStop(j) \/ UnregisterClose(j)
    BY <2>2, <2>3, <2>5 DEF UnregisterRemove, UnregisterStop, UnregisterClose, JobGoes
  <2>6. CASE InterruptDone(j)
    BY <2>1, <2>2, <2>6 DEF InterruptDone, MatchJobs
  <2>7. CASE UnregisterReply(j)
    BY <2>1, <2>2, <2>7 DEF UnregisterReply, MatchJobs
  <2> QED  BY <2>4, <2>5, <2>6, <2>7 DEF JobStep
<1>9. DropsDone'
  <2>1. SUFFICES ASSUME NEW c \in Clients, ToldOk(c, "Unregister")'
                 PROVE  ~FdExists(call[c].id)'
    BY <1>1 DEF DropsDone, FdExists, Unregistering
  <2>2. CASE ToldOk(c, "Unregister")
    <3>1. ~FdExists(call[c].id)
      BY <2>2 DEF DropsDone
    <3>2. \A id : FdExists(id)' => FdExists(id)
      BY JobFiles
    <3> QED  BY <1>1, <3>1, <3>2 DEF FdExists, Unregistering
  <2>3. CASE UnregisterReply(j) /\ call[c].id = j.id
    <3>1. jobs' = jobs \ {j} /\ descriptors' = descriptors /\ Closes(j)
      BY <2>3 DEF UnregisterReply, JobEnds, Closes
    <3>2. j.id \notin descriptors' /\ \A k \in jobs' : Closes(k) => k.id # j.id
      BY <3>1 DEF OneCloses
    <3> QED  BY <1>1, <2>3, <3>2 DEF FdExists, Unregistering, Closes
  <2> QED  BY <1>8, <2>1, <2>2, <2>3
<1>10. \A id : Live(id) => Live(id)'
  BY <1>1, <1>4, <1>5 DEF Live, Unregisters
<1>11. LockablesLive'
  <2>1. \A c \in Clients : Told(c)' => Told(c) /\ IdTold(c)' = IdTold(c)
    BY <1>8 DEF Told
  <2>2. \A c \in Clients : Told(c)' => Live(IdTold(c))' /\ IdTold(c)' \notin lockables'
    BY <1>1, <1>10, <2>1, SMTT(60) DEF LockablesLive, Live, Unregisters
  <2>3. \A id \in lockables' : Live(id)'
    BY <1>1, <1>10 DEF LockablesLive
  <2> QED  BY <2>1, <2>2, <2>3 DEF LockablesLive
<1>12. GoneCalls'
  BY <1>1 DEF GoneCalls
<1> QED  BY <1>6, <1>7, <1>9, <1>11, <1>12

(* The process ends only when it has no file, or the daemon is gone.       *)
LEMMA MainRegisterInv ==
  ASSUME Shape, MainInv, RegisterInv, MainStep, UNCHANGED clientVars
  PROVE  RegisterInv'
<1> USE DEF RegisterInv
<1>1. UNCHANGED <<lockables, cpc, call, client_open, next_id>>
  BY DEF clientVars, MainStep, MainTryExit, MainJoin, ProcessExit, MainFrame, channelVars, fdVars
<1>2. \A c \in Clients : \A op \in {"Register", "Unregister"} :
        ToldOk(c, op)' => ToldOk(c, op) /\ IdTold(c)' = IdTold(c)
  <2>1. \A o \in Oneshots : oneshot'[o].q = oneshot[o].q
    BY EndShapes DEF MainStep, MainTryExit, MainJoin, ProcessExit, MainFrame, channelVars, OneshotStates
  <2>2. \A c \in Clients : cpc[c] \in {"Register", "Unregister"} => call[c].o \in Oneshots
    BY CallShapes DEF Waiting, Simple
  <2> QED  BY <1>1, <2>1, <2>2 DEF ToldOk, IdTold, HasReply, NextReply
<1>3. lockables = {} /\ \A c \in Clients : ~Told(c)
  <2>1. CASE MainTryExit
    <3>1. descriptors = {}
      BY <2>1 DEF MainTryExit, FdExists, Shape, DaemonShape, FdShape
    <3> QED  BY <3>1 DEF LockablesLive, Live
  <2>2. CASE MainJoin
    BY <2>2 DEF MainJoin, MainInv, GoneCalls, Told, ToldOk
  <2>3. CASE ProcessExit
    BY <2>3 DEF ProcessExit, LockablesLive, Live
  <2> QED  BY <2>1, <2>2, <2>3 DEF MainStep
<1>4. LockablesLive'
  BY <1>1, <1>2, <1>3 DEF LockablesLive, Told
<1>5. /\ (UNCHANGED sock \/ sock' = << >>) /\ jobs' \subseteq jobs /\ descriptors' \subseteq descriptors
  BY DEF MainStep, MainTryExit, MainJoin, ProcessExit, MainFrame, channelVars, fdVars
<1>6. KnownIds'
  BY <1>1, <1>5, SMTT(60) DEF KnownIds
<1>7. OneCloses'
  BY <1>5 DEF OneCloses
<1>8. DropsDone'
  BY <1>1, <1>2, <1>5 DEF DropsDone, FdExists, Unregistering
<1> QED  BY <1>1, <1>4, <1>6, <1>7, <1>8 DEF GoneCalls

(* A Lockable is made of the id that register() was told, and goes away    *)
(* before its unregister is sent.                                          *)
LEMMA ClientRegisterInv ==
  ASSUME Shape, EndsInv, RegisterInv, CallStep
  PROVE  RegisterInv'
<1> USE DEF RegisterInv
<1>1. UNCHANGED <<jobs, next_id, descriptors, main>>
  BY DEF CallStep, daemonVars, mainVars, fdVars
<1>2. /\ sock \in Seq(Requests) /\ OneClient
      /\ \A c \in Clients : cpc[c] \in Waiting => call[c].o \in Oneshots
  BY EndShapes, CallShapes DEF EndsInv
<1>3. OneCloses'
  BY <1>1 DEF OneCloses
<1>4. \A id : FdExists(id)' <=> FdExists(id)
  BY <1>1 DEF FdExists, Unregistering
<1>5. CASE UNCHANGED <<channelVars, lockables, cpc, call>>
  BY <1>1, <1>5, SameFiles DEF channelVars, ToldOk, IdTold, HasReply, NextReply
<1>6. CASE HangUp
  <2>1. UNCHANGED sock /\ lockables' = {} /\ \A c \in Clients : cpc'[c] = "gone"
    BY <1>6 DEF HangUp
  <2>2. KnownIds' /\ DropsDone' /\ LockablesLive'
    BY <1>1, <2>1 DEF KnownIds, DropsDone, LockablesLive, Told, ToldOk
  <2> QED  BY <1>3, <2>1, <2>2 DEF GoneCalls
<1>7. ASSUME NEW c \in Clients, NEW d \in Clients, d # c, Elsewhere(c),
             cpc[d] \in Waiting => oneshot'[call[d].o].q = oneshot[call[d].o].q, NEW op \in {"Register", "Unregister"}
      PROVE  ToldOk(d, op)' => ToldOk(d, op) /\ IdTold(d)' = IdTold(d) /\ call'[d].id = call[d].id
  BY <1>7 DEF Elsewhere, ToldOk, IdTold, HasReply, NextReply, Waiting, Simple
<1>8. ASSUME NEW c \in Clients, UNCHANGED <<client_open, server_open>>, lockables' \subseteq lockables, Elsewhere(c),
             \A d \in Clients : d # c /\ cpc[d] \in Waiting => oneshot'[call[d].o].q = oneshot[call[d].o].q,
             \A op \in {"Register", "Unregister"} : ~ToldOk(c, op)',
             cpc'[c] # "Unregister", cpc[c] # "gone",
             \A k \in 1 .. Len(sock') : sock'[k].op = "Unregister" => \E l \in 1 .. Len(sock) : sock'[k] = sock[l]
      PROVE  RegisterInv'
  <2>1. \A d \in Clients : \A op \in {"Register", "Unregister"} :
          ToldOk(d, op)' => d # c /\ ToldOk(d, op) /\ IdTold(d)' = IdTold(d) /\ call'[d].id = call[d].id
    BY <1>7, <1>8
  <2>2. KnownIds'
    BY <1>1, <1>8 DEF KnownIds, Elsewhere
  <2>3. DropsDone'
    BY <1>4, <2>1 DEF DropsDone
  <2>4. \A id : Live(id) => Live(id)'
    BY <1>1, <1>8 DEF Live, Unregisters
  <2>5. LockablesLive'
    <3>1. \A d \in Clients : Told(d)' => Told(d) /\ IdTold(d)' = IdTold(d)
      BY <2>1 DEF Told
    <3>2. \A d \in Clients : Told(d)' => Live(IdTold(d))' /\ IdTold(d)' \notin lockables'
      <4> SUFFICES ASSUME NEW d \in Clients, Told(d)'
                   PROVE  Live(IdTold(d))' /\ IdTold(d)' \notin lockables'
        OBVIOUS
      <4>1. PICK id : id = IdTold(d)
        OBVIOUS
      <4>2. id = IdTold(d)' /\ Live(id) /\ id \notin lockables
        BY <3>1, <4>1 DEF LockablesLive
      <4>3. Live(id)' /\ id \notin lockables'
        BY <1>8, <2>4, <4>2
      <4> QED  BY <4>2, <4>3 DEF Live, Unregisters
    <3>3. \A id \in lockables' : Live(id)'
      BY <1>8, <2>4 DEF LockablesLive
    <3> QED  BY <3>1, <3>2, <3>3 DEF LockablesLive
  <2>6. GoneCalls'
    BY <1>8 DEF GoneCalls
  <2> QED  BY <1>3, <2>2, <2>3, <2>5, <2>6
<1>9. ASSUME NEW req, SendsOn(req)
      PROVE  /\ \A k \in 1 .. Len(sock') : sock'[k] = req \/ \E l \in 1 .. Len(sock) : sock'[k] = sock[l]
             /\ \A d \in Clients : cpc[d] \in Waiting => oneshot'[call[d].o].q = oneshot[call[d].o].q
             /\ oneshot'[req.o].q = << >>
  <2>1. \A k \in 1 .. Len(sock') : sock'[k] = req \/ \E l \in 1 .. Len(sock) : sock'[k] = sock[l]
    <3>1. req \in Requests /\ sock' = Append(sock, req)
      BY <1>9 DEF SendsOn
    <3>2. \A k \in 1 .. Len(sock') : k \in 1 .. Len(sock) \/ k = Len(sock) + 1
      BY <1>2, <3>1, SockAppend, SMTT(60)
    <3> QED  BY <1>2, <3>1, <3>2, SockAppend
  <2>2. \A d \in Clients : cpc[d] \in Waiting => call[d].o # req.o
    BY <1>2, <1>9, SMTT(60) DEF SendsOn, OneClient, Closed
  <2> QED  BY <1>2, <1>9, <2>1, <2>2 DEF SendsOn
<1>10. ASSUME NEW c \in Clients, NEW req, CallSends(c, req)
       PROVE  RegisterInv'
  <2>1. SendsOn(req) /\ Elsewhere(c) /\ UNCHANGED <<client_open, server_open>> /\ cpc'[c] = req.op
        /\ call'[c].o = req.o /\ cpc[c] # "gone" /\ client_open
    BY <1>10 DEF CallSends, SendsOn
  <2>2. \A op : ~ToldOk(c, op)'
    BY <1>9, <2>1 DEF ToldOk, HasReply
  <2>3. CASE req.op # "Unregister"
    <3>1. lockables' \subseteq lockables
      BY <1>10, <2>3 DEF CallSends
    <3> QED  BY <1>8, <1>9, <2>1, <2>2, <2>3, <3>1
  <2>4. CASE req.op = "Unregister"
    <3>1. req.id \in lockables /\ lockables' = lockables \ {req.id} /\ call'[c].id = req.id
      BY <1>10, <2>4 DEF CallSends
    <3>2. req.id < next_id
      BY <3>1 DEF LockablesLive, Live, Shape, DaemonShape, FdShape
    <3>3. \A d \in Clients : \A op \in {"Register", "Unregister"} :
            ToldOk(d, op)' => d # c /\ ToldOk(d, op) /\ IdTold(d)' = IdTold(d) /\ call'[d].id = call[d].id
      BY <1>7, <1>9, <2>1, <2>2
    <3>4. KnownIds'
      <4>1. \A k \in 1 .. Len(sock') : sock'[k].op = "Unregister" => sock'[k].id < next_id
        BY <1>9, <2>1, <3>2 DEF KnownIds
      <4>2. \A d \in Clients : cpc'[d] = "Unregister" => call'[d].id < next_id
        BY <2>1, <3>1, <3>2 DEF KnownIds, Elsewhere
      <4> QED  BY <1>1, <4>1, <4>2 DEF KnownIds
    <3>5. DropsDone'
      BY <1>4, <3>3 DEF DropsDone
    <3>6. \A id : Live(id) /\ id # req.id => Live(id)'
      BY <1>1, <1>9, <2>1 DEF Live, Unregisters
    <3>7. LockablesLive'
      <4>1. \A d \in Clients : Told(d)' => Told(d) /\ IdTold(d)' = IdTold(d)
        BY <3>3 DEF Told
      <4>2. \A d \in Clients : Told(d) => IdTold(d) # req.id
        BY <3>1 DEF LockablesLive
      <4>3. \A d \in Clients : Told(d)' => Live(IdTold(d))' /\ IdTold(d)' \notin lockables'
        <5> SUFFICES ASSUME NEW d \in Clients, Told(d)'
                     PROVE  Live(IdTold(d))' /\ IdTold(d)' \notin lockables'
          OBVIOUS
        <5>1. PICK id : id = IdTold(d)
          OBVIOUS
        <5>2. id = IdTold(d)' /\ Live(id) /\ id \notin lockables /\ id # req.id
          BY <4>1, <4>2, <5>1 DEF LockablesLive
        <5>3. Live(id)' /\ id \notin lockables'
          BY <3>1, <3>6, <5>2
        <5> QED  BY <5>2, <5>3 DEF Live, Unregisters
      <4>4. \A id \in lockables' : Live(id)'
        BY <3>1, <3>6 DEF LockablesLive
      <4> QED  BY <4>1, <4>3, <4>4 DEF LockablesLive
    <3>8. GoneCalls'
      BY <2>1 DEF GoneCalls
    <3> QED  BY <1>3, <3>4, <3>5, <3>7, <3>8
  <2> QED  BY <2>3, <2>4
<1>11. ASSUME NEW c \in Clients, NEW req, CallNests(c, req)
       PROVE  RegisterInv'
  <2>1. SendsOn(req) /\ Elsewhere(c) /\ UNCHANGED <<client_open, server_open, lockables>>
        /\ req.op # "Unregister" /\ cpc'[c] \in NestedPcs /\ cpc[c] # "gone"
    BY <1>11 DEF CallNests, SendsOn, NestedPcs
  <2>2. cpc'[c] \notin {"Register", "Unregister"} /\ \A op \in {"Register", "Unregister"} : ~ToldOk(c, op)'
    BY <2>1 DEF ToldOk, NestedPcs
  <2> QED  BY <1>8, <1>9, <2>1, <2>2
<1>12. ASSUME NEW c \in Clients, CallWaits(c)
       PROVE  RegisterInv'
  <2>1. UNCHANGED <<sock, client_open, server_open, lockables>> /\ Elsewhere(c)
        /\ cpc'[c] = "wait" /\ cpc[c] = "SetLkw" /\ \A p \in Oneshots : p # call[c].o => oneshot'[p] = oneshot[p]
    BY <1>12 DEF CallWaits
  <2>2. \A d \in Clients : d # c /\ cpc[d] \in Waiting => oneshot'[call[d].o].q = oneshot[call[d].o].q
    BY <1>2, <2>1 DEF OneClient, Waiting, Detached
  <2>3. \A op \in {"Register", "Unregister"} : ~ToldOk(c, op)'
    BY <2>1 DEF ToldOk
  <2> QED  BY <1>8, <2>1, <2>2, <2>3
<1>13. ASSUME NEW c \in Clients, CallResumes(c)
       PROVE  RegisterInv'
  <2>1. UNCHANGED <<sock, client_open, server_open, lockables>> /\ Elsewhere(c)
        /\ cpc'[c] \in {"again", "failed", "leave"} /\ cpc[c] \in NestedPcs
        /\ \A p \in Oneshots : p # call[c].nested => oneshot'[p] = oneshot[p]
    BY <1>13 DEF CallResumes, DropsEnd, NestedPcs
  <2>2. \A d \in Clients : d # c /\ cpc[d] \in Waiting => oneshot'[call[d].o].q = oneshot[call[d].o].q
    BY <1>2, <2>1 DEF OneClient
  <2>3. cpc'[c] # "Unregister" /\ cpc[c] # "gone" /\ \A op \in {"Register", "Unregister"} : ~ToldOk(c, op)'
    BY <2>1 DEF ToldOk, NestedPcs
  <2> QED  BY <1>8, <2>1, <2>2, <2>3
<1>14. ASSUME NEW c \in Clients, CallEnds(c)
       PROVE  RegisterInv'
  <2>1. UNCHANGED <<sock, client_open, server_open>> /\ Elsewhere(c)
        /\ cpc'[c] \in {"idle", "pre", "refused"} /\ cpc[c] # "gone"
    BY <1>14 DEF CallEnds, DropsEnd, channelVars, Waiting, Simple, Detached
  <2>2. \A d \in Clients : d # c /\ cpc[d] \in Waiting => oneshot'[call[d].o].q = oneshot[call[d].o].q
    BY <1>2, <1>14 DEF CallEnds, DropsEnd, channelVars, OneClient
  <2>3. cpc'[c] # "Unregister" /\ \A op \in {"Register", "Unregister"} : ~ToldOk(c, op)'
    BY <2>1 DEF ToldOk
  <2>4. CASE lockables' \subseteq lockables
    BY <1>8, <2>1, <2>2, <2>3, <2>4
  <2>5. CASE Told(c) /\ lockables' = lockables \cup {IdTold(c)}
    <3>1. \A d \in Clients : \A op \in {"Register", "Unregister"} :
            ToldOk(d, op)' => d # c /\ ToldOk(d, op) /\ IdTold(d)' = IdTold(d) /\ call'[d].id = call[d].id
      BY <1>7, <2>1, <2>2, <2>3
    <3>2. KnownIds'
      BY <1>1, <2>1 DEF KnownIds, Elsewhere
    <3>3. DropsDone'
      BY <1>4, <3>1, SMTT(60) DEF DropsDone, FdExists, Unregistering
    <3>4. \A id : Live(id) => Live(id)'
      BY <1>1, <2>1 DEF Live, Unregisters
    <3>5. LockablesLive'
      <4>1. \A d \in Clients : Told(d)' => Told(d) /\ IdTold(d)' = IdTold(d) /\ d # c
        BY <3>1 DEF Told
      <4>2. \A d \in Clients : Told(d)' => Live(IdTold(d))' /\ IdTold(d)' \notin lockables'
        BY <2>5, <3>4, <4>1 DEF LockablesLive, Live, Unregisters
      <4>3. \A id \in lockables' : Live(id)'
        BY <2>5, <3>4 DEF LockablesLive
      <4> QED  BY <4>1, <4>2, <4>3 DEF LockablesLive
    <3>6. GoneCalls'
      BY <2>1 DEF GoneCalls
    <3> QED  BY <1>3, <3>2, <3>3, <3>5, <3>6
  <2> QED  BY <1>14, <2>4, <2>5 DEF CallEnds, Told, ToldOk, IdTold
<1> QED
  BY <1>5, <1>6, <1>10, <1>11, <1>12, <1>13, <1>14 DEF CallStep

(* It is kept by every step.                                               *)
LEMMA RegisterStep ==
  ASSUME Shape, MainInv, EndsInv, ReplyInv, RegisterInv, [Next]_vars
  PROVE  RegisterInv'
<1>1. ASSUME UNCHANGED <<channelVars, mainVars, fdVars, jobs, clientVars>>
      PROVE  RegisterInv'
  BY <1>1, SameFiles DEF channelVars, mainVars, fdVars, clientVars, ToldOk, IdTold, HasReply, NextReply
<1>2. CASE UNCHANGED vars
  BY <1>1, <1>2 DEF vars, daemonVars
<1>3. ASSUME NEW l, OthersLock(l), UNCHANGED clientVars
      PROVE  RegisterInv'
  BY <1>1, <1>3 DEF OthersLock
<1> QED
  BY <1>2, <1>3, NextCases, LoopRegisterInv, ThreadRegisterInv, JobRegisterInv, MainRegisterInv, CallCases,
     ClientRegisterInv

(* A Lockable, from the reply that tells of it to its drop(), is known to  *)
(* a process that serves.                                                  *)
THEOREM RegisterInvariance == Spec => []RegisterInv
<1>1. Init => RegisterInv
  BY SMTT(60) DEF Init, ChannelsInit, DaemonInit, ClientInit, RegisterInv, KnownIds, OneCloses, DropsDone, LockablesLive,
         GoneCalls, Told, ToldOk
<1> QED  BY <1>1, MainInvariance, EndsInvariance, ReplyInvariance, RegisterStep, PTL DEF Spec

(* The exit lock works, for any number of threads, calls and files: while  *)
(* a Lockable exists its process neither exits nor forgets it, although    *)
(* the TTL may run out at any moment of a register() or a drop().          *)
THEOREM ProcessKept == Spec => []LockableKeepsProcess
<1>1. RegisterInv => LockableKeepsProcess
  BY DEF RegisterInv, LockablesLive, Live, LockableKeepsProcess
<1> QED  BY <1>1, RegisterInvariance, PTL

(* drop() that is told Ok has closed the descriptor, and no thread and no  *)
(* command uses it (handle_fd_unregister, Arc::strong_count).              *)
THEOREM DropCloses == Spec => []DropClosesFile
<1>1. Shape /\ FileInv /\ RegisterInv => DropClosesFile
  <2> SUFFICES ASSUME Shape, FileInv, RegisterInv, NEW c \in Clients, ToldOk(c, "Unregister")
               PROVE  ~FdExists(call[c].id) /\ LastReference(call[c].id)
    BY DEF DropClosesFile, ToldOk
  <2>1. ~FdExists(call[c].id)
    BY DEF RegisterInv, DropsDone
  <2>2. LastReference(call[c].id)
    BY <2>1 DEF FileInv, ThreadsHaveFile, LoopHasFile, LastReference, ThreadsOn, LoopHolds, HoldingPcs, TrackedPcs
  <2> QED  BY <2>1, <2>2
<1> QED  BY <1>1, Shapes, FileInvariance, RegisterInvariance, PTL

-----------------------------------------------------------------------------
(* The step from LockSystem to AbstractTracker, for the tracker of a file. *)

(* A step of the gate, or none.                                            *)
GateStep(id) == [FileTracker(id)!Next]_(FileTracker(id)!vars)

(* Whether it is open and has been stopped depends on who has the file.    *)
LEMMA SameGate ==
  ASSUME NEW id, TrackerOpen(id)' <=> TrackerOpen(id), TrackerStops(id)' = TrackerStops(id),
         ThreadsOn(id, TrackedPcs)' = ThreadsOn(id, TrackedPcs)
  PROVE  GateStep(id)
BY DEF GateStep, FileTracker!vars, TrackerOpen

(* The receiving loop opens the gate of a new file, which nobody has used, *)
(* and starts threads in front of the gate.                                *)
LEMMA LoopGate ==
  ASSUME Shape, RegisterInv, LoopStep, NEW id \in Ids
  PROVE  GateStep(id)
<1>1. ASSUME UNCHANGED <<fdVars, jobs>>
      PROVE  (TrackerOpen(id)' <=> TrackerOpen(id)) /\ TrackerStops(id)' = TrackerStops(id)
  BY <1>1 DEF TrackerOpen, TrackerStops, FdExists, Unregistering, fdVars
<1>2. ASSUME UNCHANGED threads
      PROVE  ThreadsOn(id, TrackedPcs)' = ThreadsOn(id, TrackedPcs)
  BY <1>2 DEF ThreadsOn
<1>3. CASE Discard \/ LoopPing \/ LoopRemoveInterrupt \/ LoopSpawned \/ LoopEnds
           \/ LoopGetLk \/ LoopSetLk \/ \E op : LoopLookUp(op)
  <2>1. UNCHANGED <<fdVars, jobs, threads>>
    BY <1>3 DEF Discard, LoopPing, LoopRemoveInterrupt, LoopLookUp, LoopGetLk, LoopSetLk,
                LoopSpawned, LoopEnds, daemonVars
  <2> QED  BY <1>1, <1>2, <2>1, SameGate
<1>4. CASE LoopRegister
  <2>1. CASE UNCHANGED fdVars
    BY <1>1, <1>2, <1>4, <2>1, SameGate DEF LoopRegister
  <2>2. CASE ~UNCHANGED fdVars
    <3>1. /\ next_id' = next_id + 1 /\ descriptors' = descriptors \cup {next_id}
          /\ UNCHANGED <<jobs, threads>>
      BY <1>4, <2>2 DEF LoopRegister
    <3>2. id \in Nat /\ next_id \in Nat
      BY DaemonAssumption, SMTT(60) DEF Shape, DaemonShape, FdShape, Ids
    <3>3. \/ id = next_id
          \/ id # next_id /\ (id >= next_id <=> id >= next_id + 1)
      BY <3>2, SMTT(60)
    <3>4. id = next_id => id >= next_id /\ id \in descriptors'
      BY <3>1, <3>2, SMTT(60)
    <3>5. id # next_id => (id \in descriptors' <=> id \in descriptors)
      BY <3>1
    <3>6. \A st : Unregistering(id, st)' <=> Unregistering(id, st)
      BY <3>1 DEF Unregistering
    <3>7. TrackerOpen(id)' <=> TrackerOpen(id)
      BY <3>1, <3>3, <3>4, <3>5, <3>6 DEF TrackerOpen
    <3>8. (id >= next_id \/ FdExists(id))' <=> (id >= next_id \/ FdExists(id))
      BY <3>1, <3>3, <3>4, <3>5, <3>6 DEF FdExists
    <3> QED  BY <1>2, <3>1, <3>7, <3>8, SameGate DEF TrackerStops
  <2> QED  BY <2>1, <2>2
<1>5. ASSUME NEW op, LoopDetach(op)
      PROVE  GateStep(id)
  <2>1. PICK k : k.st = "start" /\ jobs' = jobs \cup {k} /\ UNCHANGED <<fdVars, threads>>
    BY <1>5 DEF LoopDetach
  <2>2. \A st : "start" \notin st => (Unregistering(id, st)' <=> Unregistering(id, st))
    BY <2>1 DEF Unregistering
  <2>3. /\ Unregistering(id, {"removed"})' <=> Unregistering(id, {"removed"})
        /\ Unregistering(id, {"removed", "stopping"})' <=> Unregistering(id, {"removed", "stopping"})
    BY <2>2
  <2> QED  BY <1>2, <2>1, <2>3, SameGate DEF TrackerOpen, TrackerStops, FdExists, fdVars
<1>6. CASE LoopSpawn
  <2>1. PICK t \in LockThreads :
          /\ threads[t].pc = "none" /\ UNCHANGED <<fdVars, jobs>>
          /\ threads' = [threads EXCEPT ![t] = [pc |-> "starting", id |-> loop.req.id,
                                               act |-> loop.req.act, o |-> loop.req.o]]
    BY <1>6 DEF LoopSpawn, FreeThread
  <2>2. ThreadsOn(id, TrackedPcs)' = ThreadsOn(id, TrackedPcs)
    BY <2>1 DEF ThreadsOn, TrackedPcs, Shape, DaemonShape, ThreadShape
  <2> QED  BY <1>1, <2>1, <2>2, SameGate
<1> QED  BY <1>3, <1>4, <1>5, <1>6 DEF LoopStep

(* A lock thread enters when CanSpawn, while it has the file, and leaves.  *)
LEMMA ThreadGate ==
  ASSUME Shape, FileInv, NEW t \in LockThreads, ThreadStep(t) \/ ThreadReturns(t, "EDEADLK"),
         NEW id \in Ids
  PROVE  GateStep(id)
<1>1. ThreadShape
  BY DEF Shape, DaemonShape
<1>2. PICK from, to : from \in HoldingPcs /\ Step(t, from, to) /\
        \/ from = "starting" /\ to = "trylk" /\ CanSpawn(threads[t].id)
        \/ from = "starting" /\ to = "refused"
        \/ from = "refused" /\ to = "none"
        \/ from \in TrackedPcs /\ to \in TrackedPcs
        \/ from = "replied" /\ to = "none"
  BY DEF ThreadStep, ThreadTrack, ThreadRefused, ThreadTryLk, ThreadReturns, ThreadExit, HoldingPcs, TrackedPcs
<1>3. /\ UNCHANGED <<fdVars, jobs>> /\ threads[t].pc = from
      /\ threads' = [threads EXCEPT ![t] = IF to = "none" THEN Idle ELSE [threads[t] EXCEPT !.pc = to]]
  BY <1>2 DEF Step
<1>4. (TrackerOpen(id)' <=> TrackerOpen(id)) /\ TrackerStops(id)' = TrackerStops(id)
  BY <1>3 DEF TrackerOpen, TrackerStops, FdExists, Unregistering, fdVars
<1>5. TrackerOpen(id)' = TrackerOpen(id)
  BY <1>4 DEF TrackerOpen
<1>6. \A u \in LockThreads : u # t => threads'[u] = threads[u]
  BY <1>1, <1>3 DEF ThreadShape
<1>7. threads'[t].pc = to /\ (to # "none" => threads'[t].id = threads[t].id)
  BY <1>1, <1>3 DEF ThreadShape, Idle
<1>8. CASE threads[t].id # id \/ (from \notin TrackedPcs /\ to \notin TrackedPcs)
           \/ (from \in TrackedPcs /\ to \in TrackedPcs)
  <2>1. t \in ThreadsOn(id, TrackedPcs)' <=> t \in ThreadsOn(id, TrackedPcs)
    BY <1>3, <1>7, <1>8 DEF ThreadsOn, TrackedPcs
  <2>2. ThreadsOn(id, TrackedPcs)' = ThreadsOn(id, TrackedPcs)
    BY <1>6, <2>1 DEF ThreadsOn
  <2> QED  BY <1>4, <2>2, SameGate
<1>9. CASE threads[t].id = id /\ from = "starting" /\ to = "trylk" /\ CanSpawn(id)
  <2>1. ThreadsOn(id, TrackedPcs)' = ThreadsOn(id, TrackedPcs) \cup {t}
    BY <1>3, <1>6, <1>7, <1>9 DEF ThreadsOn, TrackedPcs
  <2>2. t \notin ThreadsOn(id, TrackedPcs)
    BY <1>3, <1>9 DEF ThreadsOn, TrackedPcs
  <2>3. FdExists(id)
    BY <1>3, <1>9 DEF FileInv, ThreadsHaveFile
  <2>4. TrackerOpen(id)
    BY <1>9, <2>3 DEF FdExists, CanSpawn, Unregistering, TrackerOpen
  <2>5. FileTracker(id)!Enter(t)
    BY <1>4, <1>5, <2>1, <2>2, <2>4 DEF FileTracker!Enter
  <2> QED  BY <2>5 DEF GateStep, FileTracker!Next
<1>10. CASE threads[t].id = id /\ from = "replied" /\ to = "none"
  <2>1. ThreadsOn(id, TrackedPcs)' = ThreadsOn(id, TrackedPcs) \ {t}
    BY <1>3, <1>6, <1>7, <1>10 DEF ThreadsOn, TrackedPcs
  <2>2. t \in ThreadsOn(id, TrackedPcs)
    BY <1>3, <1>10 DEF ThreadsOn, TrackedPcs
  <2>3. FileTracker(id)!Leave(t)
    BY <1>4, <1>5, <2>1, <2>2 DEF FileTracker!Leave
  <2> QED  BY <2>3 DEF GateStep, FileTracker!Next
<1> QED  BY <1>2, <1>8, <1>9, <1>10 DEF TrackedPcs

(* An unregister has the file to itself: it closes the gate, and returns   *)
(* when all have left.                                                     *)
LEMMA JobGate ==
  ASSUME Shape, RegisterInv, NEW j \in jobs, JobStep(j), NEW id \in Ids
  PROVE  GateStep(id)
<1>1. UNCHANGED next_id /\ ThreadsOn(id, TrackedPcs)' = ThreadsOn(id, TrackedPcs)
  BY DEF JobStep, InterruptLookUp, InterruptDone, UnregisterRemove, UnregisterStop, UnregisterClose,
         UnregisterReply, JobFrame, ThreadsOn
<1>2. ASSUME ~UnregisterClose(j) \/ id # j.id
      PROVE  TrackerStops(id)' = TrackerStops(id)
  <2>1. FdExists(id)' <=> FdExists(id)
    BY <1>2, JobFiles
  <2> QED  BY <1>1, <2>1 DEF TrackerStops
<1>3. CASE InterruptLookUp(j) \/ InterruptDone(j)
  <2>1. /\ UNCHANGED descriptors /\ j.op = "Interrupt"
        /\ \/ jobs' = jobs \ {j}
           \/ jobs' = (jobs \ {j}) \cup {[j EXCEPT !.st = "stopping", !.thread = interrupts[j.id]]}
    BY <1>3 DEF InterruptLookUp, InterruptDone, JobEnds, JobGoes
  <2>2. [j EXCEPT !.st = "stopping", !.thread = interrupts[j.id]].op = "Interrupt"
    BY <2>1 DEF Shape, DaemonShape, JobShape
  <2>3. TrackerOpen(id)' <=> TrackerOpen(id)
    BY <1>1, <2>1, <2>2 DEF TrackerOpen, Unregistering
  <2>4. ~UnregisterClose(j)
    BY <2>1 DEF UnregisterClose
  <2> QED  BY <1>1, <1>2, <2>3, <2>4, SameGate
<1>4. CASE UnregisterRemove(j)
  <2>1. ~UnregisterClose(j)
    BY <1>4 DEF UnregisterRemove, UnregisterClose
  <2>2. CASE j.id \notin descriptors
    <3>1. jobs' = jobs \ {j} /\ descriptors' = descriptors /\ j.st = "start"
      BY <1>4, <2>2 DEF UnregisterRemove, JobEnds
    <3>2. TrackerOpen(id)' <=> TrackerOpen(id)
      BY <1>1, <3>1 DEF TrackerOpen, Unregistering
    <3> QED  BY <1>1, <1>2, <2>1, <3>2, SameGate
  <2>3. CASE j.id \in descriptors
    <3> DEFINE k == [j EXCEPT !.st = "removed"]
    <3>1. jobs' = (jobs \ {j}) \cup {k} /\ descriptors' = descriptors \ {j.id} /\ j.st = "start"
          /\ j.op = "Unregister"
      BY <1>4, <2>3 DEF UnregisterRemove, JobGoes
    <3>2. k.op = "Unregister" /\ k.id = j.id /\ k.st = "removed"
      BY <3>1 DEF Shape, DaemonShape, JobShape
    <3> HIDE DEF k
    <3>3. TrackerOpen(id)' <=> TrackerOpen(id)
      BY <1>1, <2>3, <3>1, <3>2 DEF TrackerOpen, Unregistering
    <3> QED  BY <1>1, <1>2, <2>1, <3>3, SameGate
  <2> QED  BY <2>2, <2>3
<1>5. ASSUME j.op = "Unregister", j.st \in {"removed", "stopping"}, id = j.id
      PROVE  /\ ~(id >= next_id) /\ id \notin descriptors /\ FdExists(id)
             /\ \A k \in jobs : k.op = "Unregister" /\ k.id = id /\ k.st # "start" => k = j
  <2>1. id < next_id /\ next_id \in Nat /\ id \in Nat
    BY <1>5, DaemonAssumption, SMTT(60) DEF RegisterInv, KnownIds, Shape, DaemonShape, FdShape, Ids
  <2>2. ~(id >= next_id)
    BY <2>1, SMTT(60)
  <2> QED  BY <1>5, <2>2 DEF RegisterInv, OneCloses, Closes, FdExists, Unregistering
<1>6. CASE UnregisterStop(j)
  <2> DEFINE k == [j EXCEPT !.st = "stopping"]
  <2>1. /\ jobs' = (jobs \ {j}) \cup {k} /\ UNCHANGED descriptors
        /\ j.st = "removed" /\ j.op = "Unregister"
    BY <1>6 DEF UnregisterStop, JobGoes
  <2>2. k.op = "Unregister" /\ k.id = j.id /\ k.st = "stopping" /\ ~UnregisterClose(j)
    BY <2>1 DEF Shape, DaemonShape, JobShape, UnregisterClose
  <2> HIDE DEF k
  <2>3. CASE id # j.id
    <3>1. TrackerOpen(id)' <=> TrackerOpen(id)
      BY <1>1, <2>1, <2>2, <2>3 DEF TrackerOpen, Unregistering
    <3> QED  BY <1>1, <1>2, <2>3, <3>1, SameGate
  <2>4. CASE id = j.id
    <3>1. TrackerOpen(id)' = FALSE
      BY <1>1, <1>5, <2>1, <2>2, <2>4 DEF TrackerOpen, Unregistering
    <3>2. FileTracker(id)!Close
      BY <1>1, <1>2, <2>2, <3>1 DEF FileTracker!Close
    <3> QED  BY <3>2 DEF GateStep, FileTracker!Next
  <2> QED  BY <2>3, <2>4
<1>7. CASE UnregisterClose(j)
  <2> DEFINE k == [j EXCEPT !.st = "closed"]
  <2>1. /\ jobs' = (jobs \ {j}) \cup {k} /\ UNCHANGED descriptors
        /\ j.st = "stopping" /\ j.op = "Unregister" /\ ThreadsOn(j.id, TrackedPcs) = {}
    BY <1>7 DEF UnregisterClose, JobGoes
  <2>2. k.st = "closed"
    BY DEF Shape, DaemonShape, JobShape
  <2> HIDE DEF k
  <2>3. CASE id # j.id
    <3>1. TrackerOpen(id)' <=> TrackerOpen(id)
      BY <1>1, <2>1, <2>2, <2>3 DEF TrackerOpen, Unregistering
    <3> QED  BY <1>1, <1>2, <2>3, <3>1, SameGate
  <2>4. CASE id = j.id
    <3>1. TrackerOpen(id) = FALSE /\ TrackerOpen(id)' = FALSE
      BY <1>1, <1>5, <2>1, <2>2, <2>4 DEF TrackerOpen, Unregistering
    <3>2. TrackerStops(id) = {} /\ TrackerStops(id)' = {id}
      BY <1>1, <1>5, <2>1, <2>2, <2>4 DEF TrackerStops, FdExists, Unregistering
    <3>3. FileTracker(id)!Return(id)
      BY <1>1, <2>1, <2>4, <3>1, <3>2 DEF FileTracker!Return
    <3> QED  BY <3>3 DEF GateStep, FileTracker!Next
  <2> QED  BY <2>3, <2>4
<1>8. CASE UnregisterReply(j)
  <2>1. jobs' = jobs \ {j} /\ UNCHANGED descriptors /\ j.st = "closed" /\ ~UnregisterClose(j)
    BY <1>8 DEF UnregisterReply, UnregisterClose, JobEnds
  <2>2. TrackerOpen(id)' <=> TrackerOpen(id)
    BY <1>1, <2>1 DEF TrackerOpen, Unregistering
  <2> QED  BY <1>1, <1>2, <2>1, <2>2, SameGate
<1> QED  BY <1>3, <1>4, <1>6, <1>7, <1>8 DEF JobStep

(* The gates of all files, in every step but the exit of the process.      *)
LEMMA GateSteps ==
  ASSUME Shape, FileInv, RegisterInv, Next, server_open', NEW id \in Ids
  PROVE  GateStep(id)
<1>1. ASSUME UNCHANGED <<fdVars, jobs, threads>>
      PROVE  GateStep(id)
  BY <1>1, SameGate DEF TrackerOpen, TrackerStops, FdExists, Unregistering, ThreadsOn, fdVars
<1>2. CASE MainStep
  BY <1>1, <1>2 DEF MainStep, MainTryExit, MainJoin, MainFrame, ProcessExit
<1>3. CASE \E act \in Acts \cup {"Unlock"} : OthersLock(Flock(act))
  BY <1>1, <1>3 DEF OthersLock
<1>4. CASE ClientStep
  BY <1>1, <1>4, ClientFrame DEF daemonVars
<1> QED  BY <1>2, <1>3, <1>4, LoopGate, ThreadGate, JobGate, NextCases

(* The trackers in the process behave as Refinement of TrackerProofs shows *)
(* InterruptibleTracker to behave: the two proofs meet in AbstractTracker. *)
(* No blocking lock starts behind the back of handle_fd_unregister().      *)
THEOREM Gates == Spec => TrackersAreGates
<1>1. Init => \A id \in Ids : FileTracker(id)!Init
  <2> SUFFICES ASSUME Init, NEW id \in Ids
               PROVE  FileTracker(id)!Init
    OBVIOUS
  <2>1. id >= next_id
    BY DaemonAssumption, SMTT(60) DEF Init, DaemonInit, Ids
  <2>2. ThreadsOn(id, TrackedPcs) = {}
    BY DEF Init, DaemonInit, ThreadsOn, TrackedPcs, Idle
  <2>3. TrackerOpen(id) = TRUE /\ TrackerStops(id) = {}
    BY <2>1 DEF TrackerOpen, TrackerStops
  <2> QED  BY <2>2, <2>3 DEF FileTracker!Init
<1>2. Shape /\ FileInv /\ RegisterInv /\ [Next]_vars =>
        [server_open' => \A id \in Ids : [FileTracker(id)!Next]_(FileTracker(id)!vars)]_vars
  BY GateSteps DEF GateStep
<1> QED
  BY <1>1, <1>2, Shapes, FileInvariance, RegisterInvariance, PTL DEF Spec, TrackersAreGates
=============================================================================
