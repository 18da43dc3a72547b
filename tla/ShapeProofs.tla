----------------------------- MODULE ShapeProofs -----------------------------
(***************************************************************************)
(* The types of LockSystem's variables, in the detail that the other       *)
(* proofs about it need, the steps of its clients by what they do, and     *)
(* what its operators make of their arguments.                             *)
(***************************************************************************)
EXTENDS LockSystem, TLAPS

(* Leaves are Zenon's unless they name another prover.                     *)
USE ZenonT(60)

(* What is sent over the socket, and what comes back over a oneshot.       *)
RequestOps == Simple \cup {"SetLkw", "Interrupt", "RemoveInterrupt"}
Requests   == [op : RequestOps, id : Nat, act : LockTypes, o : Oneshots]
Tags       == {"Ok", "Pending", "Done", "EAGAIN", "EBADF", "EDEADLK", "EINTR", "EINVAL",
               "EIO", "ENOENT"}
Replies    == [tag : Tags, val : Nat, type : LockTypes]
OneshotStates == [q : Seq(Replies), tx : BOOLEAN, rx : BOOLEAN]

(* The calls that have sent their request and not returned; those among    *)
(* them with a request for the interrupt under way.                        *)
Waiting == Simple \cup (Detached \ {"pre"})
NestedPcs == {"interrupt", "remove"}
IidPcs == {"wait", "interrupt", "again", "failed", "remove"}

(* The shape of each group of variables.                                   *)
ChannelShape ==
  /\ sock \in Seq(Requests)
  /\ client_open \in BOOLEAN /\ server_open \in BOOLEAN
  /\ oneshot \in [Oneshots -> OneshotStates]

(* The ids of pending replies are below n.                                 *)
PendingBelow(oneshots, n) ==
  \A o \in Oneshots : \A k \in 1 .. Len(oneshots[o].q) :
    oneshots[o].q[k].tag = "Pending" => oneshots[o].q[k].val < n

(* Every interrupt id in a request, a reply or a call has been allocated.  *)
InterruptIds ==
  /\ \A k \in 1 .. Len(sock) :
       sock[k].op \in {"Interrupt", "RemoveInterrupt"} => sock[k].id < interrupt_next_id
  /\ \A j \in jobs : j.op = "Interrupt" => j.id < interrupt_next_id
  /\ PendingBelow(oneshot, interrupt_next_id)
  /\ \A c \in Clients : cpc[c] \in IidPcs => call[c].iid < interrupt_next_id

LoopShape ==
  /\ loop \in [pc : {"recv", "cmd", "spawn", "ended"},
               req : Requests \cup {NoReq}, thread : LockThreads \cup {NoThread}]
  /\ loop.pc \in {"cmd", "spawn"} => loop.req \in Requests

FdShape ==
  /\ next_id \in 0 .. MaxIds /\ descriptors \subseteq Ids /\ writable \subseteq Ids
  /\ \A id \in descriptors : id < next_id

InterruptShape ==
  /\ interrupt_next_id \in 0 .. MaxIds
  /\ interrupts \in [Ids -> LockThreads \cup {NoThread}]

ThreadShape ==
  /\ threads \in [LockThreads -> [pc : HoldingPcs \cup {"none"}, id : Nat,
                                  act : LockTypes, o : Oneshots \cup {0}]]
  /\ \A t \in LockThreads : threads[t].pc # "none" => threads[t].o \in Oneshots

JobShape ==
  jobs \subseteq [op : {"Interrupt", "Unregister"}, id : Nat, o : Oneshots,
                 st : {"start", "removed", "stopping", "closed"}, thread : LockThreads \cup {NoThread}]

LkShape ==
  /\ held \in {F_RDLCK, F_WRLCK, F_UNLCK} /\ others \in {F_RDLCK, F_WRLCK, F_UNLCK}
  /\ ~Conflict(held, others)

MainShape == main \in {"waiting", "exiting"} /\ exit_lock \in BOOLEAN

DaemonShape ==
  /\ MainShape /\ LoopShape /\ FdShape /\ InterruptShape
  /\ ThreadShape /\ JobShape /\ LkShape

ClientShape ==
  /\ calls \in 0 .. MaxCalls /\ lockables \subseteq Nat
  /\ cpc \in [Clients -> Simple \cup Detached \cup {"idle", "gone", "refused"}]
  /\ call \in [Clients -> [id : Nat, act : LockTypes, o : Oneshots \cup {0},
                           nested : Oneshots \cup {0}, iid : Nat]]
  /\ \A c \in Clients : /\ cpc[c] \in Waiting => call[c].o \in Oneshots
                        /\ cpc[c] \in NestedPcs => call[c].nested \in Oneshots
  /\ stop \in [Clients -> BOOLEAN]
  /\ tracker \in {"open", "stopping", "stopped"}

Shape == ChannelShape /\ DaemonShape /\ ClientShape /\ InterruptIds

-----------------------------------------------------------------------------
(* The steps of a client, by what they do to its call.                     *)

(* A call sends its request.                                               *)
SendsCall(c, op, id, act) ==
  /\ op \in Simple \cup {"SetLkw"} /\ id \in Nat /\ act \in LockTypes
  /\ client_open /\ server_open /\ Unused # {}
  /\ cpc[c] = IF op = "SetLkw" THEN "pre" ELSE "idle"
  /\ op = "SetLkw" => id = call[c].id /\ act = call[c].act
  /\ op \in {"GetLk", "SetLk", "Unregister"} => id \in lockables
  /\ SendRequest(Fresh, Request(op, id, act, Fresh))
  /\ cpc' = [cpc EXCEPT ![c] = op]
  /\ call' = [call EXCEPT ![c] = [NoCall EXCEPT !.id = id, !.act = act, !.o = Fresh]]
  /\ lockables' = IF op = "Unregister" THEN lockables \ {id} ELSE lockables
  /\ calls' \in 0 .. MaxCalls /\ UNCHANGED stop

(* A call returns without having sent a request.                           *)
GivesUp(c) ==
  /\ cpc[c] \in {"idle", "pre", "refused"}
  /\ Abandon(c)
  /\ lockables' \subseteq lockables /\ calls' \in 0 .. MaxCalls

(* A simple call returns.                                                  *)
EndsSimple(c) == EndSimple(c) \/ DropInterrupted(c)

(* A blocking lock is told to wait.                                        *)
Pends(c) ==
  LET o == call[c].o IN
  /\ cpc[c] = "SetLkw" /\ HasReply(o) /\ NextReply(o).tag = "Pending"
  /\ cpc' = [cpc EXCEPT ![c] = "wait"]
  /\ call' = [call EXCEPT ![c].iid = NextReply(o).val]
  /\ oneshot' = Taken(o)
  /\ UNCHANGED <<sock, client_open, server_open, calls, lockables, stop>>

(* A blocking lock returns, once it has sent its request.                  *)
ReturnsLkw(c) ==
  /\ \/ cpc[c] = "SetLkw" /\ Readable(call[c].o) /\ Outcome(call[c].o) # "Pending"
     \/ cpc[c] \in {"wait", "again", "failed"} /\ ~server_open
     \/ cpc[c] = "leave"
  /\ Return(c)
  /\ UNCHANGED <<calls, lockables>>

(* It sends a request about its interrupt.                                 *)
SendsNested(c, op, to) ==
  /\ Unused # {}
  /\ \/ op = "RemoveInterrupt" /\ to = "remove" /\ cpc[c] \in {"wait", "again", "failed"}
        /\ server_open
     \/ op = "Interrupt" /\ to = "interrupt" /\ cpc[c] = "wait" /\ ~Readable(call[c].o)
  /\ Nested(c, op, to)
  /\ UNCHANGED <<calls, lockables, stop>>

(* Somebody begins or ends a stop().                                       *)
Stops ==
  /\ stop' \in [Clients -> BOOLEAN] /\ tracker' \in {"open", "stopping", "stopped"}
  /\ UNCHANGED <<channelVars, calls, lockables, cpc, call>>

(* What a client does, and what all of them do.                            *)
ClientCase(c) ==
  \/ \E op \in Simple \cup {"SetLkw"}, id \in Nat, act \in LockTypes : SendsCall(c, op, id, act)
  \/ \E id \in Ids, act \in LockTypes : Detach(c, id, act)
  \/ GivesUp(c) \/ EndsSimple(c) \/ Pends(c) \/ ReturnsLkw(c)
  \/ SendsNested(c, "Interrupt", "interrupt") \/ SendsNested(c, "RemoveInterrupt", "remove")
  \/ InterruptReply(c) \/ RemoveReply(c)

ClientStep ==
  UNCHANGED daemonVars /\ (Stops \/ HangUp \/ \E c \in Clients : ClientCase(c) /\ UNCHANGED tracker)

(* Every step of the clients is one of these.                              *)
LEMMA ClientCases ==
  ASSUME Shape,
         \/ ClientNext /\ UNCHANGED <<tracker, daemonVars>>
         \/ (TrackerNext \/ HangUp) /\ UNCHANGED daemonVars
  PROVE  ClientStep
<1> USE SystemAssumption, DaemonAssumption, ClientAssumption DEF Shape, ClientShape, clientVars
<1>1. CASE HangUp /\ UNCHANGED daemonVars
  BY <1>1 DEF ClientStep
<1>2. CASE TrackerNext /\ UNCHANGED daemonVars
  <2>1. Stops
    BY <1>2 DEF Stops, TrackerNext, StopTracker, TrackerStopped
  <2> QED  BY <2>1, <1>2 DEF ClientStep
<1>3. CASE ClientNext /\ UNCHANGED <<tracker, daemonVars>>
  <2>1. PICK c \in Clients :
          \/ \E op \in Ops, act \in Acts, id \in Ids : Begins(c, op, act, id)
          \/ Continues(c) \/ PreFails(c) \/ DropInterrupted(c) \/ StopCall(c)
    BY <1>3 DEF ClientNext
  <2>2. CASE StopCall(c)
    <3>1. Stops
      BY <2>2, <1>3 DEF Stops, StopCall
    <3> QED  BY <3>1, <1>3 DEF ClientStep
  <2>3. CASE \E op \in Ops, act \in Acts, id \in Ids : Begins(c, op, act, id)
    <3>1. PICK op \in Ops, act \in Acts, id \in Ids : Begins(c, op, act, id)
      BY <2>3
    <3>2. id \in Nat /\ act \in LockTypes
      BY SMTT(60) DEF Ids
    <3>3. CASE op = "SetLkw" /\ Detach(c, id, act)
      BY <3>2, <3>3, <1>3 DEF ClientStep, ClientCase
    <3>4. CASE op = "Ping" /\ BeginPing(c)
      <4>1. SendsCall(c, "Ping", 0, "Unlock") \/ GivesUp(c)
        BY <3>4 DEF BeginPing, Begin, SendsCall, GivesUp, Simple, LockTypes
      <4> QED  BY <4>1, <1>3 DEF ClientStep, ClientCase, Simple, LockTypes
    <3>5. CASE op = "Register" /\ BeginRegister(c, act)
      <4>1. SendsCall(c, "Register", 0, act) \/ GivesUp(c)
        BY <3>2, <3>5, SMTT(60) DEF BeginRegister, Begin, SendsCall, GivesUp, Simple
      <4> QED  BY <3>2, <4>1, <1>3 DEF ClientStep, ClientCase, Simple
    <3>6. CASE op \in {"GetLk", "SetLk"} /\ BeginLk(c, op, id, act)
      <4>1. SendsCall(c, op, id, act) \/ GivesUp(c)
        BY <3>2, <3>6 DEF BeginLk, Begin, SendsCall, GivesUp, Simple
      <4> QED  BY <3>2, <3>6, <4>1, <1>3 DEF ClientStep, ClientCase, Simple
    <3>7. CASE op = "Unregister" /\ BeginDrop(c, id)
      <4>1. SendsCall(c, "Unregister", id, "Unlock") \/ GivesUp(c)
        BY <3>2, <3>7 DEF BeginDrop, Begin, SendsCall, GivesUp, Simple, LockTypes
      <4> QED  BY <3>2, <4>1, <1>3 DEF ClientStep, ClientCase, Simple, LockTypes
    <3> QED  BY <3>1, <3>3, <3>4, <3>5, <3>6, <3>7 DEF Begins
  <2>4. CASE BeginSetLkw(c)
    <3>1. call[c].id \in Nat /\ call[c].act \in LockTypes
      OBVIOUS
    <3>2. SendsCall(c, "SetLkw", call[c].id, call[c].act) \/ GivesUp(c)
      BY <2>4, <3>1 DEF BeginSetLkw, Begin, SendsCall, GivesUp, Simple
    <3> QED  BY <3>1, <3>2, <1>3 DEF ClientStep, ClientCase
  <2>5. CASE RefusedDone(c) \/ PreFails(c)
    <3>1. GivesUp(c)
      BY <2>5 DEF RefusedDone, PreFails, GivesUp
    <3> QED  BY <3>1, <1>3 DEF ClientStep, ClientCase
  <2>6. CASE EndSimple(c) \/ DropInterrupted(c)
    BY <2>6, <1>3 DEF ClientStep, ClientCase, EndsSimple
  <2>7. CASE FirstReply(c)
    <3>1. Pends(c) \/ ReturnsLkw(c)
      BY <2>7 DEF FirstReply, Pends, ReturnsLkw, Outcome, Readable, AtEof, HasReply
    <3> QED  BY <3>1, <1>3 DEF ClientStep, ClientCase
  <2>8. CASE SecondReply(c) \/ InterruptFailed(c)
    <3>1. SendsNested(c, "RemoveInterrupt", "remove") \/ ReturnsLkw(c)
      BY <2>8 DEF SecondReply, InterruptFailed, WindUp, SendsNested, ReturnsLkw
    <3> QED  BY <3>1, <1>3 DEF ClientStep, ClientCase
  <2>9. CASE WaitInterrupted(c)
    <3>1. SendsNested(c, "Interrupt", "interrupt")
      BY <2>9 DEF WaitInterrupted, SendsNested
    <3> QED  BY <3>1, <1>3 DEF ClientStep, ClientCase
  <2>10. CASE InterruptReply(c) \/ RemoveReply(c)
    BY <2>10, <1>3 DEF ClientStep, ClientCase
  <2>11. CASE Leave(c)
    <3>1. ReturnsLkw(c)
      BY <2>11 DEF Leave, ReturnsLkw
    <3> QED  BY <3>1, <1>3 DEF ClientStep, ClientCase
  <2> QED
    BY <2>1, <2>2, <2>3, <2>4, <2>5, <2>6, <2>7, <2>8, <2>9, <2>10, <2>11 DEF Continues
<1> QED  BY <1>1, <1>2, <1>3

-----------------------------------------------------------------------------
(* What the operations on a oneshot make of the oneshots.                  *)

(* A reply is written: to this oneshot alone, at the end, if it has a      *)
(* reader.                                                                 *)
LEMMA RepliedOneshot ==
  ASSUME oneshot \in [Oneshots -> OneshotStates], NEW o, NEW r \in Replies
  PROVE  /\ Replied(o, r) \in [Oneshots -> OneshotStates]
         /\ \A p \in Oneshots : p # o => Replied(o, r)[p] = oneshot[p]
         /\ o \in Oneshots => /\ Replied(o, r)[o].tx = oneshot[o].tx
                              /\ Replied(o, r)[o].rx = oneshot[o].rx
                              /\ Replied(o, r)[o].q = IF oneshot[o].rx THEN Append(oneshot[o].q, r)
                                                                   ELSE oneshot[o].q
<1>1. CASE oneshot[o].rx
  <2>1. CASE o \in Oneshots
    <3>1. Append(oneshot[o].q, r) \in Seq(Replies)
      BY <2>1, SMTT(60) DEF OneshotStates
    <3> QED  BY <1>1, <2>1, <3>1 DEF Replied, OneshotStates
  <2>2. CASE o \notin Oneshots
    BY <1>1, <2>2 DEF Replied, OneshotStates
  <2> QED  BY <2>1, <2>2
<1>2. CASE ~oneshot[o].rx
  BY <1>2 DEF Replied, OneshotStates
<1> QED  BY <1>1, <1>2

(* A reply is written and the server's end closed.                         *)
LEMMA AnsweredOneshot ==
  ASSUME oneshot \in [Oneshots -> OneshotStates], NEW o, NEW r \in Replies
  PROVE  /\ Answered(o, r) \in [Oneshots -> OneshotStates]
         /\ \A p \in Oneshots : p # o => Answered(o, r)[p] = oneshot[p]
         /\ o \in Oneshots => /\ Answered(o, r)[o].tx = FALSE
                              /\ Answered(o, r)[o].rx = oneshot[o].rx
                              /\ Answered(o, r)[o].q = IF oneshot[o].rx THEN Append(oneshot[o].q, r)
                                                                    ELSE oneshot[o].q
<1> DEFINE S == Replied(o, r)
<1>1. /\ S \in [Oneshots -> OneshotStates]
      /\ \A p \in Oneshots : p # o => S[p] = oneshot[p]
      /\ o \in Oneshots => /\ S[o].rx = oneshot[o].rx
                           /\ S[o].q = IF oneshot[o].rx THEN Append(oneshot[o].q, r) ELSE oneshot[o].q
  BY RepliedOneshot
<1>2. Answered(o, r) = [S EXCEPT ![o].tx = FALSE]
  BY DEF Answered
<1> HIDE DEF S
<1>3. CASE o \in Oneshots
  BY <1>1, <1>2, <1>3 DEF OneshotStates
<1>4. CASE o \notin Oneshots
  <2>1. Answered(o, r) = S
    BY <1>1, <1>2, <1>4
  <2> QED  BY <1>1, <1>4, <2>1
<1> QED  BY <1>3, <1>4

(* An end is closed, or a reply taken.                                     *)
LEMMA ClosedOneshot ==
  ASSUME oneshot \in [Oneshots -> OneshotStates], NEW o
  PROVE  /\ Hushed(o) \in [Oneshots -> OneshotStates]
         /\ \A p \in Oneshots : p # o => Hushed(o)[p] = oneshot[p]
         /\ o \in Oneshots => /\ Hushed(o)[o].q = oneshot[o].q /\ Hushed(o)[o].tx = FALSE
                              /\ Hushed(o)[o].rx = oneshot[o].rx
         /\ Dropped(o) \in [Oneshots -> OneshotStates]
         /\ \A p \in Oneshots : p # o => Dropped(o)[p] = oneshot[p]
         /\ o \in Oneshots => /\ Dropped(o)[o].q = << >> /\ Dropped(o)[o].tx = oneshot[o].tx
                              /\ Dropped(o)[o].rx = FALSE
<1>1. << >> \in Seq(Replies)
  BY SMTT(60)
<1> QED  BY <1>1 DEF Hushed, Dropped, OneshotStates

(* Reading the next reply takes it off its own oneshot only.               *)
LEMMA TakenOneshot ==
  ASSUME oneshot \in [Oneshots -> OneshotStates], NEW o \in Oneshots, HasReply(o)
  PROVE  /\ Taken(o) \in [Oneshots -> OneshotStates]
         /\ \A p \in Oneshots : p # o => Taken(o)[p] = oneshot[p]
         /\ Taken(o)[o].q = Tail(oneshot[o].q) /\ Taken(o)[o].tx = oneshot[o].tx
         /\ Taken(o)[o].rx = oneshot[o].rx
         /\ NextReply(o) \in Replies
<1>1. oneshot[o].q \in Seq(Replies) /\ oneshot[o].q # << >>
  BY DEF HasReply, OneshotStates
<1>2. Tail(oneshot[o].q) \in Seq(Replies) /\ Head(oneshot[o].q) \in Replies
  BY <1>1, SMTT(60)
<1> QED  BY <1>2 DEF Taken, NextReply, OneshotStates

(* A fresh oneshot is one that is closed on both ends.                     *)
LEMMA FreshOneshot ==
  ASSUME Unused # {}
  PROVE  Fresh \in Oneshots /\ oneshot[Fresh] = Closed
BY DEF Fresh, Unused

(* The replies of the code are replies.                                    *)
LEMMA ReplyShapes ==
  /\ \A tag \in Tags : R(tag) \in Replies /\ R(tag).tag = tag
  /\ \A i \in Nat : /\ Pending(i) \in Replies /\ Pending(i).tag = "Pending" /\ Pending(i).val = i
                    /\ Registered(i) \in Replies /\ Registered(i).tag = "Ok" /\ Registered(i).val = i
  /\ \A l \in LockTypes : Done(l) \in Replies /\ Done(l).tag = "Done" /\ Done(l).type = l
<1>1. \A i : /\ Pending(i) = [tag |-> "Pending", val |-> i, type |-> "Unlock"]
             /\ Registered(i) = [tag |-> "Ok", val |-> i, type |-> "Unlock"]
             /\ Done(i) = [tag |-> "Done", val |-> 0, type |-> i]
  BY SMTT(60) DEF R, Pending, Registered, Done
<1>2. {"Pending", "Ok", "Done"} \subseteq Tags
  BY DEF Tags
<1>3. \A tag \in Tags : R(tag) \in Replies /\ R(tag).tag = tag
  BY DEF R, Replies, LockTypes
<1>4. \A i \in Nat : /\ Pending(i) \in Replies /\ Pending(i).tag = "Pending" /\ Pending(i).val = i
                     /\ Registered(i) \in Replies /\ Registered(i).tag = "Ok" /\ Registered(i).val = i
  BY <1>1, <1>2 DEF Replies, LockTypes
<1>5. \A l \in LockTypes : Done(l) \in Replies /\ Done(l).tag = "Done" /\ Done(l).type = l
  BY <1>1, <1>2 DEF Replies
<1> QED  BY <1>3, <1>4, <1>5

(* LockType survives the way to fcntl() and back.                          *)
LEMMA LkTypes ==
  /\ \A l \in LockTypes : Flock(l) \in {F_RDLCK, F_WRLCK, F_UNLCK} /\ TryFrom(Flock(l)) = l
  /\ \A l \in {F_RDLCK, F_WRLCK, F_UNLCK} : TryFrom(l) \in LockTypes /\ Flock(TryFrom(l)) = l
BY SMTT(60) DEF LockTypes, Flock, I16, F_RDLCK, F_WRLCK, F_UNLCK, TryFrom

(* What fcntl() answers, and the reply that is made of it.                 *)
LEMMA LkAnswers ==
  ASSUME NEW id, NEW l \in {F_RDLCK, F_WRLCK, F_UNLCK}, NEW errno \in Tags
  PROVE  /\ SetLkErrno(id, l) \in {"Done", "EBADF", "EAGAIN"}
         /\ SetLkErrno(id, l) = "Done" => ~Conflict(l, others)
         /\ LkReply(errno, l) \in Replies
         /\ LkReply(errno, l).tag = errno
         /\ errno = "Done" => LkReply(errno, l).type = TryFrom(l)
<1>1. TryFrom(l) \in LockTypes /\ TryFrom(l) # "InvalidInput"
  BY LkTypes DEF LockTypes
<1>2. LkReply(errno, l) = IF errno = "Done" THEN Done(TryFrom(l)) ELSE R(errno)
  BY <1>1 DEF LkReply
<1>3. /\ LkReply(errno, l) \in Replies
      /\ LkReply(errno, l).tag = errno
      /\ errno = "Done" => LkReply(errno, l).type = TryFrom(l)
  BY <1>1, <1>2, ReplyShapes, SMTT(60)
<1>4. SetLkErrno(id, l) \in {"Done", "EBADF", "EAGAIN"}
  BY DEF SetLkErrno
<1>5. SetLkErrno(id, l) = "Done" => ~Conflict(l, others)
  BY DEF SetLkErrno, Conflict, F_RDLCK, F_WRLCK, F_UNLCK
<1> QED  BY <1>3, <1>4, <1>5

(* A lock that was granted is compatible with those of the others.         *)
LEMMA HeldLegal ==
  ASSUME LkShape, NEW l \in {F_RDLCK, F_WRLCK, F_UNLCK}, NEW errno,
         errno = "Done" => ~Conflict(l, others)
  PROVE  /\ HeldAfter(errno, l) \in {F_RDLCK, F_WRLCK, F_UNLCK}
         /\ ~Conflict(HeldAfter(errno, l), others)
BY DEF LkShape, HeldAfter

(* Receiving takes the first request and leaves the others in their order. *)
LEMMA SockTail ==
  ASSUME sock \in Seq(Requests), sock # << >>
  PROVE  /\ Head(sock) \in Requests /\ Head(sock) = sock[1] /\ 1 \in 1 .. Len(sock)
         /\ Tail(sock) \in Seq(Requests)
         /\ Len(Tail(sock)) = Len(sock) - 1
         /\ \A k \in 1 .. Len(Tail(sock)) : k + 1 \in 1 .. Len(sock) /\ Tail(sock)[k] = sock[k + 1]
BY SMTT(60)

(* A request that is sent comes last.                                      *)
LEMMA SockAppend ==
  ASSUME sock \in Seq(Requests), NEW r \in Requests
  PROVE  /\ Append(sock, r) \in Seq(Requests)
         /\ Len(Append(sock, r)) = Len(sock) + 1
         /\ \A k \in 1 .. Len(sock) : Append(sock, r)[k] = sock[k]
         /\ Append(sock, r)[Len(sock) + 1] = r
         /\ \A k \in 1 .. Len(Append(sock, r)) :
              k = Len(sock) + 1 \/ k \in 1 .. Len(sock)
BY SMTT(60)

(* A reply that is written comes last.                                     *)
LEMMA ReplyAppend ==
  ASSUME NEW q \in Seq(Replies), NEW r \in Replies
  PROVE  /\ Append(q, r)[Len(q) + 1] = r /\ (q = << >> => Len(q) + 1 = 1)
         /\ \A i \in 1 .. Len(Append(q, r)) :
              i = Len(q) + 1 \/ (i \in 1 .. Len(q) /\ Append(q, r)[i] = q[i])
<1>1. Append(q, r)[Len(q) + 1] = r
  BY SMTT(60)
<1>2. q = << >> => Len(q) + 1 = 1
  BY SMTT(60)
<1>3. ASSUME NEW i \in 1 .. Len(Append(q, r))
      PROVE  i = Len(q) + 1 \/ i \in 1 .. Len(q)
  BY SMTT(60)
<1>4. ASSUME NEW i \in 1 .. Len(q)
      PROVE  Append(q, r)[i] = q[i]
  BY SMTT(60)
<1> QED  BY <1>1, <1>2, <1>3, <1>4

(* No operation on oneshots brings in the id of an interrupt that does not *)
(* exist, unless it is told to.                                            *)
LEMMA PendingKept ==
  ASSUME oneshot \in [Oneshots -> OneshotStates], NEW n \in Nat, PendingBelow(oneshot, n),
         NEW o, NEW r \in Replies, r.tag = "Pending" => r.val < n
  PROVE  /\ PendingBelow(Replied(o, r), n)
         /\ PendingBelow(Answered(o, r), n)
         /\ PendingBelow(Hushed(o), n)
         /\ PendingBelow(Dropped(o), n)
         /\ o \in Oneshots /\ HasReply(o) => PendingBelow(Taken(o), n)
<1>1. \A S : /\ S \in [Oneshots -> OneshotStates]
             /\ \A p \in Oneshots : p # o => S[p] = oneshot[p]
             /\ o \in Oneshots => S[o].q \in {oneshot[o].q, Append(oneshot[o].q, r), << >>}
             => PendingBelow(S, n)
  <2> SUFFICES ASSUME NEW S, S \in [Oneshots -> OneshotStates],
                      \A p \in Oneshots : p # o => S[p] = oneshot[p],
                      o \in Oneshots => S[o].q \in {oneshot[o].q, Append(oneshot[o].q, r), << >>},
                      NEW p \in Oneshots, NEW k \in 1 .. Len(S[p].q), S[p].q[k].tag = "Pending"
               PROVE  S[p].q[k].val < n
    BY DEF PendingBelow
  <2>1. oneshot[p].q \in Seq(Replies)
    BY DEF OneshotStates
  <2>2. CASE S[p].q = oneshot[p].q
    BY <2>2 DEF PendingBelow
  <2>3. CASE S[p].q = Append(oneshot[p].q, r)
    BY <2>1, <2>3, SMTT(60) DEF PendingBelow
  <2>4. CASE S[p].q = << >>
    BY <2>4, SMTT(60)
  <2> QED  BY <2>2, <2>3, <2>4
<1>2. PendingBelow(Replied(o, r), n)
  BY <1>1, RepliedOneshot
<1>3. PendingBelow(Answered(o, r), n)
  BY <1>1, AnsweredOneshot
<1>4. PendingBelow(Hushed(o), n)
  BY <1>1, ClosedOneshot
<1>5. PendingBelow(Dropped(o), n)
  BY <1>1, ClosedOneshot
<1>6. ASSUME o \in Oneshots, HasReply(o)
      PROVE  PendingBelow(Taken(o), n)
  <2> SUFFICES ASSUME NEW p \in Oneshots, NEW k \in 1 .. Len(Taken(o)[p].q),
                      Taken(o)[p].q[k].tag = "Pending"
               PROVE  Taken(o)[p].q[k].val < n
    BY DEF PendingBelow
  <2>1. CASE p # o
    BY <2>1, <1>6, TakenOneshot DEF PendingBelow
  <2>2. CASE p = o
    <3>1. oneshot[o].q \in Seq(Replies) /\ oneshot[o].q # << >>
      BY <1>6 DEF OneshotStates, HasReply
    <3>2. Taken(o)[o].q = Tail(oneshot[o].q)
      BY <1>6, TakenOneshot DEF OneshotStates
    <3>3. k + 1 \in 1 .. Len(oneshot[o].q) /\ Taken(o)[p].q[k] = oneshot[o].q[k + 1]
      BY <2>2, <3>1, <3>2, SMTT(60)
    <3> QED  BY <1>6, <3>3 DEF PendingBelow
  <2> QED  BY <2>1, <2>2
<1> QED  BY <1>2, <1>3, <1>4, <1>5, <1>6

-----------------------------------------------------------------------------
(* The process starts with nothing open, and no call.                      *)
LEMMA ShapeInit ==
  ASSUME Init
  PROVE  Shape
<1> USE ChannelsAssumption, DaemonAssumption, ClientAssumption DEF Init
<1>1. ChannelShape
  BY SMTT(60) DEF ChannelsInit, ChannelShape, Closed, OneshotStates
<1>2. DaemonShape
  <2> USE DEF DaemonInit
  <2>1. exit_lock \in BOOLEAN
    OBVIOUS
  <2>2. MainShape /\ LoopShape
    BY <2>1 DEF MainShape, LoopShape, AtRecv
  <2>3. FdShape /\ InterruptShape /\ JobShape
    BY SMTT(60) DEF FdShape, InterruptShape, JobShape
  <2>4. ThreadShape
    BY DEF ThreadShape, Idle, LockTypes
  <2>5. LkShape
    BY DEF LkShape, Conflict
  <2> QED  BY <2>2, <2>3, <2>4, <2>5 DEF DaemonShape
<1>3. ClientShape
  BY SMTT(60) DEF ClientInit, ClientShape, NoCall, LockTypes, Waiting, NestedPcs, Simple, Detached
<1>4. InterruptIds
  BY SMTT(60) DEF ChannelsInit, DaemonInit, ClientInit, InterruptIds, PendingBelow, Closed, IidPcs
<1> QED  BY <1>1, <1>2, <1>3, <1>4 DEF Shape

(* What a step leaves alone keeps its shape.                               *)
LEMMA ShapeSame ==
  ASSUME Shape
  PROVE  /\ UNCHANGED mainVars => MainShape'
         /\ UNCHANGED loop => LoopShape'
         /\ UNCHANGED fdVars => FdShape'
         /\ UNCHANGED interruptVars => InterruptShape'
         /\ UNCHANGED threads => ThreadShape'
         /\ UNCHANGED jobs => JobShape'
         /\ UNCHANGED kernelVars => LkShape'
         /\ UNCHANGED daemonVars => DaemonShape'
         /\ UNCHANGED clientVars => ClientShape'
<1> USE DEF Shape, DaemonShape
<1>1. UNCHANGED mainVars => MainShape'
  BY DEF MainShape, mainVars
<1>2. UNCHANGED loop => LoopShape'
  BY DEF LoopShape
<1>3. UNCHANGED fdVars => FdShape'
  BY DEF FdShape, fdVars
<1>4. UNCHANGED interruptVars => InterruptShape'
  BY DEF InterruptShape, interruptVars
<1>5. UNCHANGED threads => ThreadShape'
  BY DEF ThreadShape
<1>6. UNCHANGED jobs => JobShape'
  BY DEF JobShape
<1>7. UNCHANGED kernelVars => LkShape'
  BY DEF LkShape, kernelVars, Conflict
<1>8. UNCHANGED clientVars => ClientShape'
  BY DEF ClientShape, clientVars
<1> QED
  BY <1>1, <1>2, <1>3, <1>4, <1>5, <1>6, <1>7, <1>8 DEF daemonVars

(* The receiving loop keeps the shapes.                                    *)
LEMMA ShapeLoop ==
  ASSUME Shape, LoopStep, UNCHANGED clientVars
  PROVE  Shape'
<1> USE ChannelsAssumption, DaemonAssumption DEF Shape, DaemonShape
<1>0. ClientShape'
  BY ShapeSame
<1> DEFINE Calls == \A c \in Clients : cpc[c] \in IidPcs => call[c].iid < interrupt_next_id
           SockIds(s) == \A k \in 1 .. Len(s) :
                           s[k].op \in {"Interrupt", "RemoveInterrupt"} => s[k].id < interrupt_next_id
<1>1. SockIds(sock) /\ (sock # << >> => SockIds(Tail(sock)))
  BY SockTail DEF ChannelShape, InterruptIds
<1>2. oneshot \in [Oneshots -> OneshotStates] /\ PendingBelow(oneshot, interrupt_next_id)
      /\ interrupt_next_id \in Nat /\ sock \in Seq(Requests)
  BY SMTT(60) DEF ChannelShape, InterruptIds, InterruptShape
<1>3. ASSUME NEW op, Receive(op)
      PROVE  Head(sock) \in Requests /\ sock' \in Seq(Requests)
             /\ client_open' \in BOOLEAN /\ server_open' \in BOOLEAN
  BY <1>2, <1>3, SockTail DEF Receive, ChannelShape
<1>4. ASSUME NEW tag \in Tags \ {"Pending"}, NEW o
      PROVE  /\ Answered(o, R(tag)) \in [Oneshots -> OneshotStates]
             /\ PendingBelow(Answered(o, R(tag)), interrupt_next_id)
  <2>1. R(tag) \in Replies /\ R(tag).tag # "Pending"
    BY ReplyShapes
  <2> QED  BY <1>2, <2>1, AnsweredOneshot, PendingKept
<1>5. CASE Discard
  <2>1. ChannelShape'
    BY <1>2, <1>5, SockTail, ClosedOneshot DEF Discard, ChannelShape
  <2>2. DaemonShape'
    BY <1>5, ShapeSame DEF Discard
  <2>3. PendingBelow(Hushed(Head(sock).o), interrupt_next_id)
    BY <1>2, PendingKept, ReplyShapes DEF Tags
  <2>4. InterruptIds'
    BY <1>1, <1>5, <2>3 DEF Discard, InterruptIds, daemonVars, interruptVars, clientVars
  <2> QED  BY <1>0, <2>1, <2>2, <2>4
<1>6. CASE LoopPing
  <2>1. ChannelShape' /\ PendingBelow(oneshot', interrupt_next_id)
    BY <1>3, <1>4, <1>6 DEF LoopPing, ChannelShape, Tags
  <2>2. DaemonShape'
    BY <1>6, ShapeSame DEF LoopPing
  <2>3. InterruptIds'
    BY <1>1, <1>6, <2>1 DEF LoopPing, Receive, InterruptIds, interruptVars, clientVars
  <2> QED  BY <1>0, <2>1, <2>2, <2>3
<1>7. CASE LoopRegister
  <2>1. CASE exit_lock /\ oneshot' = Answered(Head(sock).o, R(ExitingErrno)) /\ UNCHANGED fdVars
    <3>1. ChannelShape' /\ PendingBelow(oneshot', interrupt_next_id)
      BY <1>3, <1>4, <1>7, <2>1 DEF LoopRegister, ChannelShape, Tags, ExitingErrno
    <3>2. DaemonShape'
      BY <1>7, <2>1, ShapeSame DEF LoopRegister
    <3>3. InterruptIds'
      BY <1>1, <1>7, <3>1 DEF LoopRegister, Receive, InterruptIds, interruptVars, clientVars
    <3> QED  BY <1>0, <3>1, <3>2, <3>3
  <2>2. CASE ~(exit_lock /\ oneshot' = Answered(Head(sock).o, R(ExitingErrno)) /\ UNCHANGED fdVars)
    <3>1. /\ next_id \in Ids /\ next_id' = next_id + 1 /\ descriptors' = descriptors \cup {next_id}
          /\ writable' \subseteq writable \cup {next_id}
          /\ oneshot' = Answered(Head(sock).o, Registered(next_id))
      BY <1>7, <2>2 DEF LoopRegister
    <3>2. Registered(next_id) \in Replies /\ Registered(next_id).tag # "Pending"
      BY <3>1, ReplyShapes, SMTT(60) DEF Ids
    <3>3. ChannelShape' /\ PendingBelow(oneshot', interrupt_next_id)
      BY <1>2, <1>3, <1>7, <3>1, <3>2, AnsweredOneshot, PendingKept DEF LoopRegister, ChannelShape
    <3>6. FdShape'
      BY <3>1, SMTT(60) DEF FdShape, Ids
    <3>4. DaemonShape'
      BY <1>7, <3>6, ShapeSame DEF LoopRegister
    <3>5. InterruptIds'
      BY <1>1, <1>7, <3>3 DEF LoopRegister, Receive, InterruptIds, interruptVars, clientVars
    <3> QED  BY <1>0, <3>3, <3>4, <3>5
  <2> QED  BY <2>1, <2>2
<1>8. CASE LoopRemoveInterrupt
  <2>1. ChannelShape' /\ PendingBelow(oneshot', interrupt_next_id)
    BY <1>3, <1>4, <1>8 DEF LoopRemoveInterrupt, ChannelShape, Tags
  <2>4. InterruptShape'
    BY <1>8 DEF LoopRemoveInterrupt, InterruptShape
  <2>2. DaemonShape'
    BY <1>8, <2>4, ShapeSame DEF LoopRemoveInterrupt
  <2>3. InterruptIds'
    BY <1>1, <1>8, <2>1 DEF LoopRemoveInterrupt, Receive, InterruptIds, clientVars
  <2> QED  BY <1>0, <2>1, <2>2, <2>3
<1>9. ASSUME NEW op \in {"Interrupt", "Unregister"}, LoopDetach(op)
      PROVE  Shape'
  <2>1. Head(sock) \in Requests /\ Head(sock) = sock[1] /\ Head(sock).op = op /\ 1 \in 1 .. Len(sock)
    BY <1>2, <1>9, SockTail DEF LoopDetach, Receive
  <2>2. ChannelShape' /\ PendingBelow(oneshot', interrupt_next_id)
    BY <1>2, <1>3, <1>9 DEF LoopDetach, ChannelShape
  <2>5. JobShape'
    BY <1>9, <2>1, SMTT(60) DEF LoopDetach, JobShape, Requests
  <2>3. DaemonShape'
    BY <1>9, <2>5, ShapeSame DEF LoopDetach
  <2>4. InterruptIds'
    BY <1>1, <1>9, <2>1, <2>2, SMTT(60) DEF LoopDetach, Receive, InterruptIds, interruptVars, clientVars
  <2> QED  BY <1>0, <2>2, <2>3, <2>4
<1>10. ASSUME NEW op \in {"GetLk", "SetLk", "SetLkw"}, LoopLookUp(op)
       PROVE  Shape'
  <2>1. ChannelShape' /\ PendingBelow(oneshot', interrupt_next_id)
    BY <1>2, <1>3, <1>4, <1>10 DEF LoopLookUp, ChannelShape, Tags
  <2>2. loop' = loop \/ loop' = [loop EXCEPT !.pc = "cmd", !.req = Head(sock)]
    BY <1>10 DEF LoopLookUp
  <2>5. LoopShape'
    BY <1>3, <1>10, <2>2 DEF LoopLookUp, LoopShape
  <2>3. DaemonShape'
    BY <1>10, <2>5, ShapeSame DEF LoopLookUp
  <2>4. InterruptIds'
    BY <1>1, <1>10, <2>1 DEF LoopLookUp, Receive, InterruptIds, interruptVars, clientVars
  <2> QED  BY <1>0, <2>1, <2>3, <2>4
<1>11. CASE LoopGetLk
  <2> DEFINE l == Flock(loop.req.act)
             errno == IF l = F_UNLCK THEN "EINVAL" ELSE "Done"
  <2>1. loop.req \in Requests
    BY <1>11 DEF LoopGetLk, LoopShape
  <2>2. GetLkType(l) \in {F_RDLCK, F_WRLCK, F_UNLCK} /\ errno \in Tags \ {"Pending"}
    BY DEF GetLkType, LkShape, Tags
  <2>3. LkReply(errno, GetLkType(l)) \in Replies /\ LkReply(errno, GetLkType(l)).tag # "Pending"
    BY <2>2, LkAnswers
  <2>4. /\ oneshot' = Answered(loop.req.o, LkReply(errno, GetLkType(l)))
        /\ UNCHANGED <<sock, client_open, server_open>>
    BY <1>11 DEF LoopGetLk
  <2> HIDE DEF l, errno
  <2>5. ChannelShape' /\ PendingBelow(oneshot', interrupt_next_id)
    BY <1>2, <2>3, <2>4, AnsweredOneshot, PendingKept DEF ChannelShape
  <2>6. LoopShape'
    BY <1>11 DEF LoopGetLk, LoopShape, AtRecv
  <2>7. DaemonShape'
    BY <1>11, <2>6, ShapeSame DEF LoopGetLk
  <2>8. InterruptIds'
    BY <1>1, <1>11, <2>5 DEF LoopGetLk, InterruptIds, interruptVars, clientVars
  <2> QED  BY <1>0, <2>5, <2>7, <2>8
<1>12. CASE LoopSetLk
  <2> DEFINE l == Flock(loop.req.act)
             errno == SetLkErrno(loop.req.id, l)
  <2>1. loop.req \in Requests /\ loop.req.act \in LockTypes
    BY <1>12 DEF LoopSetLk, LoopShape, Requests
  <2>2. l \in {F_RDLCK, F_WRLCK, F_UNLCK}
    BY <2>1, LkTypes
  <2>3. errno \in Tags \ {"Pending"} /\ (errno = "Done" => ~Conflict(l, others))
    BY <2>2, LkAnswers, SMTT(60) DEF Tags
  <2>4. LkReply(errno, l) \in Replies /\ LkReply(errno, l).tag # "Pending"
    BY <2>2, <2>3, LkAnswers
  <2>5. /\ oneshot' = Answered(loop.req.o, LkReply(errno, l)) /\ held' = HeldAfter(errno, l)
        /\ UNCHANGED <<sock, client_open, server_open>>
    BY <1>12 DEF LoopSetLk
  <2> HIDE DEF l, errno
  <2>6. ChannelShape' /\ PendingBelow(oneshot', interrupt_next_id)
    BY <1>2, <2>4, <2>5, AnsweredOneshot, PendingKept DEF ChannelShape
  <2>7. LoopShape'
    BY <1>12 DEF LoopSetLk, LoopShape, AtRecv
  <2>8. LkShape'
    BY <1>12, <2>2, <2>3, <2>5, HeldLegal DEF LoopSetLk, LkShape
  <2>9. DaemonShape'
    BY <1>12, <2>7, <2>8, ShapeSame DEF LoopSetLk
  <2>10. InterruptIds'
    BY <1>1, <1>12, <2>6 DEF LoopSetLk, InterruptIds, interruptVars, clientVars
  <2> QED  BY <1>0, <2>6, <2>9, <2>10
<1>13. CASE LoopSpawn \/ LoopSpawned \/ LoopEnds
  <2>1. UNCHANGED <<channelVars, mainVars, fdVars, interruptVars, jobs, kernelVars>>
    BY <1>13 DEF LoopSpawn, LoopSpawned, LoopEnds
  <2>2. ChannelShape' /\ InterruptIds'
    BY <2>1 DEF ChannelShape, InterruptIds, channelVars, interruptVars, clientVars
  <2>3. LoopShape' /\ ThreadShape'
    <3>1. CASE LoopSpawn
      <4>1. PICK t \in LockThreads :
              /\ threads' = [threads EXCEPT ![t] = [pc |-> "starting", id |-> loop.req.id,
                                                   act |-> loop.req.act, o |-> loop.req.o]]
              /\ loop' = [loop EXCEPT !.pc = "spawn", !.thread = t]
        BY <3>1 DEF LoopSpawn
      <4>2. loop.req \in Requests
        BY <3>1 DEF LoopSpawn, LoopShape
      <4>3. LoopShape'
        BY <4>1, <4>2 DEF LoopShape
      <4>4. ThreadShape'
        BY <4>1, <4>2 DEF ThreadShape, Requests, HoldingPcs
      <4> QED  BY <4>3, <4>4
    <3>2. CASE LoopSpawned
      BY <3>2, ShapeSame DEF LoopSpawned, LoopShape, AtRecv
    <3>3. CASE LoopEnds
      BY <3>3, ShapeSame DEF LoopEnds, LoopShape
    <3> QED  BY <1>13, <3>1, <3>2, <3>3
  <2>4. DaemonShape'
    BY <2>1, <2>3, ShapeSame
  <2> QED  BY <1>0, <2>2, <2>4
<1> QED
  BY <1>5, <1>6, <1>7, <1>8, <1>9, <1>10, <1>11, <1>12, <1>13 DEF LoopStep

(* So do the lock threads.                                                 *)
LEMMA ShapeThread ==
  ASSUME Shape, NEW t \in LockThreads, ThreadStep(t) \/ ThreadReturns(t, "EDEADLK"),
         UNCHANGED clientVars
  PROVE  Shape'
<1> USE ChannelsAssumption, DaemonAssumption DEF Shape, DaemonShape
<1>0. ClientShape'
  BY ShapeSame
<1> DEFINE l == Flock(threads[t].act)
           try == SetLkErrno(threads[t].id, l)
<1>1. /\ oneshot \in [Oneshots -> OneshotStates] /\ PendingBelow(oneshot, interrupt_next_id)
      /\ interrupt_next_id \in Nat
  BY SMTT(60) DEF ChannelShape, InterruptIds, InterruptShape
<1>2. threads[t].act \in LockTypes /\ l \in {F_RDLCK, F_WRLCK, F_UNLCK}
  BY LkTypes DEF ThreadShape
<1>3. try \in {"Done", "EBADF", "EAGAIN"} /\ (try = "Done" => ~Conflict(l, others))
  BY <1>2, LkAnswers, SMTT(60) DEF Tags
<1>4. ASSUME NEW errno \in Tags \ {"Pending"}
      PROVE  /\ Replied(threads[t].o, BlockingReply(t, errno)) \in [Oneshots -> OneshotStates]
             /\ PendingBelow(Replied(threads[t].o, BlockingReply(t, errno)), interrupt_next_id)
  <2>1. BlockingReply(t, errno) \in Replies /\ BlockingReply(t, errno).tag # "Pending"
    BY <1>2, ReplyShapes, SMTT(60) DEF BlockingReply
  <2> QED  BY <1>1, <2>1, RepliedOneshot, PendingKept
<1>5. ASSUME NEW from \in HoldingPcs, NEW to \in HoldingPcs \cup {"none"}, Step(t, from, to)
      PROVE  /\ MainShape' /\ LoopShape' /\ FdShape' /\ ThreadShape' /\ JobShape'
             /\ UNCHANGED <<sock, client_open, server_open, jobs, others>>
  <2>1. ThreadShape'
    <3>1. CASE to = "none"
      BY <1>5, <3>1 DEF Step, ThreadShape, Idle, LockTypes
    <3>2. CASE to # "none"
      BY <1>5, <3>2 DEF Step, ThreadShape, HoldingPcs, TrackedPcs
    <3> QED  BY <3>1, <3>2
  <2> QED  BY <1>5, <2>1, ShapeSame DEF Step
<1>6. ASSUME NEW from \in HoldingPcs, NEW to \in HoldingPcs \cup {"none"}, Step(t, from, to),
             oneshot' \in [Oneshots -> OneshotStates], PendingBelow(oneshot', interrupt_next_id),
             UNCHANGED interruptVars, LkShape'
      PROVE  Shape'
  <2>1. ChannelShape'
    BY <1>5, <1>6 DEF ChannelShape
  <2>2. InterruptIds'
    BY <1>5, <1>6 DEF InterruptIds, interruptVars, clientVars
  <2> QED  BY <1>0, <1>5, <1>6, <2>1, <2>2, ShapeSame
<1>7. CASE ThreadTrack(t)
  <2>1. PICK to \in {"trylk", "refused"} : Step(t, "starting", to)
    BY <1>7 DEF ThreadTrack
  <2>2. LkShape'
    BY <1>7, <2>1 DEF ThreadTrack, Step, LkShape, Conflict
  <2> QED  BY <1>1, <1>6, <1>7, <2>1, <2>2 DEF ThreadTrack, HoldingPcs, TrackedPcs
<1>8. CASE ThreadRefused(t) \/ ThreadExit(t)
  <2>1. PICK from \in {"refused", "replied"} : Step(t, from, "none")
    BY <1>8 DEF ThreadRefused, ThreadExit
  <2>2. LkShape'
    BY <1>8, <2>1 DEF ThreadRefused, ThreadExit, Step, LkShape, Conflict
  <2>3. oneshot' = Hushed(threads[t].o) /\ UNCHANGED interruptVars
    BY <1>8 DEF ThreadRefused, ThreadExit
  <2>4. R("Ok") \in Replies /\ R("Ok").tag # "Pending"
    BY ReplyShapes DEF Tags
  <2>5. oneshot' \in [Oneshots -> OneshotStates] /\ PendingBelow(oneshot', interrupt_next_id)
    <3>1. Hushed(threads[t].o) \in [Oneshots -> OneshotStates]
      BY <1>1, ClosedOneshot
    <3>2. PendingBelow(Hushed(threads[t].o), interrupt_next_id)
      BY <1>1, <2>4, PendingKept
    <3> QED  BY <2>3, <3>1, <3>2
  <2> QED  BY <1>6, <2>1, <2>2, <2>3, <2>5 DEF HoldingPcs, TrackedPcs
<1>9. CASE ThreadTryLk(t)
  <2>1. Step(t, "trylk", "waitlk") /\ held' = HeldAfter(try, l)
    BY <1>9 DEF ThreadTryLk
  <2>2. LkShape'
    BY <1>2, <1>3, <1>5, <2>1, HeldLegal DEF HoldingPcs, TrackedPcs, LkShape
  <2>3. CASE try # "EAGAIN"
    <3>1. oneshot' = Replied(threads[t].o, BlockingReply(t, try)) /\ UNCHANGED interruptVars
      BY <1>9, <2>3 DEF ThreadTryLk
    <3> QED  BY <1>3, <1>4, <1>6, <2>1, <2>2, <3>1 DEF HoldingPcs, TrackedPcs, Tags
  <2>4. CASE try = "EAGAIN"
    <3>1. /\ interrupt_next_id \in Ids
          /\ interrupts' = [interrupts EXCEPT ![interrupt_next_id] = t]
          /\ interrupt_next_id' = interrupt_next_id + 1
          /\ oneshot' = Replied(threads[t].o, Pending(interrupt_next_id))
      BY <1>9, <2>4 DEF ThreadTryLk
    <3>2. /\ Pending(interrupt_next_id) \in Replies
          /\ Pending(interrupt_next_id).val < interrupt_next_id + 1
      BY <1>1, ReplyShapes, SMTT(60)
    <3>3. PendingBelow(oneshot, interrupt_next_id + 1)
      <4> SUFFICES ASSUME NEW o \in Oneshots, NEW k \in 1 .. Len(oneshot[o].q),
                          oneshot[o].q[k].tag = "Pending"
                   PROVE  oneshot[o].q[k].val < interrupt_next_id + 1
        BY DEF PendingBelow
      <4>1. oneshot[o].q \in Seq(Replies)
        BY <1>1 DEF OneshotStates
      <4>3. oneshot[o].q[k] \in Replies
        BY <4>1, SMTT(60)
      <4>2. oneshot[o].q[k].val \in Nat
        BY <4>3 DEF Replies
      <4> QED  BY <1>1, <4>2, SMTT(60) DEF PendingBelow
    <3>4. PendingBelow(oneshot', interrupt_next_id') /\ oneshot' \in [Oneshots -> OneshotStates]
      BY <1>1, <3>1, <3>2, <3>3, RepliedOneshot, PendingKept, SMTT(60)
    <3>5. ChannelShape'
      BY <1>5, <2>1, <3>4 DEF ChannelShape, HoldingPcs, TrackedPcs
    <3>6. InterruptShape'
      BY <3>1, SMTT(60) DEF InterruptShape, Ids
    <3>7. InterruptIds'
      <4>1. UNCHANGED <<sock, jobs, cpc, call>>
        BY <1>5, <2>1 DEF HoldingPcs, TrackedPcs, clientVars
      <4>2. \A k \in 1 .. Len(sock) : sock[k].id \in Nat
        <5>1. \A k \in 1 .. Len(sock) : sock[k] \in Requests
          BY SMTT(60) DEF ChannelShape
        <5> QED  BY <5>1 DEF Requests
      <4>3. \A j \in jobs : j.id \in Nat
        BY DEF JobShape
      <4>4. \A c \in Clients : call[c].iid \in Nat
        BY DEF ClientShape
      <4>5. \A i \in Nat : i < interrupt_next_id => i < interrupt_next_id'
        BY <1>1, <3>1, SMTT(60)
      <4> QED  BY <3>4, <4>1, <4>2, <4>3, <4>4, <4>5 DEF InterruptIds
    <3> QED  BY <1>0, <1>5, <2>1, <2>2, <3>5, <3>6, <3>7 DEF HoldingPcs, TrackedPcs
  <2> QED  BY <2>3, <2>4
<1>10. ASSUME NEW errno \in {"Done", "EBADF", "EINTR", "EDEADLK"}, ThreadReturns(t, errno)
       PROVE  Shape'
  <2>1. /\ Step(t, "waitlk", "replied") /\ held' = HeldAfter(errno, l)
        /\ oneshot' = Replied(threads[t].o, BlockingReply(t, errno)) /\ UNCHANGED interruptVars
        /\ errno = "Done" => try = "Done"
    BY <1>10 DEF ThreadReturns
  <2>2. LkShape'
    BY <1>2, <1>3, <1>5, <2>1, HeldLegal DEF HoldingPcs, TrackedPcs, LkShape
  <2> QED  BY <1>4, <1>6, <2>1, <2>2 DEF HoldingPcs, TrackedPcs, Tags
<1> QED
  BY <1>7, <1>8, <1>9, <1>10 DEF ThreadStep

(* So do the threads of Interrupt and Unregister requests.                 *)
LEMMA ShapeJob ==
  ASSUME Shape, NEW j \in jobs, JobStep(j), UNCHANGED clientVars
  PROVE  Shape'
<1> USE ChannelsAssumption, DaemonAssumption DEF Shape, DaemonShape
<1>0. ClientShape'
  BY ShapeSame
<1>1. /\ oneshot \in [Oneshots -> OneshotStates] /\ PendingBelow(oneshot, interrupt_next_id)
      /\ interrupt_next_id \in 0 .. MaxIds
  BY DEF ChannelShape, InterruptIds, InterruptShape
<1>2. /\ JobFrame /\ descriptors' \subseteq descriptors /\ held' \in {held, F_UNLCK}
      /\ \/ \E r \in {"Ok", "ENOENT"} : JobEnds(j, r)
         \/ JobGoes(j, [j EXCEPT !.st = "removed"])
         \/ JobGoes(j, [j EXCEPT !.st = "stopping"])
         \/ JobGoes(j, [j EXCEPT !.st = "closed"])
         \/ /\ j.op = "Interrupt" /\ interrupts[j.id] # NoThread
            /\ JobGoes(j, [j EXCEPT !.st = "stopping", !.thread = interrupts[j.id]])
  BY DEF JobStep, InterruptLookUp, InterruptDone, UnregisterRemove, UnregisterStop,
         UnregisterClose, UnregisterReply
<1>3. j.op = "Interrupt" => interrupts[j.id] \in LockThreads \cup {NoThread}
  BY <1>1, SMTT(60) DEF InterruptIds, JobShape, InterruptShape, Ids
<1>4. /\ JobShape' /\ \A k \in jobs' : k.op = "Interrupt" => k.id < interrupt_next_id
      /\ oneshot' \in [Oneshots -> OneshotStates] /\ PendingBelow(oneshot', interrupt_next_id)
  <2>1. CASE \E r \in {"Ok", "ENOENT"} : JobEnds(j, r)
    <3>1. PICK r \in {"Ok", "ENOENT"} : JobEnds(j, r)
      BY <2>1
    <3>2. R(r) \in Replies /\ R(r).tag # "Pending"
      BY ReplyShapes DEF Tags
    <3>3. oneshot' \in [Oneshots -> OneshotStates] /\ PendingBelow(oneshot', interrupt_next_id)
      <4>1. oneshot' = Answered(j.o, R(r))
        BY <3>1 DEF JobEnds
      <4>2. interrupt_next_id \in Nat
        BY <1>1, SMTT(60)
      <4>3. Answered(j.o, R(r)) \in [Oneshots -> OneshotStates]
        BY <1>1, <3>2, AnsweredOneshot
      <4>4. PendingBelow(Answered(j.o, R(r)), interrupt_next_id)
        BY <1>1, <3>2, <4>2, PendingKept
      <4> QED  BY <4>1, <4>3, <4>4
    <3> QED  BY <3>1, <3>3 DEF JobEnds, JobShape, InterruptIds
  <2>2. ASSUME NEW k, JobGoes(j, k), k.op = j.op, k.id = j.id,
               k \in [op : {"Interrupt", "Unregister"}, id : Nat, o : Oneshots,
                      st : {"start", "removed", "stopping", "closed"}, thread : LockThreads \cup {NoThread}]
        PROVE  /\ JobShape' /\ \A i \in jobs' : i.op = "Interrupt" => i.id < interrupt_next_id
               /\ oneshot' \in [Oneshots -> OneshotStates] /\ PendingBelow(oneshot', interrupt_next_id)
    BY <1>1, <2>2 DEF JobGoes, JobShape, InterruptIds
  <2>3. ASSUME NEW st \in {"removed", "stopping", "closed"}, JobGoes(j, [j EXCEPT !.st = st])
        PROVE  /\ JobShape' /\ \A i \in jobs' : i.op = "Interrupt" => i.id < interrupt_next_id
               /\ oneshot' \in [Oneshots -> OneshotStates] /\ PendingBelow(oneshot', interrupt_next_id)
    BY <2>2, <2>3 DEF JobShape
  <2>4. CASE /\ j.op = "Interrupt" /\ interrupts[j.id] # NoThread
             /\ JobGoes(j, [j EXCEPT !.st = "stopping", !.thread = interrupts[j.id]])
    BY <1>3, <2>2, <2>4 DEF JobShape
  <2> QED  BY <1>2, <2>1, <2>3, <2>4
<1>5. ChannelShape'
  BY <1>2, <1>4 DEF ChannelShape, JobFrame
<1>6. InterruptIds'
  BY <1>2, <1>4 DEF InterruptIds, JobFrame, interruptVars, clientVars
<1>7. FdShape' /\ LkShape'
  BY <1>2 DEF FdShape, LkShape, JobFrame, Conflict
<1> QED
  BY <1>0, <1>2, <1>4, <1>5, <1>6, <1>7, ShapeSame DEF JobFrame

(* So do the main thread and the other processes.                          *)
LEMMA ShapeMain ==
  ASSUME Shape, UNCHANGED clientVars,
         MainStep \/ \E act \in Acts \cup {"Unlock"} : OthersLock(Flock(act))
  PROVE  Shape'
<1> USE ChannelsAssumption, DaemonAssumption, SystemAssumption DEF Shape, DaemonShape
<1>0. ClientShape'
  BY ShapeSame
<1>1. CASE MainTryExit \/ MainJoin
  <2>1. main' = "exiting" /\ exit_lock' \in BOOLEAN /\ MainFrame
    BY <1>1 DEF MainTryExit, MainJoin, MainShape
  <2>2. MainShape' /\ ChannelShape' /\ InterruptIds'
    BY <2>1 DEF MainShape, ChannelShape, InterruptIds, MainFrame, channelVars, interruptVars, clientVars
  <2> QED  BY <1>0, <2>1, <2>2, ShapeSame DEF MainFrame
<1>2. CASE ProcessExit
  <2> USE <1>2 DEF ProcessExit
  <2>1. ChannelShape' /\ PendingBelow(oneshot', interrupt_next_id)
    <3>1. \A x \in OneshotStates : /\ [x EXCEPT !.tx = FALSE] \in OneshotStates
                                   /\ [x EXCEPT !.tx = FALSE].q = x.q
      BY DEF OneshotStates
    <3>2. /\ oneshot' \in [Oneshots -> OneshotStates]
          /\ \A o \in Oneshots : oneshot'[o].q = oneshot[o].q
      BY <3>1 DEF ChannelShape
    <3>3. PendingBelow(oneshot', interrupt_next_id)
      BY <3>2 DEF InterruptIds, PendingBelow
    <3>4. server_open' \in BOOLEAN /\ client_open' \in BOOLEAN
      BY DEF ChannelShape
    <3>5. sock' \in Seq(Requests)
      BY SMTT(60)
    <3> QED  BY <3>2, <3>3, <3>4, <3>5 DEF ChannelShape
  <2>2. InterruptIds'
    BY <2>1, SMTT(60) DEF InterruptIds, clientVars
  <2>3. LoopShape' /\ JobShape'
    BY DEF LoopShape, JobShape, AtRecv
  <2>4. ThreadShape'
    BY DEF ThreadShape, Idle, LockTypes
  <2>5. FdShape' /\ InterruptShape'
    BY DEF FdShape, InterruptShape
  <2>6. LkShape'
    BY DEF LkShape, Conflict
  <2> QED  BY <1>0, <2>1, <2>2, <2>3, <2>4, <2>5, <2>6, ShapeSame
<1>3. ASSUME NEW act \in Acts \cup {"Unlock"}, OthersLock(Flock(act))
      PROVE  Shape'
  <2>1. Flock(act) \in {F_RDLCK, F_WRLCK, F_UNLCK}
    BY LkTypes DEF LockTypes
  <2>2. LkShape'
    BY <1>3, <2>1 DEF OthersLock, LkShape, Conflict
  <2>3. ChannelShape' /\ InterruptIds'
    BY <1>3 DEF OthersLock, ChannelShape, InterruptIds, channelVars, interruptVars, clientVars
  <2> QED  BY <1>0, <1>3, <2>2, <2>3, ShapeSame DEF OthersLock
<1> QED  BY <1>1, <1>2, <1>3 DEF MainStep

(* So do the clients.                                                      *)
LEMMA ShapeClient ==
  ASSUME Shape, ClientStep
  PROVE  Shape'
<1> USE DEF Shape
<1>0. DaemonShape' /\ UNCHANGED <<interrupt_next_id, jobs>>
  BY ShapeSame DEF ClientStep, daemonVars, interruptVars
<1>1. /\ oneshot \in [Oneshots -> OneshotStates] /\ PendingBelow(oneshot, interrupt_next_id)
      /\ interrupt_next_id \in Nat /\ sock \in Seq(Requests)
  BY DaemonAssumption, SMTT(60) DEF ChannelShape, InterruptIds, DaemonShape, InterruptShape
<1>2. << >> \in Seq(Replies) /\ R("Ok") \in Replies /\ R("Ok").tag # "Pending"
  BY ReplyShapes, SMTT(60) DEF Tags
<1>3. CASE Stops
  BY <1>0, <1>3 DEF Stops, ChannelShape, ClientShape, InterruptIds, channelVars
<1>4. CASE HangUp
  <2>1. oneshot' \in [Oneshots -> OneshotStates] /\ \A o \in Oneshots : oneshot'[o].q = << >>
    BY <1>1, <1>2, <1>4 DEF HangUp, OneshotStates
  <2>2. PendingBelow(oneshot', interrupt_next_id')
    BY <2>1, SMTT(60) DEF PendingBelow
  <2>3. client_open' \in BOOLEAN /\ server_open' \in BOOLEAN
    BY <1>4 DEF HangUp, ChannelShape
  <2>4. ChannelShape'
    BY <1>1, <1>4, <2>1, <2>3 DEF HangUp, ChannelShape
  <2>5. stop' \in [Clients -> BOOLEAN]
    BY <1>4 DEF HangUp
  <2>6. ClientShape'
    BY <1>4, <2>5 DEF HangUp, ClientShape, NoCall, LockTypes, Waiting, NestedPcs, Simple, Detached
  <2>7. InterruptIds'
    BY <1>0, <1>4, <2>2 DEF HangUp, InterruptIds, IidPcs
  <2> QED  BY <1>0, <2>4, <2>6, <2>7
<1>5. ASSUME NEW c \in Clients, ClientCase(c), UNCHANGED tracker
      PROVE  Shape'
  (* A request is sent.                                                    *)
  <2>1. ASSUME Unused # {}, NEW op \in RequestOps, NEW id \in Nat, NEW act \in LockTypes,
               SendRequest(Fresh, Request(op, id, act, Fresh)),
               op \in {"Interrupt", "RemoveInterrupt"} => id < interrupt_next_id
        PROVE  /\ ChannelShape' /\ Fresh \in Oneshots /\ PendingBelow(oneshot', interrupt_next_id)
               /\ \A k \in 1 .. Len(sock') : sock'[k].op \in {"Interrupt", "RemoveInterrupt"}
                                              => sock'[k].id < interrupt_next_id
    <3>1. Fresh \in Oneshots
      BY <2>1, FreshOneshot
    <3>2. Request(op, id, act, Fresh) \in Requests
      BY <3>1 DEF Request, Requests
    <3>3. /\ oneshot' \in [Oneshots -> OneshotStates] /\ oneshot'[Fresh].q = << >>
          /\ \A p \in Oneshots : p # Fresh => oneshot'[p] = oneshot[p]
      BY <1>1, <1>2, <2>1, <3>1 DEF SendRequest, OneshotStates
    <3>4. PendingBelow(oneshot', interrupt_next_id)
      <4> SUFFICES ASSUME NEW p \in Oneshots, NEW k \in 1 .. Len(oneshot'[p].q),
                          oneshot'[p].q[k].tag = "Pending"
                   PROVE  oneshot'[p].q[k].val < interrupt_next_id
        BY DEF PendingBelow
      <4>1. p # Fresh
        BY <3>3, SMTT(60)
      <4> QED  BY <1>1, <3>3, <4>1 DEF PendingBelow
    <3>5. sock' = Append(sock, Request(op, id, act, Fresh)) /\ UNCHANGED <<client_open, server_open>>
      BY <2>1 DEF SendRequest
    <3>6. ChannelShape'
      BY <1>1, <3>2, <3>3, <3>5, SockAppend DEF ChannelShape
    <3>7. \A k \in 1 .. Len(sock') : sock'[k].op \in {"Interrupt", "RemoveInterrupt"}
                                        => sock'[k].id < interrupt_next_id
      <4> SUFFICES ASSUME NEW k \in 1 .. Len(sock'), sock'[k].op \in {"Interrupt", "RemoveInterrupt"}
                   PROVE  sock'[k].id < interrupt_next_id
        OBVIOUS
      <4>1. CASE k \in 1 .. Len(sock)
        BY <1>1, <3>2, <3>5, <4>1, SockAppend DEF InterruptIds
      <4>2. CASE k = Len(sock) + 1
        BY <1>1, <2>1, <3>2, <3>5, <4>2, SockAppend, SMTT(60) DEF Request
      <4> QED  BY <1>1, <3>2, <3>5, <4>1, <4>2, SockAppend, SMTT(60)
    <3> QED  BY <3>1, <3>4, <3>6, <3>7
  (* A oneshot is dropped.                                                 *)
  <2>2. ASSUME NEW o, oneshot' = Dropped(o), UNCHANGED <<sock, client_open, server_open>>
        PROVE  ChannelShape' /\ PendingBelow(oneshot', interrupt_next_id)
    <3>1. Dropped(o) \in [Oneshots -> OneshotStates]
      BY <1>1, ClosedOneshot
    <3>2. PendingBelow(Dropped(o), interrupt_next_id)
      BY <1>1, <1>2, PendingKept
    <3> QED  BY <2>2, <3>1, <3>2 DEF ChannelShape
  (* The call ends.                                                        *)
  <2>3. ASSUME cpc' = [cpc EXCEPT ![c] = "idle"], call' = [call EXCEPT ![c] = NoCall],
               stop' = [stop EXCEPT ![c] = FALSE],
               lockables' \subseteq Nat, calls' \in 0 .. MaxCalls
        PROVE  /\ ClientShape'
               /\ \A d \in Clients : cpc'[d] \in IidPcs => call'[d].iid < interrupt_next_id
    <3>1. stop' \in [Clients -> BOOLEAN]
      BY <2>3 DEF ClientShape
    <3>2. ClientShape'
      BY <1>5, <2>3, <3>1 DEF ClientShape, NoCall, LockTypes, Waiting, NestedPcs, Simple, Detached
    <3>3. \A d \in Clients : cpc'[d] \in IidPcs => call'[d].iid < interrupt_next_id
      BY <2>3 DEF ClientShape, InterruptIds, IidPcs
    <3> QED  BY <3>2, <3>3
  <2>4. ASSUME NEW op \in Simple \cup {"SetLkw"}, NEW id \in Nat, NEW act \in LockTypes,
               SendsCall(c, op, id, act)
        PROVE  Shape'
    <3>1. /\ Unused # {} /\ SendRequest(Fresh, Request(op, id, act, Fresh)) /\ UNCHANGED stop
          /\ cpc' = [cpc EXCEPT ![c] = op] /\ calls' \in 0 .. MaxCalls /\ lockables' \subseteq lockables
          /\ call' = [call EXCEPT ![c] = [NoCall EXCEPT !.id = id, !.act = act, !.o = Fresh]]
      BY <2>4 DEF SendsCall
    <3>2. /\ ChannelShape' /\ Fresh \in Oneshots /\ PendingBelow(oneshot', interrupt_next_id)
          /\ \A k \in 1 .. Len(sock') : sock'[k].op \in {"Interrupt", "RemoveInterrupt"}
                                         => sock'[k].id < interrupt_next_id
      BY <2>1, <3>1 DEF RequestOps, Simple
    <3> DEFINE new == [NoCall EXCEPT !.id = id, !.act = act, !.o = Fresh]
    <3>3. new \in [id : Nat, act : LockTypes, o : Oneshots, nested : {0}, iid : {0}]
      BY <3>2 DEF NoCall
    <3> HIDE DEF new
    <3>6. call' = [call EXCEPT ![c] = new]
      BY <3>1 DEF new
    <3>4. ClientShape'
      <4>1. cpc' = [cpc EXCEPT ![c] = op] /\ calls' \in 0 .. MaxCalls /\ lockables' \subseteq Nat
        BY <3>1 DEF ClientShape
      <4>2. call' \in [Clients -> [id : Nat, act : LockTypes, o : Oneshots \cup {0},
                                  nested : Oneshots \cup {0}, iid : Nat]]
        BY <3>3, <3>6, SMTT(60) DEF ClientShape
      <4>3. \A d \in Clients : /\ cpc'[d] \in Waiting => call'[d].o \in Oneshots
                               /\ cpc'[d] \in NestedPcs => call'[d].nested \in Oneshots
        BY <3>3, <3>6, <4>1 DEF ClientShape, NestedPcs, Simple
      <4>4. cpc' \in [Clients -> Simple \cup Detached \cup {"idle", "gone", "refused"}]
        BY <4>1 DEF ClientShape, Detached
      <4>5. stop' \in [Clients -> BOOLEAN] /\ tracker' \in {"open", "stopping", "stopped"}
        BY <1>5, <3>1 DEF ClientShape
      <4> QED  BY <4>1, <4>2, <4>3, <4>4, <4>5 DEF ClientShape
    <3>5. InterruptIds'
      BY <1>0, <3>1, <3>2 DEF InterruptIds, ClientShape, IidPcs, Simple
    <3> QED  BY <1>0, <3>2, <3>4, <3>5
  <2>5. ASSUME NEW id \in Ids, NEW act \in LockTypes, Detach(c, id, act)
        PROVE  Shape'
    <3>1. /\ UNCHANGED <<channelVars, lockables, stop>> /\ calls' \in 0 .. MaxCalls
          /\ \/ /\ cpc' = [cpc EXCEPT ![c] = "pre"]
                /\ call' = [call EXCEPT ![c] = [NoCall EXCEPT !.id = id, !.act = act]]
             \/ cpc' = [cpc EXCEPT ![c] = "refused"] /\ UNCHANGED call
      BY <2>5, ClientAssumption, SMTT(60) DEF Detach, ClientShape
    <3>2. ChannelShape' /\ PendingBelow(oneshot', interrupt_next_id) /\ sock' = sock
      BY <1>1, <3>1 DEF channelVars, ChannelShape
    <3>3. [NoCall EXCEPT !.id = id, !.act = act]
            \in [id : Nat, act : LockTypes, o : {0}, nested : {0}, iid : {0}]
      <4>1. id \in Nat
        BY DaemonAssumption, SMTT(60) DEF Ids
      <4> QED  BY <4>1 DEF NoCall
    <3>4. ClientShape'
      <4> DEFINE new == [NoCall EXCEPT !.id = id, !.act = act]
      <4>1. PICK to \in {"pre", "refused"} : cpc' = [cpc EXCEPT ![c] = to]
        BY <3>1
      <4>2. call' = [call EXCEPT ![c] = new] \/ call' = call
        BY <3>1
      <4>3. new \in [id : Nat, act : LockTypes, o : {0}, nested : {0}, iid : {0}]
        BY <3>3
      <4> HIDE DEF new
      <4>4. call' \in [Clients -> [id : Nat, act : LockTypes, o : Oneshots \cup {0},
                                  nested : Oneshots \cup {0}, iid : Nat]]
        BY <4>2, <4>3, SMTT(60) DEF ClientShape
      <4>5. \A d \in Clients : d # c => cpc'[d] = cpc[d] /\ call'[d] = call[d]
        BY <4>1, <4>2 DEF ClientShape
      <4>6. cpc'[c] \notin Waiting \cup NestedPcs
        BY <4>1 DEF ClientShape, Waiting, NestedPcs, Simple, Detached
      <4>7. \A d \in Clients : /\ cpc'[d] \in Waiting => call'[d].o \in Oneshots
                               /\ cpc'[d] \in NestedPcs => call'[d].nested \in Oneshots
        BY <4>5, <4>6 DEF ClientShape
      <4> QED  BY <1>5, <3>1, <4>1, <4>4, <4>7 DEF ClientShape, Detached
    <3>5. InterruptIds'
      BY <1>0, <3>1, <3>2 DEF InterruptIds, ClientShape, IidPcs
    <3> QED  BY <1>0, <3>2, <3>4, <3>5
  <2>6. CASE GivesUp(c)
    <3>1. /\ UNCHANGED channelVars /\ lockables' \subseteq Nat /\ calls' \in 0 .. MaxCalls
          /\ cpc' = [cpc EXCEPT ![c] = "idle"] /\ call' = [call EXCEPT ![c] = NoCall]
          /\ stop' = [stop EXCEPT ![c] = FALSE]
      BY <2>6 DEF GivesUp, Abandon, ClientShape
    <3>2. ChannelShape' /\ UNCHANGED <<sock, oneshot>>
      BY <3>1 DEF channelVars, ChannelShape
    <3>3. /\ ClientShape'
          /\ \A d \in Clients : cpc'[d] \in IidPcs => call'[d].iid < interrupt_next_id
      BY <2>3, <3>1
    <3>4. InterruptIds'
      BY <1>0, <3>2, <3>3 DEF InterruptIds
    <3> QED  BY <1>0, <3>2, <3>3, <3>4
  <2>7. CASE EndsSimple(c) \/ ReturnsLkw(c)
    <3>1. Return(c) /\ calls' = calls
      BY <2>7 DEF EndsSimple, EndSimple, DropInterrupted, ReturnsLkw
    <3>2. lockables' \subseteq Nat
      <4>1. CASE cpc[c] = "Register" /\ EndSimple(c) /\ Outcome(call[c].o) = "Ok"
        <5>1. HasReply(call[c].o) /\ call[c].o \in Oneshots
          BY <4>1 DEF EndSimple, Readable, Outcome, ClientShape, Waiting, Simple
        <5>2. NextReply(call[c].o).val \in Nat
          BY <1>1, <5>1, TakenOneshot DEF Replies
        <5> QED  BY <4>1, <5>2 DEF EndSimple, ClientShape
      <4>2. CASE ~(cpc[c] = "Register" /\ EndSimple(c) /\ Outcome(call[c].o) = "Ok")
        BY <2>7, <4>2 DEF EndsSimple, EndSimple, DropInterrupted, ReturnsLkw, ClientShape
      <4> QED  BY <4>1, <4>2
    <3>3. ChannelShape' /\ PendingBelow(oneshot', interrupt_next_id) /\ sock' = sock
      BY <2>2, <3>1 DEF Return
    <3>4. /\ ClientShape'
          /\ \A d \in Clients : cpc'[d] \in IidPcs => call'[d].iid < interrupt_next_id
      BY <2>3, <3>1, <3>2 DEF Return, ClientShape
    <3>5. InterruptIds'
      BY <1>0, <3>3, <3>4 DEF InterruptIds
    <3> QED  BY <1>0, <3>3, <3>4, <3>5
  <2>8. CASE Pends(c)
    <3> DEFINE o == call[c].o
    <3>1. o \in Oneshots /\ HasReply(o) /\ NextReply(o).tag = "Pending"
      BY <2>8 DEF Pends, ClientShape, Waiting, Detached
    <3>2. NextReply(o).val \in Nat /\ Taken(o) \in [Oneshots -> OneshotStates]
      BY <1>1, <3>1, TakenOneshot DEF Replies
    <3>3. PendingBelow(Taken(o), interrupt_next_id)
      BY <1>1, <1>2, <3>1, PendingKept
    <3>4. NextReply(o).val < interrupt_next_id
      <4>1. oneshot[o].q \in Seq(Replies) /\ oneshot[o].q # << >>
        BY <1>1, <3>1 DEF OneshotStates, HasReply
      <4>2. 1 \in 1 .. Len(oneshot[o].q) /\ NextReply(o) = oneshot[o].q[1]
        BY <4>1, SMTT(60) DEF NextReply
      <4> QED  BY <1>1, <3>1, <4>2 DEF PendingBelow
    <3>5. /\ cpc' = [cpc EXCEPT ![c] = "wait"] /\ call' = [call EXCEPT ![c].iid = NextReply(o).val]
          /\ oneshot' = Taken(o)
          /\ UNCHANGED <<sock, client_open, server_open, calls, lockables, stop>>
      BY <2>8 DEF Pends
    <3> HIDE DEF o
    <3>6. ChannelShape'
      BY <3>2, <3>5 DEF ChannelShape
    <3>7. ClientShape'
      BY <1>5, <2>8, <3>2, <3>5, SMTT(60) DEF Pends, ClientShape, Waiting, NestedPcs, Simple, Detached
    <3>8. InterruptIds'
      BY <1>0, <3>3, <3>4, <3>5 DEF InterruptIds, ClientShape
    <3> QED  BY <1>0, <3>6, <3>7, <3>8
  <2>9. ASSUME NEW op \in {"Interrupt", "RemoveInterrupt"}, NEW to \in NestedPcs,
               SendsNested(c, op, to)
        PROVE  Shape'
    <3>1. /\ Unused # {} /\ SendRequest(Fresh, Request(op, call[c].iid, "Unlock", Fresh))
          /\ cpc' = [cpc EXCEPT ![c] = to] /\ call' = [call EXCEPT ![c].nested = Fresh]
          /\ cpc[c] \in {"wait", "again", "failed"} /\ UNCHANGED <<calls, lockables, stop>>
      BY <2>9 DEF SendsNested, Nested
    <3>2. call[c].iid \in Nat /\ call[c].iid < interrupt_next_id
      BY <3>1 DEF ClientShape, InterruptIds, IidPcs
    <3>3. /\ ChannelShape' /\ Fresh \in Oneshots /\ PendingBelow(oneshot', interrupt_next_id)
          /\ \A k \in 1 .. Len(sock') : sock'[k].op \in {"Interrupt", "RemoveInterrupt"}
                                         => sock'[k].id < interrupt_next_id
      BY <2>1, <3>1, <3>2 DEF RequestOps, LockTypes
    <3>4. ClientShape'
      BY <1>5, <3>1, <3>3 DEF ClientShape, Waiting, NestedPcs, Simple, Detached
    <3>5. InterruptIds'
      BY <1>0, <3>1, <3>2, <3>3 DEF InterruptIds, ClientShape, IidPcs
    <3> QED  BY <1>0, <3>3, <3>4, <3>5
  <2>10. CASE InterruptReply(c) \/ RemoveReply(c)
    <3>1. /\ oneshot' = Dropped(call[c].nested) /\ call' = [call EXCEPT ![c].nested = 0]
          /\ cpc[c] \in NestedPcs
          /\ \E to \in {"again", "failed", "leave"} :
               cpc' = [cpc EXCEPT ![c] = to] /\ (to = "leave" <=> cpc[c] = "remove")
          /\ UNCHANGED <<sock, client_open, server_open, calls, lockables, stop>>
      BY <2>10 DEF InterruptReply, RemoveReply, NestedPcs
    <3>2. ChannelShape' /\ PendingBelow(oneshot', interrupt_next_id)
      BY <2>2, <3>1
    <3>3. ClientShape'
      BY <1>5, <3>1, SMTT(60) DEF ClientShape, Waiting, NestedPcs, Simple, Detached
    <3>4. InterruptIds'
      BY <1>0, <3>1, <3>2, SMTT(60) DEF InterruptIds, ClientShape, IidPcs, NestedPcs
    <3> QED  BY <1>0, <3>2, <3>3, <3>4
  <2> QED
    BY <1>5, <2>4, <2>5, <2>6, <2>7, <2>8, <2>9, <2>10 DEF ClientCase, NestedPcs
<1> QED
  BY <1>3, <1>4, <1>5 DEF ClientStep

(* The steps of the whole, one actor at a time.                            *)
LEMMA NextCases ==
  ASSUME Shape, Next
  PROVE  \/ UNCHANGED clientVars /\ LoopStep
         \/ UNCHANGED clientVars /\ \E t \in LockThreads : ThreadStep(t) \/ ThreadReturns(t, "EDEADLK")
         \/ UNCHANGED clientVars /\ \E j \in jobs : JobStep(j)
         \/ UNCHANGED clientVars /\ MainStep
         \/ UNCHANGED clientVars /\ \E act \in Acts \cup {"Unlock"} : OthersLock(Flock(act))
         \/ ClientStep
BY ClientCases DEF Next, DaemonNext

(* The shapes are inductive on their own.                                  *)
LEMMA ShapeStep ==
  ASSUME Shape, [Next]_vars
  PROVE  Shape'
<1>1. CASE Next
  BY <1>1, NextCases, ShapeLoop, ShapeThread, ShapeJob, ShapeMain, ShapeClient
<1>2. CASE UNCHANGED vars
  <2>1. DaemonShape' /\ ClientShape'
    BY <1>2, ShapeSame DEF vars
  <2>2. ChannelShape' /\ InterruptIds'
    BY <1>2 DEF Shape, ChannelShape, InterruptIds, vars, channelVars, daemonVars, interruptVars, clientVars
  <2> QED  BY <2>1, <2>2 DEF Shape
<1> QED  BY <1>1, <1>2

(* Every request, reply, thread, job and call is well formed, and every    *)
(* interrupt id in one of them was allocated by handle_interrupt_add().    *)
THEOREM Shapes == Spec => []Shape
BY ShapeInit, ShapeStep, PTL DEF Spec
=============================================================================
