----------------------------- MODULE OwnerClient -----------------------------
(***************************************************************************)
(* The client half of src/src/owner.rs: threads of the filesystem daemon   *)
(* that use one Owner and its Lockables. A thread makes one call at a      *)
(* time; a call sends a request and waits for its reply, set_lock_blocking *)
(* being a small protocol of its own. Blocking locks are those of          *)
(* set_lock_blocking_detached: their thread has a clone of the RawLockable *)
(* and may send its request after the Lockable has been dropped. They run  *)
(* under one tracker of the daemon. That a call returns means, for them,   *)
(* that the done-callback is invoked with its outcome.                     *)
(***************************************************************************)
EXTENDS Channels

CONSTANTS
  Clients,    \* threads of the filesystem daemon
  MaxCalls    \* calls that allocate an id on the server: register, blocking lock

ASSUME ClientAssumption == MaxCalls \in Nat

VARIABLES
  calls,      \* id-allocating calls made
  lockables,  \* ids of the Lockables that have not been dropped
  cpc,        \* where each thread is in its call
  call,       \* the call: lockable id, action, oneshot of the call and of
              \* a nested request, interrupt id
  stop,       \* someone signals the thread until its call has returned
  tracker     \* the daemon's tracker: "open", its stop() runs, "stopped"

clientVars == <<calls, lockables, cpc, call, stop, tracker>>

NoCall == [id |-> 0, act |-> "Unlock", o |-> 0, nested |-> 0, iid |-> 0]

ClientInit ==
  /\ calls = 0 /\ lockables = {}
  /\ cpc  = [c \in Clients |-> "idle"]
  /\ call = [c \in Clients |-> NoCall]
  /\ stop = [c \in Clients |-> FALSE]
  /\ tracker = "open"

Simple == {"Ping", "Register", "Unregister", "GetLk", "SetLk"}

(* The states of a detached blocking lock, while its tracker counts it.    *)
Detached == {"pre", "SetLkw", "wait", "interrupt", "again", "failed", "remove", "leave"}

-----------------------------------------------------------------------------
(* The call of c returns before it has sent its request.                   *)
Abandon(c) ==
  /\ cpc' = [cpc EXCEPT ![c] = "idle"]
  /\ call' = [call EXCEPT ![c] = NoCall]
  /\ stop' = [stop EXCEPT ![c] = FALSE]
  /\ UNCHANGED channelVars

(* send_request_iter_with_fds(): the request of a call. If the owner       *)
(* process is gone sendmsg fails and the call returns at once.             *)
Begin(c, from, op, id, act) ==
  /\ client_open /\ cpc[c] = from /\ Unused # {}
  /\ \/ /\ server_open
        /\ SendRequest(Fresh, Request(op, id, act, Fresh))
        /\ cpc' = [cpc EXCEPT ![c] = op]
        /\ call' = [call EXCEPT ![c] = [NoCall EXCEPT !.id = id, !.act = act, !.o = Fresh]]
        /\ UNCHANGED stop
     \/ ~server_open /\ Abandon(c)

(* The call of c returns to its caller; its iterator is dropped.           *)
Return(c) ==
  /\ oneshot' = Dropped(call[c].o)
  /\ cpc' = [cpc EXCEPT ![c] = "idle"]
  /\ call' = [call EXCEPT ![c] = NoCall]
  /\ stop' = [stop EXCEPT ![c] = FALSE]
  /\ UNCHANGED <<sock, client_open, server_open>>

(* What a call makes of the end of the replies: BrokenPipe.                *)
Outcome(o) == IF AtEof(o) THEN "BrokenPipe" ELSE NextReply(o).tag

Readable(o) == HasReply(o) \/ AtEof(o)

BeginPing(c) == Begin(c, "idle", "Ping", 0, "Unlock") /\ UNCHANGED <<calls, lockables>>

(* Owner::register(); act says whether the file is open for writing.       *)
BeginRegister(c, act) ==
  /\ act # "Unlock"
  /\ calls < MaxCalls /\ calls' = calls + 1
  /\ Begin(c, "idle", "Register", 0, act)
  /\ UNCHANGED lockables

(* get_lock() and set_lock_nonblocking().                                  *)
BeginLk(c, op, id, act) ==
  /\ id \in lockables
  /\ Begin(c, "idle", op, id, act)
  /\ UNCHANGED <<calls, lockables>>

(* set_lock_blocking_detached(): the thread starts, with its clone, and is *)
(* tracked. If the tracker is closed it is refused.                        *)
Detach(c, id, act) ==
  /\ client_open /\ cpc[c] = "idle" /\ id \in lockables
  /\ \/ /\ tracker = "open"
        /\ calls < MaxCalls /\ calls' = calls + 1
        /\ cpc' = [cpc EXCEPT ![c] = "pre"]
        /\ call' = [call EXCEPT ![c] = [NoCall EXCEPT !.id = id, !.act = act]]
     \/ /\ tracker # "open"
        /\ cpc' = [cpc EXCEPT ![c] = "refused"]
        /\ UNCHANGED <<calls, call>>
  /\ UNCHANGED <<channelVars, lockables, stop>>

(* A refused thread drops the closure, and with it the Invoker, whose      *)
(* drop() invokes the done-callback.                                       *)
RefusedDone(c) ==
  /\ cpc[c] = "refused"
  /\ Abandon(c)
  /\ UNCHANGED <<calls, lockables>>

(* Its pre-callback fails, which is what the done-callback is told.        *)
PreFails(c) ==
  /\ cpc[c] = "pre"
  /\ Abandon(c)
  /\ UNCHANGED <<calls, lockables>>

(* set_lock_blocking().                                                    *)
BeginSetLkw(c) ==
  /\ Begin(c, "pre", "SetLkw", call[c].id, call[c].act)
  /\ UNCHANGED <<calls, lockables>>

(* Lockable::drop(); the Lockable is not borrowed by another call.         *)
BeginDrop(c, id) ==
  /\ id \in lockables
  /\ \A d \in Clients : cpc[d] \in {"GetLk", "SetLk"} => call[d].id # id
  /\ lockables' = lockables \ {id}
  /\ Begin(c, "idle", "Unregister", id, "Unlock")
  /\ UNCHANGED calls

(* send_request(): exactly one reply is awaited. A successful register()   *)
(* makes a Lockable of the id.                                             *)
EndSimple(c) ==
  LET o == call[c].o IN
  /\ cpc[c] \in Simple /\ Readable(o)
  /\ Return(c)
  /\ lockables' = IF cpc[c] = "Register" /\ Outcome(o) = "Ok"
                    THEN lockables \cup {NextReply(o).val} ELSE lockables
  /\ UNCHANGED calls

(* drop() is the one call that leaves signals unmasked: a signal ends its  *)
(* wait, and the server goes on unregistering alone.                       *)
DropInterrupted(c) ==
  /\ cpc[c] = "Unregister" /\ stop[c] /\ ~Readable(call[c].o)
  /\ Return(c)
  /\ UNCHANGED <<calls, lockables>>

-----------------------------------------------------------------------------
(* set_lock_blocking().                                                    *)

(* Its first reply, awaited with signals masked: the outcome, or Pending   *)
(* with the id by which to interrupt the server's thread.                  *)
FirstReply(c) ==
  LET o == call[c].o IN
  /\ cpc[c] = "SetLkw" /\ Readable(o)
  /\ \/ /\ Outcome(o) = "Pending"
        /\ cpc' = [cpc EXCEPT ![c] = "wait"]
        /\ call' = [call EXCEPT ![c].iid = NextReply(o).val]
        /\ oneshot' = Taken(o)
        /\ UNCHANGED <<sock, client_open, server_open, stop>>
     \/ Outcome(o) # "Pending" /\ Return(c)
  /\ UNCHANGED <<calls, lockables>>

(* A request made on behalf of the call, with a oneshot of its own.        *)
Nested(c, op, to) ==
  /\ SendRequest(Fresh, Request(op, call[c].iid, "Unlock", Fresh))
  /\ cpc' = [cpc EXCEPT ![c] = to]
  /\ call' = [call EXCEPT ![c].nested = Fresh]

(* A wind-up that leaves the interrupt behind.                             *)
WindUp_Forgets(c) == Return(c)

(* The call is over; Interruptable::drop() tells the server to forget the  *)
(* interrupt, if there still is a server.                                  *)
WindUp(c) ==
  \/ /\ server_open /\ Unused # {}
     /\ Nested(c, "RemoveInterrupt", "remove")
     /\ UNCHANGED stop
  \/ ~server_open /\ Return(c)

(* The second reply, or the end of the replies: the outcome, whatever it   *)
(* is.                                                                     *)
SecondReply(c) ==
  /\ cpc[c] \in {"wait", "again"} /\ Readable(call[c].o)
  /\ WindUp(c)
  /\ UNCHANGED <<calls, lockables>>

(* A signal ends the wait for it, once; recvmsg would rather return what   *)
(* there is to read.                                                       *)
WaitInterrupted(c) ==
  /\ cpc[c] = "wait" /\ stop[c] /\ ~Readable(call[c].o) /\ Unused # {}
  /\ Nested(c, "Interrupt", "interrupt")
  /\ UNCHANGED <<calls, lockables, stop>>

(* The answer to the Interrupt: wait again, with signals masked, or fail.  *)
InterruptReply(c) ==
  LET n == call[c].nested IN
  /\ cpc[c] = "interrupt" /\ Readable(n)
  /\ cpc' = [cpc EXCEPT ![c] = IF Outcome(n) = "Ok" THEN "again" ELSE "failed"]
  /\ oneshot' = Dropped(n)
  /\ call' = [call EXCEPT ![c].nested = 0]
  /\ UNCHANGED <<sock, client_open, server_open, calls, lockables, stop>>

InterruptFailed(c) ==
  /\ cpc[c] = "failed"
  /\ WindUp(c)
  /\ UNCHANGED <<calls, lockables>>

(* The answer to the RemoveInterrupt, whatever it is.                      *)
RemoveReply(c) ==
  LET n == call[c].nested IN
  /\ cpc[c] = "remove" /\ Readable(n)
  /\ cpc' = [cpc EXCEPT ![c] = "leave"]
  /\ oneshot' = Dropped(n)
  /\ call' = [call EXCEPT ![c].nested = 0]
  /\ UNCHANGED <<sock, client_open, server_open, calls, lockables, stop>>

Leave(c) ==
  /\ cpc[c] = "leave"
  /\ Return(c)
  /\ UNCHANGED <<calls, lockables>>

-----------------------------------------------------------------------------
(* InterruptibleHandle::stop() for the thread's call begins.               *)
StopCall(c) ==
  /\ cpc[c] \notin {"idle", "gone", "refused"} /\ ~stop[c]
  /\ stop' = [stop EXCEPT ![c] = TRUE]
  /\ UNCHANGED <<channelVars, calls, lockables, cpc, call>>

(* A stop() of the tracker that only waits.                                *)
StopTracker_Silent ==
  /\ tracker = "open" /\ tracker' = "stopping"
  /\ UNCHANGED <<channelVars, calls, lockables, cpc, call, stop>>

(* InterruptibleTracker::stop() for all of them: no more are let in, the   *)
(* tracked ones are signalled, and it returns when they have returned.     *)
StopTracker ==
  /\ tracker = "open" /\ tracker' = "stopping"
  /\ stop' = [c \in Clients |-> stop[c] \/ cpc[c] \in Detached]
  /\ UNCHANGED <<channelVars, calls, lockables, cpc, call>>

TrackerStopped ==
  /\ tracker = "stopping" /\ \A c \in Clients : cpc[c] \notin Detached
  /\ tracker' = "stopped"
  /\ UNCHANGED <<channelVars, calls, lockables, cpc, call, stop>>

(* The daemon's end of the socket closes: the last Owner and Lockable are  *)
(* dropped, or the daemon dies in the middle of its calls.                 *)
HangUp ==
  /\ client_open
  /\ client_open' = FALSE
  /\ oneshot' = [o \in Oneshots |->
                   [q |-> << >>, tx |-> oneshot[o].tx, rx |-> FALSE]]
  /\ cpc' = [c \in Clients |-> "gone"]
  /\ call' = [c \in Clients |-> NoCall]
  /\ lockables' = {}
  /\ stop' = [c \in Clients |-> FALSE]
  /\ UNCHANGED <<sock, server_open, calls, tracker>>

Begins(c, op, act, id) ==
  \/ op = "Ping" /\ BeginPing(c)
  \/ op = "Register" /\ BeginRegister(c, act)
  \/ op \in {"GetLk", "SetLk"} /\ BeginLk(c, op, id, act)
  \/ op = "SetLkw" /\ Detach(c, id, act)
  \/ op = "Unregister" /\ BeginDrop(c, id)

Continues(c) ==
  \/ BeginSetLkw(c) \/ EndSimple(c) \/ FirstReply(c) \/ SecondReply(c) \/ WaitInterrupted(c)
  \/ InterruptReply(c) \/ InterruptFailed(c) \/ RemoveReply(c) \/ Leave(c) \/ RefusedDone(c)

ClientTypeOK ==
  /\ calls \in 0 .. MaxCalls
  /\ cpc \in [Clients -> Simple \cup Detached \cup {"idle", "gone", "refused"}]
  /\ tracker \in {"open", "stopping", "stopped"}
  /\ stop \in [Clients -> BOOLEAN]
  /\ \A c \in Clients : {call[c].o, call[c].nested} \subseteq Oneshots \cup {0}
=============================================================================
