------------------------------- MODULE Channels -------------------------------
(***************************************************************************)
(* src/src/messages.rs: the socket between the filesystem daemon and one   *)
(* owner process, and the oneshot socket pairs that carry the replies.     *)
(*                                                                         *)
(* A request is one sendmsg under the communication mutex, so requests     *)
(* arrive whole and in order. The request carries one end of a fresh       *)
(* oneshot; the server writes any number of replies to it and closes it,   *)
(* the client reads replies until end of file. Framing and encoding are    *)
(* abstracted: a message is a record.                                      *)
(***************************************************************************)
EXTENDS Naturals, Sequences, FiniteSets

CONSTANTS MaxOneshots   \* how many oneshot pairs exist at a time

ASSUME ChannelsAssumption == MaxOneshots \in Nat

VARIABLES
  sock,         \* requests sent and not yet received
  client_open,  \* the daemon holds its end of the socket
  server_open,  \* the owner process lives and holds its end
  oneshot       \* the oneshot pairs: q unread replies, tx the server's end
                \* is open (in the process or in flight), rx the client's is

channelVars == <<sock, client_open, server_open, oneshot>>

Oneshots == 1 .. MaxOneshots

Closed == [q |-> << >>, tx |-> FALSE, rx |-> FALSE]

ChannelsInit ==
  /\ sock = << >>
  /\ client_open = TRUE /\ server_open = TRUE
  /\ oneshot = [o \in Oneshots |-> Closed]

(* A request: the RawMessage and the end of the oneshot that comes with    *)
(* it. A LockCommand is named by its LockAction. Register brings a file.   *)
Request(op, id, act, o) == [op |-> op, id |-> id, act |-> act, o |-> o]

FdsOf(op) == IF op = "Register" THEN 2 ELSE 1

(* A reply is a tag, the variant or the errno, and the id or the lock type *)
(* it carries.                                                             *)
R(tag) == [tag |-> tag, val |-> 0, type |-> "Unlock"]
Pending(id) == [R("Pending") EXCEPT !.val = id]
Registered(id) == [R("Ok") EXCEPT !.val = id]
Done(type) == [R("Done") EXCEPT !.type = type]

(* socketpair() in send_request_iter_with_fds.                             *)
Unused == {o \in Oneshots : oneshot[o] = Closed}
Fresh  == CHOOSE o \in Unused : TRUE

(* send_raw_message(): the request and its oneshot leave together.         *)
SendRequest(o, req) ==
  /\ sock' = Append(sock, req)
  /\ oneshot' = [oneshot EXCEPT ![o] = [q |-> << >>, tx |-> TRUE, rx |-> TRUE]]
  /\ UNCHANGED <<client_open, server_open>>

(* Reply::reply(): one reply; the error of a reader that is gone is        *)
(* ignored.                                                                *)
Replied(o, r) ==
  IF oneshot[o].rx THEN [oneshot EXCEPT ![o].q = Append(@, r)] ELSE oneshot

(* The reply object is dropped, and with it the server's end.              *)
Hushed(o) == [oneshot EXCEPT ![o].tx = FALSE]

(* create_reply(fd).reply(r): one reply, then the temporary is dropped.    *)
Answered(o, r) == [Replied(o, r) EXCEPT ![o].tx = FALSE]

(* ReplyIterator::next(): the next reply, or end of file.                  *)
HasReply(o)  == oneshot[o].q # << >>
NextReply(o) == Head(oneshot[o].q)
AtEof(o)     == oneshot[o].q = << >> /\ ~oneshot[o].tx

(* The client takes a reply and keeps the iterator, or drops the iterator. *)
Taken(o)   == [oneshot EXCEPT ![o].q = Tail(@)]
Dropped(o) == [oneshot EXCEPT ![o] = [q |-> << >>, tx |-> @.tx, rx |-> FALSE]]
=============================================================================
