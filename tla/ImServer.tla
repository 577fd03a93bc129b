------------------------------ MODULE ImServer ------------------------------
(***************************************************************************)
(* The message server of im/src/server.rs as the inner processor of        *)
(* Presence: what Server::process does with the packets of logged-in       *)
(* connections, over the maps that Presence keeps.                         *)
(*                                                                         *)
(* A message is routed by the map of local contexts, gets a request id     *)
(* from the counter of the connection it goes to, is sent by sync_send and *)
(* is acknowledged to its sender, if the acknowledgement gets into the     *)
(* sender's channel.  The counters are behind one lock.  When              *)
(* gen_request_id finds no counter it asks for the lock that it holds, so  *)
(* the task waits for itself: it has no step from "relock", and nobody     *)
(* gets the lock any more.  What sync_send does is in SyncMessage: here it *)
(* succeeds when the other client acknowledges the message, or fails, or   *)
(* waits for ever behind a write that does not end.                        *)
(***************************************************************************)
EXTENDS Presence, Naturals

CONSTANT MaxId  \* the first request id, u64::MAX in the code

ASSUME MaxIdAssumption == MaxId \in Nat \ {0}

VARIABLES
  counter,   \* request_counter: the next id of each connection
  lock,      \* the task that keeps the lock of request_counter
  message,   \* progress of the message of each task
  dest,      \* the connection it goes to
  id,        \* its request id
  forgotten  \* connections for which Server::disconnected has run

serverVars == <<counter, lock, message, dest, id, forgotten>>
vars == <<presVars, serverVars>>

NoId == MaxId + 1

Progress ==
  {"none", "located", "relock", "sending", "ok", "failed", "acked", "unacked"}

ServerTypeOK ==
  /\ PresTypeOK
  /\ counter \in [Conn -> 0 .. NoId]
  /\ lock \in Task \cup {None}
  /\ message \in [Task -> Progress]
  /\ dest \in [Task -> Conn \cup {None}]
  /\ id \in [Task -> 0 .. NoId]
  /\ forgotten \subseteq Conn
  /\ \A t \in Task : message[t] \in {"located", "relock", "sending"} =>
       stage[t] = "inner" /\ dest[t] \in Conn
  /\ lock # None => message[lock] = "relock"

Init ==
  /\ PresInit
  /\ counter = [c \in Conn |-> NoId]
  /\ lock = None
  /\ message = [t \in Task |-> "none"]
  /\ dest = [t \in Task |-> None]
  /\ id = [t \in Task |-> NoId]
  /\ forgotten = {}

-----------------------------------------------------------------------------
(* Server::process *)

Say(t, m) == message' = [message EXCEPT ![t] = m]

(* Faulty variant: the counter is not put under the connection. *)
CountNowhere(t) ==
  /\ kind[t] = "login"
  /\ lock = None
  /\ InnerProcess(t)
  /\ UNCHANGED <<counter, lock, message, dest, id, forgotten>>

(* The Login arm: a counter, new even when there was one. *)
StartCounter(t) ==
  /\ kind[t] = "login"
  /\ lock = None
  /\ counter' = [counter EXCEPT ![on[t]] = MaxId]
  /\ InnerProcess(t)
  /\ UNCHANGED <<lock, message, dest, id, forgotten>>

(* Any other payload than a message is ignored. *)
Ignore(t) ==
  /\ kind[t] = "other"
  /\ message[t] = "none"
  /\ InnerProcess(t)
  /\ UNCHANGED serverVars

(* A message to user u: get_context finds where he is, or send fails. *)
Route(t, u) ==
  /\ stage[t] = "inner"
  /\ kind[t] = "other"
  /\ message[t] = "none"
  /\ Say(t, IF contexts[u] = None THEN "failed" ELSE "located")
  /\ dest' = [dest EXCEPT ![t] = contexts[u]]
  /\ UNCHANGED <<presVars, counter, lock, id, forgotten>>

(* Faulty variant: the counter is read, not decremented. *)
ReuseId(t) ==
  /\ message[t] = "located"
  /\ lock = None
  /\ counter[dest[t]] # NoId
  /\ id' = [id EXCEPT ![t] = counter[dest[t]]]
  /\ Say(t, "sending")
  /\ UNCHANGED <<presVars, counter, lock, dest, forgotten>>

(* gen_request_id: fetch_sub, which wraps around at zero. *)
GenId(t) ==
  /\ message[t] = "located"
  /\ lock = None
  /\ counter[dest[t]] # NoId
  /\ id' = [id EXCEPT ![t] = counter[dest[t]]]
  /\ counter' = [counter EXCEPT ![dest[t]] = IF @ = 0 THEN MaxId ELSE @ - 1]
  /\ Say(t, "sending")
  /\ UNCHANGED <<presVars, lock, dest, forgotten>>

(* gen_request_id: no counter.  The guard of the first lock is still alive *)
(* when the second lock is awaited.                                        *)
GenIdStuck(t) ==
  /\ message[t] = "located"
  /\ lock = None
  /\ counter[dest[t]] = NoId
  /\ lock' = t
  /\ Say(t, "relock")
  /\ UNCHANGED <<presVars, counter, dest, id, forgotten>>

(* sync_send returns the client's MessageCliAck. *)
Delivered(t) ==
  /\ message[t] = "sending"
  /\ Say(t, "ok")
  /\ UNCHANGED <<presVars, counter, lock, dest, id, forgotten>>

(* sync_send fails or times out, or the client answers with something else. *)
NotDelivered(t) ==
  /\ message[t] = "sending"
  /\ Say(t, "failed")
  /\ UNCHANGED <<presVars, counter, lock, dest, id, forgotten>>

(* process_message is Ok whatever send returned, so a MessageSrvAck waits  *)
(* for room in the channel of the sender's connection and is accepted ...  *)
Ack(t) ==
  /\ message[t] \in {"ok", "failed"}
  /\ conn[on[t]] # "gone"
  /\ Say(t, "acked")
  /\ InnerProcess(t)
  /\ UNCHANGED <<counter, lock, dest, id, forgotten>>

(* ... or comes back because that connection is gone, which is ignored.    *)
AckRefused(t) ==
  /\ message[t] \in {"ok", "failed"}
  /\ conn[on[t]] = "gone"
  /\ Say(t, "unacked")
  /\ InnerProcess(t)
  /\ UNCHANGED <<counter, lock, dest, id, forgotten>>

(* Server::disconnected, after that of StateSupportProcessor. *)
Forget(c) ==
  /\ ForwardsDisconnect
  /\ handler[c] = "done"
  /\ c \notin forgotten
  /\ lock = None
  /\ counter' = [counter EXCEPT ![c] = NoId]
  /\ forgotten' = forgotten \cup {c}
  /\ UNCHANGED <<presVars, lock, message, dest, id>>

-----------------------------------------------------------------------------
(* What waits for nothing but the lock. *)
Work(t) ==
  \/ StartCounter(t)
  \/ Ignore(t)
  \/ \E u \in User : Route(t, u)
  \/ GenId(t)
  \/ GenIdStuck(t)

(* What waits for a channel or for a client. *)
Await(t) == Delivered(t) \/ NotDelivered(t) \/ Ack(t) \/ AckRefused(t)

ServerStep(t) == Work(t) \/ Await(t)

Next ==
  \/ PresStep /\ UNCHANGED serverVars
  \/ \E t \in Task : ServerStep(t)
  \/ \E c \in Conn : Forget(c)

Spec == Init /\ [][Next]_vars

(* Spawned tasks run.  The lock is fair (tokio's Mutex queues its waiters), *)
(* so a task that wants it gets it if it is released again and again.       *)
(* Nothing is assumed of sends: sync_send and Context::send may wait for    *)
(* ever where a connection is stuck in a write (Duplex).                    *)
FairSpec ==
  /\ Spec
  /\ PresFairness
  /\ \A t \in Task : SF_vars(Work(t))

-----------------------------------------------------------------------------
(* Properties *)

HandledLogin(t, c) == kind[t] = "login" /\ on[t] = c /\ stage[t] = "done"

(* One login at most was handled on c. *)
OneLogin(c) == \A s, t \in Task : HandledLogin(s, c) /\ HandledLogin(t, c) => s = t

(* Messages to one connection get different request ids, so that its map   *)
(* of waiting calls holds them side by side, unless a second login on it   *)
(* restarted the counter.                                                  *)
IdsDiffer ==
  \A s, t \in Task :
    s # t /\ dest[s] = dest[t] /\ id[s] # NoId /\ OneLogin(dest[t]) => id[s] # id[t]

(* The counters' lock is lost only to a message for a connection that is   *)
(* registered by its login's update while the login itself has not reached *)
(* the server: when one login on it was handled, messages to it are safe.  *)
StuckOnlyDuringLogin ==
  lock # None /\ ~ForwardsDisconnect =>
    \A t \in Task : kind[t] = "login" /\ on[t] = dest[lock] => stage[t] # "done"

(* The purpose of the program: messages of concurrent clients are passed   *)
(* on.  A message whose receiver was found gets a request id and is given  *)
(* to sync_send.                                                           *)
MessagesAreSent == \A t \in Task : message[t] = "located" ~> message[t] = "sending"

=============================================================================
