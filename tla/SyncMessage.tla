---------------------------- MODULE SyncMessage ----------------------------
(***************************************************************************)
(* Requests and replies over one connection, as                            *)
(* connect/src/extract/sync_message.rs does them on top of Connector.      *)
(*                                                                         *)
(* Context::sync_send puts a oneshot sender in the map SYNC_NOTIFY under   *)
(* the packet's request id, sends the packet and waits for the oneshot for *)
(* three seconds.  SyncMessageProcessor::process, in the task of an        *)
(* incoming packet, removes the sender registered under the packet's id    *)
(* and sends the packet to it, or gives the packet to the inner processor  *)
(* when there is none.                                                     *)
(*                                                                         *)
(* Here the packets of Call are sent by sync_send and the other packets of *)
(* Outgoing by plain Context::send.  The ids are the caller's choice; two  *)
(* calls of one connection may have the same id, since im/src/server.rs    *)
(* restarts the ids of a user at every login.  The arms for a missing      *)
(* SYNC_NOTIFY have no action: connected() puts it before any caller can   *)
(* hold the Context.                                                       *)
(***************************************************************************)
EXTENDS Connector

CONSTANTS
  Call,       \* the packets sent by sync_send
  RequestId,  \* the request ids
  NoCall      \* stands for no entry, no sender

ASSUME CallAssumption == Call \subseteq Outgoing
ASSUME RequestIdAssumption == RequestId # {}
ASSUME NoCallAssumption == NoCall \notin Call \cup Incoming
ASSUME SlotAssumption == {"empty", "dropped"} \cap Incoming = {}

VARIABLES
  rid,      \* the request id of each call's packet
  replyId,  \* the request id of each incoming packet
  notify,   \* SYNC_NOTIFY: the call whose oneshot sender is under each id
  held,     \* the call whose sender the task of each packet has removed
  slot,     \* the oneshot of each call: "empty", "dropped" or the reply
  outcome,  \* how sync_send ended
  inner     \* the packets given to the inner processor

syncVars == <<rid, replyId, notify, held, slot, outcome, inner>>
vars == <<connVars, syncVars>>

SyncTypeOK ==
  /\ ConnTypeOK
  /\ rid \in [Call -> RequestId]
  /\ replyId \in [Incoming -> RequestId]
  /\ notify \in [RequestId -> Call \cup {NoCall}]
  /\ held \in [Incoming -> Call \cup {NoCall}]
  /\ slot \in [Call -> {"empty", "dropped"} \cup Incoming]
  /\ outcome \in [Call -> {"idle", "pending", "ok", "disconnected", "timeout"}]
  /\ inner \subseteq Incoming

(* The ids before they are first used do not matter: any one will do. *)
SomeId == CHOOSE r \in RequestId : TRUE

SyncInit ==
  /\ ConnInit
  /\ rid = [c \in Call |-> SomeId]
  /\ replyId = [i \in Incoming |-> SomeId]
  /\ notify = [r \in RequestId |-> NoCall]
  /\ held = [i \in Incoming |-> NoCall]
  /\ slot = [c \in Call |-> "empty"]
  /\ outcome = [c \in Call |-> "idle"]
  /\ inner = {}

-----------------------------------------------------------------------------
(* Context::sync_send *)

(* A sender that goes out of the map unused is dropped: its call sees that. *)
SlotsAfterLosing(d) ==
  IF d \in Call THEN [slot EXCEPT ![d] = "dropped"] ELSE slot

(* Faulty variant: the entry is left to be inserted after the send. *)
RegisterAfterSend(c, r) ==
  /\ loop # "connecting"
  /\ SendStart(c)
  /\ rid' = [rid EXCEPT ![c] = r]
  /\ outcome' = [outcome EXCEPT ![c] = "pending"]
  /\ UNCHANGED <<replyId, notify, held, slot, inner>>

(* The entry is inserted, in place of any other under the same id, and the *)
(* call enters Context::send.                                              *)
Register(c, r) ==
  /\ loop # "connecting"
  /\ SendStart(c)
  /\ rid' = [rid EXCEPT ![c] = r]
  /\ outcome' = [outcome EXCEPT ![c] = "pending"]
  /\ notify' = [notify EXCEPT ![r] = c]
  /\ slot' = SlotsAfterLosing(notify[r])
  /\ UNCHANGED <<replyId, held, inner>>

(* Faulty variant: the entry is forgotten when the send fails. *)
LeaveEntry(c) ==
  /\ outcome[c] = "pending"
  /\ sender[c] = "failed"
  /\ outcome' = [outcome EXCEPT ![c] = "disconnected"]
  /\ UNCHANGED <<connVars, rid, replyId, notify, held, slot, inner>>

(* Context::send gave the packet back: whatever is under its id goes. *)
Deregister(c) ==
  /\ outcome[c] = "pending"
  /\ sender[c] = "failed"
  /\ notify' = [notify EXCEPT ![rid[c]] = NoCall]
  /\ slot' = SlotsAfterLosing(notify[rid[c]])
  /\ outcome' = [outcome EXCEPT ![c] = "disconnected"]
  /\ UNCHANGED <<connVars, rid, replyId, held, inner>>

(* The packet is in the send channel and the call awaits its oneshot. *)
Waiting(c) == outcome[c] = "pending" /\ sender[c] = "sent"

Return(c, how) ==
  /\ Waiting(c)
  /\ outcome' = [outcome EXCEPT ![c] = how]
  /\ UNCHANGED <<connVars, rid, replyId, notify, held, slot, inner>>

ReturnReply(c) == slot[c] \in Incoming /\ Return(c, "ok")

ReturnDropped(c) == slot[c] = "dropped" /\ Return(c, "disconnected")

(* The three seconds elapse; timeout() looks at the oneshot first.  The *)
(* entry stays in the map.                                              *)
Timeout(c) == slot[c] = "empty" /\ Return(c, "timeout")

-----------------------------------------------------------------------------
(* SyncMessageProcessor::process, in the task of packet i *)

(* The select loop reads packet i, which bears id r. *)
ReceiveWithId(i, r) ==
  /\ Receive(i)
  /\ replyId' = [replyId EXCEPT ![i] = r]
  /\ UNCHANGED <<rid, notify, held, slot, outcome, inner>>

(* Faulty variant: replies are matched by arrival, not by their ids. *)
TakeAnyEntry(i) ==
  /\ task[i] = "spawned"
  /\ held[i] = NoCall
  /\ \E r \in RequestId :
       /\ notify[r] \in Call
       /\ held' = [held EXCEPT ![i] = notify[r]]
       /\ notify' = [notify EXCEPT ![r] = NoCall]
  /\ UNCHANGED <<connVars, rid, replyId, slot, outcome, inner>>

(* The sender under the packet's id is removed, under the map's lock. *)
TakeEntry(i) ==
  /\ task[i] = "spawned"
  /\ held[i] = NoCall
  /\ notify[replyId[i]] \in Call
  /\ held' = [held EXCEPT ![i] = notify[replyId[i]]]
  /\ notify' = [notify EXCEPT ![replyId[i]] = NoCall]
  /\ UNCHANGED <<connVars, rid, replyId, slot, outcome, inner>>

(* notify.send(packet): without effect once the call has returned. *)
Deliver(i) ==
  /\ held[i] \in Call
  /\ Process(i)
  /\ slot' = IF outcome[held[i]] = "pending"
               THEN [slot EXCEPT ![held[i]] = i]
               ELSE slot
  /\ held' = [held EXCEPT ![i] = NoCall]
  /\ UNCHANGED <<rid, replyId, notify, outcome, inner>>

(* Nobody is registered under the packet's id. *)
PassInner(i) ==
  /\ held[i] = NoCall
  /\ notify[replyId[i]] = NoCall
  /\ Process(i)
  /\ inner' = inner \cup {i}
  /\ UNCHANGED <<rid, replyId, notify, held, slot, outcome>>

-----------------------------------------------------------------------------
CallStep(c) ==
  \/ Deregister(c)
  \/ ReturnReply(c)
  \/ ReturnDropped(c)
  \/ Timeout(c)

TaskStep(i) == TakeEntry(i) \/ Deliver(i) \/ PassInner(i)

(* What Connector does without this layer taking part. *)
ConnStep ==
  /\ \/ Connected
     \/ TakeOutgoing
     \/ WriteDone
     \/ WriteError
     \/ ReadError
     \/ ShutdownSignal
     \/ Disconnected
     \/ \E k \in Closer : CloseStep(k)
     \/ \E o \in Outgoing \ Call : SendStart(o)
     \/ \E o \in Outgoing : SendAccepted(o) \/ SendRefused(o)
  /\ UNCHANGED syncVars

Next ==
  \/ ConnStep
  \/ \E c \in Call, r \in RequestId : Register(c, r)
  \/ \E c \in Call : CallStep(c)
  \/ \E i \in Incoming, r \in RequestId : ReceiveWithId(i, r)
  \/ \E i \in Incoming : TaskStep(i)

Spec == SyncInit /\ [][Next]_vars

(* Connector's fairness, which lets a write last for ever; a spawned task  *)
(* runs; a call that can return does, by its timer if by nothing else.     *)
FairSpec ==
  /\ Spec
  /\ ConnFairness
  /\ \A c \in Call : WF_vars(CallStep(c))
  /\ \A i \in Incoming : WF_vars(TaskStep(i))

-----------------------------------------------------------------------------
(* Properties *)

RR == INSTANCE RequestReply
        WITH Reply   <- Incoming,
             Id      <- RequestId,
             NoReply <- NoCall,
             asked   <- rid,
             heard   <- replyId,
             answer  <- [c \in Call |-> IF outcome[c] = "ok" THEN slot[c] ELSE NoCall],
             down    <- ~Alive

(* Whatever the order of sends, replies, timeouts and ids used twice, a    *)
(* call ends once: with a reply that bears its id and answers nobody else, *)
(* by its timer, or with Disconnected, which it gets only when the loop    *)
(* has returned or another call used its id (sync_send, process).          *)
ImplementsRequestReply == RR!Spec

(* A call that waits for a reply can still get one: its oneshot sender is  *)
(* registered under its id or in the hands of the task of a packet with    *)
(* that id, and in one of these places only.  Otherwise it would sit out   *)
(* its three seconds whatever the peer does (the insert in sync_send       *)
(* against the remove in process).                                         *)
WaitingIsReachable ==
  \A c \in Call : Waiting(c) /\ slot[c] = "empty" =>
    LET tasks == {i \in Incoming : held[i] = c}
    IN  \/ notify[rid[c]] = c /\ tasks = {}
        \/ notify[rid[c]] # c /\ \E i \in tasks : tasks = {i} /\ replyId[i] = rid[c]

(* The packets that this step gives to the inner processor are nobody's    *)
(* reply, or come second.                                                  *)
OnlyUnsolicited ==
  \A i \in inner' \ inner, c \in Call :
    Waiting(c) /\ rid[c] = replyId[i] =>
      slot[c] # "empty" \/ \E j \in Incoming \ {i} : held[j] = c

(* A reply is not taken for a request: a packet that bears the id of a     *)
(* waiting call reaches the inner processor only when another packet with  *)
(* that id got there first and is about to be, or was, delivered.          *)
RepliesStayOutOfInner == [][OnlyUnsolicited]_vars

(* SYNC_NOTIFY keeps the entries of calls in progress and, since a timeout *)
(* does not remove its entry, of calls that timed out; a call that ended   *)
(* with a reply or with Disconnected leaves nothing behind.                *)
OnlyTimeoutsLeaveEntries ==
  \A r \in RequestId : notify[r] # NoCall =>
    rid[notify[r]] = r /\ outcome[notify[r]] \in {"pending", "timeout"}

Ended(c) == outcome[c] \in {"ok", "disconnected", "timeout"}

(* The call is in Context::send and waits for a write to make room. *)
Stuck(c) == sender[c] = "sending" /\ loop = "writing" /\ Len(channel) = ChannelCap

(* A sync_send returns, also when the loop does while it is in Context::   *)
(* send or when other senders get the room that it waits for, and whatever *)
(* becomes of the write of its own packet or of those before it; unless it *)
(* is stuck for good in Context::send, which the timer does not cover,     *)
(* behind a full channel and a write that never ends.                      *)
CallsReturn ==
  \A c \in Call : []<>~Stuck(c) => (outcome[c] = "pending" ~> Ended(c))

(* What the comment in disconnected says: when the connection is lost the  *)
(* map is dropped, so a call whose entry is still in it ends disconnected  *)
(* (or with a reply that had been read before), not by its timer.          *)
LossWakesCallers ==
  \A c \in Call :
    loop = "finished" /\ Waiting(c) /\ notify[rid[c]] = c
      ~> outcome[c] \in {"ok", "disconnected"}

=============================================================================
