------------------------- MODULE SyncMessageProofs -------------------------
(***************************************************************************)
(* What TLAPS proves of SyncMessage, for all sets of packets, calls and    *)
(* ids: the three invariants, the action property and the refinement of    *)
(* RequestReply that the runs check on small instances.                    *)
(***************************************************************************)
EXTENDS SyncMessage, ConnectorProofs

-----------------------------------------------------------------------------
(* The inductive invariant, part by part.                                  *)

(* A call is idle until it is registered; a send fails when the loop is gone. *)
SendersInv ==
  \A c \in Call :
    /\ outcome[c] = "idle" <=> sender[c] = "idle"
    /\ outcome[c] = "idle" => slot[c] = "empty"
    /\ sender[c] = "failed" => ~Alive

(* An entry of the map is that of a call that asked under this id and whose *)
(* oneshot is untouched.                                                    *)
EntriesInv ==
  \A r \in RequestId : notify[r] \in Call =>
    /\ rid[notify[r]] = r
    /\ slot[notify[r]] = "empty"
    /\ outcome[notify[r]] \in {"pending", "timeout"}

(* So is a sender that a task has taken; it is no longer in the map, and no *)
(* other task has it.                                                       *)
HeldInv ==
  \A i \in Incoming : held[i] \in Call =>
    /\ task[i] = "spawned"
    /\ replyId[i] = rid[held[i]]
    /\ slot[held[i]] = "empty"
    /\ outcome[held[i]] \notin {"idle", "ok"}
    /\ notify[replyId[i]] # held[i]
    /\ \A j \in Incoming : held[j] = held[i] => j = i

(* A call whose oneshot is untouched has a sender somewhere. *)
ReachInv ==
  \A c \in Call : outcome[c] = "pending" /\ slot[c] = "empty" =>
    notify[rid[c]] = c \/ \E i \in Incoming : held[i] = c

(* A reply in a oneshot bears the call's id and is in no other oneshot. *)
RepliesInv ==
  \A c \in Call :
    /\ slot[c] \in Incoming =>
         /\ replyId[slot[c]] = rid[c]
         /\ task[slot[c]] = "processed"
         /\ \A d \in Call : slot[d] = slot[c] => d = c
    /\ outcome[c] = "ok" => slot[c] \in Incoming

(* A oneshot whose sender was dropped has one of two causes. *)
DroppedInv ==
  \A c \in Call : slot[c] = "dropped" => ~Alive \/ RR!SharesId(c)

SyncInv ==
  /\ ConnInv
  /\ SyncTypeOK
  /\ SendersInv
  /\ EntriesInv
  /\ HeldInv
  /\ ReachInv
  /\ RepliesInv
  /\ DroppedInv

-----------------------------------------------------------------------------
(* Every step is one of Connector, or leaves the connection alone. *)
LEMMA StepsOfConnector == [Next]_vars => [ConnNext]_connVars
<1> SUFFICES ASSUME [Next]_vars PROVE [ConnNext]_connVars
  OBVIOUS
<1>1. CASE ConnStep
  BY <1>1 DEF ConnStep, ConnNext, LoopStep, SendStep
<1>2. ASSUME NEW c \in Call, NEW r \in RequestId, Register(c, r) PROVE ConnNext
  BY <1>2, CallAssumption DEF Register, ConnNext, SendStep
<1>3. ASSUME NEW c \in Call, CallStep(c) PROVE UNCHANGED connVars
  BY <1>3 DEF CallStep, Deregister, ReturnReply, ReturnDropped, Timeout, Return
<1>4. ASSUME NEW i \in Incoming, NEW r \in RequestId, ReceiveWithId(i, r) PROVE ConnNext
  BY <1>4 DEF ReceiveWithId, ConnNext, LoopStep
<1>5. ASSUME NEW i \in Incoming, TaskStep(i) PROVE [ConnNext]_connVars
  BY <1>5 DEF TaskStep, TakeEntry, Deliver, PassInner, ConnNext
<1>6. CASE UNCHANGED vars
  BY <1>6 DEF vars
<1> QED
  BY <1>1, <1>2, <1>3, <1>4, <1>5, <1>6 DEF Next

(* What the steps that do not concern this layer may do to what it reads. *)
LEMMA ConnFrame ==
  ASSUME ConnTypeOK, ConnStep
  PROVE  /\ task' = task
         /\ ~Alive => ~Alive'
         /\ \A c \in Call : sender[c] = "idle" <=> sender'[c] = "idle"
         /\ \A c \in Call : sender'[c] = "failed" => sender[c] = "failed" \/ ~Alive
<1> USE DEF Alive, ConnTypeOK
<1>1. CASE Connected
  BY <1>1 DEF Connected
<1>2. CASE TakeOutgoing
  BY <1>2 DEF TakeOutgoing
<1>3. CASE WriteDone
  BY <1>3 DEF WriteDone
<1>4. CASE WriteError \/ ReadError \/ ShutdownSignal
  BY <1>4 DEF WriteError, ReadError, ShutdownSignal, ReturnFromLoop
<1>5. CASE Disconnected
  BY <1>5 DEF Disconnected
<1>6. ASSUME NEW k \in Closer, CloseStep(k) PROVE UNCHANGED <<task, loop, sender>>
  BY <1>6 DEF CloseStep, CloseStart, CloseAccepted, CloseRefused
<1>7. ASSUME NEW o \in Outgoing \ Call, SendStart(o)
      PROVE  UNCHANGED <<task, loop>> /\ \A c \in Call : sender'[c] = sender[c]
  BY <1>7, CallAssumption DEF SendStart
<1>8. ASSUME NEW o \in Outgoing, SendAccepted(o) \/ SendRefused(o)
      PROVE  /\ UNCHANGED <<task, loop>>
             /\ \A c \in Call : sender[c] = "idle" <=> sender'[c] = "idle"
             /\ \A c \in Call : sender'[c] = "failed" => sender[c] = "failed" \/ ~Alive
  BY <1>8, CallAssumption DEF SendAccepted, SendRefused
<1> QED
  BY <1>1, <1>2, <1>3, <1>4, <1>5, <1>6, <1>7, <1>8 DEF ConnStep

(* The initial state. *)
LEMMA SyncInitInv == SyncInit => SyncInv
<1> SUFFICES ASSUME SyncInit PROVE SyncInv
  OBVIOUS
<1>1. ConnInv
  BY ConnInitInv DEF SyncInit
<1>2. SyncTypeOK
  BY <1>1, RequestIdAssumption DEF SyncInit, SomeId, SyncTypeOK, ConnInv
<1>3. SendersInv
  BY CallAssumption DEF SyncInit, ConnInit, SendersInv
<1>4. EntriesInv /\ HeldInv /\ ReachInv /\ RepliesInv /\ DroppedInv
  BY NoCallAssumption, SlotAssumption
     DEF SyncInit, EntriesInv, HeldInv, ReachInv, RepliesInv, DroppedInv
<1> QED
  BY <1>1, <1>2, <1>3, <1>4 DEF SyncInv

(* The part of the invariant that this layer adds. *)
LayerInv ==
  SendersInv /\ EntriesInv /\ HeldInv /\ ReachInv /\ RepliesInv /\ DroppedInv

-----------------------------------------------------------------------------
(* One lemma for each action: it preserves the types and the layer's parts. *)

LEMMA ConnStepLayer ==
  ASSUME SyncInv, ConnStep
  PROVE  LayerInv'
<1> USE DEF SyncInv, syncVars
<1>1. UNCHANGED syncVars
  BY DEF ConnStep
<1>2. /\ task' = task
      /\ ~Alive => ~Alive'
      /\ \A c \in Call : sender[c] = "idle" <=> sender'[c] = "idle"
      /\ \A c \in Call : sender'[c] = "failed" => sender[c] = "failed" \/ ~Alive
  BY ConnFrame DEF ConnInv
<1>3. SendersInv'
  BY <1>1, <1>2 DEF SendersInv
<1>4. EntriesInv' /\ ReachInv'
  BY <1>1 DEF EntriesInv, ReachInv
<1>5. HeldInv' /\ RepliesInv'
  BY <1>1, <1>2 DEF HeldInv, RepliesInv
<1>6. DroppedInv'
  BY <1>1, <1>2 DEF DroppedInv, RR!SharesId
<1> QED
  BY <1>3, <1>4, <1>5, <1>6 DEF LayerInv

LEMMA RegisterLayer ==
  ASSUME SyncInv, NEW c \in Call, NEW r \in RequestId, Register(c, r)
  PROVE  SyncTypeOK' /\ LayerInv'
<1> USE DEF SyncInv, SyncTypeOK
<1>1. /\ outcome[c] = "idle" /\ outcome' = [outcome EXCEPT ![c] = "pending"]
      /\ sender[c] = "idle" /\ sender' = [sender EXCEPT ![c] = "sending"]
      /\ slot[c] = "empty" /\ slot' = SlotsAfterLosing(notify[r])
      /\ rid' = [rid EXCEPT ![c] = r]
      /\ notify' = [notify EXCEPT ![r] = c]
      /\ UNCHANGED <<loop, task, replyId, held, inner>>
  BY DEF Register, SendStart, SendersInv
<1>2. slot' \in [Call -> {"empty", "dropped"} \cup Incoming]
  BY <1>1 DEF SlotsAfterLosing
<1>3. ConnTypeOK'
  BY ConnNextInv, StepsOfConnector DEF Next, ConnInv
<1>4. \A d \in Call : slot'[d] = IF d = notify[r] THEN "dropped" ELSE slot[d]
  BY <1>1 DEF SlotsAfterLosing
<1>5. \A q \in RequestId : notify[q] # c
  BY <1>1 DEF EntriesInv
<1>6. \A i \in Incoming : held[i] # c
  BY <1>1 DEF HeldInv
<1> USE CallAssumption, NoCallAssumption, SlotAssumption
<1>7. sender \in [Outgoing -> {"idle", "sending", "sent", "failed"}]
  BY DEF ConnTypeOK
<1>8. SendersInv'
  BY <1>1, <1>4, <1>7, <1>5 DEF SendersInv, EntriesInv, Alive
<1>9. EntriesInv'
  BY <1>1, <1>4, <1>5 DEF EntriesInv
<1>10. HeldInv'
  BY <1>1, <1>4, <1>6 DEF HeldInv, EntriesInv
<1>11. ReachInv'
  BY <1>1, <1>4 DEF ReachInv
<1>12. RepliesInv'
  BY <1>1, <1>4, <1>5 DEF RepliesInv, EntriesInv
<1>13. DroppedInv'
  BY <1>1, <1>4, <1>5 DEF DroppedInv, EntriesInv, Alive, RR!SharesId
<1> QED
  BY <1>1, <1>2, <1>3, <1>8, <1>9, <1>10, <1>11, <1>12, <1>13 DEF LayerInv

LEMMA DeregisterLayer ==
  ASSUME SyncInv, NEW c \in Call, Deregister(c)
  PROVE  SyncTypeOK' /\ LayerInv'
<1> USE CallAssumption, NoCallAssumption, SlotAssumption DEF SyncInv, SyncTypeOK
<1> DEFINE d == notify[rid[c]]
<1>1. /\ outcome[c] = "pending" /\ outcome' = [outcome EXCEPT ![c] = "disconnected"]
      /\ sender[c] = "failed"
      /\ slot' = SlotsAfterLosing(d)
      /\ notify' = [notify EXCEPT ![rid[c]] = NoCall]
      /\ UNCHANGED <<rid, loop, sender, task, replyId, held, inner>>
  BY DEF Deregister, connVars
<1>2. ConnTypeOK'
  BY ConnNextInv, StepsOfConnector DEF Next, ConnInv, CallStep
<1>3. ~Alive /\ ~Alive'
  BY <1>1 DEF SendersInv, Alive
<1>4. \A e \in Call : slot'[e] = IF e = d THEN "dropped" ELSE slot[e]
  BY <1>1 DEF SlotsAfterLosing
<1>5. slot' \in [Call -> {"empty", "dropped"} \cup Incoming]
  BY <1>1 DEF SlotsAfterLosing
<1>6. SendersInv'
  BY <1>1, <1>3, <1>4 DEF SendersInv, EntriesInv
<1>7. EntriesInv'
  BY <1>1, <1>4 DEF EntriesInv
<1>8. HeldInv'
  BY <1>1, <1>4 DEF HeldInv, EntriesInv
<1>9. ReachInv'
  BY <1>1, <1>4 DEF ReachInv
<1>10. RepliesInv'
  BY <1>1, <1>4 DEF RepliesInv, EntriesInv
<1>11. DroppedInv'
  BY <1>3 DEF DroppedInv
<1> QED
  BY <1>1, <1>2, <1>5, <1>6, <1>7, <1>8, <1>9, <1>10, <1>11 DEF LayerInv

LEMMA ReturnLayer ==
  ASSUME SyncInv, NEW c \in Call, ReturnReply(c) \/ ReturnDropped(c) \/ Timeout(c)
  PROVE  SyncTypeOK' /\ LayerInv'
<1> USE CallAssumption, NoCallAssumption, SlotAssumption DEF SyncInv, SyncTypeOK
<1>1. PICK how : /\ Return(c, how)
                 /\ \/ how = "ok" /\ slot[c] \in Incoming
                    \/ how = "disconnected" /\ slot[c] = "dropped"
                    \/ how = "timeout" /\ slot[c] = "empty"
  BY DEF ReturnReply, ReturnDropped, Timeout
<1>2. /\ outcome[c] = "pending" /\ outcome' = [outcome EXCEPT ![c] = how]
      /\ UNCHANGED <<connVars, rid, replyId, notify, held, slot, inner>>
  BY <1>1 DEF Return, Waiting
<1>3. how \in {"ok", "disconnected", "timeout"}
  BY <1>1
<1>4. SyncTypeOK'
  BY <1>2, <1>3 DEF connVars, ConnTypeOK
<1>5. SendersInv'
  BY <1>2, <1>3 DEF SendersInv, connVars, Alive
<1>6. EntriesInv'
  BY <1>1, <1>2 DEF EntriesInv
<1>7. HeldInv'
  BY <1>1, <1>2 DEF HeldInv, connVars
<1>8. ReachInv'
  BY <1>2, <1>3 DEF ReachInv
<1>9. RepliesInv'
  BY <1>1, <1>2 DEF RepliesInv, connVars
<1>10. DroppedInv'
  BY <1>2, <1>3 DEF DroppedInv, connVars, Alive, RR!SharesId
<1> QED
  BY <1>4, <1>5, <1>6, <1>7, <1>8, <1>9, <1>10 DEF LayerInv

LEMMA ReceiveLayer ==
  ASSUME SyncInv, NEW i \in Incoming, NEW r \in RequestId, ReceiveWithId(i, r)
  PROVE  SyncTypeOK' /\ LayerInv'
<1> USE CallAssumption, NoCallAssumption, SlotAssumption DEF SyncInv, SyncTypeOK
<1>1. /\ task[i] = "idle" /\ task' = [task EXCEPT ![i] = "spawned"]
      /\ replyId' = [replyId EXCEPT ![i] = r]
      /\ UNCHANGED <<loop, sender, rid, notify, held, slot, outcome, inner>>
  BY DEF ReceiveWithId, Receive
<1>2. ConnTypeOK'
  BY ConnNextInv, StepsOfConnector DEF Next, ConnInv
<1>3. held[i] \notin Call /\ \A c \in Call : slot[c] # i
  BY <1>1 DEF HeldInv, RepliesInv
<1>4. SyncTypeOK'
  BY <1>1, <1>2
<1>5. SendersInv' /\ EntriesInv' /\ ReachInv'
  BY <1>1 DEF SendersInv, EntriesInv, ReachInv, Alive
<1>6. HeldInv'
  BY <1>1, <1>3 DEF HeldInv, ConnTypeOK
<1>7. RepliesInv'
  BY <1>1, <1>3 DEF RepliesInv, ConnTypeOK
<1>8. DroppedInv'
  BY <1>1 DEF DroppedInv, Alive, RR!SharesId
<1> QED
  BY <1>4, <1>5, <1>6, <1>7, <1>8 DEF LayerInv

LEMMA TakeEntryLayer ==
  ASSUME SyncInv, NEW i \in Incoming, TakeEntry(i)
  PROVE  SyncTypeOK' /\ LayerInv'
<1> USE CallAssumption, NoCallAssumption, SlotAssumption DEF SyncInv, SyncTypeOK
<1> DEFINE c == notify[replyId[i]]
<1>1. /\ c \in Call
      /\ task[i] = "spawned" /\ held[i] = NoCall
      /\ held' = [held EXCEPT ![i] = c]
      /\ notify' = [notify EXCEPT ![replyId[i]] = NoCall]
      /\ UNCHANGED <<connVars, rid, replyId, slot, outcome, inner>>
  BY DEF TakeEntry
<1>2. /\ rid[c] = replyId[i]
      /\ slot[c] = "empty"
      /\ outcome[c] \in {"pending", "timeout"}
      /\ \A j \in Incoming : held[j] # c
  BY <1>1 DEF EntriesInv, HeldInv
<1>3. SyncTypeOK'
  BY <1>1 DEF connVars, ConnTypeOK
<1>4. SendersInv' /\ DroppedInv' /\ RepliesInv'
  BY <1>1 DEF SendersInv, DroppedInv, RepliesInv, connVars, Alive, RR!SharesId
<1>5. EntriesInv'
  BY <1>1 DEF EntriesInv
<1>6. HeldInv'
  BY <1>1, <1>2 DEF HeldInv, connVars
<1>7. ReachInv'
  BY <1>1, <1>2 DEF ReachInv
<1> QED
  BY <1>3, <1>4, <1>5, <1>6, <1>7 DEF LayerInv

LEMMA DeliverLayer ==
  ASSUME SyncInv, NEW i \in Incoming, Deliver(i)
  PROVE  SyncTypeOK' /\ LayerInv'
<1> USE CallAssumption, NoCallAssumption, SlotAssumption DEF SyncInv, SyncTypeOK
<1> DEFINE c == held[i]
<1>1. /\ c \in Call
      /\ task[i] = "spawned" /\ task' = [task EXCEPT ![i] = "processed"]
      /\ slot' = IF outcome[c] = "pending" THEN [slot EXCEPT ![c] = i] ELSE slot
      /\ held' = [held EXCEPT ![i] = NoCall]
      /\ UNCHANGED <<loop, sender, rid, replyId, notify, outcome, inner>>
  BY DEF Deliver, Process
<1>2. /\ replyId[i] = rid[c]
      /\ slot[c] = "empty"
      /\ outcome[c] \notin {"idle", "ok"}
      /\ notify[replyId[i]] # c
      /\ \A j \in Incoming : held[j] = c => j = i
  BY <1>1 DEF HeldInv
<1>3. ConnTypeOK'
  BY ConnNextInv, StepsOfConnector DEF Next, TaskStep, ConnInv
<1>4. SyncTypeOK'
  BY <1>1, <1>3
<1>5. \A d \in Call : slot'[d] = slot[d] \/ (d = c /\ outcome[c] = "pending" /\ slot'[c] = i)
  BY <1>1
<1>6. SendersInv'
  BY <1>1, <1>2, <1>5 DEF SendersInv, Alive
<1>7. EntriesInv'
  BY <1>1, <1>2, <1>5 DEF EntriesInv
<1>8. HeldInv'
  BY <1>1, <1>2, <1>5 DEF HeldInv, ConnTypeOK
<1>9. ReachInv'
  BY <1>1, <1>2 DEF ReachInv
<1>10. RepliesInv'
  BY <1>1, <1>2, <1>5 DEF RepliesInv, ConnTypeOK
<1>11. DroppedInv'
  BY <1>1, <1>5 DEF DroppedInv, Alive, RR!SharesId
<1> QED
  BY <1>4, <1>6, <1>7, <1>8, <1>9, <1>10, <1>11 DEF LayerInv

LEMMA PassInnerLayer ==
  ASSUME SyncInv, NEW i \in Incoming, PassInner(i)
  PROVE  SyncTypeOK' /\ LayerInv'
<1> USE CallAssumption, NoCallAssumption, SlotAssumption DEF SyncInv, SyncTypeOK
<1>1. /\ held[i] = NoCall
      /\ task[i] = "spawned" /\ task' = [task EXCEPT ![i] = "processed"]
      /\ inner' = inner \cup {i}
      /\ UNCHANGED <<loop, sender, rid, replyId, notify, held, slot, outcome>>
  BY DEF PassInner, Process
<1>2. ConnTypeOK'
  BY ConnNextInv, StepsOfConnector DEF Next, TaskStep, ConnInv
<1>3. SyncTypeOK'
  BY <1>1, <1>2
<1>4. SendersInv' /\ EntriesInv' /\ ReachInv'
  BY <1>1 DEF SendersInv, EntriesInv, ReachInv, Alive
<1>5. HeldInv' /\ RepliesInv'
  BY <1>1 DEF HeldInv, RepliesInv, ConnTypeOK
<1>6. DroppedInv'
  BY <1>1 DEF DroppedInv, Alive, RR!SharesId
<1> QED
  BY <1>3, <1>4, <1>5, <1>6 DEF LayerInv

-----------------------------------------------------------------------------
(* Every step preserves the invariant, which therefore holds throughout. *)
LEMMA SyncNextInv == SyncInv /\ [Next]_vars => SyncInv'
<1> SUFFICES ASSUME SyncInv, [Next]_vars PROVE SyncInv'
  OBVIOUS
<1>1. ConnInv'
  BY ConnNextInv, StepsOfConnector DEF SyncInv
<1> SUFFICES SyncTypeOK' /\ LayerInv'
  BY <1>1 DEF SyncInv, LayerInv
<1>2. CASE ConnStep
  BY <1>1, <1>2, ConnStepLayer DEF ConnStep, syncVars, SyncInv, SyncTypeOK, ConnInv
<1>3. ASSUME NEW c \in Call, NEW r \in RequestId, Register(c, r)
      PROVE  SyncTypeOK' /\ LayerInv'
  BY <1>3, RegisterLayer
<1>4. ASSUME NEW c \in Call, CallStep(c) PROVE SyncTypeOK' /\ LayerInv'
  BY <1>4, DeregisterLayer, ReturnLayer DEF CallStep
<1>5. ASSUME NEW i \in Incoming, NEW r \in RequestId, ReceiveWithId(i, r)
      PROVE  SyncTypeOK' /\ LayerInv'
  BY <1>5, ReceiveLayer
<1>6. ASSUME NEW i \in Incoming, TaskStep(i) PROVE SyncTypeOK' /\ LayerInv'
  BY <1>6, TakeEntryLayer, DeliverLayer, PassInnerLayer DEF TaskStep
<1>7. CASE UNCHANGED vars
  BY <1>1, <1>7 DEF vars, connVars, syncVars, SyncInv, SyncTypeOK, ConnInv, LayerInv, Alive,
     SendersInv, EntriesInv, HeldInv, ReachInv, RepliesInv, DroppedInv, RR!SharesId
<1> QED
  BY <1>2, <1>3, <1>4, <1>5, <1>6, <1>7 DEF Next

LEMMA SyncInvariant == Spec => []SyncInv
  BY SyncInitInv, SyncNextInv, PTL DEF Spec

-----------------------------------------------------------------------------
(* SyncMessage implements Connector: sync_send and process reach the       *)
(* connection by Context::send and the spawned task only.                  *)
THEOREM SyncImplementsConnector == Spec => ConnSpec
<1>1. SyncInit => ConnInit
  BY DEF SyncInit
<1> QED
  BY <1>1, StepsOfConnector, PTL DEF Spec, ConnSpec

(* So the requests go out in the order in which the channel took them.     *)
THEOREM RequestsGoOutInOrder == Spec => ImplementsFifoLink
  BY SyncImplementsConnector, ConnectorImplementsFifoLink, PTL

(* Type correctness of the layer and of the connection under it. *)
THEOREM SyncTypeCorrect == Spec => []SyncTypeOK
<1>1. SyncInv => SyncTypeOK
  BY DEF SyncInv
<1> QED
  BY <1>1, SyncInvariant, PTL

(* The sender of a waiting call is always in the map or with the one task  *)
(* that will use it, never lost between sync_send and process.             *)
THEOREM WaitingCallsAreReachable == Spec => []WaitingIsReachable
<1>1. SyncInv => WaitingIsReachable
  <2> SUFFICES ASSUME SyncInv, NEW c \in Call, Waiting(c), slot[c] = "empty"
               PROVE  LET tasks == {i \in Incoming : held[i] = c}
                      IN  \/ notify[rid[c]] = c /\ tasks = {}
                          \/ notify[rid[c]] # c /\ \E i \in tasks : tasks = {i} /\ replyId[i] = rid[c]
    BY DEF WaitingIsReachable
  <2> DEFINE tasks == {i \in Incoming : held[i] = c}
  <2>1. CASE notify[rid[c]] = c
    BY <2>1 DEF SyncInv, HeldInv
  <2>2. CASE notify[rid[c]] # c
    <3>1. PICK i \in Incoming : held[i] = c
      BY <2>2 DEF SyncInv, ReachInv, Waiting
    <3>2. tasks = {i} /\ replyId[i] = rid[c]
      BY <3>1 DEF SyncInv, HeldInv
    <3> QED
      BY <2>2, <3>1, <3>2
  <2> QED
    BY <2>1, <2>2
<1> QED
  BY <1>1, SyncInvariant, PTL

(* An entry of the map belongs to a call in progress or timed out. *)
THEOREM EntriesOfTimeoutsOnly == Spec => []OnlyTimeoutsLeaveEntries
<1>1. SyncInv => OnlyTimeoutsLeaveEntries
  BY DEF SyncInv, SyncTypeOK, EntriesInv, OnlyTimeoutsLeaveEntries
<1> QED
  BY <1>1, SyncInvariant, PTL

(* A packet with the id of a waiting call goes to the inner processor only *)
(* when another packet has been, or is being, delivered to that call.      *)
THEOREM RepliesAreNotRequests == Spec => RepliesStayOutOfInner
<1>1. SyncInv /\ [Next]_vars => [OnlyUnsolicited]_vars
  <2> SUFFICES ASSUME SyncInv, Next,
                      NEW i \in inner' \ inner, NEW c \in Call,
                      Waiting(c), rid[c] = replyId[i], slot[c] = "empty"
               PROVE  \E j \in Incoming \ {i} : held[j] = c
    BY DEF OnlyUnsolicited
  <2>1. i \in Incoming /\ PassInner(i)
    BY DEF Next, ConnStep, syncVars, Register, CallStep, Deregister, ReturnReply,
       ReturnDropped, Timeout, Return, ReceiveWithId, TaskStep, TakeEntry, Deliver, PassInner
  <2>2. notify[rid[c]] # c /\ held[i] # c
    BY <2>1, NoCallAssumption DEF PassInner
  <2> QED
    BY <2>1, <2>2 DEF SyncInv, ReachInv, Waiting
<1> QED
  BY <1>1, SyncInvariant, PTL DEF Spec, RepliesStayOutOfInner

-----------------------------------------------------------------------------
(* The refinement of RequestReply *)

(* The answers of the calls, as the abstract specification sees them. *)
Answers == [c \in Call |-> IF outcome[c] = "ok" THEN slot[c] ELSE NoCall]

(* A call that returns ends the abstract call in the same way. *)
LEMMA ReturnRefines ==
  ASSUME SyncInv, NEW c \in Call, CallStep(c)
  PROVE  RR!Next
<1> USE NoCallAssumption, SlotAssumption DEF SyncInv, SyncTypeOK
<1>1. CASE Deregister(c)
  <2>1. ~Alive /\ outcome[c] = "pending"
    BY <1>1 DEF Deregister, SendersInv
  <2>2. outcome' = [outcome EXCEPT ![c] = "disconnected"]
    BY <1>1 DEF Deregister
  <2>3. Answers' = Answers
    <3>1. ASSUME NEW d \in Call, outcome[d] = "ok" PROVE slot'[d] = slot[d]
      BY <1>1, <3>1 DEF Deregister, SlotsAfterLosing, EntriesInv
    <3> QED
      BY <2>1, <2>2, <3>1 DEF Answers
  <2>4. UNCHANGED <<rid, replyId, Alive>>
    BY <1>1 DEF Deregister, connVars, Alive
  <2>5. RR!Disconnect(c)
    BY <2>1, <2>2, <2>3, <2>4 DEF RR!Disconnect, RR!End, Answers
  <2> QED
    BY <2>5 DEF RR!Next
<1>2. ASSUME NEW how, Return(c, how) PROVE RR!End(c, how)
  BY <1>2 DEF Return, Waiting, RR!End, connVars, Alive
<1>3. ASSUME NEW how, Return(c, how), how # "ok" PROVE Answers' = Answers
  BY <1>3 DEF Return, Waiting, Answers
<1>4. CASE ReturnReply(c)
  <2>1. PICK i \in Incoming : slot[c] = i /\ replyId[i] = rid[c]
    BY <1>4 DEF ReturnReply, RepliesInv
  <2>2. \A d \in Call : Answers[d] # i
    BY <1>4, <2>1 DEF ReturnReply, Return, Waiting, RepliesInv, Answers
  <2>3. Answers' = [Answers EXCEPT ![c] = i]
    BY <1>4, <2>1 DEF ReturnReply, Return, Waiting, Answers
  <2>4. RR!Answer(c, i)
    BY <1>2, <1>4, <2>1, <2>2, <2>3 DEF ReturnReply, RR!Answer, Answers
  <2> QED
    BY <2>4 DEF RR!Next
<1>5. CASE ReturnDropped(c)
  <2>1. ~Alive \/ RR!SharesId(c)
    BY <1>5 DEF ReturnDropped, DroppedInv
  <2>2. RR!Disconnect(c)
    BY <1>2, <1>3, <1>5, <2>1 DEF ReturnDropped, RR!Disconnect, Answers
  <2> QED
    BY <2>2 DEF RR!Next
<1>6. CASE Timeout(c)
  <2>1. RR!Timeout(c)
    BY <1>2, <1>3, <1>6 DEF Timeout, RR!Timeout, Answers
  <2> QED
    BY <2>1 DEF RR!Next
<1> QED
  BY <1>1, <1>4, <1>5, <1>6 DEF CallStep

(* A packet that comes in is heard, and nothing else changes. *)
LEMMA ReceiveRefines ==
  ASSUME SyncInv, NEW i \in Incoming, NEW r \in RequestId, ReceiveWithId(i, r)
  PROVE  RR!Next
<1>1. /\ Alive
      /\ task[i] = "idle"
      /\ replyId' = [replyId EXCEPT ![i] = r]
      /\ UNCHANGED <<outcome, rid, slot, Alive>>
  BY DEF ReceiveWithId, Receive, Alive
<1>2. \A c \in Call : Answers[c] # i
  BY <1>1, NoCallAssumption DEF SyncInv, RepliesInv, Answers
<1>3. RR!Hear(i, r)
  BY <1>1, <1>2 DEF RR!Hear, Answers
<1> QED
  BY <1>3 DEF RR!Next

(* A call that registers asks. *)
LEMMA RegisterRefines ==
  ASSUME SyncInv, NEW c \in Call, NEW r \in RequestId, Register(c, r)
  PROVE  RR!Next
<1> USE DEF SyncInv, SyncTypeOK
<1>1. /\ outcome[c] = "idle"
      /\ outcome' = [outcome EXCEPT ![c] = "pending"]
      /\ rid' = [rid EXCEPT ![c] = r]
      /\ UNCHANGED <<replyId, Alive>>
  BY DEF Register, SendStart, SendersInv, Alive
<1>2. \A d \in Call : outcome[d] = "ok" => slot'[d] = slot[d]
  BY DEF Register, SlotsAfterLosing, EntriesInv
<1>3. Answers' = Answers
  BY <1>1, <1>2 DEF Answers
<1>4. RR!Ask(c, r)
  BY <1>1, <1>3 DEF RR!Ask, Answers
<1> QED
  BY <1>4 DEF RR!Next

(* The tasks of the packets work out of the callers' sight. *)
LEMMA TaskRefines ==
  ASSUME SyncInv, NEW i \in Incoming, TaskStep(i)
  PROVE  UNCHANGED RR!vars
<1> USE DEF SyncInv, SyncTypeOK
<1>1. UNCHANGED <<outcome, rid, replyId, Alive>>
  BY DEF TaskStep, TakeEntry, Deliver, PassInner, Process, connVars, Alive
<1>2. \A c \in Call : outcome[c] = "ok" => slot'[c] = slot[c]
  BY DEF TaskStep, TakeEntry, Deliver, PassInner
<1>3. Answers' = Answers
  BY <1>1, <1>2 DEF Answers
<1> QED
  BY <1>1, <1>3 DEF RR!vars, Answers

(* The connection goes down or does nothing that the callers see. *)
LEMMA ConnStepRefines ==
  ASSUME SyncInv, ConnStep
  PROVE  [RR!Next]_(RR!vars)
<1>1. UNCHANGED <<outcome, rid, replyId, slot>> /\ Answers' = Answers
  BY DEF ConnStep, syncVars, Answers
<1>2. ~Alive => ~Alive'
  BY ConnFrame DEF SyncInv, ConnInv
<1>3. Alive \in BOOLEAN /\ Alive' \in BOOLEAN
  BY DEF Alive
<1>4. CASE Alive /\ ~Alive'
  BY <1>1, <1>4 DEF RR!GoDown, RR!Next, Answers
<1>5. CASE Alive' = Alive
  BY <1>1, <1>5 DEF RR!vars, Answers
<1> QED
  BY <1>2, <1>3, <1>4, <1>5

(* A call of sync_send ends once, with a reply of its own, by its timer,   *)
(* or disconnected for a reason: SyncMessage implements RequestReply.      *)
THEOREM SyncImplementsRequestReply == Spec => ImplementsRequestReply
<1>1. SyncInit => RR!Init
  BY RequestIdAssumption DEF SyncInit, SomeId, ConnInit, RR!Init, Alive
<1>2. SyncInv /\ [Next]_vars => [RR!Next]_(RR!vars)
  <2> SUFFICES ASSUME SyncInv, [Next]_vars PROVE [RR!Next]_(RR!vars)
    OBVIOUS
  <2>1. CASE UNCHANGED vars
    BY <2>1 DEF vars, connVars, syncVars, RR!vars, Alive
  <2> QED
    BY <2>1, ConnStepRefines, RegisterRefines, ReturnRefines, ReceiveRefines, TaskRefines DEF Next
<1> QED
  BY <1>1, <1>2, SyncInvariant, PTL DEF Spec, ImplementsRequestReply, RR!Spec

=============================================================================
