----------------------------- MODULE Connector -----------------------------
(***************************************************************************)
(* One client connection, as connect/src/connector.rs runs it.             *)
(*                                                                         *)
(* Connector::run spawns a task that awaits Processor::connected, runs the *)
(* select loop of run_connection and then awaits Processor::disconnected.  *)
(* Any task that holds the Context may push packets into the bounded send  *)
(* channel (Context::send) or a signal into the shutdown channel of        *)
(* capacity one (Context::close); both calls wait while their channel is   *)
(* full and fail once run_connection has returned, because the receivers   *)
(* are its locals.  Every packet read from the peer is processed by a task *)
(* of its own.                                                             *)
(*                                                                         *)
(* The `None` arm of send_channel.recv() has no action: the connection     *)
(* task itself holds a Context, hence a sender, so recv() never sees the   *)
(* channel without senders while the loop runs.                            *)
(***************************************************************************)
EXTENDS Naturals, Sequences

CONSTANTS
  Outgoing,   \* packets given to Context::send, each by a task of its own
  Incoming,   \* packets the peer may put on the connection
  Closer,     \* tasks that call Context::close
  ChannelCap  \* capacity of the send channel (256 in connector.rs)

ASSUME ChannelCapAssumption == ChannelCap \in Nat \ {0}

VARIABLES
  loop,      \* where the connection task is
  channel,   \* packets in the send channel
  writing,   \* the packet being written by the loop, <<>> when there is none
  written,   \* packets written to the peer
  shutdown,  \* number of signals in the shutdown channel, 0 or 1
  sender,    \* progress of each Context::send
  closer,    \* progress of each Context::close
  task       \* progress of the task that processes each incoming packet

connVars == <<loop, channel, writing, written, shutdown, sender, closer, task>>

LoopState == {"connecting", "select", "writing", "disconnecting", "finished"}

(* run_connection has not returned, so the two receivers exist. *)
AliveForever == TRUE
Alive == loop \in {"connecting", "select", "writing"}

-----------------------------------------------------------------------------
ConnTypeOK ==
  /\ loop \in LoopState
  /\ channel \in Seq(Outgoing)
  /\ Len(channel) <= ChannelCap
  /\ writing \in Seq(Outgoing)
  /\ Len(writing) <= 1
  /\ written \in Seq(Outgoing)
  /\ shutdown \in {0, 1}
  /\ sender \in [Outgoing -> {"idle", "sending", "sent", "failed"}]
  /\ closer \in [Closer -> {"idle", "closing", "closed"}]
  /\ task \in [Incoming -> {"idle", "spawned", "processed"}]

ConnInit ==
  /\ loop = "connecting"
  /\ channel = <<>>
  /\ writing = <<>>
  /\ written = <<>>
  /\ shutdown = 0
  /\ sender = [o \in Outgoing |-> "idle"]
  /\ closer = [k \in Closer |-> "idle"]
  /\ task = [i \in Incoming |-> "idle"]

-----------------------------------------------------------------------------
(* Context::send *)

SendStart(o) ==
  /\ sender[o] = "idle"
  /\ sender' = [sender EXCEPT ![o] = "sending"]
  /\ UNCHANGED <<loop, channel, writing, written, shutdown, closer, task>>

(* Faulty variant: the channel has no capacity. *)
SendUnbounded(o) ==
  /\ sender[o] = "sending"
  /\ Alive
  /\ channel' = Append(channel, o)
  /\ sender' = [sender EXCEPT ![o] = "sent"]
  /\ UNCHANGED <<loop, writing, written, shutdown, closer, task>>

(* There is room in the channel. *)
SendAccepted(o) ==
  /\ sender[o] = "sending"
  /\ Alive
  /\ Len(channel) < ChannelCap
  /\ channel' = Append(channel, o)
  /\ sender' = [sender EXCEPT ![o] = "sent"]
  /\ UNCHANGED <<loop, writing, written, shutdown, closer, task>>

(* The receiver is gone: the packet comes back to the caller. *)
SendRefused(o) ==
  /\ sender[o] = "sending"
  /\ ~Alive
  /\ sender' = [sender EXCEPT ![o] = "failed"]
  /\ UNCHANGED <<loop, channel, writing, written, shutdown, closer, task>>

-----------------------------------------------------------------------------
(* Context::close: the result of sending the signal is ignored. *)

CloseStart(k) ==
  /\ closer[k] = "idle"
  /\ closer' = [closer EXCEPT ![k] = "closing"]
  /\ UNCHANGED <<loop, channel, writing, written, shutdown, sender, task>>

CloseAccepted(k) ==
  /\ closer[k] = "closing"
  /\ Alive
  /\ shutdown = 0
  /\ shutdown' = 1
  /\ closer' = [closer EXCEPT ![k] = "closed"]
  /\ UNCHANGED <<loop, channel, writing, written, sender, task>>

CloseRefused(k) ==
  /\ closer[k] = "closing"
  /\ ~Alive
  /\ closer' = [closer EXCEPT ![k] = "closed"]
  /\ UNCHANGED <<loop, channel, writing, written, shutdown, sender, task>>

-----------------------------------------------------------------------------
(* The connection task *)

(* processor.connected(ctx).await returns and run_connection starts. *)
Connected ==
  /\ loop = "connecting"
  /\ loop' = "select"
  /\ UNCHANGED <<channel, writing, written, shutdown, sender, closer, task>>

(* The arm of send_channel.recv(): the write is awaited inside the arm. *)
TakeOutgoing ==
  /\ loop = "select"
  /\ channel # <<>>
  /\ loop' = "writing"
  /\ writing' = <<Head(channel)>>
  /\ channel' = Tail(channel)
  /\ UNCHANGED <<written, shutdown, sender, closer, task>>

WriteDone ==
  /\ loop = "writing"
  /\ loop' = "select"
  /\ written' = written \o writing
  /\ writing' = <<>>
  /\ UNCHANGED <<channel, shutdown, sender, closer, task>>

(* run_connection returns: receivers and connection are dropped. *)
ReturnFromLoop ==
  /\ loop' = "disconnecting"
  /\ channel' = <<>>
  /\ writing' = <<>>
  /\ shutdown' = 0
  /\ UNCHANGED <<written, sender, closer, task>>

(* Faulty variant: a failed write is ignored and the loop goes on. *)
WriteErrorIgnored ==
  /\ loop = "writing"
  /\ loop' = "select"
  /\ writing' = <<>>
  /\ UNCHANGED <<channel, written, shutdown, sender, closer, task>>

(* Faulty variant: a failed write is tried again for ever. *)
WriteErrorRetried ==
  /\ loop = "writing"
  /\ UNCHANGED connVars

(* conn.write(packet).await? fails. *)
WriteError ==
  /\ loop = "writing"
  /\ ReturnFromLoop

(* The arm of conn.next(): a task is spawned for the packet. *)
Receive(i) ==
  /\ loop = "select"
  /\ task[i] = "idle"
  /\ task' = [task EXCEPT ![i] = "spawned"]
  /\ UNCHANGED <<loop, channel, writing, written, shutdown, sender, closer>>

(* Faulty variant: an error of next() is left to the next call. *)
ReadErrorIgnored ==
  /\ loop = "select"
  /\ UNCHANGED connVars

(* conn.next() fails: the peer is gone or sent what cannot be decoded. *)
ReadError ==
  /\ loop = "select"
  /\ ReturnFromLoop

(* Faulty variant: the signal is consumed but the loop goes on. *)
ShutdownSignalIgnored ==
  /\ loop = "select"
  /\ shutdown = 1
  /\ shutdown' = 0
  /\ UNCHANGED <<loop, channel, writing, written, sender, closer, task>>

(* The arm of shutdown.recv(). *)
ShutdownSignal ==
  /\ loop = "select"
  /\ shutdown = 1
  /\ ReturnFromLoop

(* processor.disconnected(ctx).await returns and the task ends. *)
Disconnected ==
  /\ loop = "disconnecting"
  /\ loop' = "finished"
  /\ UNCHANGED <<channel, writing, written, shutdown, sender, closer, task>>

(* The spawned task returns from Processor::process. *)
Process(i) ==
  /\ task[i] = "spawned"
  /\ task' = [task EXCEPT ![i] = "processed"]
  /\ UNCHANGED <<loop, channel, writing, written, shutdown, sender, closer>>

-----------------------------------------------------------------------------
LoopStep ==
  \/ Connected
  \/ TakeOutgoing
  \/ WriteDone
  \/ WriteError
  \/ \E i \in Incoming : Receive(i)
  \/ ReadError
  \/ ShutdownSignal
  \/ Disconnected

CloseStep(k) == CloseStart(k) \/ CloseAccepted(k) \/ CloseRefused(k)

SendStep(o) == SendStart(o) \/ SendAccepted(o) \/ SendRefused(o)

ConnNext ==
  \/ LoopStep
  \/ \E k \in Closer : CloseStep(k)
  \/ \E o \in Outgoing : SendStep(o)
  \/ \E i \in Incoming : Process(i)

ConnSpec == ConnInit /\ [][ConnNext]_connVars

(***************************************************************************)
(* Fairness.  Tasks that can run are run.  tokio::select! polls its arms   *)
(* in random order, so an arm that is ready again and again is taken:      *)
(* strong fairness of the two channel arms.  Nothing is assumed of a write *)
(* in progress, which has no timeout and may last for ever, about the peer *)
(* sending packets or going away, nor about tasks starting to send or to   *)
(* close.                                                                  *)
(***************************************************************************)
ConnFairness ==
  /\ WF_connVars(Connected)
  /\ SF_connVars(TakeOutgoing)
  /\ SF_connVars(ShutdownSignal)
  /\ WF_connVars(Disconnected)
  /\ \A o \in Outgoing : WF_connVars(SendAccepted(o) \/ SendRefused(o))
  /\ \A k \in Closer : WF_connVars(CloseAccepted(k) \/ CloseRefused(k))

-----------------------------------------------------------------------------
(* Properties *)

Link == INSTANCE FifoLink
          WITH Item      <- Outgoing,
               offered   <- written \o writing \o channel,
               delivered <- written,
               up        <- Alive

(* The peer is sent the accepted packets in the order the channel accepted *)
(* them, none skipped and none twice, until the loop returns; after that   *)
(* nothing more is accepted or written (connector.rs: the send channel,    *)
(* the recv arm and the early returns of the loop).                        *)
ImplementsFifoLink == Link!Spec

(* A task in Context::send is not left hanging: its packet is accepted, or *)
(* it gets the packet back once the loop has returned, even when the loop  *)
(* returns while the channel is full and the task is waiting for room.     *)
SendsReturn ==
  \A o \in Outgoing : sender[o] = "sending" ~> sender[o] \in {"sent", "failed"}

(* A close signal that was accepted ends the connection task, however busy *)
(* the other arms of the select are; so does a close that found the slot   *)
(* taken, because the signal in it does.                                   *)
ClosesEndTheTask ==
  \A k \in Closer : closer[k] = "closing" ~> closer[k] = "closed" /\ loop = "finished"

=============================================================================
