------------------------------- MODULE Duplex -------------------------------
(***************************************************************************)
(* Both ends of one connection: the server's, which is Connector, and the  *)
(* client's (im/src/client.rs), over the two directions of a socket.       *)
(*                                                                         *)
(* Both ends run a select loop that awaits its writes inside an arm, so an *)
(* end reads nothing while it writes, and a write waits while its          *)
(* direction of the socket is full.  A packet is written as two halves,    *)
(* header and body.  next() moves halves from the socket into its buffer   *)
(* and returns the first packet there once the header of another follows   *)
(* it: Framing has this comparison in bytes.                               *)
(*                                                                         *)
(* The client answers a Payload::Message with MessageCliAck from within    *)
(* its loop; the rest of what it says comes through Client::send.          *)
(***************************************************************************)
EXTENDS Connector

CONSTANTS
  Said,     \* packets given to Client::send, each by a task of its own
  Message,  \* packets of Outgoing with a Payload::Message
  CliAck,   \* the client's answer to each of them
  NetCap    \* bound: halves that one direction of the socket holds

ASSUME SaidAssumption == Said \subseteq Incoming
ASSUME MessageAssumption == Message \subseteq Outgoing
ASSUME CliAckAssumption ==
  /\ CliAck \in [Message -> Incoming \ Said]
  /\ \A m, n \in Message : CliAck[m] = CliAck[n] => m = n
ASSUME NetCapAssumption == NetCap \in Nat \ {0}

End == {"client", "server"}
Other == [client |-> "server", server |-> "client"]

VARIABLES
  client,    \* event_loop: "select", "writing", or "gone" for any reason
  mailbox,   \* the client's channel, of capacity one
  saying,    \* the packet event_loop is writing, <<>> when there is none
  teller,    \* progress of each Client::send
  begun,     \* the ends that have written a header whose body is to follow
  flow,      \* packets from each end that are written, or begun, and not returned
  net,       \* halves in each direction of the socket
  buffer,    \* halves from each end in the buffer of the other
  returned,  \* packets from each end that the other's next() returned (history)
  uttered    \* packets that event_loop has begun to write (history)

clientVars == <<client, mailbox, saying, teller>>
netVars == <<begun, flow, net, buffer, returned, uttered>>
duplexVars == <<connVars, clientVars, netVars>>

Packet == Incoming \cup Outgoing

Gone == [client |-> client = "gone", server |-> ~Alive]
Writing == [client |-> client = "writing", server |-> loop = "writing"]
Current == [client |-> saying, server |-> writing]

(* Every half that was written is in the socket or in the reader's buffer, *)
(* in front of the packet that next() looks for, while there is a reader.  *)
Aligned(e) ==
  2 * Len(flow[e]) = net[e] + buffer[e] + (IF e \in begun THEN 1 ELSE 0)

DuplexTypeOK ==
  /\ client \in {"select", "writing", "gone"}
  /\ mailbox \in Seq(Said) /\ Len(mailbox) <= 1
  /\ saying \in Seq(Incoming) /\ Len(saying) <= 1
  /\ teller \in [Said -> {"idle", "sending", "sent", "failed"}]
  /\ begun \subseteq End
  /\ flow \in [End -> Seq(Packet)]
  /\ net \in [End -> 0 .. NetCap]
  /\ buffer \in [End -> Nat]
  /\ returned \in [End -> Seq(Packet)]
  /\ uttered \in Seq(Incoming)
  /\ \A e \in End : Aligned(e)

DuplexInit ==
  /\ ConnInit
  /\ client = "select"
  /\ mailbox = <<>>
  /\ saying = <<>>
  /\ teller = [p \in Said |-> "idle"]
  /\ begun = {}
  /\ flow = [e \in End |-> <<>>]
  /\ net = [e \in End |-> 0]
  /\ buffer = [e \in End |-> 0]
  /\ returned = [e \in End |-> <<>>]
  /\ uttered = <<>>

-----------------------------------------------------------------------------
(* The socket, for both ends *)

(* Faulty variant: the write does not wait for room. *)
PutAnyway(e) ==
  /\ Writing[e]
  /\ e \notin begun
  /\ net' = [net EXCEPT ![e] = @ + 1]
  /\ begun' = begun \cup {e}
  /\ flow' = [flow EXCEPT ![e] = @ \o Current[e]]
  /\ uttered' = IF e = "client" THEN uttered \o saying ELSE uttered
  /\ UNCHANGED <<buffer, returned>>

(* write: the first write_buf, of the header. *)
PutHeader(e) ==
  /\ Writing[e]
  /\ e \notin begun
  /\ net[e] < NetCap
  /\ net' = [net EXCEPT ![e] = @ + 1]
  /\ begun' = begun \cup {e}
  /\ flow' = [flow EXCEPT ![e] = @ \o Current[e]]
  /\ uttered' = IF e = "client" THEN uttered \o saying ELSE uttered
  /\ UNCHANGED <<buffer, returned>>

(* write: the second write_buf, of the body. *)
PutBody(e) ==
  /\ Writing[e]
  /\ e \in begun
  /\ net[e] < NetCap
  /\ net' = [net EXCEPT ![e] = @ + 1]
  /\ begun' = begun \ {e}
  /\ UNCHANGED <<flow, buffer, returned, uttered>>

(* With so many halves in the buffer, next() returns a packet. *)
Enough(halves) == halves >= 3

(* read_buf brings n halves from e, which are not enough. *)
Fill(e, n) ==
  /\ n \in 1 .. net[e]
  /\ ~Enough(buffer[e] + n)
  /\ net' = [net EXCEPT ![e] = @ - n]
  /\ buffer' = [buffer EXCEPT ![e] = @ + n]
  /\ UNCHANGED <<begun, flow, returned, uttered>>

(* Faulty variant: the buffer is not advanced over the packet. *)
TakeNotAdvanced(e, n, p) ==
  /\ n \in 1 .. net[e]
  /\ Enough(buffer[e] + n)
  /\ p = Head(flow[e])
  /\ net' = [net EXCEPT ![e] = @ - n]
  /\ buffer' = [buffer EXCEPT ![e] = @ + n]
  /\ returned' = [returned EXCEPT ![e] = Append(@, p)]
  /\ UNCHANGED <<begun, flow, uttered>>

(* read_buf brings n halves from e, and next() returns packet p. *)
Take(e, n, p) ==
  /\ n \in 1 .. net[e]
  /\ Enough(buffer[e] + n)
  /\ p = Head(flow[e])
  /\ net' = [net EXCEPT ![e] = @ - n]
  /\ buffer' = [buffer EXCEPT ![e] = @ + n - 2]
  /\ flow' = [flow EXCEPT ![e] = Tail(@)]
  /\ returned' = [returned EXCEPT ![e] = Append(@, p)]
  /\ UNCHANGED <<begun, uttered>>

-----------------------------------------------------------------------------
(* The server's end: Connector's steps, those of the socket among them *)

ServerHeader == PutHeader("server") /\ UNCHANGED <<connVars, clientVars>>

ServerBody == PutBody("server") /\ WriteDone /\ UNCHANGED clientVars

ServerFill ==
  /\ loop = "select"
  /\ \E n \in 1 .. NetCap : Fill("client", n)
  /\ UNCHANGED <<connVars, clientVars>>

ServerTake ==
  /\ \E n \in 1 .. NetCap, i \in Incoming : Take("client", n, i) /\ Receive(i)
  /\ UNCHANGED clientVars

ServerRead == ServerFill \/ ServerTake

(* A read or a write reports an error: run_connection returns. *)
ServerError == (ReadError \/ WriteError) /\ UNCHANGED <<clientVars, netVars>>

(* What needs no socket. *)
Apart(A) == A /\ UNCHANGED <<clientVars, netVars>>

ServerStep ==
  Apart(\/ Connected \/ TakeOutgoing \/ ShutdownSignal \/ Disconnected
        \/ \E k \in Closer : CloseStep(k)
        \/ \E o \in Outgoing : SendStep(o)
        \/ \E i \in Incoming : Process(i))

-----------------------------------------------------------------------------
(* The client's end *)

(* Client::send *)
Tell(p) ==
  /\ teller[p] = "idle"
  /\ teller' = [teller EXCEPT ![p] = "sending"]
  /\ UNCHANGED <<connVars, client, mailbox, saying, netVars>>

(* Its packet is accepted, or unwrap() panics because the loop is gone. *)
Told(p) ==
  /\ teller[p] = "sending"
  /\ \/ /\ client # "gone" /\ mailbox = <<>>
        /\ mailbox' = <<p>>
        /\ teller' = [teller EXCEPT ![p] = "sent"]
     \/ /\ client = "gone"
        /\ teller' = [teller EXCEPT ![p] = "failed"]
        /\ UNCHANGED mailbox
  /\ UNCHANGED <<connVars, client, saying, netVars>>

(* The arm of channel.recv(). *)
ClientSay ==
  /\ client = "select"
  /\ mailbox # <<>>
  /\ client' = "writing"
  /\ saying' = mailbox
  /\ mailbox' = <<>>
  /\ UNCHANGED <<connVars, teller, netVars>>

ClientHeader == PutHeader("client") /\ UNCHANGED <<connVars, clientVars>>

ClientBody ==
  /\ PutBody("client")
  /\ client' = "select"
  /\ saying' = <<>>
  /\ UNCHANGED <<connVars, mailbox, teller>>

ClientFill ==
  /\ client = "select"
  /\ \E n \in 1 .. NetCap : Fill("server", n)
  /\ UNCHANGED <<connVars, clientVars>>

(* The arm of stream.next(): a message is answered before anything else. *)
ClientTake ==
  /\ client = "select"
  /\ \E n \in 1 .. NetCap, o \in Outgoing :
       /\ Take("server", n, o)
       /\ IF o \in Message
            THEN client' = "writing" /\ saying' = <<CliAck[o]>>
            ELSE UNCHANGED <<client, saying>>
  /\ UNCHANGED <<connVars, mailbox, teller>>

ClientRead == ClientFill \/ ClientTake

(* event_loop ends: an unwrap() panics on an error of the socket, or the   *)
(* last Client is dropped.  Its stream and channel are dropped with it.    *)
ClientGone ==
  /\ client # "gone"
  /\ client' = "gone"
  /\ mailbox' = <<>>
  /\ saying' = <<>>
  /\ UNCHANGED <<connVars, teller, netVars>>

-----------------------------------------------------------------------------
DuplexNext ==
  \/ ServerHeader \/ ServerBody \/ ServerRead \/ ServerError \/ ServerStep
  \/ ClientSay \/ ClientHeader \/ ClientBody \/ ClientRead \/ ClientGone
  \/ \E p \in Said : Tell(p) \/ Told(p)

DuplexSpec == DuplexInit /\ [][DuplexNext]_duplexVars

(***************************************************************************)
(* Fairness.  Tasks run, at both ends, and weak fairness is enough: an arm  *)
(* of select! is passed over only while another arm has something to do,   *)
(* and there are finitely many packets.  Nothing is assumed of a write but *)
(* that the socket takes a half when there is room for it.  An end that is *)
(* gone is noticed, by an error of a write or after the last half by an    *)
(* error of a read.                                                        *)
(***************************************************************************)
ServerSeesLoss ==
  /\ Gone["client"]
  /\ loop = "writing" \/ net["client"] = 0
  /\ ServerError

ClientSeesLoss ==
  /\ Gone["server"]
  /\ client = "writing" \/ net["server"] = 0
  /\ ClientGone

DuplexFairness ==
  /\ WF_duplexVars(ServerHeader \/ ServerBody)
  /\ WF_duplexVars(ClientHeader \/ ClientBody)
  /\ WF_duplexVars(ServerRead)
  /\ WF_duplexVars(ClientRead)
  /\ WF_duplexVars(ServerSeesLoss)
  /\ WF_duplexVars(ClientSeesLoss)
  /\ WF_duplexVars(Apart(TakeOutgoing))
  /\ WF_duplexVars(Apart(ShutdownSignal))
  /\ WF_duplexVars(ClientSay)
  /\ WF_duplexVars(Apart(Connected \/ Disconnected))
  /\ \A o \in Outgoing : WF_duplexVars(Apart(SendAccepted(o) \/ SendRefused(o)))
  /\ \A k \in Closer : WF_duplexVars(Apart(CloseAccepted(k) \/ CloseRefused(k)))
  /\ \A p \in Said : WF_duplexVars(Told(p))

DuplexFairSpec == DuplexSpec /\ DuplexFairness

-----------------------------------------------------------------------------
(* Properties *)

IsPrefixOf(s, t) == Len(s) <= Len(t) /\ \A i \in 1 .. Len(s) : s[i] = t[i]

(* Each end is handed what the other wrote, whole and in its order, at any *)
(* cut of the stream and whoever goes in the middle of a packet.           *)
EachWayInOrder ==
  /\ IsPrefixOf(returned["server"], written)
  /\ IsPrefixOf(returned["client"], uttered)

(* Both ends wait for room that only the other could make. *)
MutualWait == \A e \in End : Writing[e] /\ net[e] = NetCap

(* This is the one way for a write to wait for ever: as long as both ends  *)
(* do not come to wait for each other, each write ends, with the clients   *)
(* of this repository.                                                     *)
WritesEnd ==
  []~MutualWait => \A e \in End : Writing[e] ~> ~Writing[e]

(* So a task in Context::send is left hanging only by such a wait ...      *)
SendsReturnUnlessMutual == []~MutualWait => SendsReturn

(* ... and so is a close, which the loop does not see while it writes.     *)
ClosesEndUnlessMutual == []~MutualWait => ClosesEndTheTask

(* An end does not outlive the other for ever: a client that goes ends the *)
(* server's loop, even one that waits in a write, and the other way round. *)
LossEndsBoth ==
  /\ Gone["client"] ~> loop = "finished"
  /\ Gone["server"] ~> Gone["client"]

=============================================================================
