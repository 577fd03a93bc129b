---------------------------- MODULE DuplexProofs ----------------------------
(***************************************************************************)
(* What TLAPS proves of Duplex, for all sets of packets and closers and    *)
(* all capacities: the server's end is Connector, so what is proved of it  *)
(* holds, and no half of a packet is lost or misplaced on the way.         *)
(***************************************************************************)
EXTENDS Duplex, ConnectorProofs

-----------------------------------------------------------------------------
(* Every step is one of Connector, or leaves the connection alone. *)
LEMMA StepsOfServer == [DuplexNext]_duplexVars => [ConnNext]_connVars
<1> SUFFICES ASSUME [DuplexNext]_duplexVars PROVE [ConnNext]_connVars
  OBVIOUS
<1>1. CASE ServerHeader
  BY <1>1 DEF ServerHeader
<1>2. CASE ServerBody
  BY <1>2 DEF ServerBody, ConnNext, LoopStep
<1>3. CASE ServerRead
  BY <1>3 DEF ServerRead, ServerFill, ServerTake, ConnNext, LoopStep
<1>4. CASE ServerError
  BY <1>4 DEF ServerError, ConnNext, LoopStep
<1>5. CASE ServerStep
  BY <1>5 DEF ServerStep, Apart, ConnNext, LoopStep
<1>6. CASE ClientSay \/ ClientHeader \/ ClientBody \/ ClientRead \/ ClientGone
  BY <1>6 DEF ClientSay, ClientHeader, ClientBody, ClientRead, ClientFill, ClientTake,
              ClientGone
<1>7. ASSUME NEW p \in Said, Tell(p) \/ Told(p) PROVE UNCHANGED connVars
  BY <1>7 DEF Tell, Told
<1>8. CASE UNCHANGED duplexVars
  BY <1>8 DEF duplexVars
<1> QED
  BY <1>1, <1>2, <1>3, <1>4, <1>5, <1>6, <1>7, <1>8 DEF DuplexNext

(* The connection's invariant holds at the server's end. *)
LEMMA ServerInvariant == DuplexSpec => []ConnInv
<1>1. DuplexInit => ConnInv
  BY ConnInitInv DEF DuplexInit
<1>2. ConnInv /\ [DuplexNext]_duplexVars => ConnInv'
  BY ConnNextInv, StepsOfServer
<1> QED
  BY <1>1, <1>2, PTL DEF DuplexSpec

(* Duplex implements Connector: a client and a socket with an end do       *)
(* nothing to the connection task that Connector does not allow for.       *)
THEOREM DuplexImplementsConnector == DuplexSpec => ConnSpec
<1>1. DuplexInit => ConnInit
  BY DEF DuplexInit
<1> QED
  BY <1>1, StepsOfServer, PTL DEF DuplexSpec, ConnSpec

(* So the client is sent the accepted packets in their order. *)
THEOREM DuplexImplementsFifoLink == DuplexSpec => ImplementsFifoLink
  BY DuplexImplementsConnector, ConnectorImplementsFifoLink, PTL

-----------------------------------------------------------------------------
(* The socket: every half is accounted for, whatever an end does.          *)
NetOK ==
  /\ begun \subseteq End
  /\ flow \in [End -> Seq(Packet)]
  /\ net \in [End -> 0 .. NetCap]
  /\ buffer \in [End -> Nat]
  /\ returned \in [End -> Seq(Packet)]
  /\ uttered \in Seq(Incoming)
  /\ \A e \in End : Aligned(e)

(* The client has a packet in hand exactly while it writes it. *)
ClientOK ==
  /\ client \in {"select", "writing", "gone"}
  /\ mailbox \in Seq(Said) /\ Len(mailbox) <= 1
  /\ saying \in Seq(Incoming)
  /\ Len(saying) = IF client = "writing" THEN 1 ELSE 0
  /\ teller \in [Said -> {"idle", "sending", "sent", "failed"}]

DuplexInv == ConnInv /\ ClientOK /\ NetOK

(* So the loop has one packet in hand while it writes. *)
LEMMA LoopHasOne ==
  ASSUME ConnInv, loop = "writing"
  PROVE  writing \in Seq(Outgoing) /\ Len(writing) = 1
<1>1. writing \in Seq(Outgoing) /\ Len(writing) <= 1 /\ writing # <<>>
  BY DEF ConnInv, ConnTypeOK, LocalsInv
<1>2. Len(writing) \in Nat \ {0}
  BY <1>1, EmptySeq
<1>3. \A n \in Nat \ {0} : n <= 1 => n = 1
  OBVIOUS
<1>4. Len(writing) = 1
  BY <1>1, <1>2, <1>3, Zenon
<1> QED
  BY <1>1, <1>4

(* A header adds its packet to the flow, half of it written. *)
LEMMA PutHeaderNet ==
  ASSUME ConnInv, ClientOK, NetOK, NEW e \in End, PutHeader(e)
  PROVE  NetOK'
<1> DEFINE c == Current[e]
<1>1. c \in Seq(Packet) /\ Len(c) = 1
  <2>1. CASE e = "client"
    <3>1. c = saying /\ client = "writing"
      BY <2>1 DEF Current, PutHeader, Writing
    <3> QED
      BY <3>1 DEF ClientOK, Packet
  <2>2. CASE e = "server"
    <3>1. c = writing /\ loop = "writing"
      BY <2>2 DEF Current, PutHeader, Writing
    <3> QED
      BY <3>1, LoopHasOne DEF Packet
  <2> QED
    BY <2>1, <2>2 DEF End
<1> HIDE DEF c
<1>2. flow[e] \o c \in Seq(Packet) /\ Len(flow[e] \o c) = Len(flow[e]) + 1
  <2>1. flow[e] \in Seq(Packet)
    BY DEF NetOK
  <2> QED
    BY <1>1, <2>1, ConcatProperties
<1>3. uttered' \in Seq(Incoming)
  <2>1. uttered \o saying \in Seq(Incoming) /\ uttered \in Seq(Incoming)
    BY ConcatProperties DEF NetOK, ClientOK
  <2> QED
    BY <2>1 DEF PutHeader
<1>4. /\ flow' = [flow EXCEPT ![e] = flow[e] \o c]
      /\ net' = [net EXCEPT ![e] = net[e] + 1]
      /\ begun' = begun \cup {e}
      /\ e \notin begun /\ net[e] < NetCap
      /\ UNCHANGED <<buffer, returned>>
  BY DEF PutHeader, c
<1>5. /\ flow' \in [End -> Seq(Packet)]
      /\ net' \in [End -> 0 .. NetCap]
      /\ begun' \subseteq End
  BY <1>2, <1>4, NetCapAssumption DEF NetOK
<1>6. ASSUME NEW f \in End PROVE Aligned(f)'
  <2>1. Len(flow[f]) \in Nat /\ net[f] \in Nat /\ buffer[f] \in Nat /\ Aligned(f)
    BY <1>6 DEF NetOK
  <2>2. CASE f = e
    <3>1. /\ Len(flow'[f]) = Len(flow[f]) + 1
          /\ net'[f] = net[f] + 1
          /\ buffer'[f] = buffer[f]
          /\ f \notin begun /\ f \in begun'
      BY <1>2, <1>4, <2>2 DEF NetOK
    <3> QED
      BY <2>1, <3>1 DEF Aligned
  <2>3. CASE f # e
    BY <1>4, <2>1, <2>3 DEF NetOK, Aligned
  <2> QED
    BY <2>2, <2>3
<1> QED
  BY <1>3, <1>4, <1>5, <1>6 DEF NetOK

(* A body completes it. *)
LEMMA PutBodyNet ==
  ASSUME NetOK, NEW e \in End, PutBody(e)
  PROVE  NetOK'
<1>1. /\ net' = [net EXCEPT ![e] = net[e] + 1]
      /\ begun' = begun \ {e}
      /\ e \in begun /\ net[e] < NetCap
      /\ UNCHANGED <<flow, buffer, returned, uttered>>
  BY DEF PutBody
<1>2. net' \in [End -> 0 .. NetCap] /\ begun' \subseteq End
  BY <1>1, NetCapAssumption DEF NetOK
<1>3. ASSUME NEW f \in End PROVE Aligned(f)'
  <2>1. Len(flow[f]) \in Nat /\ net[f] \in Nat /\ buffer[f] \in Nat /\ Aligned(f)
    BY <1>3 DEF NetOK
  <2>2. CASE f = e
    <3>1. /\ flow'[f] = flow[f] /\ buffer'[f] = buffer[f]
          /\ net'[f] = net[f] + 1
          /\ f \in begun /\ f \notin begun'
      BY <1>1, <2>2 DEF NetOK
    <3> QED
      BY <2>1, <3>1 DEF Aligned
  <2>3. CASE f # e
    BY <1>1, <2>1, <2>3 DEF NetOK, Aligned
  <2> QED
    BY <2>2, <2>3
<1> QED
  BY <1>1, <1>2, <1>3 DEF NetOK

(* A read moves halves from the socket to the buffer. *)
LEMMA FillNet ==
  ASSUME NetOK, NEW e \in End, NEW n \in 1 .. NetCap, Fill(e, n)
  PROVE  NetOK'
<1>1. /\ n \in Nat /\ n <= net[e] /\ net[e] \in Nat
      /\ net' = [net EXCEPT ![e] = net[e] - n]
      /\ buffer' = [buffer EXCEPT ![e] = buffer[e] + n]
      /\ UNCHANGED <<begun, flow, returned, uttered>>
  BY NetCapAssumption DEF Fill, NetOK
<1>2. net' \in [End -> 0 .. NetCap] /\ buffer' \in [End -> Nat]
  BY <1>1, NetCapAssumption DEF NetOK
<1>3. ASSUME NEW f \in End PROVE Aligned(f)'
  <2>1. Len(flow[f]) \in Nat /\ net[f] \in Nat /\ buffer[f] \in Nat /\ Aligned(f)
    BY <1>3 DEF NetOK
  <2>2. CASE f = e
    <3>1. /\ flow'[f] = flow[f] /\ begun' = begun
          /\ net'[f] = net[f] - n
          /\ buffer'[f] = buffer[f] + n
      BY <1>1, <2>2 DEF NetOK
    <3> QED
      BY <1>1, <2>1, <3>1 DEF Aligned
  <2>3. CASE f # e
    BY <1>1, <2>1, <2>3 DEF NetOK, Aligned
  <2> QED
    BY <2>2, <2>3
<1> QED
  BY <1>1, <1>2, <1>3 DEF NetOK

(* There is a packet where next() looks for one, and it takes two halves. *)
LEMMA TakeNet ==
  ASSUME NetOK, NEW e \in End, NEW n \in 1 .. NetCap, NEW p \in Packet, Take(e, n, p)
  PROVE  /\ NetOK'
         /\ flow[e] \in Seq(Packet) /\ flow[e] # <<>>
         /\ e \in begun => flow'[e] # <<>>
<1> DEFINE rest == Tail(flow[e])
           longer == Append(returned[e], p)
<1>1. /\ n \in Nat /\ n <= net[e] /\ net[e] \in Nat /\ buffer[e] + n >= 3
      /\ net' = [net EXCEPT ![e] = net[e] - n]
      /\ buffer' = [buffer EXCEPT ![e] = buffer[e] + n - 2]
      /\ flow' = [flow EXCEPT ![e] = rest]
      /\ returned' = [returned EXCEPT ![e] = longer]
      /\ UNCHANGED <<begun, uttered>>
  BY NetCapAssumption DEF Take, Enough, NetOK
<1>2. /\ Len(flow[e]) \in Nat /\ buffer[e] \in Nat
      /\ flow[e] \in Seq(Packet) /\ returned[e] \in Seq(Packet)
      /\ 2 * Len(flow[e]) = net[e] + buffer[e] + (IF e \in begun THEN 1 ELSE 0)
  BY DEF NetOK, Aligned
<1>3. Len(flow[e]) >= 2
  BY <1>1, <1>2
<1>4. flow[e] # <<>>
  BY <1>2, <1>3, LenProperties
<1>5. rest \in Seq(Packet) /\ Len(rest) = Len(flow[e]) - 1
  BY <1>2, <1>4, HeadTailProperties
<1>6. longer \in Seq(Packet)
  BY <1>2, AppendProperties
<1> HIDE DEF rest, longer
<1>7. /\ net' \in [End -> 0 .. NetCap] /\ buffer' \in [End -> Nat]
      /\ flow' \in [End -> Seq(Packet)] /\ returned' \in [End -> Seq(Packet)]
  <2>1. net[e] - n \in 0 .. NetCap /\ buffer[e] + n - 2 \in Nat
    BY <1>1, <1>2, NetCapAssumption DEF NetOK
  <2> QED
    BY <1>1, <1>5, <1>6, <2>1 DEF NetOK
<1>8. ASSUME NEW f \in End PROVE Aligned(f)'
  <2>1. Len(flow[f]) \in Nat /\ net[f] \in Nat /\ buffer[f] \in Nat /\ Aligned(f)
    BY <1>8 DEF NetOK
  <2>2. CASE f = e
    <3>1. /\ Len(flow'[f]) = Len(flow[f]) - 1 /\ begun' = begun
          /\ net'[f] = net[f] - n
          /\ buffer'[f] = buffer[f] + n - 2
      BY <1>1, <1>5, <2>2 DEF NetOK
    <3> DEFINE j == IF f \in begun THEN 1 ELSE 0
               l == Len(flow[f])
               m == net[f]
               k == buffer[f]
    <3>2. l \in Nat /\ m \in Nat /\ k \in Nat /\ j \in Nat /\ n \in Nat
      BY <1>1, <2>1
    <3>3. 2 * l = m + k + j
      BY <2>1 DEF Aligned
    <3>4. Aligned(f)' <=> 2 * Len(flow'[f]) = net'[f] + buffer'[f] + j
      BY <3>1 DEF Aligned
    <3>5. Len(flow'[f]) = l - 1 /\ net'[f] = m - n /\ buffer'[f] = k + n - 2
      BY <3>1
    <3> HIDE DEF j, l, m, k
    <3>6. 2 * (l - 1) = (m - n) + (k + n - 2) + j
      BY <3>2, <3>3
    <3> QED
      BY <3>4, <3>5, <3>6
  <2>3. CASE f # e
    BY <1>1, <2>1, <2>3 DEF NetOK, Aligned
  <2> QED
    BY <2>2, <2>3
<1>9. flow'[e] # <<>>
  <2>1. flow'[e] = rest
    BY <1>1 DEF NetOK
  <2>2. rest # <<>>
    BY <1>2, <1>3, <1>5, EmptySeq
  <2> QED
    BY <2>1, <2>2
<1> QED
  BY <1>1, <1>2, <1>4, <1>7, <1>8, <1>9 DEF NetOK

-----------------------------------------------------------------------------
(* The steps of both ends. *)

(* The socket is as it was when its variables are. *)
LEMMA NetUnchanged == NetOK /\ UNCHANGED netVars => NetOK'
  BY DEF NetOK, netVars, Aligned

(* So is the client. *)
LEMMA ClientUnchanged == ClientOK /\ UNCHANGED clientVars => ClientOK'
  BY DEF ClientOK, clientVars

(* The server's steps. *)
LEMMA ServerNet ==
  ASSUME DuplexInv,
         ServerHeader \/ ServerBody \/ ServerRead \/ ServerError \/ ServerStep
  PROVE  ClientOK' /\ NetOK'
<1> USE DEF DuplexInv
<1>1. CASE ServerHeader
  BY <1>1, PutHeaderNet, ClientUnchanged DEF ServerHeader, End
<1>2. CASE ServerBody
  BY <1>2, PutBodyNet, ClientUnchanged DEF ServerBody, End
<1>3. CASE ServerFill
  BY <1>3, FillNet, ClientUnchanged DEF ServerFill, End
<1>4. CASE ServerTake
  BY <1>4, TakeNet, ClientUnchanged DEF ServerTake, End, Packet
<1>5. CASE ServerError
  BY <1>5, NetUnchanged, ClientUnchanged DEF ServerError
<1>6. CASE ServerStep
  BY <1>6, NetUnchanged, ClientUnchanged DEF ServerStep, Apart
<1> QED
  BY <1>1, <1>2, <1>3, <1>4, <1>5, <1>6 DEF ServerRead

(* A call of Client::send. *)
LEMMA TellerNet ==
  ASSUME DuplexInv, NEW p \in Said, Tell(p) \/ Told(p)
  PROVE  ClientOK' /\ NetOK'
<1> USE DEF DuplexInv
<1>1. NetOK'
  BY NetUnchanged DEF Tell, Told
<1>2. CASE Tell(p)
  BY <1>1, <1>2 DEF Tell, ClientOK
<1>3. CASE Told(p)
  <2> DEFINE one == <<p>>
  <2>1. one \in Seq(Said) /\ Len(one) = 1
    OBVIOUS
  <2>2. mailbox' \in Seq(Said) /\ Len(mailbox') <= 1
    <3>1. mailbox' = one \/ mailbox' = mailbox
      BY <1>3 DEF Told
    <3>2. one \in Seq(Said) /\ Len(one) <= 1
      BY <2>1
    <3>3. mailbox \in Seq(Said) /\ Len(mailbox) <= 1
      BY DEF ClientOK
    <3> HIDE DEF one
    <3> QED
      BY <3>1, <3>2, <3>3, Zenon
  <2>3. teller' \in [Said -> {"idle", "sending", "sent", "failed"}]
    BY <1>3 DEF Told, ClientOK
  <2>4. UNCHANGED <<client, saying>>
    BY <1>3 DEF Told
  <2> QED
    BY <1>1, <2>2, <2>3, <2>4 DEF ClientOK
<1> QED
  BY <1>1, <1>2, <1>3

(* The client's loop. *)
LEMMA ClientNet ==
  ASSUME DuplexInv,
         ClientSay \/ ClientHeader \/ ClientBody \/ ClientRead \/ ClientGone
  PROVE  ClientOK' /\ NetOK'
<1> USE DEF DuplexInv
<1>0. /\ <<>> \in Seq(Said) /\ <<>> \in Seq(Incoming)
      /\ Len(<<>>) = 0
  OBVIOUS
<1>1. CASE ClientSay
  <2>1. mailbox \in Seq(Incoming) /\ Len(mailbox) = 1
    <3>1. mailbox \in Seq(Said) /\ Len(mailbox) <= 1 /\ mailbox # <<>>
      BY <1>1 DEF ClientSay, ClientOK
    <3>2. Len(mailbox) \in Nat \ {0}
      BY <3>1, EmptySeq
    <3>3. \A n \in Nat \ {0} : n <= 1 => n = 1
      OBVIOUS
    <3>4. Len(mailbox) = 1
      BY <3>1, <3>2, <3>3, Zenon
    <3> QED
      BY <3>1, <3>4, SaidAssumption
  <2>2. NetOK'
    BY <1>1, NetUnchanged DEF ClientSay
  <2> QED
    BY <1>0, <1>1, <2>1, <2>2 DEF ClientSay, ClientOK
<1>2. CASE ClientHeader
  BY <1>2, PutHeaderNet, ClientUnchanged DEF ClientHeader, End
<1>3. CASE ClientBody
  <2>1. NetOK'
    BY <1>3, PutBodyNet DEF ClientBody, End
  <2> QED
    BY <1>0, <1>3, <2>1 DEF ClientBody, ClientOK
<1>4. CASE ClientFill
  BY <1>4, FillNet, ClientUnchanged DEF ClientFill, End
<1>5. CASE ClientTake
  <2>1. PICK n \in 1 .. NetCap, o \in Outgoing :
          /\ Take("server", n, o)
          /\ IF o \in Message
               THEN client' = "writing" /\ saying' = <<CliAck[o]>>
               ELSE UNCHANGED <<client, saying>>
    BY <1>5 DEF ClientTake
  <2>2. NetOK'
    BY <2>1, TakeNet DEF End, Packet
  <2>3. UNCHANGED <<mailbox, teller>>
    BY <1>5 DEF ClientTake
  <2>4. CASE o \in Message
    <3>1. CliAck[o] \in Incoming
      BY <2>4, CliAckAssumption
    <3>2. <<CliAck[o]>> \in Seq(Incoming) /\ Len(<<CliAck[o]>>) = 1
      BY <3>1
    <3> QED
      BY <2>1, <2>2, <2>3, <2>4, <3>2 DEF ClientOK
  <2>5. CASE o \notin Message
    BY <2>1, <2>2, <2>3, <2>5 DEF ClientOK
  <2> QED
    BY <2>4, <2>5
<1>6. CASE ClientGone
  <2>1. NetOK'
    BY <1>6, NetUnchanged DEF ClientGone
  <2> QED
    BY <1>0, <1>6, <2>1 DEF ClientGone, ClientOK
<1> QED
  BY <1>1, <1>2, <1>3, <1>4, <1>5, <1>6 DEF ClientRead

(* The initial state. *)
LEMMA DuplexInitInv == DuplexInit => DuplexInv
<1> SUFFICES ASSUME DuplexInit PROVE DuplexInv
  OBVIOUS
<1>1. ConnInv
  BY ConnInitInv DEF DuplexInit
<1>2. ClientOK
  BY DEF DuplexInit, ClientOK
<1>3. NetOK
  BY NetCapAssumption DEF DuplexInit, NetOK, Aligned
<1> QED
  BY <1>1, <1>2, <1>3 DEF DuplexInv

(* Every step preserves the invariant. *)
LEMMA DuplexNextInv == DuplexInv /\ [DuplexNext]_duplexVars => DuplexInv'
<1> SUFFICES ASSUME DuplexInv, [DuplexNext]_duplexVars PROVE DuplexInv'
  OBVIOUS
<1>1. ConnInv'
  BY ConnNextInv, StepsOfServer DEF DuplexInv
<1>2. ClientOK' /\ NetOK'
  <2>1. CASE ServerHeader \/ ServerBody \/ ServerRead \/ ServerError \/ ServerStep
    BY <2>1, ServerNet
  <2>2. CASE ClientSay \/ ClientHeader \/ ClientBody \/ ClientRead \/ ClientGone
    BY <2>2, ClientNet
  <2>3. ASSUME NEW p \in Said, Tell(p) \/ Told(p) PROVE ClientOK' /\ NetOK'
    BY <2>3, TellerNet
  <2>4. CASE UNCHANGED duplexVars
    BY <2>4, NetUnchanged, ClientUnchanged DEF duplexVars, DuplexInv
  <2> QED
    BY <2>1, <2>2, <2>3, <2>4 DEF DuplexNext
<1> QED
  BY <1>1, <1>2 DEF DuplexInv

(* The invariant holds throughout. *)
LEMMA DuplexInvariant == DuplexSpec => []DuplexInv
  BY DuplexInitInv, DuplexNextInv, PTL DEF DuplexSpec

(* Types of both ends; in particular the socket and the buffers hold every *)
(* half that was written and not returned, so each next() starts at a      *)
(* header, whoever went in the middle of a packet.                         *)
THEOREM DuplexTypeCorrect == DuplexSpec => []DuplexTypeOK
<1>1. DuplexInv => DuplexTypeOK
  BY DEF DuplexInv, ClientOK, NetOK, DuplexTypeOK
<1> QED
  BY <1>1, DuplexInvariant, PTL

-----------------------------------------------------------------------------
(* Sequences *)

(* Taking the head of one sequence to the end of another. *)
LEMMA MoveKeepsConcat ==
  ASSUME NEW S, NEW r \in Seq(S), NEW f \in Seq(S), f # <<>>
  PROVE  Append(r, Head(f)) \o Tail(f) = r \o f
<1>1. /\ Head(f) \in S
      /\ Tail(f) \in Seq(S)
      /\ <<Head(f)>> \in Seq(S)
  BY HeadTailProperties
<1>2. <<Head(f)>> \o Tail(f) = f
  BY <1>1
<1>3. Append(r, Head(f)) = r \o <<Head(f)>>
  BY <1>1, AppendIsConcat
<1>4. (r \o <<Head(f)>>) \o Tail(f) = r \o (<<Head(f)>> \o Tail(f))
  BY <1>1, ConcatAssociative
<1> QED
  BY <1>2, <1>3, <1>4

(* What was taken is a prefix of the whole ... *)
LEMMA PrefixOfConcat ==
  ASSUME NEW S, NEW r \in Seq(S), NEW f \in Seq(S)
  PROVE  IsPrefixOf(r, r \o f)
<1>1. /\ Len(r \o f) = Len(r) + Len(f) /\ Len(r) \in Nat /\ Len(f) \in Nat
      /\ \A i \in 1 .. Len(r) + Len(f) :
           (r \o f)[i] = IF i <= Len(r) THEN r[i] ELSE f[i - Len(r)]
  BY ConcatProperties, LenProperties
<1>2. ASSUME NEW i \in 1 .. Len(r) PROVE r[i] = (r \o f)[i]
  BY <1>1
<1> QED
  BY <1>1, <1>2 DEF IsPrefixOf

(* ... and also of the whole without its last element, while one is left. *)
LEMMA PrefixOfUnfinished ==
  ASSUME NEW S, NEW r \in Seq(S), NEW f \in Seq(S), NEW w \in Seq(S), NEW x \in S,
         f # <<>>, r \o f = Append(w, x)
  PROVE  IsPrefixOf(r, w)
<1>1. /\ Len(r) \in Nat /\ Len(f) \in Nat \ {0} /\ Len(w) \in Nat
      /\ Len(r \o f) = Len(r) + Len(f)
  BY ConcatProperties, LenProperties, EmptySeq
<1>2. /\ Len(Append(w, x)) = Len(w) + 1
      /\ \A i \in 1 .. Len(w) : Append(w, x)[i] = w[i]
  BY AppendProperties
<1>3. Len(r) <= Len(w)
  BY <1>1, <1>2
<1>4. ASSUME NEW i \in 1 .. Len(r) PROVE r[i] = w[i]
  <2>1. r[i] = (r \o f)[i]
    BY PrefixOfConcat DEF IsPrefixOf
  <2>2. i \in 1 .. Len(w)
    BY <1>1, <1>3
  <2> QED
    BY <1>2, <2>1, <2>2
<1> QED
  BY <1>3, <1>4 DEF IsPrefixOf

-----------------------------------------------------------------------------
(* What one end's next() returned and what is still under way make up what *)
(* the other end has written, and the packet that it is writing, or was in *)
(* the middle of when it ended.                                            *)
ServerWay == returned["server"] \o flow["server"]
ClientWay == returned["client"] \o flow["client"]

Unfinished(x) ==
  /\ ServerWay = Append(written, x)
  /\ loop = "writing" => writing = <<x>>

ServerOrder ==
  /\ "server" \in begun =>
       /\ loop = "writing" \/ ~Alive
       /\ \E x \in Outgoing : Unfinished(x)
  /\ "server" \notin begun => ServerWay = written

OrderInv == ServerOrder /\ ClientWay = uttered

(* Types of what the invariant speaks of. *)
LEMMA WayTypes ==
  ASSUME DuplexInv
  PROVE  /\ \A e \in End : flow[e] \in Seq(Packet) /\ returned[e] \in Seq(Packet)
         /\ ServerWay \in Seq(Packet) /\ ClientWay \in Seq(Packet)
         /\ written \in Seq(Packet) /\ uttered \in Seq(Packet)
<1>1. \A e \in End : flow[e] \in Seq(Packet) /\ returned[e] \in Seq(Packet)
  BY DEF DuplexInv, NetOK
<1>2. ServerWay \in Seq(Packet) /\ ClientWay \in Seq(Packet)
  BY <1>1, ConcatProperties DEF ServerWay, ClientWay, End
<1>3. written \in Seq(Outgoing) /\ uttered \in Seq(Incoming)
  BY DEF DuplexInv, NetOK, ConnInv, ConnTypeOK
<1> QED
  BY <1>1, <1>2, <1>3, SeqMonotonic DEF Packet

(* A packet that is half written has not been returned. *)
LEMMA UnfinishedIsLeft ==
  ASSUME DuplexInv, NEW e \in End, e \in begun
  PROVE  flow[e] # <<>>
<1>1. /\ 2 * Len(flow[e]) = net[e] + buffer[e] + 1
      /\ net[e] \in Nat /\ buffer[e] \in Nat
  BY NetCapAssumption DEF DuplexInv, NetOK, Aligned
<1>2. CASE flow[e] = <<>>
  BY <1>1, <1>2
<1> QED
  BY <1>2

(* A take moves a packet along its own way and leaves the other alone. *)
LEMMA TakeKeepsWays ==
  ASSUME DuplexInv, NEW e \in End, NEW n \in 1 .. NetCap, NEW p \in Packet, Take(e, n, p)
  PROVE  UNCHANGED <<ServerWay, ClientWay, begun, uttered>>
<1>1. /\ flow[e] \in Seq(Packet) /\ flow[e] # <<>>
      /\ returned[e] \in Seq(Packet)
  BY TakeNet, WayTypes DEF DuplexInv
<1>2. /\ flow' = [flow EXCEPT ![e] = Tail(flow[e])]
      /\ returned' = [returned EXCEPT ![e] = Append(returned[e], Head(flow[e]))]
      /\ UNCHANGED <<begun, uttered>>
  BY DEF Take
<1>3. Append(returned[e], Head(flow[e])) \o Tail(flow[e]) = returned[e] \o flow[e]
  BY <1>1, MoveKeepsConcat
<1>4. ASSUME NEW f \in End PROVE returned'[f] \o flow'[f] = returned[f] \o flow[f]
  BY <1>2, <1>3 DEF DuplexInv, NetOK
<1> QED
  BY <1>2, <1>4 DEF ServerWay, ClientWay, End

(* The server's way does not change, and if it has begun a packet it goes  *)
(* on with it or gives up for good.                                        *)
ServerGoesOn ==
  /\ UNCHANGED <<ServerWay, begun, written>>
  /\ loop = "writing" => (loop' = "writing" /\ writing' = writing) \/ ~Alive'
  /\ ~Alive => ~Alive'

(* Then its part of the invariant stays. *)
LEMMA GoingOnKeepsOrder == ServerOrder /\ ServerGoesOn => ServerOrder'
  BY DEF ServerOrder, Unfinished, ServerGoesOn, Alive

(* The header of a packet from the server. *)
LEMMA ServerHeaderOrder ==
  ASSUME DuplexInv, OrderInv, ServerHeader
  PROVE  OrderInv'
<1>1. /\ loop = "writing"
      /\ "server" \notin begun
      /\ begun' = begun \cup {"server"}
      /\ flow' = [flow EXCEPT !["server"] = flow["server"] \o writing]
      /\ UNCHANGED <<returned, uttered, loop, writing, written>>
  BY DEF ServerHeader, PutHeader, Writing, Current, connVars
<1>2. PICK x \in Outgoing : writing = <<x>>
  <2>1. writing \in Seq(Outgoing) /\ Len(writing) = 1
    BY <1>1, LoopHasOne DEF DuplexInv
  <2>2. writing[1] \in Outgoing
    BY <2>1, ElementOfSeq
  <2>3. writing = <<writing[1]>>
    BY <2>1, <2>2, SeqEqual
  <2> QED
    BY <2>2, <2>3
<1>3. /\ flow["server"] \in Seq(Packet) /\ returned["server"] \in Seq(Packet)
      /\ written \in Seq(Packet) /\ <<x>> \in Seq(Packet)
  BY <1>2, WayTypes DEF End, Packet
<1>4. /\ flow'["server"] = flow["server"] \o <<x>>
      /\ flow'["client"] = flow["client"]
  BY <1>1, <1>2 DEF DuplexInv, NetOK, End
<1>5. ServerWay = written
  BY <1>1 DEF OrderInv, ServerOrder
<1>6. ServerWay' = Append(written, x)
  <2>1. (returned["server"] \o flow["server"]) \o <<x>> =
          returned["server"] \o (flow["server"] \o <<x>>)
    <3> DEFINE r == returned["server"]
               f == flow["server"]
               c == <<x>>
    <3>1. r \in Seq(Packet) /\ f \in Seq(Packet) /\ c \in Seq(Packet)
      BY <1>3
    <3> HIDE DEF r, f, c
    <3>2. (r \o f) \o c = r \o (f \o c)
      BY <3>1, ConcatAssociative
    <3> QED
      BY <3>2 DEF r, f, c
  <2>2. written \o <<x>> = Append(written, x)
    BY <1>3, AppendIsConcat
  <2>3. ServerWay' = returned["server"] \o (flow["server"] \o <<x>>)
    BY <1>1, <1>4 DEF ServerWay
  <2> QED
    BY <1>5, <2>1, <2>2, <2>3 DEF ServerWay
<1>7. ServerOrder'
  BY <1>1, <1>2, <1>6 DEF ServerOrder, Unfinished
<1>8. ClientWay' = uttered'
  BY <1>1, <1>4 DEF OrderInv, ClientWay
<1> QED
  BY <1>7, <1>8 DEF OrderInv

(* Its body: the packet has been written. *)
LEMMA ServerBodyOrder ==
  ASSUME DuplexInv, OrderInv, ServerBody
  PROVE  OrderInv'
<1>1. /\ loop = "writing"
      /\ "server" \in begun
      /\ begun' = begun \ {"server"}
      /\ written' = written \o writing
      /\ UNCHANGED <<returned, flow, uttered>>
  BY DEF ServerBody, PutBody, WriteDone
<1>2. PICK x \in Outgoing : ServerWay = Append(written, x) /\ writing = <<x>>
  BY <1>1 DEF OrderInv, ServerOrder, Unfinished
<1>3. written \o <<x>> = Append(written, x)
  <2>1. written \in Seq(Packet) /\ x \in Packet
    BY WayTypes DEF Packet
  <2> QED
    BY <2>1, AppendIsConcat
<1>4. ServerWay' = written'
  BY <1>1, <1>2, <1>3 DEF ServerWay
<1>5. ServerOrder'
  BY <1>1, <1>4 DEF ServerOrder
<1>6. ClientWay' = uttered'
  BY <1>1 DEF OrderInv, ClientWay
<1> QED
  BY <1>5, <1>6 DEF OrderInv

(* The other steps of the server. *)
LEMMA ServerOtherOrder ==
  ASSUME DuplexInv, OrderInv, ServerRead \/ ServerError \/ ServerStep
  PROVE  OrderInv'
<1> DEFINE Still == UNCHANGED <<ServerWay, ClientWay, begun, uttered>>
<1>1. Still
  <2>1. CASE ServerFill
    BY <2>1 DEF ServerFill, Fill, ServerWay, ClientWay
  <2>2. CASE ServerTake
    BY <2>2, TakeKeepsWays DEF ServerTake, End, Packet
  <2>3. CASE ServerError \/ ServerStep
    BY <2>3 DEF ServerError, ServerStep, Apart, netVars, ServerWay, ClientWay
  <2> QED
    BY <2>1, <2>2, <2>3 DEF ServerRead
<1>2. /\ UNCHANGED written
      /\ loop = "writing" => (loop' = "writing" /\ writing' = writing) \/ ~Alive'
      /\ ~Alive => ~Alive'
  <2> USE DEF Alive
  <2>1. CASE ServerFill
    BY <2>1 DEF ServerFill, connVars
  <2>2. CASE ServerTake
    BY <2>2 DEF ServerTake, Receive
  <2>3. CASE ServerError
    BY <2>3 DEF ServerError, ReadError, WriteError, ReturnFromLoop
  <2>4. CASE ServerStep
    <3>1. CASE Connected \/ TakeOutgoing \/ ShutdownSignal \/ Disconnected
      BY <3>1 DEF Connected, TakeOutgoing, ShutdownSignal, Disconnected, ReturnFromLoop
    <3>2. ASSUME NEW k \in Closer, CloseStep(k) PROVE UNCHANGED <<loop, writing, written>>
      BY <3>2 DEF CloseStep, CloseStart, CloseAccepted, CloseRefused
    <3>3. ASSUME NEW o \in Outgoing, SendStep(o) PROVE UNCHANGED <<loop, writing, written>>
      BY <3>3 DEF SendStep, SendStart, SendAccepted, SendRefused
    <3>4. ASSUME NEW i \in Incoming, Process(i) PROVE UNCHANGED <<loop, writing, written>>
      BY <3>4 DEF Process
    <3> QED
      BY <2>4, <3>1, <3>2, <3>3, <3>4 DEF ServerStep, Apart
  <2> QED
    BY <2>1, <2>2, <2>3, <2>4 DEF ServerRead
<1>3. ServerGoesOn
  BY <1>1, <1>2 DEF ServerGoesOn
<1> QED
  BY <1>1, <1>3, GoingOnKeepsOrder DEF OrderInv

(* The client's header. *)
LEMMA ClientHeaderOrder ==
  ASSUME DuplexInv, OrderInv, ClientHeader
  PROVE  OrderInv'
<1>1. /\ begun' = begun \cup {"client"}
      /\ flow' = [flow EXCEPT !["client"] = flow["client"] \o saying]
      /\ uttered' = uttered \o saying
      /\ UNCHANGED <<returned, loop, writing, written>>
  BY DEF ClientHeader, PutHeader, Current, connVars
<1>2. /\ flow["client"] \in Seq(Packet) /\ returned["client"] \in Seq(Packet)
      /\ saying \in Seq(Packet)
  <2>1. saying \in Seq(Incoming)
    BY DEF DuplexInv, ClientOK
  <2> QED
    BY <2>1, WayTypes, SeqMonotonic DEF End, Packet
<1>3. /\ flow'["client"] = flow["client"] \o saying
      /\ flow'["server"] = flow["server"]
  BY <1>1 DEF DuplexInv, NetOK, End
<1>4. ClientWay' = uttered'
  <2>1. (returned["client"] \o flow["client"]) \o saying =
          returned["client"] \o (flow["client"] \o saying)
    <3> DEFINE r == returned["client"]
               f == flow["client"]
               c == saying
    <3>1. r \in Seq(Packet) /\ f \in Seq(Packet) /\ c \in Seq(Packet)
      BY <1>2
    <3> HIDE DEF r, f, c
    <3>2. (r \o f) \o c = r \o (f \o c)
      BY <3>1, ConcatAssociative
    <3> QED
      BY <3>2 DEF r, f, c
  <2>2. ClientWay' = returned["client"] \o (flow["client"] \o saying)
    BY <1>1, <1>3 DEF ClientWay
  <2> QED
    BY <1>1, <2>1, <2>2 DEF OrderInv, ClientWay
<1>5. ServerWay' = ServerWay /\ ("server" \in begun' <=> "server" \in begun)
  BY <1>1, <1>3 DEF ServerWay
<1>6. ServerOrder'
  BY <1>1, <1>5 DEF OrderInv, ServerOrder, Unfinished, Alive
<1> QED
  BY <1>4, <1>6 DEF OrderInv

(* The other steps of the client and of the calls of Client::send. *)
LEMMA ClientOtherOrder ==
  ASSUME DuplexInv, OrderInv,
         \/ ClientSay \/ ClientBody \/ ClientRead \/ ClientGone
         \/ \E p \in Said : Tell(p) \/ Told(p)
  PROVE  OrderInv'
<1>1. /\ UNCHANGED <<ServerWay, ClientWay, uttered, loop, writing, written>>
      /\ "server" \in begun' <=> "server" \in begun
  <2>1. CASE ClientBody
    BY <2>1 DEF ClientBody, PutBody, ServerWay, ClientWay, connVars
  <2>2. CASE ClientFill
    BY <2>2 DEF ClientFill, Fill, ServerWay, ClientWay, connVars
  <2>3. CASE ClientTake
    BY <2>3, TakeKeepsWays DEF ClientTake, End, Packet, connVars
  <2>4. CASE ClientSay \/ ClientGone
    BY <2>4 DEF ClientSay, ClientGone, netVars, connVars, ServerWay, ClientWay
  <2>5. ASSUME NEW p \in Said, Tell(p) \/ Told(p) PROVE UNCHANGED <<netVars, connVars>>
    BY <2>5 DEF Tell, Told
  <2> QED
    BY <2>1, <2>2, <2>3, <2>4, <2>5
       DEF ClientRead, netVars, connVars, ServerWay, ClientWay
<1>2. ServerOrder'
  BY <1>1 DEF OrderInv, ServerOrder, Unfinished, Alive
<1> QED
  BY <1>1, <1>2 DEF OrderInv

(* The order of both ways holds throughout. *)
LEMMA OrderInvariant == DuplexSpec => []OrderInv
<1>1. DuplexInit => OrderInv
  BY EmptySeq, ConcatEmptySeq
     DEF DuplexInit, ConnInit, OrderInv, ServerOrder, ServerWay, ClientWay, End
<1>2. DuplexInv /\ OrderInv /\ [DuplexNext]_duplexVars => OrderInv'
  <2> SUFFICES ASSUME DuplexInv, OrderInv, [DuplexNext]_duplexVars PROVE OrderInv'
    OBVIOUS
  <2>1. CASE UNCHANGED duplexVars
    BY <2>1 DEF duplexVars, connVars, netVars, OrderInv, ServerOrder, Unfinished,
                ServerWay, ClientWay, Alive
  <2> QED
    BY <2>1, ServerHeaderOrder, ServerBodyOrder, ServerOtherOrder, ClientHeaderOrder,
       ClientOtherOrder DEF DuplexNext
<1> QED
  BY <1>1, <1>2, DuplexInvariant, PTL DEF DuplexSpec

(* Each end's next() returns what the other wrote, whole and in its order, *)
(* at any cut of the two directions and whoever goes at any time.          *)
THEOREM DuplexKeepsOrder == DuplexSpec => []EachWayInOrder
<1>1. DuplexInv /\ OrderInv => EachWayInOrder
  <2> SUFFICES ASSUME DuplexInv, OrderInv PROVE EachWayInOrder
    OBVIOUS
  <2>1. /\ flow["server"] \in Seq(Packet) /\ returned["server"] \in Seq(Packet)
        /\ flow["client"] \in Seq(Packet) /\ returned["client"] \in Seq(Packet)
        /\ written \in Seq(Packet)
    BY WayTypes DEF End
  <2>2. IsPrefixOf(returned["client"], uttered)
    BY <2>1, PrefixOfConcat DEF OrderInv, ClientWay
  <2>3. CASE "server" \in begun
    <3>1. flow["server"] # <<>>
      BY <2>1, <2>3, UnfinishedIsLeft DEF End
    <3>2. PICK x \in Outgoing : ServerWay = Append(written, x)
      BY <2>3 DEF OrderInv, ServerOrder, Unfinished
    <3>3. IsPrefixOf(returned["server"], written)
      BY <2>1, <3>1, <3>2, PrefixOfUnfinished DEF ServerWay, Packet
    <3> QED
      BY <2>2, <3>3 DEF EachWayInOrder
  <2>4. CASE "server" \notin begun
    <3>1. IsPrefixOf(returned["server"], written)
      BY <2>1, <2>4, PrefixOfConcat DEF OrderInv, ServerOrder, ServerWay
    <3> QED
      BY <2>2, <3>1 DEF EachWayInOrder
  <2> QED
    BY <2>3, <2>4
<1> QED
  BY <1>1, DuplexInvariant, OrderInvariant, PTL

=============================================================================
