-------------------------- MODULE ConnectorProofs --------------------------
(***************************************************************************)
(* What TLAPS proves of Connector, for all sets of packets and closers and *)
(* every channel capacity: type correctness, and that the path from the    *)
(* send channel to the peer is a FIFO link that breaks once.               *)
(***************************************************************************)
EXTENDS Connector, SequenceTheorems, TLAPS

-----------------------------------------------------------------------------
(* The loop owns a packet exactly while it writes it, and its locals are   *)
(* gone once run_connection has returned: the strengthening that makes     *)
(* both theorems inductive.                                                *)
LocalsInv ==
  /\ loop = "writing" <=> writing # <<>>
  /\ ~Alive => channel = <<>>

ConnInv == ConnTypeOK /\ LocalsInv

(* The initial state. *)
LEMMA ConnInitInv == ConnInit => ConnInv
  BY ChannelCapAssumption
     DEF ConnInit, ConnInv, ConnTypeOK, LocalsInv, LoopState, Alive

(* Leaving the loop, whatever the reason, preserves the invariant. *)
LEMMA ReturnInv == ConnInv /\ ReturnFromLoop => ConnInv'
  BY ChannelCapAssumption
     DEF ReturnFromLoop, ConnInv, ConnTypeOK, LocalsInv, LoopState, Alive

(* The steps of the connection task. *)
LEMMA LoopStepInv == ConnInv /\ LoopStep => ConnInv'
<1> SUFFICES ASSUME ConnInv, LoopStep PROVE ConnInv'
  OBVIOUS
<1> USE DEF ConnInv, ConnTypeOK, LocalsInv, LoopState, Alive
<1>1. CASE Connected
  BY <1>1 DEF Connected
<1>2. CASE TakeOutgoing
  <2>1. /\ Head(channel) \in Outgoing
        /\ Tail(channel) \in Seq(Outgoing)
        /\ Len(Tail(channel)) = Len(channel) - 1
    BY <1>2, HeadTailProperties DEF TakeOutgoing
  <2>2. writing' \in Seq(Outgoing) /\ Len(writing') = 1 /\ writing' # <<>>
    BY <1>2, <2>1 DEF TakeOutgoing
  <2>3. Len(channel') <= ChannelCap
    BY <1>2, <2>1, LenProperties, ChannelCapAssumption DEF TakeOutgoing
  <2> QED
    BY <1>2, <2>1, <2>2, <2>3 DEF TakeOutgoing
<1>3. CASE WriteDone
  <2>1. written' \in Seq(Outgoing)
    BY <1>3, ConcatProperties DEF WriteDone
  <2> QED
    BY <1>3, <2>1 DEF WriteDone
<1>4. CASE WriteError
  BY <1>4, ReturnInv DEF WriteError
<1>5. ASSUME NEW i \in Incoming, Receive(i) PROVE ConnInv'
  BY <1>5 DEF Receive
<1>6. CASE ReadError
  BY <1>6, ReturnInv DEF ReadError
<1>7. CASE ShutdownSignal
  BY <1>7, ReturnInv DEF ShutdownSignal
<1>8. CASE Disconnected
  BY <1>8 DEF Disconnected
<1> QED
  BY <1>1, <1>2, <1>3, <1>4, <1>5, <1>6, <1>7, <1>8 DEF LoopStep

(* A step of a task that sends. *)
LEMMA SendStepInv ==
  ASSUME NEW o \in Outgoing, ConnInv, SendStep(o)
  PROVE  ConnInv'
<1> USE DEF ConnInv, ConnTypeOK, LocalsInv, LoopState, Alive
<1>1. CASE SendStart(o)
  BY <1>1 DEF SendStart
<1>2. CASE SendAccepted(o)
  <2>1. channel' \in Seq(Outgoing) /\ Len(channel') = Len(channel) + 1
    BY <1>2, AppendProperties DEF SendAccepted
  <2>2. Len(channel') <= ChannelCap
    BY <1>2, <2>1, LenProperties, ChannelCapAssumption DEF SendAccepted
  <2> QED
    BY <1>2, <2>1, <2>2 DEF SendAccepted
<1>3. CASE SendRefused(o)
  BY <1>3 DEF SendRefused
<1> QED
  BY <1>1, <1>2, <1>3 DEF SendStep

(* A step of a task that closes. *)
LEMMA CloseStepInv ==
  ASSUME NEW k \in Closer, ConnInv, CloseStep(k)
  PROVE  ConnInv'
<1> USE DEF ConnInv, ConnTypeOK, LocalsInv, LoopState, Alive
<1>1. CASE CloseStart(k)
  BY <1>1 DEF CloseStart
<1>2. CASE CloseAccepted(k)
  BY <1>2 DEF CloseAccepted
<1>3. CASE CloseRefused(k)
  BY <1>3 DEF CloseRefused
<1> QED
  BY <1>1, <1>2, <1>3 DEF CloseStep

(* Every step of the connection preserves the invariant. *)
LEMMA ConnNextInv == ConnInv /\ [ConnNext]_connVars => ConnInv'
<1> SUFFICES ASSUME ConnInv, [ConnNext]_connVars PROVE ConnInv'
  OBVIOUS
<1>1. CASE LoopStep
  BY <1>1, LoopStepInv
<1>2. ASSUME NEW k \in Closer, CloseStep(k) PROVE ConnInv'
  BY <1>2, CloseStepInv
<1>3. ASSUME NEW o \in Outgoing, SendStep(o) PROVE ConnInv'
  BY <1>3, SendStepInv
<1>4. ASSUME NEW i \in Incoming, Process(i) PROVE ConnInv'
  BY <1>4 DEF Process, ConnInv, ConnTypeOK, LocalsInv, Alive
<1>5. CASE UNCHANGED connVars
  BY <1>5 DEF connVars, ConnInv, ConnTypeOK, LocalsInv, Alive
<1> QED
  BY <1>1, <1>2, <1>3, <1>4, <1>5 DEF ConnNext

(* The invariant holds throughout. *)
LEMMA ConnInvariant == ConnSpec => []ConnInv
  BY ConnInitInv, ConnNextInv, PTL DEF ConnSpec

(* Type correctness of the connection, the bound of the channel included. *)
THEOREM ConnectorTypeCorrect == ConnSpec => []ConnTypeOK
<1>1. ConnInv => ConnTypeOK
  BY DEF ConnInv
<1> QED
  BY <1>1, ConnInvariant, PTL

-----------------------------------------------------------------------------
(* The refinement of FifoLink.  `offered` is the abstract sequence that the *)
(* loop's locals stand for.                                                 *)
Offered == written \o writing \o channel

(* What is known of it in every state of the invariant. *)
LEMMA OfferedType ==
  ASSUME ConnInv
  PROVE  /\ written \in Seq(Outgoing)
         /\ Offered \in Seq(Outgoing)
         /\ written \o writing \in Seq(Outgoing)
         /\ ~Alive => Offered = written
         /\ loop = "select" => Offered = written \o channel
<1>1. /\ written \in Seq(Outgoing)
      /\ writing \in Seq(Outgoing)
      /\ channel \in Seq(Outgoing)
  BY DEF ConnInv, ConnTypeOK
<1>2. written \o writing \in Seq(Outgoing) /\ Offered \in Seq(Outgoing)
  BY <1>1, ConcatProperties DEF Offered
<1>3. ASSUME loop # "writing" PROVE Offered = written \o channel
  BY <1>1, <1>3, ConcatEmptySeq DEF ConnInv, LocalsInv, Offered
<1>4. ASSUME ~Alive PROVE Offered = written
  BY <1>1, <1>3, <1>4, ConcatEmptySeq DEF ConnInv, LocalsInv, Alive
<1> QED
  BY <1>1, <1>2, <1>3, <1>4

(* An accepted packet is offered to the link. *)
LEMMA AcceptedIsOffer ==
  ASSUME ConnInv, NEW o \in Outgoing, SendAccepted(o)
  PROVE  Link!Offer(o)
<1>1. /\ channel \in Seq(Outgoing)
      /\ written \o writing \in Seq(Outgoing)
      /\ <<o>> \in Seq(Outgoing)
  BY OfferedType DEF ConnInv, ConnTypeOK
<1>2. Append(channel, o) = channel \o <<o>>
  BY <1>1, AppendIsConcat
<1>3. (written \o writing) \o (channel \o <<o>>) = ((written \o writing) \o channel) \o <<o>>
  BY <1>1, ConcatAssociative
<1>4. Append(Offered, o) = Offered \o <<o>>
  BY OfferedType, AppendIsConcat
<1>5. Offered' = Append(Offered, o)
  BY <1>2, <1>3, <1>4 DEF Offered, SendAccepted
<1>6. Alive /\ UNCHANGED <<written, Alive>>
  BY DEF SendAccepted, Alive
<1> QED
  BY <1>5, <1>6 DEF Link!Offer, Offered

(* Taking a packet from the channel to write it leaves the link as it is. *)
LEMMA TakeIsStutter ==
  ASSUME ConnInv, TakeOutgoing
  PROVE  UNCHANGED Link!vars
<1>1. channel \in Seq(Outgoing) /\ written \in Seq(Outgoing) /\ channel # <<>>
  BY DEF ConnInv, ConnTypeOK, TakeOutgoing
<1>2. /\ Head(channel) \in Outgoing
      /\ Tail(channel) \in Seq(Outgoing)
      /\ <<Head(channel)>> \in Seq(Outgoing)
  BY <1>1, HeadTailProperties
<1>3. <<Head(channel)>> \o Tail(channel) = channel
  BY <1>1, <1>2
<1>4. (written \o <<Head(channel)>>) \o Tail(channel) = written \o channel
  BY <1>1, <1>2, <1>3, ConcatAssociative
<1>5. Offered' = Offered
  BY <1>4, OfferedType DEF TakeOutgoing, Offered
<1>6. UNCHANGED <<written, Alive>>
  BY DEF TakeOutgoing, Alive
<1> QED
  BY <1>5, <1>6 DEF Link!vars, Offered

(* A packet written is the next one delivered. *)
LEMMA WriteIsDeliver ==
  ASSUME ConnInv, WriteDone
  PROVE  Link!Deliver
<1>1. /\ written \in Seq(Outgoing)
      /\ writing \in Seq(Outgoing)
      /\ channel \in Seq(Outgoing)
      /\ Len(writing) = 1
  <2>1. /\ written \in Seq(Outgoing)
        /\ writing \in Seq(Outgoing)
        /\ channel \in Seq(Outgoing)
        /\ Len(writing) <= 1
        /\ writing # <<>>
    BY DEF ConnInv, ConnTypeOK, LocalsInv, WriteDone
  <2>2. Len(writing) \in Nat \ {0}
    BY <2>1, EmptySeq
  <2>3. \A n \in Nat \ {0} : n <= 1 => n = 1
    OBVIOUS
  <2>4. Len(writing) = 1
    BY <2>1, <2>2, <2>3, Zenon
  <2> QED
    BY <2>1, <2>4
<1>2. PICK o \in Outgoing : writing = <<o>>
  <2>1. writing[1] \in Outgoing
    BY <1>1, ElementOfSeq
  <2>2. writing = <<writing[1]>>
    BY <1>1, <2>1, SeqEqual
  <2> QED
    BY <2>1, <2>2
<1>3. written \o <<o>> = Append(written, o)
  BY <1>1, AppendIsConcat
<1>4. Offered = Append(written, o) \o channel
  BY <1>2, <1>3 DEF Offered
<1>5. /\ Append(written, o) \in Seq(Outgoing)
      /\ Len(Append(written, o)) = Len(written) + 1
      /\ Append(written, o)[Len(written) + 1] = o
      /\ Len(written) \in Nat
      /\ Len(channel) \in Nat
  BY <1>1, AppendProperties, LenProperties
<1>6. Len(written) < Len(Offered) /\ Offered[Len(written) + 1] = o
  BY <1>1, <1>4, <1>5, ConcatProperties
<1>7. written' = Append(written, o) /\ channel' = channel /\ writing' = <<>>
  BY <1>2, <1>3 DEF WriteDone
<1>8. Offered' = Offered
  BY <1>4, <1>5, <1>7, ConcatEmptySeq DEF Offered
<1>9. Alive /\ UNCHANGED Alive
  BY DEF WriteDone, Alive
<1> QED
  BY <1>6, <1>7, <1>8, <1>9 DEF Link!Deliver, Offered

(* The loop's return breaks the link, and loses what was not written. *)
LEMMA ReturnIsBreak ==
  ASSUME ConnInv, Alive, ReturnFromLoop
  PROVE  Link!Break
<1>1. written \in Seq(Outgoing)
  BY OfferedType
<1>2. Offered' = written /\ written' = written
  BY <1>1, ConcatEmptySeq DEF ReturnFromLoop, Offered
<1>3. ~Alive'
  BY DEF ReturnFromLoop, Alive
<1> QED
  BY <1>2, <1>3 DEF Link!Break, Offered

(* Every step of the connection is a step of the link, or leaves it alone. *)
LEMMA StepRefinesLink ==
  ASSUME ConnInv, [ConnNext]_connVars
  PROVE  [Link!Next]_(Link!vars)
<1> DEFINE Same == UNCHANGED <<written, writing, channel, Alive>>
<1> USE DEF Alive
<1>1. Same => UNCHANGED Link!vars
  BY DEF Link!vars
<1>2. CASE LoopStep
  <2>1. CASE Connected
    BY <1>1, <2>1 DEF Connected
  <2>2. CASE TakeOutgoing
    BY <2>2, TakeIsStutter
  <2>3. CASE WriteDone
    BY <2>3, WriteIsDeliver DEF Link!Next
  <2>4. CASE WriteError
    BY <2>4, ReturnIsBreak DEF WriteError, Link!Next
  <2>5. ASSUME NEW i \in Incoming, Receive(i) PROVE Same
    BY <2>5 DEF Receive
  <2>6. CASE ReadError
    BY <2>6, ReturnIsBreak DEF ReadError, Link!Next
  <2>7. CASE ShutdownSignal
    BY <2>7, ReturnIsBreak DEF ShutdownSignal, Link!Next
  <2>8. CASE Disconnected
    BY <1>1, <2>8 DEF Disconnected
  <2> QED
    BY <1>1, <1>2, <2>1, <2>2, <2>3, <2>4, <2>5, <2>6, <2>7, <2>8 DEF LoopStep
<1>3. ASSUME NEW k \in Closer, CloseStep(k) PROVE Same
  BY <1>3 DEF CloseStep, CloseStart, CloseAccepted, CloseRefused
<1>4. ASSUME NEW o \in Outgoing, SendStep(o) PROVE [Link!Next]_(Link!vars)
  <2>1. CASE SendAccepted(o)
    BY <2>1, AcceptedIsOffer DEF Link!Next
  <2>2. CASE SendStart(o) \/ SendRefused(o)
    BY <1>1, <2>2 DEF SendStart, SendRefused
  <2> QED
    BY <1>4, <2>1, <2>2 DEF SendStep
<1>5. ASSUME NEW i \in Incoming, Process(i) PROVE Same
  BY <1>5 DEF Process
<1>6. CASE UNCHANGED connVars
  BY <1>1, <1>6 DEF connVars
<1> HIDE DEF Same
<1> QED
  BY <1>1, <1>2, <1>3, <1>4, <1>5, <1>6 DEF ConnNext

(* The peer is sent the accepted packets in order, none twice and none     *)
(* skipped, until the loop returns: Connector implements FifoLink.         *)
THEOREM ConnectorImplementsFifoLink == ConnSpec => ImplementsFifoLink
<1>1. ConnInit => Link!Init
  BY DEF ConnInit, Link!Init, Alive
<1>2. ConnInv /\ [ConnNext]_connVars => [Link!Next]_(Link!vars)
  BY StepRefinesLink
<1> QED
  BY <1>1, <1>2, ConnInvariant, PTL DEF ConnSpec, ImplementsFifoLink, Link!Spec

=============================================================================
