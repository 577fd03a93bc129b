------------------------------ MODULE FifoLink ------------------------------
(***************************************************************************)
(* What a one-way packet path promises, whatever carries it: items are     *)
(* delivered in the order they were offered, each at most once and none    *)
(* skipped, until the link breaks.  What was offered and not delivered     *)
(* when the link breaks is lost, and nothing happens on it afterwards.     *)
(*                                                                         *)
(* Connector implements it with the packets of the send channel, Framing   *)
(* with the frames of the byte stream.                                     *)
(***************************************************************************)
EXTENDS Naturals, Sequences

CONSTANT Item

VARIABLES
  offered,    \* everything offered and not lost, delivered items included
  delivered,  \* the items delivered, in order
  up          \* the link has not broken

vars == <<offered, delivered, up>>

Init ==
  /\ offered = <<>>
  /\ delivered = <<>>
  /\ up = TRUE

Offer(x) ==
  /\ up
  /\ offered' = Append(offered, x)
  /\ UNCHANGED <<delivered, up>>

Deliver ==
  /\ up
  /\ Len(delivered) < Len(offered)
  /\ delivered' = Append(delivered, offered[Len(delivered) + 1])
  /\ UNCHANGED <<offered, up>>

Break ==
  /\ up
  /\ up' = FALSE
  /\ offered' = delivered
  /\ UNCHANGED delivered

Next ==
  \/ \E x \in Item : Offer(x)
  \/ Deliver
  \/ Break

Spec == Init /\ [][Next]_vars

=============================================================================
