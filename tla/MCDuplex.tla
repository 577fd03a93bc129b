------------------------------ MODULE MCDuplex ------------------------------
(* Two packets to the client, one of which it answers, and two from it.     *)
EXTENDS Duplex, TLC

CONSTANTS o1, a1

MCCliAck == o1 :> a1

=============================================================================
