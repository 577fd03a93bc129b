----------------------------- MODULE MCFraming -----------------------------
(* Three frames with bodies shorter and longer than a header, read in       *)
(* pieces of every size.                                                    *)
EXTENDS Framing

=============================================================================
