---------------------------- MODULE RequestReply ----------------------------
(***************************************************************************)
(* What a request/reply layer over a lossy connection promises its         *)
(* callers.  A call ends once and for all, with one of three outcomes:     *)
(*   - "ok", with a reply that bears the call's id and that answers no     *)
(*     other call;                                                         *)
(*   - "disconnected", only when the connection is down or the id was      *)
(*     asked again by another call;                                        *)
(*   - "timeout".                                                          *)
(* SyncMessage implements it.                                              *)
(***************************************************************************)
CONSTANTS Call, Reply, Id, NoReply

VARIABLES
  outcome,  \* "idle", "pending" or how the call ended
  asked,    \* the id of each call that was made
  heard,    \* the id of each reply that came in
  answer,   \* the reply each "ok" call got
  down      \* the connection is down

vars == <<outcome, asked, heard, answer, down>>

Init ==
  /\ outcome = [c \in Call |-> "idle"]
  /\ asked \in [Call -> Id]
  /\ heard \in [Reply -> Id]
  /\ answer = [c \in Call |-> NoReply]
  /\ down = FALSE

Ask(c, r) ==
  /\ outcome[c] = "idle"
  /\ outcome' = [outcome EXCEPT ![c] = "pending"]
  /\ asked' = [asked EXCEPT ![c] = r]
  /\ UNCHANGED <<heard, answer, down>>

(* An id comes with a reply before that reply answers anybody. *)
Hear(i, r) ==
  /\ ~down
  /\ \A c \in Call : answer[c] # i
  /\ heard' = [heard EXCEPT ![i] = r]
  /\ UNCHANGED <<outcome, asked, answer, down>>

End(c, how) ==
  /\ outcome[c] = "pending"
  /\ outcome' = [outcome EXCEPT ![c] = how]
  /\ UNCHANGED <<asked, heard, down>>

Answer(c, i) ==
  /\ heard[i] = asked[c]
  /\ \A d \in Call : answer[d] # i
  /\ answer' = [answer EXCEPT ![c] = i]
  /\ End(c, "ok")

SharesId(c) ==
  \E d \in Call \ {c} : outcome[d] # "idle" /\ asked[d] = asked[c]

Disconnect(c) ==
  /\ down \/ SharesId(c)
  /\ End(c, "disconnected")
  /\ UNCHANGED answer

Timeout(c) ==
  /\ End(c, "timeout")
  /\ UNCHANGED answer

GoDown ==
  /\ ~down
  /\ down' = TRUE
  /\ UNCHANGED <<outcome, asked, heard, answer>>

Next ==
  \/ \E c \in Call, r \in Id : Ask(c, r)
  \/ \E i \in Reply, r \in Id : Hear(i, r)
  \/ \E c \in Call, i \in Reply : Answer(c, i)
  \/ \E c \in Call : Disconnect(c) \/ Timeout(c)
  \/ GoDown

Spec == Init /\ [][Next]_vars

=============================================================================
