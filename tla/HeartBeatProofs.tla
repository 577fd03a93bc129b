-------------------------- MODULE HeartBeatProofs --------------------------
(***************************************************************************)
(* Proofs about HeartBeat, for every interval and every set of tasks.      *)
(*                                                                         *)
(* The properties are not inductive: they speak of the silence and of the  *)
(* reactor, and the two meet only in LAST_READ.  ReadInv says how far      *)
(* LAST_READ may be from the truth while tasks have not kicked it yet, and *)
(* ReactorInv what the reactor knows at each of its steps.                 *)
(***************************************************************************)
EXTENDS HeartBeat, TLAPS

(* LAST_READ is the time of the last packet, once the tasks have kicked. *)
ReadInv ==
  conn # "new" =>
    /\ lastRead \in Duration
    /\ silent <= lastRead
    /\ lastRead <= worst
    /\ \A t \in Task : stage[t] = "received" => silent = 0
    /\ (\A t \in Task : stage[t] # "received") => lastRead = silent

ReactorInv ==
  /\ conn = "new" => reactor = "off" /\ wait = 0 /\ silent = 0
  /\ reactor \in {"check", "decide"} => wait = 0
  /\ reactor = "check" /\ conn = "up" => silent <= 4 * Interval
  /\ reactor = "decide" => seen \in Duration /\ silent <= seen /\ seen <= worst

IInv ==
  /\ HeartBeatTypeOK
  /\ ReadInv
  /\ ReactorInv
  /\ DetectsInTime
  /\ OnlySilenceEndsIt
  /\ SignalIsKept

LEMMA Inductive == Spec => []IInv
<1> USE IntervalAssumption, LogoutAssumption, HorizonAssumption DEF Duration, Running
<1>1. Init => IInv
  BY DEF Init, IInv, HeartBeatTypeOK, ReadInv, ReactorInv, DetectsInTime,
         OnlySilenceEndsIt, SignalIsKept
<1>2. IInv /\ [Next]_vars => IInv'
  <2> SUFFICES ASSUME IInv, [Next]_vars PROVE IInv'
    OBVIOUS
  <2> USE DEF IInv, HeartBeatTypeOK, ReadInv, ReactorInv, DetectsInTime,
              OnlySilenceEndsIt, SignalIsKept, taskVars, reactorVars, history
  <2>1. CASE Connected
    BY <2>1 DEF Connected
  <2>2. CASE Lose
    BY <2>2 DEF Lose
  <2>3. CASE Disconnected
    BY <2>3 DEF Disconnected
  <2>4. ASSUME NEW t \in Task, NEW k \in {"ping", "other"}, Receive(t, k) PROVE IInv'
    BY <2>4 DEF Receive
  <2>5. ASSUME NEW t \in Task, KickRead(t) PROVE IInv'
    BY <2>5 DEF KickRead
  <2>6. ASSUME NEW t \in Task, SendPong(t) PROVE IInv'
    BY <2>6 DEF SendPong
  <2>7. ASSUME NEW t \in Task, InnerProcess(t) PROVE IInv'
    BY <2>7 DEF InnerProcess
  <2>8. CASE LastRead
    BY <2>8 DEF LastRead
  <2>9. CASE Silent
    BY <2>9 DEF Silent
  <2>10. CASE Sleep
    BY <2>10 DEF Sleep
  <2>11. CASE WakeUp
    BY <2>11 DEF WakeUp
  <2>12. CASE Shutdown
    BY <2>12 DEF Shutdown
  <2>13. CASE Tick
    BY <2>13 DEF Tick, Quiescent, Later, Longer
  <2>14. CASE UNCHANGED vars
    BY <2>14 DEF vars
  <2> QED
    BY <2>1, <2>2, <2>3, <2>4, <2>5, <2>6, <2>7, <2>8, <2>9, <2>10, <2>11, <2>12,
       <2>13, <2>14 DEF Next, TaskStep, ReactorStep
<1> QED
  BY <1>1, <1>2, PTL DEF Spec

(* The state keeps its types. *)
THEOREM HeartBeatTypeCorrect == Spec => []HeartBeatTypeOK
  BY Inductive, PTL DEF IInv

(* A silent client is found out within four intervals. *)
THEOREM SilenceIsDetected == Spec => []DetectsInTime
  BY Inductive, PTL DEF IInv

(* The reactor gives up only after a silence of more than three intervals. *)
THEOREM ReactorEndsOnSilence == Spec => []OnlySilenceEndsIt
  BY Inductive, PTL DEF IInv

(* The shutdown signal of `disconnected` is not missed. *)
THEOREM SignalReachesReactor == Spec => []SignalIsKept
  BY Inductive, PTL DEF IInv

=============================================================================
