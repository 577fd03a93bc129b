----------------------------- MODULE HeartBeat -----------------------------
(***************************************************************************)
(* The heart beat of one connection (connect/src/extract/heart_beat.rs):   *)
(* a reactor that wakes up now and then to see when something was last     *)
(* read, the tasks that process packets and kick that time, and the signal *)
(* that `disconnected` sends to the reactor.                               *)
(*                                                                         *)
(* Time passes in ticks.  What runs takes no time: there is no tick while  *)
(* a task, the reactor or `disconnected` has a step to take, which is to   *)
(* say that scheduling delays are small against the interval.  Within one  *)
(* instant the steps interleave in every order.                            *)
(*                                                                         *)
(* Packets that SyncMessageProcessor consumes are not seen here.           *)
(***************************************************************************)
EXTENDS Integers

CONSTANTS
  Task,          \* tasks, used again for packet after packet
  Interval,      \* interval, in ticks
  MUST_BE_LOGOUT,
  Horizon        \* bound: no time longer than this is told from it

ASSUME IntervalAssumption == Interval \in Nat \ {0}
ASSUME LogoutAssumption == MUST_BE_LOGOUT \in Nat /\ MUST_BE_LOGOUT > 3 * Interval
ASSUME HorizonAssumption == Horizon \in Nat /\ Horizon > 4 * Interval

VARIABLES
  conn,      \* "new", "up", "gone" (the loop has returned), "over" (disconnected too)
  lastRead,  \* time since LAST_READ
  reactor,   \* what the reactor does; "ended" on the signal, "silent" for silence
  seen,      \* `elapsed`
  wait,      \* what is left of the reactor's sleep
  signal,    \* messages in the shutdown channel, which has room for one
  stage,     \* where each task is
  kind,      \* its packet: "ping" or "other"
  silent,    \* time since the last packet came (history)
  worst      \* the longest silence so far (history)

vars == <<conn, lastRead, reactor, seen, wait, signal, stage, kind, silent, worst>>

Duration == 0 .. Horizon

HeartBeatTypeOK ==
  /\ conn \in {"new", "up", "gone", "over"}
  /\ lastRead \in Duration \cup {MUST_BE_LOGOUT}
  /\ reactor \in {"off", "check", "decide", "sleeping", "ended", "silent"}
  /\ seen \in Duration \cup {MUST_BE_LOGOUT}
  /\ wait \in 0 .. Interval
  /\ signal \in 0 .. 1
  /\ stage \in [Task -> {"idle", "received", "ponging", "inner"}]
  /\ kind \in [Task -> {"ping", "other"}]
  /\ silent \in Duration
  /\ worst \in Duration

Init ==
  /\ conn = "new"
  /\ lastRead = MUST_BE_LOGOUT
  /\ reactor = "off"
  /\ seen = 0
  /\ wait = 0
  /\ signal = 0
  /\ stage = [t \in Task |-> "idle"]
  /\ kind = [t \in Task |-> "other"]
  /\ silent = 0
  /\ worst = 0

taskVars == <<stage, kind>>
reactorVars == <<reactor, seen, wait>>
history == <<silent, worst>>

Running == reactor \in {"check", "decide", "sleeping"}

-----------------------------------------------------------------------------
(* HeartBeatProcessor *)

(* Nothing else of this connection runs until `connected` has spawned. *)
Connected ==
  /\ conn = "new"
  /\ conn' = "up"
  /\ lastRead' = 0
  /\ reactor' = "check"
  /\ UNCHANGED <<seen, wait, signal, taskVars, history>>

(* The connection task spawns process() for a packet. *)
Receive(t, k) ==
  /\ conn = "up"
  /\ stage[t] = "idle"
  /\ stage' = [stage EXCEPT ![t] = "received"]
  /\ kind' = [kind EXCEPT ![t] = k]
  /\ silent' = 0
  /\ UNCHANGED <<conn, lastRead, reactorVars, signal, worst>>

(* Faulty variant: only a ping is a sign of life. *)
KickOnPing(t) ==
  /\ stage[t] = "received"
  /\ lastRead' = IF kind[t] = "ping" THEN 0 ELSE lastRead
  /\ stage' = [stage EXCEPT ![t] = IF kind[t] = "ping" THEN "ponging" ELSE "inner"]
  /\ UNCHANGED <<conn, reactorVars, signal, kind, history>>

(* kick_read *)
KickRead(t) ==
  /\ stage[t] = "received"
  /\ lastRead' = 0
  /\ stage' = [stage EXCEPT ![t] = IF kind[t] = "ping" THEN "ponging" ELSE "inner"]
  /\ UNCHANGED <<conn, reactorVars, signal, kind, history>>

(* The pong is sent, or the send fails: the packet goes on either way. *)
SendPong(t) ==
  /\ stage[t] = "ponging"
  /\ stage' = [stage EXCEPT ![t] = "inner"]
  /\ UNCHANGED <<conn, lastRead, reactorVars, signal, kind, history>>

InnerProcess(t) ==
  /\ stage[t] = "inner"
  /\ stage' = [stage EXCEPT ![t] = "idle"]
  /\ UNCHANGED <<conn, lastRead, reactorVars, signal, kind, history>>

(* The connection's loop returns. *)
Lose ==
  /\ conn = "up"
  /\ conn' = "gone"
  /\ UNCHANGED <<lastRead, reactorVars, signal, taskVars, history>>

(* Faulty variant: only a reactor that is waiting for it gets the signal. *)
DisconnectedNotify ==
  /\ conn = "gone"
  /\ conn' = "over"
  /\ signal' = IF reactor = "sleeping" THEN 1 ELSE 0
  /\ UNCHANGED <<lastRead, reactorVars, taskVars, history>>

(* The signal is sent into the channel, or the receiver is gone and the    *)
(* send fails.  Inner is not told.                                         *)
Disconnected ==
  /\ conn = "gone"
  /\ conn' = "over"
  /\ signal' = IF Running THEN 1 ELSE 0
  /\ UNCHANGED <<lastRead, reactorVars, taskVars, history>>

-----------------------------------------------------------------------------
(* Heartbeat::run *)

LastRead ==
  /\ reactor = "check"
  /\ reactor' = "decide"
  /\ seen' = lastRead
  /\ UNCHANGED <<conn, lastRead, wait, signal, taskVars, history>>

Silent ==
  /\ reactor = "decide"
  /\ seen > 3 * Interval
  /\ reactor' = "silent"
  /\ signal' = 0
  /\ UNCHANGED <<conn, lastRead, seen, wait, taskVars, history>>

(* Faulty variant: silence is only found after four intervals. *)
SleepOnceMore ==
  /\ reactor = "decide"
  /\ seen <= 4 * Interval
  /\ reactor' = "sleeping"
  /\ wait' = IF Interval > seen THEN Interval - seen ELSE Interval
  /\ UNCHANGED <<conn, lastRead, seen, signal, taskVars, history>>

(* Faulty variant: the rest of the three intervals in one sleep. *)
SleepTheRest ==
  /\ reactor = "decide"
  /\ seen <= 3 * Interval
  /\ reactor' = "sleeping"
  /\ wait' = 3 * Interval - seen
  /\ UNCHANGED <<conn, lastRead, seen, signal, taskVars, history>>

Sleep ==
  /\ reactor = "decide"
  /\ seen <= 3 * Interval
  /\ reactor' = "sleeping"
  /\ wait' = IF Interval > seen THEN Interval - seen ELSE Interval
  /\ UNCHANGED <<conn, lastRead, seen, signal, taskVars, history>>

WakeUp ==
  /\ reactor = "sleeping"
  /\ wait = 0
  /\ reactor' = "check"
  /\ UNCHANGED <<conn, lastRead, seen, wait, signal, taskVars, history>>

Shutdown ==
  /\ reactor = "sleeping"
  /\ signal = 1
  /\ signal' = 0
  /\ wait' = 0
  /\ reactor' = "ended"
  /\ UNCHANGED <<conn, lastRead, seen, taskVars, history>>

-----------------------------------------------------------------------------
(* Time *)

Later(d) == IF d < Horizon THEN d + 1 ELSE d

Longer(d, e) == IF d > e THEN d ELSE e

(* Nothing has a step to take at this instant. *)
Quiescent ==
  /\ conn \in {"up", "over"}
  /\ \A t \in Task : stage[t] = "idle"
  /\ Running => reactor = "sleeping" /\ wait > 0 /\ signal = 0

Tick ==
  /\ Quiescent
  /\ lastRead' = Later(lastRead)
  /\ silent' = Later(silent)
  /\ worst' = Longer(worst, Later(silent))
  /\ wait' = IF wait > 0 THEN wait - 1 ELSE 0
  /\ UNCHANGED <<conn, reactor, seen, signal, taskVars>>

-----------------------------------------------------------------------------
TaskStep(t) == KickRead(t) \/ SendPong(t) \/ InnerProcess(t)

ReactorStep == LastRead \/ Silent \/ Sleep \/ WakeUp \/ Shutdown

Next ==
  \/ Connected
  \/ Lose
  \/ Disconnected
  \/ \E t \in Task, k \in {"ping", "other"} : Receive(t, k)
  \/ \E t \in Task : TaskStep(t)
  \/ ReactorStep
  \/ Tick

Spec == Init /\ [][Next]_vars

(* What is ready runs, `connected` and `disconnected` are run, and time    *)
(* passes.  Packets and the loss of the connection are not required.       *)
FairSpec ==
  /\ Spec
  /\ WF_vars(Connected) /\ WF_vars(Disconnected)
  /\ \A t \in Task : WF_vars(TaskStep(t))
  /\ WF_vars(ReactorStep) /\ WF_vars(Tick)

-----------------------------------------------------------------------------
(* Properties *)

(* A silent client is found out within four intervals, whenever the        *)
(* packets before the silence came: a reactor that is still running will   *)
(* look again before the silence gets longer than that.                    *)
DetectsInTime == conn = "up" /\ Running => silent + wait <= 4 * Interval

(* The reactor gives up only if there really was a silence of more than    *)
(* three intervals, whatever the order of its look and the tasks' kicks.   *)
OnlySilenceEndsIt == reactor = "silent" => worst > 3 * Interval

(* The shutdown signal is not missed: after `disconnected`, a reactor that *)
(* still runs, wherever it was, has it in its channel and sleeps no more.  *)
SignalIsKept == conn = "over" /\ Running => signal = 1

(* The comment in process(): when sends fail again and again, the heart    *)
(* beat should fail and close the connection.                              *)
SilentIsClosed == reactor = "silent" ~> conn # "up"

=============================================================================
