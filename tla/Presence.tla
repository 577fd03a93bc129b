------------------------------ MODULE Presence ------------------------------
(***************************************************************************)
(* Who is logged in on which connection: the StateSupportProcessor of      *)
(* connect/src/extract/online_state.rs over the two maps of                *)
(* im/src/online_state.rs, for several connections at once.                *)
(*                                                                         *)
(* Every packet is processed by a task of its own; a task may spawn an     *)
(* update task, which writes the two maps and the time of the last update  *)
(* one after the other.  Tasks and updates of one connection and of        *)
(* different connections interleave, and go on after the connection is     *)
(* lost.  Here a connection is only up, asked to close, or gone: Connector *)
(* has the details.                                                        *)
(*                                                                         *)
(* ForwardsDisconnect says whether the processors around this one pass on  *)
(* `disconnected`.  HeartBeatProcessor does not, so it is FALSE in the     *)
(* stack of im/src/main.rs and TRUE where this processor is used alone.    *)
(***************************************************************************)
CONSTANTS
  Conn,   \* connections
  User,   \* user ids
  Task,   \* tasks, one for each packet
  None,   \* no connection, no user
  Kind,   \* bound: the kinds of packets that come
  ForwardsDisconnect

ASSUME NoneAssumption == None \notin Conn \cup User
ASSUME KindAssumption == Kind \subseteq {"login", "badlogin", "logout", "other"}
ASSUME ForwardsAssumption == ForwardsDisconnect \in BOOLEAN

VARIABLES
  conn,      \* the connection task: "up", "closing" (asked to) or "gone"
  userId,    \* USER_ID of each Context
  lastSync,  \* STATE_LAST_SYNC: "never", "recent" or "old"
  state,     \* OnlineStateServer.state
  contexts,  \* OnlineStateServer.contexts
  stage,     \* where each task is
  on,        \* its connection
  kind,      \* its packet
  who,       \* the user its token names, or that it found in the Context
  update,    \* the update it spawned: the next write to make
  handler,   \* where `disconnected` is, for each connection
  leaver,    \* the user it found
  late,      \* connections of which an update put something back (history)
  known      \* packets that came when their connection had logged in (history)

presVars == <<conn, userId, lastSync, state, contexts, stage, on, kind, who,
              update, handler, leaver, late, known>>

taskVars == <<stage, on, kind, who, update, known>>
leaveVars == <<handler, leaver, late>>
mapVars == <<state, contexts>>

Stage == {"idle", "started", "stranger", "identified", "inner", "done", "rejected"}

PresTypeOK ==
  /\ conn \in [Conn -> {"up", "closing", "gone"}]
  /\ userId \in [Conn -> User \cup {None}]
  /\ lastSync \in [Conn -> {"never", "recent", "old"}]
  /\ state \in [User -> Conn \cup {None}]
  /\ contexts \in [User -> Conn \cup {None}]
  /\ stage \in [Task -> Stage]
  /\ on \in [Task -> Conn \cup {None}]
  /\ kind \in [Task -> Kind \cup {"other"}]
  /\ who \in [Task -> User \cup {None}]
  /\ update \in [Task -> {"none", "local", "state", "sync"}]
  /\ handler \in [Conn -> {"none", "start", "state", "local", "done"}]
  /\ leaver \in [Conn -> User \cup {None}]
  /\ late \subseteq Conn
  /\ known \subseteq Task
  /\ \A t \in Task : stage[t] # "idle" => on[t] \in Conn
  /\ \A t \in Task : update[t] # "none" => stage[t] # "idle" /\ who[t] \in User

PresInit ==
  /\ conn = [c \in Conn |-> "up"]
  /\ userId = [c \in Conn |-> None]
  /\ lastSync = [c \in Conn |-> "never"]
  /\ state = [u \in User |-> None]
  /\ contexts = [u \in User |-> None]
  /\ stage = [t \in Task |-> "idle"]
  /\ on = [t \in Task |-> None]
  /\ kind = [t \in Task |-> "other"]
  /\ who = [t \in Task |-> None]
  /\ update = [t \in Task |-> "none"]
  /\ handler = [c \in Conn |-> "none"]
  /\ leaver = [c \in Conn |-> None]
  /\ late = {}
  /\ known = {}

(* The connection has proved, by a login that was processed, to be u's. *)
Proved(c, u) ==
  \E t \in Task : /\ kind[t] = "login" /\ on[t] = c /\ who[t] = u
                  /\ stage[t] \in {"inner", "done"}

-----------------------------------------------------------------------------
(* The connection *)

(* A task is spawned for a packet; u is the user of a login's token. *)
Receive(t, c, k, u) ==
  /\ stage[t] = "idle"
  /\ conn[c] # "gone"
  /\ u # None <=> k = "login"
  /\ stage' = [stage EXCEPT ![t] = "started"]
  /\ on' = [on EXCEPT ![t] = c]
  /\ kind' = [kind EXCEPT ![t] = k]
  /\ who' = [who EXCEPT ![t] = u]
  /\ known' = IF k = "other" /\ (\E v \in User : Proved(c, v)) THEN known \cup {t} ELSE known
  /\ UNCHANGED <<conn, userId, lastSync, mapVars, update, leaveVars>>

(* The loop returns, for any of its reasons. *)
Lose(c) ==
  /\ conn[c] # "gone"
  /\ conn' = [conn EXCEPT ![c] = "gone"]
  /\ handler' = [handler EXCEPT ![c] = IF ForwardsDisconnect THEN "start" ELSE "done"]
  /\ UNCHANGED <<userId, lastSync, mapVars, taskVars, leaver, late>>

(* Context::close, by a task of c. *)
Close(c) == conn' = [conn EXCEPT ![c] = IF @ = "up" THEN "closing" ELSE @]

-----------------------------------------------------------------------------
(* StateSupportProcessor::process *)

GoTo(t, s) == stage' = [stage EXCEPT ![t] = s]

(* Faulty variant: the login is left to be registered by later packets. *)
LoginNoUpdate(t) ==
  /\ stage[t] = "started"
  /\ kind[t] = "login"
  /\ userId' = [userId EXCEPT ![on[t]] = who[t]]
  /\ GoTo(t, "inner")
  /\ UNCHANGED <<conn, lastSync, mapVars, on, kind, who, update, known, leaveVars>>

(* Faulty variant: the user is registered but not put into the Context. *)
LoginNoUserId(t) ==
  /\ stage[t] = "started"
  /\ kind[t] = "login"
  /\ update' = [update EXCEPT ![t] = "local"]
  /\ GoTo(t, "inner")
  /\ UNCHANGED <<conn, userId, lastSync, mapVars, on, kind, who, known, leaveVars>>

(* The token is good. *)
Login(t) ==
  /\ stage[t] = "started"
  /\ kind[t] = "login"
  /\ userId' = [userId EXCEPT ![on[t]] = who[t]]
  /\ update' = [update EXCEPT ![t] = "local"]
  /\ GoTo(t, "inner")
  /\ UNCHANGED <<conn, lastSync, mapVars, on, kind, who, known, leaveVars>>

(* Faulty variant: the error packet is sent and the packet goes on. *)
RejectButGoOn(t) ==
  /\ stage[t] = "started"
  /\ kind[t] = "badlogin"
  /\ GoTo(t, "inner")
  /\ UNCHANGED <<conn, userId, lastSync, mapVars, on, kind, who, update, known, leaveVars>>

(* The token is not: an error packet is sent and the packet goes no further. *)
RejectLogin(t) ==
  /\ stage[t] = "started"
  /\ kind[t] = "badlogin"
  /\ GoTo(t, "rejected")
  /\ UNCHANGED <<conn, userId, lastSync, mapVars, on, kind, who, update, known, leaveVars>>

Logout(t) ==
  /\ stage[t] = "started"
  /\ kind[t] = "logout"
  /\ Close(on[t])
  /\ GoTo(t, "rejected")
  /\ UNCHANGED <<userId, lastSync, mapVars, on, kind, who, update, known, leaveVars>>

(* current_user() finds no login.  The lock of the attributes is released  *)
(* before the connection is closed: a login may be handled in between.     *)
FindStranger(t) ==
  /\ stage[t] = "started"
  /\ kind[t] = "other"
  /\ userId[on[t]] = None
  /\ GoTo(t, "stranger")
  /\ UNCHANGED <<conn, userId, lastSync, mapVars, on, kind, who, update, known, leaveVars>>

(* ctx.close() *)
RejectStranger(t) ==
  /\ stage[t] = "stranger"
  /\ Close(on[t])
  /\ GoTo(t, "rejected")
  /\ UNCHANGED <<userId, lastSync, mapVars, on, kind, who, update, known, leaveVars>>

(* Faulty variant: the user is not looked for. *)
IdentifyAnyone(t) ==
  /\ stage[t] = "started"
  /\ kind[t] = "other"
  /\ who' = [who EXCEPT ![t] = userId[on[t]]]
  /\ GoTo(t, "identified")
  /\ UNCHANGED <<conn, userId, lastSync, mapVars, on, kind, update, known, leaveVars>>

(* Faulty variant: the user is kept in the processor that all share. *)
IdentifyShared(t) ==
  /\ stage[t] = "started"
  /\ kind[t] = "other"
  /\ \E c \in Conn : userId[c] # None /\ who' = [who EXCEPT ![t] = userId[c]]
  /\ GoTo(t, "identified")
  /\ UNCHANGED <<conn, userId, lastSync, mapVars, on, kind, update, known, leaveVars>>

(* current_user(): the lock of the attributes is released before the next read. *)
Identify(t) ==
  /\ stage[t] = "started"
  /\ kind[t] = "other"
  /\ userId[on[t]] # None
  /\ who' = [who EXCEPT ![t] = userId[on[t]]]
  /\ GoTo(t, "identified")
  /\ UNCHANGED <<conn, userId, lastSync, mapVars, on, kind, update, known, leaveVars>>

(* state_last_update(): a new update is due, or it is not. *)
Refresh(t) ==
  /\ stage[t] = "identified"
  /\ update' = IF lastSync[on[t]] = "recent"
                 THEN update
                 ELSE [update EXCEPT ![t] = "local"]
  /\ GoTo(t, "inner")
  /\ UNCHANGED <<conn, userId, lastSync, mapVars, on, kind, who, known, leaveVars>>

(* inner.process(ctx, packet) *)
InnerProcess(t) ==
  /\ stage[t] = "inner"
  /\ GoTo(t, "done")
  /\ UNCHANGED <<conn, userId, lastSync, mapVars, on, kind, who, update, known, leaveVars>>

(* state_update_interval elapses. *)
Age(c) ==
  /\ lastSync[c] = "recent"
  /\ lastSync' = [lastSync EXCEPT ![c] = "old"]
  /\ UNCHANGED <<conn, userId, mapVars, taskVars, leaveVars>>

-----------------------------------------------------------------------------
(* update_state: the spawned task's three writes *)

PutLocal(t) ==
  /\ update[t] = "local"
  /\ contexts' = [contexts EXCEPT ![who[t]] = on[t]]
  /\ update' = [update EXCEPT ![t] = "state"]
  /\ late' = IF handler[on[t]] = "done" THEN late \cup {on[t]} ELSE late
  /\ UNCHANGED <<conn, userId, lastSync, state, stage, on, kind, who, known, handler, leaver>>

(* Faulty variant: the state goes under the user of the Context by now. *)
PutCurrent(t) ==
  /\ update[t] = "state"
  /\ state' = [state EXCEPT ![userId[on[t]]] = on[t]]
  /\ update' = [update EXCEPT ![t] = "sync"]
  /\ UNCHANGED <<conn, userId, lastSync, contexts, stage, on, kind, who, known, leaveVars>>

Put(t) ==
  /\ update[t] = "state"
  /\ state' = [state EXCEPT ![who[t]] = on[t]]
  /\ update' = [update EXCEPT ![t] = "sync"]
  /\ late' = IF handler[on[t]] \in {"local", "done"} THEN late \cup {on[t]} ELSE late
  /\ UNCHANGED <<conn, userId, lastSync, contexts, stage, on, kind, who, known, handler, leaver>>

PutSync(t) ==
  /\ update[t] = "sync"
  /\ lastSync' = [lastSync EXCEPT ![on[t]] = "recent"]
  /\ update' = [update EXCEPT ![t] = "none"]
  /\ UNCHANGED <<conn, userId, mapVars, stage, on, kind, who, known, leaveVars>>

-----------------------------------------------------------------------------
(* StateSupportProcessor::disconnected: current_user, remove, remove_local *)

LeaveStart(c) ==
  /\ handler[c] = "start"
  /\ leaver' = [leaver EXCEPT ![c] = userId[c]]
  /\ handler' = [handler EXCEPT ![c] = IF userId[c] = None THEN "done" ELSE "state"]
  /\ UNCHANGED <<conn, userId, lastSync, mapVars, taskVars, late>>

LeaveState(c) ==
  /\ handler[c] = "state"
  /\ state' = [state EXCEPT ![leaver[c]] = None]
  /\ handler' = [handler EXCEPT ![c] = "local"]
  /\ UNCHANGED <<conn, userId, lastSync, contexts, taskVars, leaver, late>>

(* Faulty variant: the local map keeps its entry. *)
LeaveKeepingContext(c) ==
  /\ handler[c] = "local"
  /\ handler' = [handler EXCEPT ![c] = "done"]
  /\ UNCHANGED <<conn, userId, lastSync, mapVars, taskVars, leaver, late>>

LeaveLocal(c) ==
  /\ handler[c] = "local"
  /\ contexts' = [contexts EXCEPT ![leaver[c]] = None]
  /\ handler' = [handler EXCEPT ![c] = "done"]
  /\ UNCHANGED <<conn, userId, lastSync, state, taskVars, leaver, late>>

-----------------------------------------------------------------------------
(* Everything but what the inner processor does. *)
Outer(t) ==
  \/ Login(t) \/ RejectLogin(t) \/ Logout(t)
  \/ FindStranger(t) \/ RejectStranger(t)
  \/ Identify(t) \/ Refresh(t)

UpdateStep(t) == PutLocal(t) \/ Put(t) \/ PutSync(t)

LeaveStep(c) == LeaveStart(c) \/ LeaveState(c) \/ LeaveLocal(c)

PresStep ==
  \/ \E t \in Task, c \in Conn, k \in Kind, u \in User \cup {None} : Receive(t, c, k, u)
  \/ \E t \in Task : Outer(t) \/ UpdateStep(t)
  \/ \E c \in Conn : Lose(c) \/ Age(c) \/ LeaveStep(c)

PresNext == PresStep \/ \E t \in Task : InnerProcess(t)

PresSpec == PresInit /\ [][PresNext]_presVars

(* Spawned tasks run, and the connection task runs `disconnected`. *)
PresFairness ==
  /\ \A t \in Task : WF_presVars(Outer(t)) /\ WF_presVars(UpdateStep(t))
  /\ \A c \in Conn : WF_presVars(LeaveStep(c))

PresFairSpec ==
  /\ PresSpec
  /\ PresFairness
  /\ \A t \in Task : WF_presVars(InnerProcess(t))

-----------------------------------------------------------------------------
(* Properties *)

(* A message to u can only be routed to a connection that logged in as u,  *)
(* and only such a connection is announced as u's place: however late the  *)
(* updates of any connection run, also after another login on it.          *)
OnlyProvedAreRegistered ==
  \A u \in User, c \in Conn : contexts[u] = c \/ state[u] = c => Proved(c, u)

(* The inner processor sees nothing of a connection that has not logged    *)
(* in: a packet reaches it with a good token, or after one on the same     *)
(* connection.                                                             *)
InnerIsGuarded ==
  \A t \in Task : stage[t] \in {"inner", "done"} => Proved(on[t], who[t])

(* What the client takes for granted when it prints "successed connected"  *)
(* once its login is sent, and goes on to send messages: a packet that is  *)
(* received after a good login on its connection is not turned away.       *)
LoginFirstIsEnough ==
  \A s, t \in Task, c \in Conn :
    [](kind[s] = "login" /\ on[s] = c /\ stage[t] = "idle" =>
         [](kind[t] = "other" /\ on[t] = c => stage[t] # "rejected"))

(* What holds instead: a packet that comes when a login on its connection  *)
(* was handed on to the inner processor is not turned away, neither before *)
(* that login is registered nor after other logins, good or bad.           *)
HandledLoginIsEnough == \A t \in known : stage[t] \notin {"stranger", "rejected"}

(* No update of u is going on, one connection at most was ever u's, and    *)
(* `disconnected` is not run for it.                                       *)
Settled(u) ==
  /\ \A t \in Task : who[t] = u => update[t] = "none"
  /\ \A c, d \in Conn : Proved(c, u) /\ Proved(d, u) => c = d
  /\ ForwardsDisconnect => \A c \in Conn : Proved(c, u) => handler[c] = "none"

(* When nothing is under way for a user who used one connection, both maps *)
(* have him there, whatever the order of the updates' writes and whoever   *)
(* else was on that connection or left another one: an entry is lost or    *)
(* replaced only where the user himself came or left by a second one.      *)
SettledUsersAreFound ==
  \A u \in User, c \in Conn :
    Settled(u) /\ Proved(c, u) => contexts[u] = c /\ state[u] = c

(* Once `disconnected` has run for a connection, the user that it found in *)
(* the Context (the last one, where there were several) is on it in        *)
(* neither map, also when another connection registered him meanwhile;     *)
(* unless an update of this connection was so late that it put him back.   *)
LeaversAreForgotten ==
  \A c \in Conn, u \in User :
    handler[c] = "done" /\ leaver[c] = u /\ c \notin late =>
      contexts[u] # c /\ state[u] # c

(* A login is followed by the registration of its connection, even when    *)
(* the connection is lost in the meantime.                                 *)
LoginsRegister ==
  \A t \in Task :
    stage[t] = "started" /\ kind[t] = "login"
      ~> who[t] \in User /\ contexts[who[t]] = on[t]

=============================================================================
