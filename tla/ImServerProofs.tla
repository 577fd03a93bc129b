--------------------------- MODULE ImServerProofs ---------------------------
(***************************************************************************)
(* Proofs about Presence and ImServer, for any numbers of connections,     *)
(* users and tasks.                                                        *)
(*                                                                         *)
(* OnlyProvedAreRegistered and InnerIsGuarded speak of the maps and of the *)
(* inner processor.  What gets there has come a long way: from a Context's *)
(* USER_ID through a task to an update.  ProvedInv says of every station   *)
(* that the user there was proved, and a proof, once given, stays given.   *)
(*                                                                         *)
(* Every step of the server is a step of Presence or leaves its variables  *)
(* alone, so what is proved of Presence holds in the server too; the lock  *)
(* of the counters is lost only during a login; and messages to one        *)
(* connection get different ids.                                           *)
(***************************************************************************)
EXTENDS ImServer, FiniteSets, FiniteSetTheorems, TLAPS

-----------------------------------------------------------------------------
(* Presence *)

ProvedInv ==
  /\ \A t \in Task : stage[t] = "started" /\ kind[t] = "login" => who[t] \in User
  /\ \A c \in Conn : userId[c] # None => Proved(c, userId[c])
  /\ \A t \in Task : stage[t] \in {"identified", "inner", "done"} =>
                       who[t] \in User /\ Proved(on[t], who[t])
  /\ \A t \in Task : update[t] # "none" => Proved(on[t], who[t])

IInv == PresTypeOK /\ ProvedInv /\ OnlyProvedAreRegistered

LEMMA Initially == PresInit => IInv
  BY NoneAssumption DEF PresInit, IInv, PresTypeOK, Stage, ProvedInv, OnlyProvedAreRegistered

LEMMA TypeStep ==
  ASSUME PresTypeOK, ProvedInv, [PresNext]_presVars
  PROVE  PresTypeOK'
<1> USE NoneAssumption, KindAssumption
    DEF PresTypeOK, Stage, ProvedInv, mapVars, taskVars, leaveVars, GoTo, Close
<1>1. ASSUME NEW t \in Task, NEW c \in Conn, NEW k \in Kind, NEW u \in User \cup {None},
             Receive(t, c, k, u)
      PROVE  PresTypeOK'
  BY <1>1 DEF Receive
<1>2. ASSUME NEW t \in Task, Outer(t) PROVE PresTypeOK'
  <2>1. CASE Login(t)
    BY <2>1 DEF Login
  <2>2. CASE RejectLogin(t)
    BY <2>2 DEF RejectLogin
  <2>3. CASE Logout(t)
    BY <2>3 DEF Logout
  <2>4. CASE FindStranger(t)
    BY <2>4 DEF FindStranger
  <2>5. CASE RejectStranger(t)
    BY <2>5 DEF RejectStranger
  <2>6. CASE Identify(t)
    BY <2>6 DEF Identify
  <2>7. CASE Refresh(t)
    BY <2>7 DEF Refresh
  <2> QED
    BY <1>2, <2>1, <2>2, <2>3, <2>4, <2>5, <2>6, <2>7 DEF Outer
<1>3. ASSUME NEW t \in Task, UpdateStep(t) PROVE PresTypeOK'
  BY <1>3 DEF UpdateStep, PutLocal, Put, PutSync
<1>4. ASSUME NEW c \in Conn, Lose(c) PROVE PresTypeOK'
  BY <1>4 DEF Lose
<1>5. ASSUME NEW c \in Conn, Age(c) PROVE PresTypeOK'
  BY <1>5 DEF Age
<1>6. ASSUME NEW c \in Conn, LeaveStep(c) PROVE PresTypeOK'
  BY <1>6 DEF LeaveStep, LeaveStart, LeaveState, LeaveLocal
<1>7. ASSUME NEW t \in Task, InnerProcess(t) PROVE PresTypeOK'
  BY <1>7 DEF InnerProcess
<1>8. CASE UNCHANGED presVars
  BY <1>8 DEF presVars
<1> QED
  BY <1>1, <1>2, <1>3, <1>4, <1>5, <1>6, <1>7, <1>8 DEF PresNext, PresStep

(* What was proved stays proved. *)
LEMMA ProvedStays ==
  ASSUME PresTypeOK, [PresNext]_presVars, NEW c \in Conn, NEW u \in User, Proved(c, u)
  PROVE  Proved(c, u)'
<1> PICK p \in Task : /\ kind[p] = "login" /\ on[p] = c /\ who[p] = u
                      /\ stage[p] \in {"inner", "done"}
  BY DEF Proved
<1> DEFINE Still == /\ kind'[p] = "login" /\ on'[p] = c /\ who'[p] = u
                    /\ stage'[p] \in {"inner", "done"}
<1> SUFFICES Still
  BY DEF Proved
<1> USE DEF PresTypeOK, mapVars, taskVars, leaveVars, GoTo
<1>1. ASSUME NEW t \in Task, NEW d \in Conn, NEW k \in Kind, NEW v \in User \cup {None},
             Receive(t, d, k, v)
      PROVE  Still
  BY <1>1 DEF Receive
<1>2. ASSUME NEW t \in Task, Outer(t) PROVE Still
  BY <1>2 DEF Outer, Login, RejectLogin, Logout, FindStranger, RejectStranger, Identify, Refresh
<1>3. ASSUME NEW t \in Task, UpdateStep(t) PROVE Still
  BY <1>3 DEF UpdateStep, PutLocal, Put, PutSync
<1>4. ASSUME NEW d \in Conn, Lose(d) \/ Age(d) \/ LeaveStep(d) PROVE Still
  BY <1>4 DEF Lose, Age, LeaveStep, LeaveStart, LeaveState, LeaveLocal
<1>5. ASSUME NEW t \in Task, InnerProcess(t) PROVE Still
  BY <1>5 DEF InnerProcess
<1>6. CASE UNCHANGED presVars
  BY <1>6 DEF presVars
<1> QED
  BY <1>1, <1>2, <1>3, <1>4, <1>5, <1>6 DEF PresNext, PresStep

(* What a task, an update and a Context hold was proved, after any step.   *)
LEMMA ProvedStep ==
  ASSUME IInv, [PresNext]_presVars
  PROVE  ProvedInv'
<1> DEFINE Now(c, u) == \E p \in Task : /\ kind'[p] = "login" /\ on'[p] = c /\ who'[p] = u
                                       /\ stage'[p] \in {"inner", "done"}
<1>0. \A c \in Conn, u \in User : Proved(c, u) => Now(c, u)
  <2> SUFFICES ASSUME NEW c \in Conn, NEW u \in User, Proved(c, u) PROVE Proved(c, u)'
    BY DEF Proved
  <2> QED
    BY ProvedStays DEF IInv
<1> DEFINE Goal ==
      /\ \A t \in Task : stage'[t] = "started" /\ kind'[t] = "login" => who'[t] \in User
      /\ \A c \in Conn : userId'[c] # None => Now(c, userId'[c])
      /\ \A t \in Task : stage'[t] \in {"identified", "inner", "done"} =>
                           who'[t] \in User /\ Now(on'[t], who'[t])
      /\ \A t \in Task : update'[t] # "none" => Now(on'[t], who'[t])
<1> SUFFICES Goal
  BY DEF ProvedInv, Proved
<1> HIDE DEF Now
<1> USE NoneAssumption, <1>0 DEF IInv, PresTypeOK, ProvedInv, mapVars, taskVars, leaveVars, GoTo
<1>1. ASSUME NEW t \in Task, NEW d \in Conn, NEW k \in Kind, NEW v \in User \cup {None},
             Receive(t, d, k, v)
      PROVE  Goal
  BY <1>1 DEF Receive
<1>2. ASSUME NEW t \in Task, Outer(t) PROVE Goal
  <2>1. CASE Login(t)
    <3>1. Now(on[t], who[t])
      BY <2>1 DEF Login, Now
    <3> QED
      BY <2>1, <3>1 DEF Login
  <2>2. CASE RejectLogin(t) \/ Logout(t) \/ FindStranger(t) \/ RejectStranger(t)
    BY <2>2 DEF RejectLogin, Logout, FindStranger, RejectStranger
  <2>3. CASE Identify(t)
    BY <2>3 DEF Identify
  <2>4. CASE Refresh(t)
    BY <2>4 DEF Refresh
  <2> QED
    BY <1>2, <2>1, <2>2, <2>3, <2>4 DEF Outer
<1>3. ASSUME NEW t \in Task, UpdateStep(t) PROVE Goal
  BY <1>3 DEF UpdateStep, PutLocal, Put, PutSync
<1>4. ASSUME NEW d \in Conn, Lose(d) \/ Age(d) \/ LeaveStep(d) PROVE Goal
  BY <1>4 DEF Lose, Age, LeaveStep, LeaveStart, LeaveState, LeaveLocal
<1>5. ASSUME NEW t \in Task, InnerProcess(t) PROVE Goal
  BY <1>5 DEF InnerProcess
<1>6. CASE UNCHANGED presVars
  BY <1>6 DEF presVars
<1> QED
  BY <1>1, <1>2, <1>3, <1>4, <1>5, <1>6 DEF PresNext, PresStep

(* Only an update writes a connection into the maps, and it holds a user   *)
(* that was proved; `disconnected` writes None, which is no connection.    *)
LEMMA RegisteredStep ==
  ASSUME IInv, [PresNext]_presVars
  PROVE  OnlyProvedAreRegistered'
<1> SUFFICES ASSUME NEW u \in User, NEW c \in Conn, contexts'[u] = c \/ state'[u] = c
             PROVE  Proved(c, u)'
  BY DEF OnlyProvedAreRegistered
<1>1. SUFFICES Proved(c, u)
  BY ProvedStays DEF IInv
<1> USE NoneAssumption
    DEF IInv, PresTypeOK, ProvedInv, OnlyProvedAreRegistered, mapVars, taskVars, leaveVars
<1>2. ASSUME NEW t \in Task, UpdateStep(t) PROVE Proved(c, u)
  BY <1>2 DEF UpdateStep, PutLocal, Put, PutSync
<1>3. ASSUME NEW d \in Conn, LeaveStep(d) PROVE Proved(c, u)
  BY <1>3 DEF LeaveStep, LeaveStart, LeaveState, LeaveLocal
<1>4. CASE UNCHANGED mapVars
  BY <1>4
<1>5. ASSUME NEW t \in Task, Outer(t) \/ InnerProcess(t) PROVE UNCHANGED mapVars
  BY <1>5 DEF Outer, Login, RejectLogin, Logout, FindStranger, RejectStranger,
              Identify, Refresh, InnerProcess
<1>6. ASSUME NEW d \in Conn, Lose(d) \/ Age(d) PROVE UNCHANGED mapVars
  BY <1>6 DEF Lose, Age
<1>7. ASSUME NEW t \in Task, NEW d \in Conn, NEW k \in Kind, NEW v \in User \cup {None},
             Receive(t, d, k, v)
      PROVE  UNCHANGED mapVars
  BY <1>7 DEF Receive
<1>8. CASE UNCHANGED presVars
  BY <1>8, <1>4 DEF presVars
<1> QED
  BY <1>2, <1>3, <1>4, <1>5, <1>6, <1>7, <1>8 DEF PresNext, PresStep

LEMMA Step ==
  ASSUME IInv, [PresNext]_presVars
  PROVE  IInv'
  BY TypeStep, ProvedStep, RegisteredStep DEF IInv

LEMMA Invariance == PresSpec => []IInv
  BY Initially, Step, PTL DEF PresSpec

-----------------------------------------------------------------------------
(* Every variable of Presence has its type: an update always has a user to *)
(* register, and a task at work has a connection.                          *)
THEOREM PresenceTypeCorrect == PresSpec => []PresTypeOK
  BY Invariance, PTL DEF IInv

(* A user's place, for messages and for announcements, is a connection     *)
(* that logged in as this user (StateSupportProcessor::process and         *)
(* update_state), in any interleaving of any number of connections.        *)
THEOREM RegisteredUsersAreProved == PresSpec => []OnlyProvedAreRegistered
  BY Invariance, PTL DEF IInv

(* No packet reaches the inner processor before a good login on the same   *)
(* connection.                                                             *)
THEOREM StrangersAreKeptOut == PresSpec => []InnerIsGuarded
<1>1. IInv => InnerIsGuarded
  BY DEF IInv, ProvedInv, InnerIsGuarded
<1> QED
  BY <1>1, Invariance, PTL

-----------------------------------------------------------------------------
(* A connection on which a login was handled knows its user for good: only *)
(* another login writes USER_ID again.                                     *)
KnownInv == \A c \in Conn, u \in User : Proved(c, u) => userId[c] # None

LEMMA KnownStep ==
  ASSUME IInv, KnownInv, [PresNext]_presVars
  PROVE  KnownInv'
<1> DEFINE Known(c) == userId'[c] # None
<1> SUFFICES ASSUME NEW p \in Task, NEW c \in Conn,
                    kind'[p] = "login", on'[p] = c, stage'[p] \in {"inner", "done"}
             PROVE  Known(c)
  BY DEF KnownInv, Proved
<1>0. kind[p] = "login" /\ on[p] = c /\ stage[p] \in {"inner", "done"} => userId[c] # None
  BY DEF KnownInv, Proved, IInv, ProvedInv
<1> USE NoneAssumption, <1>0 DEF IInv, PresTypeOK, ProvedInv, mapVars, taskVars, leaveVars, GoTo
<1>1. ASSUME NEW t \in Task, NEW d \in Conn, NEW k \in Kind, NEW v \in User \cup {None},
             Receive(t, d, k, v)
      PROVE  Known(c)
  BY <1>1 DEF Receive
<1>2. ASSUME NEW t \in Task, Outer(t) PROVE Known(c)
  <2>1. CASE Login(t)
    BY <2>1 DEF Login
  <2>2. CASE RejectLogin(t) \/ Logout(t) \/ FindStranger(t) \/ RejectStranger(t)
    BY <2>2 DEF RejectLogin, Logout, FindStranger, RejectStranger
  <2>3. CASE Identify(t)
    BY <2>3 DEF Identify
  <2>4. CASE Refresh(t)
    <3>1. Proved(on[t], who[t]) /\ who[t] \in User /\ on[t] \in Conn
      BY <2>4 DEF Refresh
    <3>2. userId[on[t]] # None
      BY <3>1 DEF KnownInv
    <3> QED
      BY <2>4, <3>2 DEF Refresh
  <2> QED
    BY <1>2, <2>1, <2>2, <2>3, <2>4 DEF Outer
<1>3. ASSUME NEW t \in Task, UpdateStep(t) PROVE Known(c)
  BY <1>3 DEF UpdateStep, PutLocal, Put, PutSync
<1>4. ASSUME NEW d \in Conn, Lose(d) \/ Age(d) \/ LeaveStep(d) PROVE Known(c)
  BY <1>4 DEF Lose, Age, LeaveStep, LeaveStart, LeaveState, LeaveLocal
<1>5. ASSUME NEW t \in Task, InnerProcess(t) PROVE Known(c)
  BY <1>5 DEF InnerProcess
<1>6. CASE UNCHANGED presVars
  BY <1>6 DEF presVars
<1> QED
  BY <1>1, <1>2, <1>3, <1>4, <1>5, <1>6 DEF PresNext, PresStep

(* So a packet that came to a connection that had logged in finds a user.  *)
LetInInv ==
  \A t \in known : /\ stage[t] \in {"started", "identified", "inner", "done"}
                   /\ kind[t] = "other" /\ userId[on[t]] # None

LEMMA LetInStep ==
  ASSUME IInv, KnownInv, LetInInv, [PresNext]_presVars
  PROVE  LetInInv'
<1> USE NoneAssumption
    DEF IInv, PresTypeOK, ProvedInv, LetInInv, mapVars, taskVars, leaveVars, GoTo
<1>1. ASSUME NEW t \in Task, NEW d \in Conn, NEW k \in Kind, NEW v \in User \cup {None},
             Receive(t, d, k, v)
      PROVE  LetInInv'
  <2>1. t \notin known
    BY <1>1 DEF Receive
  <2>2. t \in known' => k = "other" /\ userId[d] # None
    BY <1>1, <2>1 DEF Receive, KnownInv
  <2> QED
    BY <1>1, <2>1, <2>2 DEF Receive
<1>2. ASSUME NEW t \in Task, Outer(t) PROVE LetInInv'
  <2>1. CASE Login(t)
    BY <2>1 DEF Login
  <2>2. CASE RejectLogin(t) \/ Logout(t) \/ FindStranger(t) \/ RejectStranger(t)
    BY <2>2 DEF RejectLogin, Logout, FindStranger, RejectStranger
  <2>3. CASE Identify(t) \/ Refresh(t)
    BY <2>3 DEF Identify, Refresh
  <2> QED
    BY <1>2, <2>1, <2>2, <2>3 DEF Outer
<1>3. ASSUME NEW t \in Task, UpdateStep(t) PROVE LetInInv'
  BY <1>3 DEF UpdateStep, PutLocal, Put, PutSync
<1>4. ASSUME NEW d \in Conn, Lose(d) \/ Age(d) \/ LeaveStep(d) PROVE LetInInv'
  BY <1>4 DEF Lose, Age, LeaveStep, LeaveStart, LeaveState, LeaveLocal
<1>5. ASSUME NEW t \in Task, InnerProcess(t) PROVE LetInInv'
  BY <1>5 DEF InnerProcess
<1>6. CASE UNCHANGED presVars
  BY <1>6 DEF presVars
<1> QED
  BY <1>1, <1>2, <1>3, <1>4, <1>5, <1>6 DEF PresNext, PresStep

(* A packet that comes when a login on its connection was handed on is not *)
(* turned away as a stranger's, although the look at USER_ID and the close *)
(* are two steps: in any interleaving with updates and other logins.       *)
THEOREM KnownUsersAreLetIn == PresSpec => []HandledLoginIsEnough
<1>1. PresInit => KnownInv /\ LetInInv
  BY DEF PresInit, KnownInv, LetInInv, Proved
<1>2. IInv /\ KnownInv /\ LetInInv /\ [PresNext]_presVars => KnownInv' /\ LetInInv'
  BY KnownStep, LetInStep
<1>3. LetInInv => HandledLoginIsEnough
  BY DEF LetInInv, HandledLoginIsEnough
<1> QED
  BY <1>1, <1>2, <1>3, Invariance, PTL DEF PresSpec

-----------------------------------------------------------------------------
(* The two maps.  An update writes contexts before state, `disconnected`   *)
(* removes from both: as long as it was not run for a user, one map has an *)
(* entry of his where the other has one, or his update is between the two  *)
(* writes.                                                                 *)

(* `disconnected` was begun for a connection that was u's. *)
Left(u) == ForwardsDisconnect /\ \E c \in Conn : Proved(c, u) /\ handler[c] # "none"

LeaverInv ==
  /\ \A t \in Task : update[t] # "none" => stage[t] \in {"inner", "done"}
  /\ \A c \in Conn : handler[c] \in {"start", "state", "local"} => ForwardsDisconnect
  /\ \A c \in Conn : handler[c] \in {"state", "local"} =>
       leaver[c] \in User /\ Proved(c, leaver[c])

(* A login that was handed on has an update to come, or it was registered. *)
LoginInv ==
  /\ \A t \in Task : stage[t] = "identified" => kind[t] = "other"
  /\ \A t \in Task : kind[t] = "login" /\ stage[t] \in {"inner", "done"} =>
       update[t] = "local" \/ contexts[who[t]] # None \/ Left(who[t])

PairInv ==
  /\ \A t \in Task : update[t] = "state" => contexts[who[t]] # None \/ Left(who[t])
  /\ \A u \in User : state[u] # None => contexts[u] # None \/ Left(u)
  /\ \A u \in User : contexts[u] # None =>
       state[u] # None \/ (\E t \in Task : who[t] = u /\ update[t] = "state") \/ Left(u)

LEMMA LeaverStep ==
  ASSUME IInv, LeaverInv, [PresNext]_presVars
  PROVE  LeaverInv'
<1> DEFINE Goal ==
      /\ \A t \in Task : update'[t] # "none" => stage'[t] \in {"inner", "done"}
      /\ \A c \in Conn : handler'[c] \in {"start", "state", "local"} => ForwardsDisconnect
      /\ \A c \in Conn : handler'[c] \in {"state", "local"} =>
           leaver'[c] \in User /\ Proved(c, leaver'[c])
<1>0. SUFFICES Goal
  <2> SUFFICES ASSUME NEW c \in Conn, NEW u \in User, Proved(c, u) PROVE Proved(c, u)'
    BY DEF LeaverInv, Proved
  <2> QED
    BY ProvedStays DEF IInv
<1> USE NoneAssumption
    DEF IInv, PresTypeOK, LeaverInv, mapVars, taskVars, leaveVars, GoTo
<1>1. ASSUME NEW t \in Task, NEW d \in Conn, NEW k \in Kind, NEW v \in User \cup {None},
             Receive(t, d, k, v)
      PROVE  Goal
  BY <1>1 DEF Receive
<1>2. ASSUME NEW t \in Task, Outer(t) PROVE Goal
  BY <1>2 DEF Outer, Login, RejectLogin, Logout, FindStranger, RejectStranger, Identify, Refresh
<1>3. ASSUME NEW t \in Task, UpdateStep(t) PROVE Goal
  BY <1>3 DEF UpdateStep, PutLocal, Put, PutSync
<1>4. ASSUME NEW d \in Conn, Lose(d) \/ Age(d) PROVE Goal
  BY <1>4 DEF Lose, Age
<1>5. ASSUME NEW d \in Conn, LeaveStep(d) PROVE Goal
  BY <1>5 DEF LeaveStep, LeaveStart, LeaveState, LeaveLocal, ProvedInv
<1>6. ASSUME NEW t \in Task, InnerProcess(t) PROVE Goal
  BY <1>6 DEF InnerProcess
<1>7. CASE UNCHANGED presVars
  BY <1>7 DEF presVars
<1> QED
  BY <1>1, <1>2, <1>3, <1>4, <1>5, <1>6, <1>7 DEF PresNext, PresStep

(* No connection comes back: whom `disconnected` was begun for stays so.   *)
LEMMA LeftStays ==
  ASSUME IInv, LeaverInv, [PresNext]_presVars, NEW u \in User, Left(u)
  PROVE  Left(u)'
<1>1. PICK c \in Conn : Proved(c, u) /\ handler[c] # "none"
  BY DEF Left
<1>2. Proved(c, u)'
  BY <1>1, ProvedStays DEF IInv
<1>3. handler'[c] # "none"
  <2> USE <1>1 DEF IInv, PresTypeOK, leaveVars
  <2>1. ASSUME NEW d \in Conn, Lose(d) PROVE handler'[c] # "none"
    BY <2>1 DEF Lose
  <2>2. ASSUME NEW d \in Conn, Age(d) \/ LeaveStep(d) PROVE handler'[c] # "none"
    BY <2>2 DEF Age, LeaveStep, LeaveStart, LeaveState, LeaveLocal
  <2>3. ASSUME NEW t \in Task, Outer(t) \/ UpdateStep(t) \/ InnerProcess(t)
        PROVE  handler' = handler
    BY <2>3 DEF Outer, Login, RejectLogin, Logout, FindStranger, RejectStranger, Identify, Refresh,
                UpdateStep, PutLocal, Put, PutSync, InnerProcess
  <2>4. ASSUME NEW t \in Task, NEW d \in Conn, NEW k \in Kind, NEW v \in User \cup {None},
               Receive(t, d, k, v)
        PROVE  handler' = handler
    BY <2>4 DEF Receive
  <2>5. CASE UNCHANGED presVars
    BY <2>5 DEF presVars
  <2> QED
    BY <2>1, <2>2, <2>3, <2>4, <2>5 DEF PresNext, PresStep
<1> QED
  BY <1>2, <1>3 DEF Left

LEMMA PairStep ==
  ASSUME IInv, LeaverInv, PairInv, [PresNext]_presVars
  PROVE  PairInv'
<1> DEFINE Gone(u) ==
      /\ ForwardsDisconnect
      /\ \E c \in Conn :
           /\ \E p \in Task : /\ kind'[p] = "login" /\ on'[p] = c /\ who'[p] = u
                             /\ stage'[p] \in {"inner", "done"}
           /\ handler'[c] # "none"
<1>0. \A u \in User : Left(u) => Gone(u)
  <2> SUFFICES ASSUME NEW u \in User, Left(u) PROVE Left(u)'
    BY DEF Left, Proved
  <2> QED
    BY LeftStays
<1> DEFINE Goal ==
      /\ \A t \in Task : update'[t] = "state" => contexts'[who'[t]] # None \/ Gone(who'[t])
      /\ \A u \in User : state'[u] # None => contexts'[u] # None \/ Gone(u)
      /\ \A u \in User : contexts'[u] # None =>
           state'[u] # None \/ (\E t \in Task : who'[t] = u /\ update'[t] = "state") \/ Gone(u)
<1> SUFFICES Goal
  BY DEF PairInv, Gone, Left, Proved
<1> HIDE DEF Gone
<1> DEFINE Same == /\ UNCHANGED mapVars
                   /\ \A t \in Task : update[t] = "state" <=> update'[t] = "state"
                   /\ \A t \in Task : update[t] # "none" => who'[t] = who[t] /\ who[t] \in User
<1>1. CASE Same
  BY <1>0, <1>1 DEF PairInv, mapVars
<1> USE NoneAssumption DEF IInv, PresTypeOK, LeaverInv, mapVars, taskVars, leaveVars, GoTo
<1>2. ASSUME NEW t \in Task, NEW d \in Conn, NEW k \in Kind, NEW v \in User \cup {None},
             Receive(t, d, k, v)
      PROVE  Same
  BY <1>2 DEF Receive
<1>3. ASSUME NEW t \in Task, Outer(t) PROVE Same
  BY <1>3 DEF Outer, Login, RejectLogin, Logout, FindStranger, RejectStranger, Identify, Refresh
<1>4. ASSUME NEW t \in Task, PutLocal(t) PROVE Goal
  BY <1>0, <1>4 DEF PutLocal, PairInv
<1>5. ASSUME NEW t \in Task, Put(t) PROVE Goal
  BY <1>0, <1>5 DEF Put, PairInv
<1>6. ASSUME NEW t \in Task, PutSync(t) \/ InnerProcess(t) PROVE Same
  BY <1>6 DEF PutSync, InnerProcess
<1>7. ASSUME NEW d \in Conn, Lose(d) \/ Age(d) \/ LeaveStart(d) PROVE Same
  BY <1>7 DEF Lose, Age, LeaveStart
<1>8. ASSUME NEW d \in Conn, LeaveState(d) \/ LeaveLocal(d) PROVE Goal
  <2>1. leaver[d] \in User /\ Left(leaver[d])
    BY <1>8 DEF LeaveState, LeaveLocal, Left
  <2>2. Gone(leaver[d])
    BY <1>0, <2>1
  <2>3. UNCHANGED <<who, update>>
    BY <1>8 DEF LeaveState, LeaveLocal
  <2> QED
    BY <1>0, <1>8, <2>1, <2>2, <2>3 DEF LeaveState, LeaveLocal, PairInv
<1>9. CASE UNCHANGED presVars
  BY <1>9, <1>1 DEF presVars
<1> QED
  BY <1>1, <1>2, <1>3, <1>4, <1>5, <1>6, <1>7, <1>8, <1>9
     DEF PresNext, PresStep, UpdateStep, LeaveStep

LEMMA LoginStep ==
  ASSUME IInv, LeaverInv, LoginInv, [PresNext]_presVars
  PROVE  LoginInv'
<1> DEFINE Gone(u) ==
      /\ ForwardsDisconnect
      /\ \E c \in Conn :
           /\ \E p \in Task : /\ kind'[p] = "login" /\ on'[p] = c /\ who'[p] = u
                             /\ stage'[p] \in {"inner", "done"}
           /\ handler'[c] # "none"
<1>0. \A u \in User : Left(u) => Gone(u)
  <2> SUFFICES ASSUME NEW u \in User, Left(u) PROVE Left(u)'
    BY DEF Left, Proved
  <2> QED
    BY LeftStays
<1> DEFINE Goal ==
      /\ \A t \in Task : stage'[t] = "identified" => kind'[t] = "other"
      /\ \A t \in Task : kind'[t] = "login" /\ stage'[t] \in {"inner", "done"} =>
           update'[t] = "local" \/ contexts'[who'[t]] # None \/ Gone(who'[t])
<1> SUFFICES Goal
  BY DEF LoginInv, Gone, Left, Proved
<1> HIDE DEF Gone
<1>a. \A t \in Task : stage[t] \in {"inner", "done"} => who[t] \in User
  BY DEF IInv, ProvedInv
<1> USE NoneAssumption, <1>0, <1>a
    DEF IInv, PresTypeOK, LeaverInv, LoginInv, mapVars, taskVars, leaveVars, GoTo
<1>1. ASSUME NEW t \in Task, NEW d \in Conn, NEW k \in Kind, NEW v \in User \cup {None},
             Receive(t, d, k, v)
      PROVE  Goal
  BY <1>1 DEF Receive
<1>2. ASSUME NEW t \in Task, Outer(t) PROVE Goal
  <2>1. CASE Login(t)
    BY <2>1 DEF Login
  <2>2. CASE RejectLogin(t) \/ Logout(t) \/ FindStranger(t) \/ RejectStranger(t)
    BY <2>2 DEF RejectLogin, Logout, FindStranger, RejectStranger
  <2>3. CASE Identify(t) \/ Refresh(t)
    BY <2>3 DEF Identify, Refresh
  <2> QED
    BY <1>2, <2>1, <2>2, <2>3 DEF Outer
<1>3. ASSUME NEW t \in Task, UpdateStep(t) PROVE Goal
  BY <1>3 DEF UpdateStep, PutLocal, Put, PutSync
<1>4. ASSUME NEW d \in Conn, Lose(d) \/ Age(d) \/ LeaveStart(d) \/ LeaveState(d) PROVE Goal
  BY <1>4 DEF Lose, Age, LeaveStart, LeaveState
<1>5. ASSUME NEW d \in Conn, LeaveLocal(d) PROVE Goal
  <2>1. leaver[d] \in User /\ Left(leaver[d])
    BY <1>5 DEF LeaveLocal, Left
  <2> QED
    BY <1>5, <2>1 DEF LeaveLocal
<1>6. ASSUME NEW t \in Task, InnerProcess(t) PROVE Goal
  BY <1>6 DEF InnerProcess
<1>7. CASE UNCHANGED presVars
  BY <1>7 DEF presVars
<1> QED
  BY <1>1, <1>2, <1>3, <1>4, <1>5, <1>6, <1>7 DEF PresNext, PresStep, LeaveStep

LEMMA PairInvariance == PresSpec => [](LeaverInv /\ LoginInv /\ PairInv)
<1>1. PresInit => LeaverInv /\ LoginInv /\ PairInv
  BY DEF PresInit, LeaverInv, LoginInv, PairInv
<1>2. IInv /\ LeaverInv /\ LoginInv /\ PairInv /\ [PresNext]_presVars
        => LeaverInv' /\ LoginInv' /\ PairInv'
  BY LeaverStep, LoginStep, PairStep
<1> QED
  BY <1>1, <1>2, Invariance, PTL DEF PresSpec

(* When nothing is under way for a user who used one connection, the map   *)
(* by which messages are routed and the map by which he is announced both  *)
(* have him there: update_state writes them one after the other, but all   *)
(* his tasks, in whatever order, write the same, and no other user's       *)
(* updates or `disconnected` touch his entries.                            *)
THEOREM SettledUsersStayFound == PresSpec => []SettledUsersAreFound
<1>1. IInv /\ LeaverInv /\ LoginInv /\ PairInv => SettledUsersAreFound
  <2> SUFFICES ASSUME IInv, LeaverInv, LoginInv, PairInv,
                      NEW u \in User, NEW c \in Conn, Settled(u), Proved(c, u)
               PROVE  contexts[u] = c /\ state[u] = c
    BY DEF SettledUsersAreFound
  <2>1. ~Left(u)
    BY DEF Settled, Left
  <2>2. \A t \in Task : who[t] = u => update[t] = "none"
    BY DEF Settled
  <2>3. contexts[u] # None
    BY <2>1, <2>2 DEF LoginInv, Proved
  <2>4. state[u] # None
    BY <2>1, <2>2, <2>3 DEF PairInv
  <2>5. contexts[u] \in Conn /\ state[u] \in Conn
    BY <2>3, <2>4 DEF IInv, PresTypeOK
  <2>6. Proved(contexts[u], u) /\ Proved(state[u], u)
    BY <2>5 DEF IInv, OnlyProvedAreRegistered
  <2> QED
    BY <2>5, <2>6 DEF Settled
<1> QED
  BY <1>1, Invariance, PairInvariance, PTL

-----------------------------------------------------------------------------
(* What `disconnected` leaves behind.  From the step that removes the user *)
(* from a map on, only an update of this connection can put it back there, *)
(* and late then has the connection.                                       *)
ForgetInv ==
  \A c \in Conn :
    /\ conn[c] # "gone" => handler[c] = "none"
    /\ handler[c] \in {"none", "start"} => leaver[c] = None
    /\ leaver[c] # None /\ c \notin late =>
         /\ handler[c] \in {"local", "done"} => state[leaver[c]] # c
         /\ handler[c] = "done" => contexts[leaver[c]] # c

LEMMA ForgetStep ==
  ASSUME IInv, LeaverInv, ForgetInv, [PresNext]_presVars
  PROVE  ForgetInv'
<1> USE NoneAssumption
    DEF IInv, PresTypeOK, LeaverInv, ForgetInv, mapVars, taskVars, leaveVars, GoTo, Close
<1>1. ASSUME NEW t \in Task, NEW d \in Conn, NEW k \in Kind, NEW v \in User \cup {None},
             Receive(t, d, k, v)
      PROVE  ForgetInv'
  BY <1>1 DEF Receive
<1>2. ASSUME NEW t \in Task, Outer(t) PROVE ForgetInv'
  <2>1. /\ UNCHANGED <<state, contexts, handler, leaver, late>>
        /\ \A c \in Conn : conn'[c] # "gone" => conn[c] # "gone"
    BY <1>2 DEF Outer, Login, RejectLogin, Logout, FindStranger, RejectStranger, Identify,
                Refresh
  <2> QED
    BY <2>1
<1>3. ASSUME NEW t \in Task, UpdateStep(t) PROVE ForgetInv'
  <2>1. CASE PutLocal(t)
    BY <2>1 DEF PutLocal
  <2>2. CASE Put(t)
    BY <2>2 DEF Put
  <2>3. CASE PutSync(t)
    BY <2>3 DEF PutSync
  <2> QED
    BY <1>3, <2>1, <2>2, <2>3 DEF UpdateStep
<1>4. ASSUME NEW d \in Conn, Lose(d) PROVE ForgetInv'
  BY <1>4 DEF Lose
<1>5. ASSUME NEW d \in Conn, Age(d) PROVE ForgetInv'
  BY <1>5 DEF Age
<1>6. ASSUME NEW d \in Conn, LeaveStep(d) PROVE ForgetInv'
  <2>1. CASE LeaveStart(d)
    BY <2>1 DEF LeaveStart
  <2>2. CASE LeaveState(d)
    BY <2>2 DEF LeaveState
  <2>3. CASE LeaveLocal(d)
    BY <2>3 DEF LeaveLocal
  <2> QED
    BY <1>6, <2>1, <2>2, <2>3 DEF LeaveStep
<1>7. ASSUME NEW t \in Task, InnerProcess(t) PROVE ForgetInv'
  BY <1>7 DEF InnerProcess
<1>8. CASE UNCHANGED presVars
  BY <1>8 DEF presVars
<1> QED
  BY <1>1, <1>2, <1>3, <1>4, <1>5, <1>6, <1>7, <1>8 DEF PresNext, PresStep

(* `disconnected` removes the user that it finds in the Context from both  *)
(* maps as far as they lead to this connection, and nothing but an update  *)
(* of this connection, later than its writes, brings that user back to it. *)
(* Of a user who was on the connection before him it says nothing: his     *)
(* entries stay.                                                           *)
THEOREM LeaversStayForgotten == PresSpec => []LeaversAreForgotten
<1>1. PresInit => ForgetInv
  BY DEF PresInit, ForgetInv
<1>2. IInv /\ LeaverInv /\ ForgetInv /\ [PresNext]_presVars => ForgetInv'
  BY ForgetStep
<1>3. ForgetInv => LeaversAreForgotten
  BY NoneAssumption DEF ForgetInv, LeaversAreForgotten
<1> QED
  BY <1>1, <1>2, <1>3, Invariance, PairInvariance, PTL DEF PresSpec

-----------------------------------------------------------------------------
(* The server is an inner processor of Presence *)

LEMMA ServerSteps == [Next]_vars => [PresNext]_presVars
<1>1. ASSUME NEW t \in Task, ServerStep(t) PROVE [PresNext]_presVars
  BY <1>1 DEF ServerStep, StartCounter, Ignore, Route, GenId, GenIdStuck, Delivered,
              NotDelivered, Ack, AckRefused, Work, Await, PresNext
<1>2. ASSUME NEW c \in Conn, Forget(c) PROVE [PresNext]_presVars
  BY <1>2 DEF Forget
<1> QED
  BY <1>1, <1>2 DEF Next, PresNext, vars

(* The server does to the presence of users nothing that Presence alone    *)
(* could not do: its processor is an inner processor like any other.       *)
THEOREM ServerImplementsPresence == Spec => PresSpec
<1>1. Init => PresInit
  BY DEF Init
<1> QED
  BY <1>1, ServerSteps, PTL DEF Spec, PresSpec

(* Messages go to connections of their user, in the server as well: the    *)
(* maps that Server::send routes by hold proved users only.                *)
THEOREM MessagesGoToProvedUsers == Spec => []OnlyProvedAreRegistered
  BY ServerImplementsPresence, RegisteredUsersAreProved, PTL

(* And the maps keep what Presence promises of them: settled users are     *)
(* found in both, and a connection's last user is not left on it when it   *)
(* has gone, except by a late update.                                      *)
THEOREM MapsAreKept == Spec => [](SettledUsersAreFound /\ LeaversAreForgotten)
  BY ServerImplementsPresence, SettledUsersStayFound, LeaversStayForgotten, PTL

(* So the server turns away no packet that comes after a handled login.    *)
THEOREM KnownUsersAreServed == Spec => []HandledLoginIsEnough
  BY ServerImplementsPresence, KnownUsersAreLetIn, PTL

-----------------------------------------------------------------------------
(* A task has a message only if its packet is one, and has it while the    *)
(* packet is in the server and after it.                                   *)
MessageInv ==
  \A t \in Task : message[t] # "none" => kind[t] = "other" /\ stage[t] \in {"inner", "done"}

(* The lock is lost for want of a counter, which no one can add any more,  *)
(* and a login that has been handled has left a counter.                   *)
LockInv ==
  /\ lock # None => counter[dest[lock]] = NoId
  /\ ~ForwardsDisconnect =>
       \A t \in Task : kind[t] = "login" /\ stage[t] = "done" => counter[on[t]] # NoId

SInv == IInv /\ ServerTypeOK /\ MessageInv /\ LockInv

LEMMA ServerInitially == Init => SInv
<1> SUFFICES ASSUME Init PROVE SInv
  OBVIOUS
<1>1. IInv
  BY Initially DEF Init
<1>2. NoId \in Nat
  BY MaxIdAssumption DEF NoId
<1> QED
  BY <1>1, <1>2, NoneAssumption
     DEF Init, PresInit, SInv, IInv, ServerTypeOK, Progress, MessageInv, LockInv

(* A step of Presence itself ends no packet, and leaves those that reached *)
(* the server alone.                                                       *)
LEMMA PresStepStages ==
  ASSUME PresTypeOK, PresStep
  PROVE  \A t \in Task :
           /\ stage[t] \in {"inner", "done"} =>
                stage'[t] = stage[t] /\ kind'[t] = kind[t] /\ on'[t] = on[t]
           /\ stage'[t] = "done" => stage[t] = "done"
<1> DEFINE Goal == \A t \in Task :
             /\ stage[t] \in {"inner", "done"} =>
                  stage'[t] = stage[t] /\ kind'[t] = kind[t] /\ on'[t] = on[t]
             /\ stage'[t] = "done" => stage[t] = "done"
<1> USE DEF PresTypeOK, mapVars, taskVars, leaveVars, GoTo
<1>1. ASSUME NEW t \in Task, NEW c \in Conn, NEW k \in Kind, NEW u \in User \cup {None},
             Receive(t, c, k, u)
      PROVE  Goal
  BY <1>1 DEF Receive
<1>2. ASSUME NEW t \in Task, Outer(t) PROVE Goal
  BY <1>2 DEF Outer, Login, RejectLogin, Logout, FindStranger, RejectStranger, Identify, Refresh
<1>3. ASSUME NEW t \in Task, UpdateStep(t) PROVE Goal
  BY <1>3 DEF UpdateStep, PutLocal, Put, PutSync
<1>4. ASSUME NEW c \in Conn, Lose(c) \/ Age(c) \/ LeaveStep(c) PROVE Goal
  BY <1>4 DEF Lose, Age, LeaveStep, LeaveStart, LeaveState, LeaveLocal
<1> QED
  BY <1>1, <1>2, <1>3, <1>4 DEF PresStep

LEMMA PresStepKeeps ==
  ASSUME SInv, PresStep, UNCHANGED serverVars, PresTypeOK'
  PROVE  ServerTypeOK' /\ MessageInv' /\ LockInv'
BY PresStepStages
   DEF SInv, IInv, PresTypeOK, ServerTypeOK, MessageInv, LockInv, serverVars, NoId

LEMMA ServerStepKeeps ==
  ASSUME SInv, NEW t \in Task, ServerStep(t), PresTypeOK'
  PROVE  ServerTypeOK' /\ MessageInv' /\ LockInv'
<1> DEFINE Goal == ServerTypeOK' /\ MessageInv' /\ LockInv'
<1>0. MaxId \in 0 .. NoId /\ NoId \in 0 .. NoId /\ MaxId # NoId
      /\ \A n \in 0 .. NoId : n # NoId =>
           (IF n = 0 THEN MaxId ELSE n - 1) \in (0 .. NoId) \ {NoId}
  BY MaxIdAssumption DEF NoId
<1> HIDE DEF NoId
<1> USE NoneAssumption, <1>0
    DEF SInv, IInv, ServerTypeOK, Progress, MessageInv, LockInv, PresTypeOK, InnerProcess,
        GoTo, Say, serverVars, mapVars, taskVars, leaveVars, presVars
<1>1. CASE StartCounter(t)
  BY <1>1 DEF StartCounter
<1>2. CASE Ignore(t) \/ Ack(t) \/ AckRefused(t)
  <2>1. CASE Ignore(t)
    BY <2>1 DEF Ignore
  <2>2. CASE Ack(t)
    BY <2>2 DEF Ack
  <2>3. CASE AckRefused(t)
    BY <2>3 DEF AckRefused
  <2>. QED  BY <1>2, <2>1, <2>2, <2>3
<1>3. ASSUME NEW u \in User, Route(t, u) PROVE Goal
  BY <1>3 DEF Route
<1>4. CASE GenId(t)
  BY <1>4 DEF GenId
<1>5. CASE GenIdStuck(t)
  BY <1>5 DEF GenIdStuck
<1>6. CASE Delivered(t) \/ NotDelivered(t)
  BY <1>6 DEF Delivered, NotDelivered
<1> QED
  BY <1>1, <1>2, <1>3, <1>4, <1>5, <1>6 DEF ServerStep, Work, Await

LEMMA ServerInvariantStep ==
  ASSUME SInv, [Next]_vars
  PROVE  SInv'
<1>1. IInv'
  BY ServerSteps, Step DEF SInv
<1>2. PresTypeOK'
  BY <1>1 DEF IInv
<1>3. CASE PresStep /\ UNCHANGED serverVars
  BY <1>1, <1>2, <1>3, PresStepKeeps DEF SInv
<1>4. ASSUME NEW t \in Task, ServerStep(t) PROVE SInv'
  BY <1>1, <1>2, <1>4, ServerStepKeeps DEF SInv
<1>5. ASSUME NEW c \in Conn, Forget(c) PROVE SInv'
  <2>1. NoId \in 0 .. NoId
    BY MaxIdAssumption DEF NoId
  <2> QED
    BY <1>1, <1>2, <1>5, <2>1
       DEF Forget, SInv, IInv, PresTypeOK, ServerTypeOK, MessageInv, LockInv, presVars
<1>6. CASE UNCHANGED vars
  BY <1>1, <1>2, <1>6
     DEF vars, serverVars, presVars, SInv, ServerTypeOK, MessageInv, LockInv, NoId
<1> QED
  BY <1>3, <1>4, <1>5, <1>6 DEF Next

LEMMA ServerInvariance == Spec => []SInv
  BY ServerInitially, ServerInvariantStep, PTL DEF Spec

(* Every variable of the server has its type: ids wrap around within their *)
(* range, and who keeps the lock waits for itself.                         *)
THEOREM ServerTypeCorrect == Spec => []ServerTypeOK
  BY ServerInvariance, PTL DEF SInv

(* gen_request_id keeps the lock for good only for a message that is       *)
(* routed to a connection whose login has not reached the server.          *)
THEOREM LockIsLostOnlyDuringLogin == Spec => []StuckOnlyDuringLogin
<1>1. SInv => StuckOnlyDuringLogin
  BY DEF SInv, IInv, PresTypeOK, ServerTypeOK, LockInv, StuckOnlyDuringLogin
<1> QED
  BY <1>1, ServerInvariance, PTL

-----------------------------------------------------------------------------
(* Request ids.  A counter starts when the first login on its connection   *)
(* is handled, and no id was given before; from then on the ids given are  *)
(* all those above the counter, or all ids when it has been around.        *)

(* A message gets its id after its connection. *)
IdInv ==
  \A t \in Task : id[t] # NoId =>
    dest[t] \in Conn /\ message[t] \in {"sending", "ok", "failed", "acked", "unacked"}

FreshInv ==
  \A c \in Conn : (\A t \in Task : ~HandledLogin(t, c)) =>
    counter[c] = NoId /\ \A t \in Task : dest[t] = c => id[t] = NoId

Used(c, n) == \E t \in Task : dest[t] = c /\ id[t] = n

Distinct(c) ==
  \A s, t \in Task : s # t /\ dest[s] = c /\ dest[t] = c /\ id[s] # NoId => id[s] # id[t]

UsedAbove(c) ==
  counter[c] # NoId =>
    \/ \A n \in 0 .. MaxId : Used(c, n) <=> n > counter[c]
    \/ \A n \in 0 .. MaxId : Used(c, n)

CountInv == \A c \in Conn : OneLogin(c) => Distinct(c) /\ UsedAbove(c)

(* No more messages than there are ids: u64::MAX + 1 in the code. *)
FewMessages == IsFiniteSet(Task) /\ Cardinality(Task) <= MaxId + 1

(* So a message without an id finds one that is not used. *)
LEMMA NotAllUsed ==
  ASSUME FewMessages, NEW c \in Conn, NEW t \in Task, id[t] = NoId
  PROVE  \E n \in 0 .. MaxId : ~Used(c, n)
<1> SUFFICES ASSUME \A n \in 0 .. MaxId : Used(c, n) PROVE FALSE
  OBVIOUS
<1> DEFINE S == 0 .. MaxId
           T == Task \ {t}
           f == [n \in S |-> CHOOSE s \in Task : dest[s] = c /\ id[s] = n]
<1>1. \A n \in S : f[n] \in Task /\ id[f[n]] = n /\ n # NoId
  BY MaxIdAssumption DEF Used, NoId
<1>2. f \in [S -> T]
  BY <1>1
<1>3. IsFiniteSet(S) /\ Cardinality(S) = MaxId + 1
  BY MaxIdAssumption, FS_Interval
<1>4. IsFiniteSet(T) /\ Cardinality(T) = Cardinality(Task) - 1
  BY FS_RemoveElement DEF FewMessages
<1>5. Cardinality(Task) \in Nat
  BY FS_CardinalityType DEF FewMessages
<1>6. Cardinality(T) < Cardinality(S)
  BY <1>3, <1>4, <1>5, MaxIdAssumption DEF FewMessages
<1> HIDE DEF S, T, f
<1>7. \E x, y \in S : x # y /\ f[x] = f[y]
  BY <1>2, <1>3, <1>4, <1>6, FS_PigeonHole
<1> QED
  BY <1>1, <1>7

(* Steps that neither handle a login nor give an id. *)
LEMMA SameIds ==
  ASSUME IdInv, FreshInv, CountInv, counter' = counter, id' = id,
         \A t \in Task : id[t] # NoId => dest'[t] = dest[t],
         \A t \in Task, c \in Conn : HandledLogin(t, c)' <=> HandledLogin(t, c)
  PROVE  FreshInv' /\ CountInv'
<1>1. \A c \in Conn, n \in 0 .. MaxId : Used(c, n)' <=> Used(c, n)
  <2>1. \A n \in 0 .. MaxId : n # NoId
    BY MaxIdAssumption DEF NoId
  <2> QED
    BY <2>1 DEF Used
<1>2. \A c \in Conn : Distinct(c) => Distinct(c)'
  BY DEF Distinct
<1>3. \A c \in Conn : UsedAbove(c) => UsedAbove(c)'
  BY <1>1 DEF UsedAbove, NoId
<1>4. \A c \in Conn : OneLogin(c)' => OneLogin(c)
  BY DEF OneLogin
<1>5. FreshInv'
  BY DEF FreshInv, NoId
<1> QED
  BY <1>2, <1>3, <1>4, <1>5 DEF CountInv

(* An id that is given is new, and the ids used grow down to it. *)
LEMMA GenIdStep ==
  ASSUME FewMessages, SInv, IdInv, FreshInv, CountInv, NEW t \in Task, GenId(t)
  PROVE  IdInv' /\ FreshInv' /\ CountInv'
<1> PICK c \in Conn : c = dest[t]
  BY DEF GenId, SInv, ServerTypeOK
<1> PICK n \in 0 .. NoId : n = counter[c]
  BY DEF SInv, ServerTypeOK
<1>1. /\ id[t] = NoId /\ n # NoId /\ n \in 0 .. MaxId /\ n \in Nat
  <2>1. id[t] = NoId
    BY DEF GenId, SInv, ServerTypeOK, IdInv
  <2> QED
    BY <2>1, MaxIdAssumption DEF GenId, NoId
<1>2. /\ id' = [id EXCEPT ![t] = n] /\ dest' = dest
      /\ counter' = [counter EXCEPT ![c] = IF n = 0 THEN MaxId ELSE n - 1]
      /\ message' = [message EXCEPT ![t] = "sending"] /\ UNCHANGED <<kind, on, stage>>
  BY DEF GenId, Say, presVars
<1>3. id \in [Task -> 0 .. NoId] /\ counter \in [Conn -> 0 .. NoId]
      /\ message \in [Task -> Progress]
  BY DEF SInv, ServerTypeOK
<1>4. IdInv'
  BY <1>1, <1>2, <1>3 DEF IdInv, NoId
<1>5. \A d \in Conn, s \in Task : HandledLogin(s, d)' <=> HandledLogin(s, d)
  BY <1>2 DEF HandledLogin
<1>6. \E s \in Task : HandledLogin(s, c)
  BY <1>1 DEF FreshInv
<1>7. FreshInv'
  <2> SUFFICES ASSUME NEW d \in Conn, \A s \in Task : ~HandledLogin(s, d)
               PROVE  counter'[d] = NoId /\ \A s \in Task : dest'[s] = d => id'[s] = NoId
    BY <1>5 DEF FreshInv, NoId
  <2>1. d # c
    BY <1>6
  <2>2. counter[d] = NoId /\ \A s \in Task : dest[s] = d => id[s] = NoId
    BY DEF FreshInv
  <2> QED
    BY <1>2, <1>3, <2>1, <2>2
<1>8. ASSUME NEW d \in Conn, OneLogin(d), d # c PROVE Distinct(d)' /\ UsedAbove(d)'
  <2>1. Distinct(d) /\ UsedAbove(d)
    BY <1>8 DEF CountInv
  <2>2. \A s \in Task : dest[s] = d => id'[s] = id[s]
    BY <1>2, <1>3, <1>8
  <2>3. Distinct(d)'
    BY <1>2, <2>1, <2>2 DEF Distinct, NoId
  <2>4. \A m \in 0 .. MaxId : Used(d, m)' <=> Used(d, m)
    BY <1>2, <2>2 DEF Used
  <2>5. counter'[d] = counter[d]
    BY <1>2, <1>3, <1>8
  <2> QED
    BY <2>1, <2>3, <2>4, <2>5 DEF UsedAbove, NoId
<1>9. ASSUME OneLogin(c) PROVE Distinct(c)' /\ UsedAbove(c)'
  <2>1. Distinct(c) /\ UsedAbove(c)
    BY <1>1, <1>9 DEF CountInv
  <2>2. \A m \in 0 .. MaxId : Used(c, m) <=> m > n
    <3>1. ~ \A m \in 0 .. MaxId : Used(c, m)
      BY <1>1, NotAllUsed
    <3> QED
      BY <1>1, <2>1, <3>1 DEF UsedAbove
  <2>3. ~Used(c, n)
    BY <1>1, <2>2
  <2>4. \A m \in 0 .. MaxId : Used(c, m)' <=> (Used(c, m) \/ m = n)
    <3>1. \A m \in 0 .. MaxId : m # NoId
      BY MaxIdAssumption DEF NoId
    <3> QED
      BY <1>1, <1>2, <1>3, <3>1 DEF Used
  <2>5. Distinct(c)'
    <3> SUFFICES ASSUME NEW r \in Task, NEW s \in Task, r # s, dest[r] = c, dest[s] = c,
                        id'[r] # NoId, id'[r] = id'[s]
                 PROVE  FALSE
      BY <1>2 DEF Distinct, NoId
    <3>1. CASE r # t /\ s # t
      BY <1>2, <1>3, <2>1, <3>1 DEF Distinct
    <3>2. CASE r = t
      BY <1>2, <1>3, <2>3, <3>2 DEF Used
    <3>3. CASE s = t
      BY <1>2, <1>3, <2>3, <3>3 DEF Used
    <3> QED
      BY <3>1, <3>2, <3>3
  <2>6. CASE n = 0
    <3>1. \A m \in 0 .. MaxId : m > n \/ m = n
      BY <2>6
    <3>2. \A m \in 0 .. MaxId : Used(c, m)'
      BY <2>2, <2>4, <3>1
    <3> QED
      BY <2>5, <3>2 DEF UsedAbove
  <2>7. CASE n # 0
    <3>1. counter'[c] = n - 1
      BY <1>1, <1>2, <1>3, <2>7
    <3>2. \A m \in 0 .. MaxId : m > n - 1 <=> (m > n \/ m = n)
      BY <1>1
    <3>3. \A m \in 0 .. MaxId : Used(c, m)' <=> m > counter'[c]
      BY <2>2, <2>4, <3>1, <3>2
    <3> QED
      BY <2>5, <3>3 DEF UsedAbove
  <2> QED
    BY <2>6, <2>7
<1>10. CountInv'
  <2>1. \A d \in Conn : OneLogin(d)' => OneLogin(d)
    BY <1>5 DEF OneLogin
  <2> QED
    BY <1>8, <1>9, <2>1 DEF CountInv
<1> QED
  BY <1>4, <1>7, <1>10

(* The first login that is handled starts a counter with no id given; where *)
(* there was one before, nothing is claimed.                                *)
LEMMA StartCounterStep ==
  ASSUME SInv, IdInv, FreshInv, CountInv, NEW t \in Task, StartCounter(t)
  PROVE  IdInv' /\ FreshInv' /\ CountInv'
<1> PICK c \in Conn : c = on[t]
  BY DEF StartCounter, InnerProcess, SInv, ServerTypeOK, PresTypeOK
<1>1. stage[t] = "inner" /\ kind[t] = "login"
  BY DEF StartCounter, InnerProcess, SInv, IInv, PresTypeOK
<1>2. /\ counter' = [counter EXCEPT ![c] = MaxId] /\ UNCHANGED <<id, dest, message, kind, on>>
      /\ stage' = [stage EXCEPT ![t] = "done"]
  BY DEF StartCounter, InnerProcess, GoTo
<1>3. /\ counter \in [Conn -> 0 .. NoId] /\ stage \in [Task -> Stage]
  BY DEF SInv, ServerTypeOK, PresTypeOK
<1>4. IdInv'
  BY <1>2 DEF IdInv, NoId
<1>5. HandledLogin(t, c)'
  BY <1>1, <1>2, <1>3 DEF HandledLogin
<1>6. \A s \in Task, d \in Conn : HandledLogin(s, d) => HandledLogin(s, d)'
  BY <1>2, <1>3 DEF HandledLogin
<1>7. \A s \in Task, d \in Conn : d # c \/ s # t => (HandledLogin(s, d)' <=> HandledLogin(s, d))
  BY <1>1, <1>2, <1>3 DEF HandledLogin
<1>8. ~HandledLogin(t, c)
  BY <1>1 DEF HandledLogin
<1>9. \A d \in Conn : d # c => counter'[d] = counter[d]
  BY <1>2, <1>3
<1>10. FreshInv'
  <2> SUFFICES ASSUME NEW d \in Conn, \A s \in Task : ~HandledLogin(s, d)'
               PROVE  counter'[d] = NoId /\ \A s \in Task : dest[s] = d => id[s] = NoId
    BY <1>2 DEF FreshInv, NoId
  <2>1. d # c
    BY <1>5
  <2> QED
    BY <1>6, <1>9, <2>1 DEF FreshInv
<1>11. ASSUME NEW d \in Conn, d # c, OneLogin(d)' PROVE Distinct(d)' /\ UsedAbove(d)'
  <2>1. OneLogin(d)
    BY <1>6, <1>11 DEF OneLogin
  <2>2. Distinct(d) /\ UsedAbove(d)
    BY <2>1 DEF CountInv
  <2> QED
    BY <1>2, <1>9, <1>11, <2>2 DEF Distinct, UsedAbove, Used, NoId
<1>12. ASSUME OneLogin(c)' PROVE Distinct(c)' /\ UsedAbove(c)'
  <2>1. \A s \in Task : ~HandledLogin(s, c)
    BY <1>1, <1>5, <1>6, <1>8, <1>12 DEF OneLogin
  <2>2. \A s \in Task : dest[s] = c => id[s] = NoId
    BY <1>1, <2>1 DEF FreshInv
  <2>3. Distinct(c)'
    BY <1>2, <2>2 DEF Distinct, NoId
  <2>4. counter'[c] = MaxId /\ \A n \in 0 .. MaxId : n # NoId /\ ~(n > MaxId)
    BY <1>1, <1>2, <1>3, MaxIdAssumption DEF NoId
  <2>5. \A n \in 0 .. MaxId : ~Used(c, n)'
    BY <1>2, <2>2, <2>4 DEF Used
  <2> QED
    BY <2>3, <2>4, <2>5 DEF UsedAbove
<1> QED
  BY <1>4, <1>10, <1>11, <1>12 DEF CountInv

LEMMA IdsStep ==
  ASSUME FewMessages, SInv, IdInv, FreshInv, CountInv, [Next]_vars
  PROVE  IdInv' /\ FreshInv' /\ CountInv'
<1> DEFINE Goal == IdInv' /\ FreshInv' /\ CountInv'
<1>1. CASE PresStep /\ UNCHANGED serverVars
  <2>1. \A t \in Task, c \in Conn : HandledLogin(t, c)' <=> HandledLogin(t, c)
    BY <1>1, PresStepStages DEF HandledLogin, SInv, ServerTypeOK
  <2>2. UNCHANGED <<counter, id, dest, message>>
    BY <1>1 DEF serverVars
  <2> QED
    BY <2>1, <2>2, SameIds DEF IdInv, NoId
<1>2. ASSUME NEW t \in Task, ServerStep(t) PROVE Goal
  <2> USE DEF SInv, ServerTypeOK, InnerProcess, GoTo, Say
  <2>1. CASE StartCounter(t)
    BY <2>1, StartCounterStep
  <2>2. CASE GenId(t)
    BY <2>2, GenIdStep
  <2>3. CASE Ignore(t) \/ Ack(t) \/ AckRefused(t)
    <3>1. kind[t] = "other" /\ UNCHANGED <<kind, on, counter, id, dest>>
          /\ stage' = [stage EXCEPT ![t] = "done"]
      BY <2>3 DEF Ignore, Ack, AckRefused, MessageInv, serverVars
    <3>2. \A s \in Task, c \in Conn : HandledLogin(s, c)' <=> HandledLogin(s, c)
      BY <3>1 DEF HandledLogin, PresTypeOK
    <3>3. \A s \in Task : message'[s] \in {message[s], "acked", "unacked"}
      BY <2>3 DEF Ignore, Ack, AckRefused, serverVars
    <3>4. IdInv'
      BY <3>1, <3>3 DEF IdInv, NoId
    <3> QED
      BY <3>1, <3>2, <3>4, SameIds
  <2>4. ASSUME NEW u \in User, Route(t, u) PROVE Goal
    <3>1. \A s \in Task, c \in Conn : HandledLogin(s, c)' <=> HandledLogin(s, c)
      BY <2>4 DEF Route, HandledLogin, presVars
    <3>2. \A s \in Task : id[s] # NoId => s # t
      BY <2>4 DEF Route, IdInv
    <3>3. UNCHANGED <<counter, id>>
          /\ \A s \in Task : s # t => dest'[s] = dest[s] /\ message'[s] = message[s]
      BY <2>4 DEF Route
    <3>4. IdInv'
      BY <3>2, <3>3 DEF IdInv, NoId
    <3> QED
      BY <3>1, <3>2, <3>3, <3>4, SameIds
  <2>5. CASE GenIdStuck(t) \/ Delivered(t) \/ NotDelivered(t)
    <3>1. \A s \in Task, c \in Conn : HandledLogin(s, c)' <=> HandledLogin(s, c)
      BY <2>5 DEF GenIdStuck, Delivered, NotDelivered, HandledLogin, presVars
    <3>2. UNCHANGED <<counter, id, dest>>
      BY <2>5 DEF GenIdStuck, Delivered, NotDelivered
    <3>3. IdInv'
      BY <2>5 DEF GenIdStuck, Delivered, NotDelivered, IdInv, NoId
    <3> QED
      BY <3>1, <3>2, <3>3, SameIds
  <2> QED
    BY <1>2, <2>1, <2>2, <2>3, <2>4, <2>5 DEF ServerStep, Work, Await
<1>3. ASSUME NEW d \in Conn, Forget(d) PROVE Goal
  <2>1. UNCHANGED <<kind, on, stage, id, dest, message>>
        /\ \A c \in Conn : counter'[c] = counter[c] \/ counter'[c] = NoId
    BY <1>3 DEF Forget, presVars, SInv, ServerTypeOK
  <2>2. IdInv' /\ FreshInv'
    BY <2>1 DEF IdInv, FreshInv, HandledLogin, NoId
  <2>3. ASSUME NEW c \in Conn, OneLogin(c)' PROVE Distinct(c)' /\ UsedAbove(c)'
    <3>1. Distinct(c) /\ UsedAbove(c)
      BY <2>1, <2>3 DEF CountInv, OneLogin, HandledLogin
    <3> QED
      BY <2>1, <3>1 DEF Distinct, UsedAbove, Used, NoId
  <2> QED
    BY <2>2, <2>3 DEF CountInv
<1>4. CASE UNCHANGED vars
  <2>1. UNCHANGED <<kind, on, stage, counter, id, dest, message>>
    BY <1>4 DEF vars, presVars, serverVars
  <2>2. \A t \in Task, c \in Conn : HandledLogin(t, c)' <=> HandledLogin(t, c)
    BY <2>1 DEF HandledLogin
  <2> QED
    BY <2>1, <2>2, SameIds DEF IdInv, NoId
<1> QED
  BY <1>1, <1>2, <1>3, <1>4 DEF Next

(* gen_request_id gives messages to one connection different ids, in any   *)
(* interleaving of its tasks, as long as the connection logs in once and   *)
(* the ids do not run out.                                                 *)
THEOREM IdsAreDistinct ==
  ASSUME FewMessages
  PROVE  Spec => []IdsDiffer
<1>1. Init => IdInv /\ FreshInv /\ CountInv
  BY DEF Init, IdInv, FreshInv, CountInv, Distinct, UsedAbove
<1>2. SInv /\ IdInv /\ FreshInv /\ CountInv /\ [Next]_vars => IdInv' /\ FreshInv' /\ CountInv'
  BY IdsStep
<1>3. SInv /\ IdInv /\ CountInv => IdsDiffer
  BY DEF IdInv, CountInv, Distinct, IdsDiffer
<1> QED
  BY <1>1, <1>2, <1>3, ServerInvariance, PTL DEF Spec

=============================================================================
