------------------------ MODULE SessionManagerProofs ------------------------
(***************************************************************************)
(* Theorems about module SessionManager, for every number of sessions and  *)
(* containers and whichever daemon calls fail:                             *)
(*                                                                         *)
(*   TypeCorrect          the type invariant;                              *)
(*   NothingLeaks         what no session owns, a failed call left behind; *)
(*   SessionsHaveOne      a registered session has its container;          *)
(*   OneOwnerEach         and shares it with no other session;             *)
(*   SessionsAreIndependent  the safety of the abstract module Sandboxes.  *)
(*                                                                         *)
(* The properties speak of the moments between two handlers; the invariant *)
(* IInv says what the handler that is running owes: it has the container   *)
(* it works on to itself, and, in a restart, the old container of its      *)
(* session is disposed of before the new one is created.                   *)
(***************************************************************************)
EXTENDS SessionManager, TLAPS

(***************************************************************************)
(* The inductive invariant                                                 *)
(***************************************************************************)

Building == {"create", "start", "register"}
TearingDown == {"shutdown", "stop", "remove", "volumes"}

\* Which session the handler works for.
HandlerInv ==
    /\ pc \in {"idle", "down"} => op = "none" /\ sid = Nobody /\ box = Nobody
    /\ pc \notin {"idle", "down"} => op # "none" /\ sid \in 1..issued
    /\ pc \in Building => op # "end"
    /\ pc \in TearingDown => op # "create"
    /\ pc = "shutdown" => op = "end"
    /\ op = "restart" => sid \in DOMAIN sessions
    /\ op \in {"create", "end"} => sid \notin DOMAIN sessions
    /\ \A s \in DOMAIN sessions : s <= issued

\* What has not been created is nobody's.
FreshInv ==
    \A c \in Cid :
        c > made => /\ state[c] = "absent" /\ c \notin volumes /\ data[c] = {}
                    /\ c # box /\ c \notin ended
                    /\ \A s \in DOMAIN sessions : sessions[s].container # c

\* No container has two sessions.
OwnerInv ==
    \A s \in DOMAIN sessions :
        /\ \A t \in DOMAIN sessions : sessions[s].container = sessions[t].container => s = t
        /\ sessions[s].container \notin ended

\* Which container it works on: a new one that it has to itself, one that lost
\* its session, or the one of the session that is restarted.
BoxInv ==
    /\ pc = "create" => box = Nobody
    /\ pc \in {"start", "register"} =>
           /\ box \in Cid /\ Exists(box) /\ box \in volumes
           /\ data[box] = {} /\ box \notin ended
    /\ pc \in TearingDown => box \in Cid
    /\ pc = "volumes" => state[box] = "removed"
    /\ pc \in TearingDown /\ op = "restart" => box = sessions[sid].container
    /\ pc \in {"start", "register"} \/ op = "end" =>
           \A s \in DOMAIN sessions : sessions[s].container # box

\* The container is there, or a daemon call failed on it, or its session's
\* restart is under way or failed.
Usable(s) ==
    LET c == sessions[s].container
    IN  \/ Exists(c) /\ c \in volumes
        \/ c \in failed \/ s \in lost
        \/ op = "restart" /\ s = sid

\* What exists is owned, worked on, or was left behind by a failed call.
DebtInv ==
    /\ \A c \in Cid :
           Exists(c) \/ c \in volumes =>
               c \in failed \/ (pc # "down" /\ (c \in Registered \/ c = box))
    /\ pc \in Building /\ op = "restart" =>
           LET c == sessions[sid].container
           IN  (~Exists(c) /\ c \notin volumes) \/ c \in failed
    /\ \A s \in DOMAIN sessions : Usable(s)

IInv == TypeOK /\ HandlerInv /\ FreshInv /\ OwnerInv /\ BoxInv /\ DebtInv

USE SessionManagerAssumption

\* It holds at the start.
LEMMA Initially == Init => IInv
  <1> SUFFICES ASSUME Init PROVE IInv
    OBVIOUS
  <1>1. TypeOK
    BY DEF Init, TypeOK, ContainerState, HandlerPC, Op, Sid, Cid, Nobody
  <1>2. HandlerInv /\ FreshInv /\ OwnerInv /\ BoxInv /\ DebtInv
    BY DEF Init, HandlerInv, FreshInv, OwnerInv, BoxInv, DebtInv, Building, TearingDown,
           Cid, Nobody, Exists, Usable
  <1> QED
    BY <1>1, <1>2 DEF IInv

\* Registering a session adds or replaces its entry and leaves the others.
LEMMA Registers ==
    ASSUME TypeOK, Register
    PROVE  /\ DOMAIN sessions' = DOMAIN sessions \cup {sid}
           /\ sessions'[sid].container = box
           /\ box \in Cid => sessions'[sid] \in Metadata
           /\ \A s \in DOMAIN sessions \ {sid} : sessions'[s] = sessions[s]
  BY DEF Register, Metadata, Status

\* However a teardown ends, it worked on a container; the handler goes on to
\* create another one, or returns.
LEMMA TeardownEnds ==
    ASSUME IInv, pc \in {"stop", "remove", "volumes"}, AfterTeardown
    PROVE  /\ box \in Cid /\ op \in {"restart", "end"}
           /\ pc' \in HandlerPC /\ op' \in Op
           /\ sid' \in Sid \cup {Nobody} /\ box' \in Cid \cup {Nobody}
           /\ ended' \subseteq Cid
  <1>1. box \in Cid /\ op \in {"restart", "end"}
    BY DEF IInv, TypeOK, HandlerInv, BoxInv, TearingDown, Op
  <1>2. CASE op = "restart"
    BY <1>1, <1>2 DEF AfterTeardown, IInv, TypeOK, HandlerPC
  <1>3. CASE op = "end"
    BY <1>1, <1>3 DEF AfterTeardown, Return, IInv, TypeOK, HandlerPC, Op
  <1> QED
    BY <1>1, <1>2, <1>3

\* Every step keeps the types.
LEMMA TypesKept == IInv /\ [Next]_vars => TypeOK'
  <1> SUFFICES ASSUME IInv, [Next]_vars
               PROVE  TypeOK'
    OBVIOUS
  <1> USE DEF IInv, TypeOK, HandlerInv, FreshInv, BoxInv, Building, TearingDown,
              ContainerState, HandlerPC, Op, Sid, Cid, Nobody, Metadata, Status,
              handlerVars, daemonVars, historyVars
  <1>1. CASE CreateSession
    BY <1>1 DEF CreateSession
  <1>2. ASSUME NEW s \in Sid, EndSession(s) \/ RestartSession(s) PROVE TypeOK'
    BY <1>2 DEF EndSession, RestartSession
  <1>3. ASSUME NEW s \in Sid, NEW f \in File, WriteFile(s, f) PROVE TypeOK'
    BY <1>3 DEF WriteFile
  <1>4. CASE DaemonCreates \/ DaemonStarts
    <2>1. CASE DaemonStarts
      BY <2>1 DEF DaemonStarts, Call
    <2>2. CASE DaemonCreates
      <3>1. made + 1 \in Cid /\ made + 1 \in 0..MaxContainers
        BY <2>2 DEF DaemonCreates
      <3> QED
        BY <2>2, <3>1 DEF DaemonCreates, Call
    <2> QED
      BY <1>4, <2>1, <2>2
  <1>5. CASE DaemonCreateFails \/ DaemonStartFails
    BY <1>5 DEF DaemonCreateFails, DaemonStartFails, Raise, Return
  <1>6. CASE Register
    BY <1>6, Registers DEF Register, Return
  <1>7. CASE SendShutdown \/ Stop \/ Remove
    BY <1>7 DEF SendShutdown, Stop, Remove, Call
  <1>8. CASE StopFails \/ RemoveFails
    <2>1. state' \in [Cid -> ContainerState]
      BY <1>8, TeardownEnds DEF StopFails, RemoveFails
    <2> QED
      BY <1>8, <2>1, TeardownEnds DEF StopFails, RemoveFails
  <1>9. CASE RemoveVolumes \/ RemoveVolumesFails
    <2>1. CASE RemoveVolumes
      <3>1. box \in Cid
        BY <2>1, TeardownEnds DEF RemoveVolumes
      <3>2. data' \in [Cid -> SUBSET File]
        BY <2>1, <3>1 DEF RemoveVolumes
      <3> QED
        BY <2>1, <3>2, TeardownEnds DEF RemoveVolumes
    <2>2. CASE RemoveVolumesFails
      BY <2>2, TeardownEnds DEF RemoveVolumesFails
    <2> QED
      BY <1>9, <2>1, <2>2
  <1>10. ASSUME NEW c \in Cid, ContainerExits(c) PROVE TypeOK'
    BY <1>10 DEF ContainerExits
  <1>11. CASE Sigterm \/ Boot
    BY <1>11 DEF Sigterm, Boot
  <1>12. CASE UNCHANGED vars
    BY <1>12 DEF vars
  <1> QED
    BY <1>1, <1>2, <1>3, <1>4, <1>5, <1>6, <1>7, <1>8, <1>9, <1>10, <1>11, <1>12
    DEF Next, HandlerStep

\* A handler works for one session from its first call to its last.
LEMMA HandlerKept == IInv /\ [Next]_vars => HandlerInv'
  <1> SUFFICES ASSUME IInv, [Next]_vars
               PROVE  HandlerInv'
    OBVIOUS
  <1> USE DEF IInv, TypeOK, HandlerInv, Building, TearingDown, Sid, Nobody, HandlerPC, Op,
              handlerVars, daemonVars, historyVars
  <1>1. CASE CreateSession \/ Sigterm \/ Boot \/ UNCHANGED vars
    BY <1>1 DEF CreateSession, Sigterm, Boot, vars
  <1>2. ASSUME NEW s \in Sid, EndSession(s) \/ RestartSession(s)
        PROVE  HandlerInv'
    BY <1>2 DEF EndSession, RestartSession
  <1>3. ASSUME NEW s \in Sid, NEW f \in File, WriteFile(s, f)
        PROVE  HandlerInv'
    BY <1>3 DEF WriteFile
  <1>4. CASE DaemonCreates \/ DaemonStarts \/ DaemonCreateFails \/ DaemonStartFails
    BY <1>4
    DEF DaemonCreates, DaemonStarts, Call, DaemonCreateFails, DaemonStartFails, Raise, Return
  <1>5. CASE Register
    BY <1>5, Registers DEF Register, Return
  <1>6. CASE SendShutdown \/ Stop \/ Remove
    BY <1>6 DEF SendShutdown, Stop, Remove, Call
  <1>7. CASE StopFails \/ RemoveFails \/ RemoveVolumes \/ RemoveVolumesFails
    BY <1>7
    DEF StopFails, RemoveFails, RemoveVolumes, RemoveVolumesFails, AfterTeardown, Return
  <1>8. ASSUME NEW c \in Cid, ContainerExits(c)
        PROVE  HandlerInv'
    BY <1>8 DEF ContainerExits
  <1> QED
    BY <1>1, <1>2, <1>3, <1>4, <1>5, <1>6, <1>7, <1>8 DEF Next, HandlerStep

\* The daemon numbers its containers: the next one is nobody's.
LEMMA FreshKept == IInv /\ [Next]_vars => FreshInv'
  <1> SUFFICES ASSUME IInv, [Next]_vars
               PROVE  FreshInv'
    OBVIOUS
  <1> USE DEF IInv, TypeOK, HandlerInv, FreshInv, BoxInv, Cid, Nobody, Building,
              TearingDown, Exists, Metadata, Op,
              handlerVars, daemonVars, historyVars
  <1>1. CASE CreateSession \/ Sigterm \/ Boot \/ UNCHANGED vars
    BY <1>1 DEF CreateSession, Sigterm, Boot, vars
  <1>2. ASSUME NEW s \in Sid, EndSession(s) \/ RestartSession(s)
        PROVE  FreshInv'
    BY <1>2 DEF EndSession, RestartSession
  <1>3. ASSUME NEW s \in Sid, NEW f \in File, WriteFile(s, f)
        PROVE  FreshInv'
    BY <1>3 DEF WriteFile
  <1>4. CASE DaemonCreates \/ DaemonStarts \/ DaemonCreateFails \/ DaemonStartFails
    BY <1>4
    DEF DaemonCreates, DaemonStarts, Call, DaemonCreateFails, DaemonStartFails, Raise, Return
  <1>5. CASE Register
    BY <1>5, Registers DEF Register, Return
  <1>6. CASE SendShutdown \/ Stop \/ Remove
    BY <1>6 DEF SendShutdown, Stop, Remove, Call
  <1>7. CASE StopFails \/ RemoveFails \/ RemoveVolumes \/ RemoveVolumesFails
    BY <1>7
    DEF StopFails, RemoveFails, RemoveVolumes, RemoveVolumesFails, AfterTeardown, Return
  <1>8. ASSUME NEW c \in Cid, ContainerExits(c)
        PROVE  FreshInv'
    BY <1>8 DEF ContainerExits
  <1> QED
    BY <1>1, <1>2, <1>3, <1>4, <1>5, <1>6, <1>7, <1>8 DEF Next, HandlerStep

\* A new entry has a new container; an end leaves the registry first.
LEMMA OwnerKept == IInv /\ [Next]_vars => OwnerInv'
  <1> SUFFICES ASSUME IInv, [Next]_vars
               PROVE  OwnerInv'
    OBVIOUS
  <1> USE DEF IInv, TypeOK, HandlerInv, FreshInv, OwnerInv, BoxInv, Cid, TearingDown,
              Metadata, Op, HandlerPC,
              handlerVars, daemonVars, historyVars
  <1>1. CASE CreateSession \/ Sigterm \/ Boot \/ UNCHANGED vars
    BY <1>1 DEF CreateSession, Sigterm, Boot, vars
  <1>2. ASSUME NEW s \in Sid, EndSession(s) \/ RestartSession(s)
        PROVE  OwnerInv'
    BY <1>2 DEF EndSession, RestartSession
  <1>3. ASSUME NEW s \in Sid, NEW f \in File, WriteFile(s, f)
        PROVE  OwnerInv'
    BY <1>3 DEF WriteFile
  <1>4. CASE DaemonCreates \/ DaemonStarts \/ DaemonCreateFails \/ DaemonStartFails
    BY <1>4
    DEF DaemonCreates, DaemonStarts, Call, DaemonCreateFails, DaemonStartFails, Raise, Return
  <1>5. CASE Register
    BY <1>5, Registers DEF Register, Return
  <1>6. CASE SendShutdown \/ Stop \/ Remove
    BY <1>6 DEF SendShutdown, Stop, Remove, Call
  <1>7. CASE StopFails \/ RemoveFails \/ RemoveVolumes \/ RemoveVolumesFails
    BY <1>7
    DEF StopFails, RemoveFails, RemoveVolumes, RemoveVolumesFails, AfterTeardown, Return
  <1>8. ASSUME NEW c \in Cid, ContainerExits(c)
        PROVE  OwnerInv'
    BY <1>8 DEF ContainerExits
  <1> QED
    BY <1>1, <1>2, <1>3, <1>4, <1>5, <1>6, <1>7, <1>8 DEF Next, HandlerStep

\* The container worked on changes only when the handler moves on.
LEMMA BoxKept == IInv /\ [Next]_vars => BoxInv'
  <1> SUFFICES ASSUME IInv, [Next]_vars
               PROVE  BoxInv'
    OBVIOUS
  <1> USE DEF IInv, TypeOK, HandlerInv, FreshInv, OwnerInv, BoxInv, Cid, Nobody,
              Building, TearingDown, Exists, Metadata, Op,
              handlerVars, daemonVars, historyVars
  <1>1. CASE CreateSession \/ Sigterm \/ Boot \/ UNCHANGED vars
    BY <1>1 DEF CreateSession, Sigterm, Boot, vars
  <1>2. ASSUME NEW s \in Sid, EndSession(s) \/ RestartSession(s)
        PROVE  BoxInv'
    BY <1>2 DEF EndSession, RestartSession
  <1>3. ASSUME NEW s \in Sid, NEW f \in File, WriteFile(s, f)
        PROVE  BoxInv'
    BY <1>3 DEF WriteFile
  <1>4. CASE DaemonCreates \/ DaemonStarts \/ DaemonCreateFails \/ DaemonStartFails
    BY <1>4
    DEF DaemonCreates, DaemonStarts, Call, DaemonCreateFails, DaemonStartFails, Raise, Return
  <1>5. CASE Register
    BY <1>5, Registers DEF Register, Return
  <1>6. CASE SendShutdown \/ Stop \/ Remove
    BY <1>6 DEF SendShutdown, Stop, Remove, Call
  <1>7. CASE StopFails \/ RemoveFails \/ RemoveVolumes \/ RemoveVolumesFails
    BY <1>7
    DEF StopFails, RemoveFails, RemoveVolumes, RemoveVolumesFails, AfterTeardown, Return
  <1>8. ASSUME NEW c \in Cid, ContainerExits(c)
        PROVE  BoxInv'
    BY <1>8 DEF ContainerExits
  <1> QED
    BY <1>1, <1>2, <1>3, <1>4, <1>5, <1>6, <1>7, <1>8 DEF Next, HandlerStep

\* A container is given up only when it is gone or a call on it failed.
LEMMA DebtKept == IInv /\ [Next]_vars => DebtInv'
  <1> SUFFICES ASSUME IInv, [Next]_vars
               PROVE  DebtInv'
    OBVIOUS
  <1> USE DEF IInv, TypeOK, HandlerInv, FreshInv, OwnerInv, BoxInv, DebtInv, Building,
              TearingDown, Cid, Nobody, Exists, Usable, Registered, Metadata, Op,
              handlerVars, daemonVars, historyVars
  <1>1. CASE CreateSession \/ Sigterm \/ Boot \/ UNCHANGED vars
    BY <1>1 DEF CreateSession, Sigterm, Boot, vars
  <1>2. ASSUME NEW s \in Sid, EndSession(s) \/ RestartSession(s)
        PROVE  DebtInv'
    BY <1>2 DEF EndSession, RestartSession
  <1>3. ASSUME NEW s \in Sid, NEW f \in File, WriteFile(s, f)
        PROVE  DebtInv'
    BY <1>3 DEF WriteFile
  <1>4. CASE DaemonCreates \/ DaemonStarts \/ DaemonCreateFails \/ DaemonStartFails
    BY <1>4
    DEF DaemonCreates, DaemonStarts, Call, DaemonCreateFails, DaemonStartFails, Raise, Return
  <1>5. CASE Register
    BY <1>5, Registers DEF Register, Return
  <1>6. CASE SendShutdown \/ Stop \/ Remove
    BY <1>6 DEF SendShutdown, Stop, Remove, Call
  <1>7. CASE StopFails \/ RemoveFails \/ RemoveVolumes \/ RemoveVolumesFails
    BY <1>7
    DEF StopFails, RemoveFails, RemoveVolumes, RemoveVolumesFails, AfterTeardown, Return
  <1>8. ASSUME NEW c \in Cid, ContainerExits(c)
        PROVE  DebtInv'
    BY <1>8 DEF ContainerExits
  <1> QED
    BY <1>1, <1>2, <1>3, <1>4, <1>5, <1>6, <1>7, <1>8 DEF Next, HandlerStep

\* The invariant always holds.
LEMMA Invariance == Spec => []IInv
  <1>1. IInv /\ [Next]_vars => IInv'
    BY TypesKept, HandlerKept, FreshKept, OwnerKept, BoxKept, DebtKept DEF IInv
  <1> QED
    BY <1>1, Initially, PTL DEF Spec

(***************************************************************************)
(* The theorems                                                            *)
(***************************************************************************)

\* The values of the variables stay what SessionManager and the daemon keep.
THEOREM TypeCorrect == Spec => []TypeOK
  <1>1. IInv => TypeOK
    BY DEF IInv
  <1> QED
    BY <1>1, Invariance, PTL

\* A container or volume without a session is there between two handlers only
\* if a daemon call on it failed or the server was killed while it existed.
THEOREM NothingLeaks == Spec => []NoSilentOrphans
  <1>1. IInv => NoSilentOrphans
    BY DEF IInv, TypeOK, HandlerInv, DebtInv, NoSilentOrphans, Cid, Nobody
  <1> QED
    BY <1>1, Invariance, PTL

\* A registered session has its container, unless a daemon call on it, or the
\* restart of the session, failed.
THEOREM SessionsHaveOne == Spec => []RegisteredExists
  <1>1. IInv => RegisteredExists
    BY DEF IInv, TypeOK, HandlerInv, DebtInv, Usable, RegisteredExists
  <1> QED
    BY <1>1, Invariance, PTL

\* No container serves two sessions, or a session and an end that is under way.
THEOREM OneOwnerEach == Spec => []OneOwner
  <1>1. IInv => OneOwner
    BY DEF IInv, OwnerInv, BoxInv, OneOwner, Registered
  <1> QED
    BY <1>1, Invariance, PTL

(***************************************************************************)
(* The refinement of Sandboxes                                             *)
(***************************************************************************)

\* What the clients see of a session: its stage and its files.
Files(s) == IF Stage(s) = "live" THEN data[sessions[s].container] ELSE {}
Restarting == IF op = "restart" THEN sid ELSE Nobody

\* A step that changes none of it is a stutter.
LEMMA SeenIsAll ==
    ASSUME \A s \in Sid : Stage(s)' = Stage(s) /\ Files(s)' = Files(s),
           Restarting' = Restarting
    PROVE  UNCHANGED Clients!vars
  BY DEF Clients!vars, Files, Restarting

\* Only what the clients see of session s changes.
Only(s) == \A t \in Sid \ {s} : Stage(t)' = Stage(t) /\ Files(t)' = Files(t)

\* What it takes to be a step of Sandboxes that is about one session.
LEMMA SeenOfOne ==
    ASSUME NEW s \in Sid, Only(s)
    PROVE  /\ Stage(s) # "gone" /\ Stage(s)' = "gone" /\ Files(s)' = {}
                  /\ Restarting' = Restarting => Clients!Leave(s)
           /\ Stage(s) = "new" /\ Stage(s)' = "live" /\ Files(s)' = Files(s)
                  /\ Restarting' = Restarting => Clients!Create(s)
           /\ Stage(s)' = Stage(s) /\ Files(s)' = {} /\ s # Nobody /\ Restarting = s
                  /\ Restarting' \in {s, Nobody} => Clients!Wipe
  BY DEF Only, Clients!Leave, Clients!Create, Clients!Wipe, Files, Restarting

\* All sessions are new at the start.
LEMMA ClientsInitially == Init => Clients!Init
  BY DEF Init, Clients!Init, Stage, Sid, Nobody

\* Every step is a step of Sandboxes or a stutter.
LEMMA ClientsStep == IInv /\ [Next]_vars => [Clients!Next]_(Clients!vars)
  <1> SUFFICES ASSUME IInv, [Next]_vars
               PROVE  Clients!Next \/ UNCHANGED Clients!vars
    OBVIOUS
  <1>i. TypeOK /\ HandlerInv /\ FreshInv /\ OwnerInv /\ BoxInv
    BY DEF IInv
  <1> USE DEF handlerVars, daemonVars, historyVars, Files, Stage, Restarting
  <1>1. CASE CreateSession
    BY <1>1, <1>i, SeenIsAll DEF CreateSession, HandlerInv, TypeOK, Sid, Nobody
  <1>2. ASSUME NEW s \in Sid, EndSession(s)
        PROVE  Clients!Leave(s)
    <2>1. Only(s) /\ Stage(s) # "gone"
      BY <1>2, <1>i DEF Only, EndSession, HandlerInv, Nobody
    <2>2. Stage(s)' = "gone" /\ Files(s)' = {} /\ Restarting' = Restarting
      BY <1>2, <1>i DEF EndSession, HandlerInv, TypeOK, Sid, Nobody
    <2> QED
      BY ONLY <2>1, <2>2, SeenOfOne, s \in Sid
  <1>3. ASSUME NEW s \in Sid, RestartSession(s)
        PROVE  Clients!Restart(s)
    BY <1>3, <1>i
    DEF RestartSession, Clients!Restart, Clients!Live, HandlerInv, TypeOK, Sid, Nobody
  <1>4. ASSUME NEW s \in Sid, NEW f \in File, WriteFile(s, f)
        PROVE  Clients!Write(s, f)
    <2>0. \A t \in DOMAIN sessions : sessions[t].container \in Cid
      BY <1>i DEF TypeOK, Metadata
    <2>1. /\ \A t \in Sid : Stage(t)' = Stage(t)
          /\ Stage(s) = "live" /\ Restarting' = Restarting
      BY <1>4 DEF WriteFile
    <2>2. \A t \in Sid \ {s} : Files(t)' = Files(t)
      BY <1>4, <1>i, <2>0 DEF WriteFile, OwnerInv, TypeOK
    <2>3. Files(s)' = Files(s) \cup {f}
      BY <1>4, <1>i, <2>0 DEF WriteFile, TypeOK, HandlerInv
    <2> HIDE DEF Files, Stage, Restarting
    <2> QED
      BY <2>1, <2>2, <2>3 DEF Clients!Write, Clients!Live, Files, Restarting
  <1>5. CASE DaemonCreates \/ DaemonStarts
    BY <1>5, <1>i, SeenIsAll DEF DaemonCreates, DaemonStarts, Call
  <1>6. CASE (DaemonCreateFails \/ DaemonStartFails) /\ op = "restart"
    <2>1. /\ \A s \in Sid : Stage(s)' = Stage(s) /\ Files(s)' = Files(s)
          /\ Restarting' = Nobody
      BY <1>6, <1>i DEF DaemonCreateFails, DaemonStartFails, Raise, Return
    <2> QED
      BY <2>1 DEF Clients!GiveUp, Clients!Next
  <1>7. CASE (DaemonCreateFails \/ DaemonStartFails) /\ op # "restart"
    <2>0. PICK s \in Sid : s = sid
      BY <1>7, <1>i DEF DaemonCreateFails, DaemonStartFails, Raise, HandlerInv, TypeOK, Sid
    <2>1. Clients!Leave(s)
      <3>1. op = "create" /\ s \notin DOMAIN sessions /\ s <= issued /\ pc # "down"
        BY <1>7, <2>0, <1>i
        DEF DaemonCreateFails, DaemonStartFails, Raise, HandlerInv, TypeOK, Building, Op, Sid
      <3>2. Only(s) /\ Stage(s) # "gone"
        BY <1>7, <2>0, <3>1 DEF Only, DaemonCreateFails, DaemonStartFails, Raise, Return
      <3>3. Stage(s)' = "gone" /\ Files(s)' = {} /\ Restarting' = Restarting
        BY <1>7, <2>0, <1>i, <3>1
        DEF DaemonCreateFails, DaemonStartFails, Raise, Return, TypeOK, Sid
      <3> QED
        BY <3>1, <3>2, <3>3, SeenOfOne
    <2> QED
      BY <2>1 DEF Clients!Next
  <1>8. CASE Register /\ op = "restart"
    <2>0. PICK s \in Sid : s = sid
      BY <1>8, <1>i DEF Register, HandlerInv, TypeOK, Sid
    <2>1. s \in DOMAIN sessions /\ data[box] = {}
      BY <1>8, <2>0, <1>i DEF Register, HandlerInv, BoxInv, TypeOK
    <2>2. Only(s) /\ Stage(s)' = Stage(s)
      BY <1>8, <2>0, <2>1 DEF Only, Register, Return
    <2>3. Files(s)' = {} /\ s # Nobody /\ Restarting = s /\ Restarting' = Nobody
      BY <1>8, <2>0, <2>1 DEF Register, Return, Sid, Nobody
    <2> QED
      BY <2>1, <2>2, <2>3, SeenOfOne DEF Clients!Next
  <1>9. CASE Register /\ op # "restart"
    <2>0. PICK s \in Sid : s = sid
      BY <1>9, <1>i DEF Register, HandlerInv, TypeOK, Sid
    <2>1. Clients!Create(s)
      <3>1. op = "create" /\ s \notin DOMAIN sessions /\ data[box] = {}
        BY <1>9, <2>0, <1>i DEF Register, HandlerInv, BoxInv, TypeOK, Building, Op, Sid
      <3>2. Only(s)
        BY <1>9, <2>0, <3>1 DEF Only, Register, Return
      <3>3. Stage(s) = "new" /\ Stage(s)' = "live"
        BY <1>9, <2>0, <3>1 DEF Register, Return
      <3>4. Files(s)' = Files(s) /\ Restarting' = Restarting
        BY <1>9, <2>0, <3>1 DEF Register, Return
      <3> QED
        BY <3>2, <3>3, <3>4, SeenOfOne
    <2> QED
      BY <2>1 DEF Clients!Next
  <1>10. CASE SendShutdown \/ Stop \/ Remove
    BY <1>10, <1>i, SeenIsAll DEF SendShutdown, Stop, Remove, Call
  <1>11. CASE StopFails \/ RemoveFails \/ RemoveVolumesFails
    BY <1>11, <1>i, SeenIsAll
    DEF StopFails, RemoveFails, RemoveVolumesFails, AfterTeardown, Return, HandlerInv, TypeOK,
        Op, TearingDown, Nobody
  <1>12. CASE RemoveVolumes /\ op = "restart"
    <2>0. PICK s \in Sid : s = sid
      BY <1>12, <1>i DEF RemoveVolumes, HandlerInv, TypeOK, Sid
    <2>1. s \in DOMAIN sessions /\ box \in Cid /\ box = sessions[s].container
      BY <1>12, <2>0, <1>i DEF RemoveVolumes, HandlerInv, BoxInv, TypeOK, TearingDown
    <2>2. Only(s) /\ Stage(s)' = Stage(s)
      BY <1>12, <2>0, <1>i, <2>1 DEF Only, RemoveVolumes, AfterTeardown, OwnerInv
    <2>3. Files(s)' = {} /\ s # Nobody /\ Restarting = s /\ Restarting' = s
      BY <1>12, <2>0, <1>i, <2>1 DEF RemoveVolumes, AfterTeardown, TypeOK, Sid, Nobody
    <2> QED
      BY <2>1, <2>2, <2>3, SeenOfOne DEF Clients!Next
  <1>13. CASE RemoveVolumes /\ op # "restart"
    BY <1>13, <1>i, SeenIsAll
    DEF RemoveVolumes, AfterTeardown, Return, HandlerInv, BoxInv, TypeOK, Op, TearingDown, Nobody
  <1>14. ASSUME NEW c \in Cid, ContainerExits(c)
         PROVE  UNCHANGED Clients!vars
    BY <1>14, <1>i, SeenIsAll DEF ContainerExits
  <1>15. CASE Sigterm
    <2>1. \A s \in Sid : /\ Stage(s)' \in {"new", "gone"} /\ Files(s)' = {}
                         /\ Stage(s)' = "new" => Stage(s) = "new"
      BY <1>15, <1>i DEF Sigterm, HandlerInv, TypeOK, Sid
    <2>2. Restarting' = Nobody
      BY <1>15 DEF Sigterm
    <2> QED
      BY <2>1, <2>2 DEF Clients!Crash, Clients!Next
  <1>16. CASE Boot
    BY <1>16, <1>i, SeenIsAll DEF Boot, HandlerInv
  <1>17. CASE UNCHANGED vars
    BY <1>17, SeenIsAll DEF vars
  <1> QED
    BY <1>1, <1>2, <1>3, <1>4, <1>5, <1>6, <1>7, <1>8, <1>9, <1>10, <1>11, <1>12, <1>13,
       <1>14, <1>15, <1>16, <1>17 DEF Next, HandlerStep, Clients!Next

\* The server implements Sandboxes: sessions are independent of each other,
\* outlive failing restarts, never come back once ended, and lose a file in no
\* other way than by a restart of their own.
THEOREM SessionsAreIndependent == Spec => SessionsIndependent
  BY Invariance, ClientsInitially, ClientsStep, PTL DEF Spec, SessionsIndependent, Clients!Spec
=============================================================================
