--------------------------- MODULE SessionManager ---------------------------
(***************************************************************************)
(* The registry of sessions (src/session_manager.py) against the Docker    *)
(* daemon it drives through src/docker_adapter.py.  The server runs one    *)
(* tool handler at a time; a handler that changes the registry is a        *)
(* sequence of daemon calls, each of which may fail, and SIGTERM or SIGINT *)
(* (src/main.py) may end the server between any two of them.  Containers   *)
(* outlive the server; the registry is in memory.                          *)
(*                                                                         *)
(* Left out: what runs inside a container (module Repl) and when a restart *)
(* is asked for (module Session): here any registered session may be.      *)
(***************************************************************************)
EXTENDS Naturals, FiniteSets, TLC

CONSTANTS
    MaxSessions,    \* bound: session ids that are ever generated
    MaxContainers,  \* bound: containers the daemon ever creates
    File            \* names of files in /data

ASSUME SessionManagerAssumption ==
    MaxSessions \in Nat /\ MaxContainers \in Nat

Sid == 1..MaxSessions
Cid == 1..MaxContainers
Nobody == 0

ContainerState == {"absent", "created", "running", "exited", "removed"}
Status == {"running", "restarted"}
Metadata == [container: Cid, status: Status]
HandlerPC == {"idle", "create", "start", "register", "shutdown", "stop",
              "remove", "volumes", "down"}
Op == {"none", "create", "end", "restart"}

VARIABLES
    sessions,   \* SessionManager._sessions
    state,      \* the containers, as the daemon has them
    volumes,    \* containers whose named volumes exist
    data,       \* the files in the /data volume of each container
    pc,         \* the next daemon call of the handler that runs; "down" is no server
    op, sid,    \* what this handler does, and for which session
    box,        \* the container it works on
    issued,     \* session ids generated
    made,       \* containers created
    failed,     \* history: containers a daemon call failed on, or that the
                \* server left behind when it was killed
    lost,       \* history: sessions whose restart did not finish
    ended       \* history: containers of sessions whose end was acknowledged

handlerVars == <<pc, op, sid, box>>
daemonVars == <<state, volumes, data, made>>
historyVars == <<failed, lost, ended>>
vars == <<sessions, daemonVars, handlerVars, issued, historyVars>>

Init ==
    /\ sessions = [s \in {} |-> Nobody]
    /\ state = [c \in Cid |-> "absent"]
    /\ volumes = {} /\ data = [c \in Cid |-> {}]
    /\ pc = "idle" /\ op = "none" /\ sid = Nobody /\ box = Nobody
    /\ issued = 0 /\ made = 0
    /\ failed = {} /\ lost = {} /\ ended = {}

Registered == {sessions[s].container : s \in DOMAIN sessions}
Exists(c) == state[c] \in {"created", "running", "exited"}

\* The handler makes its call p and goes on to q.
Call(p, q) == pc = p /\ pc' = q /\ UNCHANGED <<op, sid, issued>>

\* It returns, or raises, to the MCP server.
Return == pc' = "idle" /\ op' = "none" /\ sid' = Nobody /\ box' = Nobody

Raise(p) == pc = p /\ Return /\ UNCHANGED <<sessions, issued>>

(***************************************************************************)
(* create_session, and the second half of restart_session                  *)
(***************************************************************************)

\* A mutant of CreateSession: the session is registered before its container
\* is known.
CreateSession_RegistersFirst ==
    /\ pc = "idle" /\ issued < MaxSessions
    /\ issued' = issued + 1
    /\ pc' = "create" /\ op' = "create" /\ sid' = issued + 1
    /\ sessions' = (issued + 1 :> [container |-> Nobody, status |-> "running"]) @@ sessions
    /\ UNCHANGED <<box, daemonVars, historyVars>>

CreateSession ==
    /\ pc = "idle" /\ issued < MaxSessions
    /\ issued' = issued + 1
    /\ pc' = "create" /\ op' = "create" /\ sid' = issued + 1
    /\ UNCHANGED <<sessions, box, daemonVars, historyVars>>

\* containers.create, with two fresh named volumes for /data and /session.
DaemonCreates ==
    /\ made < MaxContainers
    /\ Call("create", "start")
    /\ made' = made + 1 /\ box' = made + 1
    /\ state' = [state EXCEPT ![made + 1] = "created"]
    /\ volumes' = volumes \cup {made + 1}
    /\ UNCHANGED <<sessions, data, historyVars>>

\* It raises: no such image, no space.  A restart has torn the old container
\* down by now and leaves the registry as it is.
DaemonCreateFails ==
    /\ Raise("create")
    /\ lost' = IF op = "restart" THEN lost \cup {sid} ELSE lost
    /\ UNCHANGED <<daemonVars, failed, ended>>

DaemonStarts ==
    /\ Call("start", "register")
    /\ state' = [state EXCEPT ![box] = "running"]
    /\ UNCHANGED <<sessions, box, volumes, data, made, historyVars>>

\* created.start() raises: the created container stays behind.
DaemonStartFails ==
    /\ Raise("start")
    /\ failed' = failed \cup {box}
    /\ lost' = IF op = "restart" THEN lost \cup {sid} ELSE lost
    /\ UNCHANGED <<daemonVars, ended>>

\* A mutant of Register: a restart forgets to replace the container.
Register_KeepsContainer ==
    /\ pc = "register" /\ Return
    /\ sessions' = IF op = "restart"
                   THEN [sessions EXCEPT ![sid].status = "restarted"]
                   ELSE (sid :> [container |-> box, status |-> "running"]) @@ sessions
    /\ lost' = lost \ {sid}
    /\ UNCHANGED <<issued, daemonVars, failed, ended>>

Register ==
    /\ pc = "register" /\ Return
    /\ sessions' = [s \in DOMAIN sessions \cup {sid} |->
                        IF s # sid THEN sessions[s]
                        ELSE [container |-> box,
                              status |-> IF op = "restart" THEN "restarted" ELSE "running"]]
    /\ lost' = lost \ {sid}
    /\ UNCHANGED <<issued, daemonVars, failed, ended>>

(***************************************************************************)
(* end_session, and the first half of restart_session                      *)
(***************************************************************************)

\* A mutant of EndSession: the session stays in the registry.
EndSession_KeepsEntry(s) ==
    /\ pc = "idle" /\ s \in DOMAIN sessions
    /\ pc' = "shutdown" /\ op' = "end" /\ sid' = s /\ box' = sessions[s].container
    /\ UNCHANGED <<sessions, issued, daemonVars, historyVars>>

\* The session leaves the registry before anything is done to its container.
\* An unknown session is no error and changes nothing.
EndSession(s) ==
    /\ pc = "idle" /\ s \in DOMAIN sessions
    /\ pc' = "shutdown" /\ op' = "end" /\ sid' = s /\ box' = sessions[s].container
    /\ sessions' = [t \in DOMAIN sessions \ {s} |-> sessions[t]]
    /\ UNCHANGED <<issued, daemonVars, historyVars>>

\* _send_shutdown: the process may exit before the stop that follows; any
\* exception is suppressed.
SendShutdown ==
    /\ Call("shutdown", "stop")
    /\ \/ UNCHANGED state
       \/ state[box] = "running" /\ state' = [state EXCEPT ![box] = "exited"]
    /\ UNCHANGED <<sessions, box, volumes, data, made, historyVars>>

\* A mutant of RestartSession: it takes the session out first, as an end does.
RestartSession_Pops(s) ==
    /\ pc = "idle" /\ s \in DOMAIN sessions
    /\ pc' = "stop" /\ op' = "restart" /\ sid' = s /\ box' = sessions[s].container
    /\ sessions' = [t \in DOMAIN sessions \ {s} |-> sessions[t]]
    /\ UNCHANGED <<issued, daemonVars, historyVars>>

\* execute_python found session_corrupted in a result.
RestartSession(s) ==
    /\ pc = "idle" /\ s \in DOMAIN sessions
    /\ pc' = "stop" /\ op' = "restart" /\ sid' = s /\ box' = sessions[s].container
    /\ UNCHANGED <<sessions, issued, daemonVars, historyVars>>

\* What follows the teardown: a restart creates, an end returns success.
AfterTeardown ==
    IF op = "restart"
    THEN pc' = "create" /\ box' = Nobody /\ UNCHANGED <<op, sid, ended>>
    ELSE Return /\ ended' = ended \cup {box}

Stop ==
    /\ Call("stop", "remove")
    /\ Exists(box)
    /\ state' = [state EXCEPT ![box] = IF @ = "running" THEN "exited" ELSE @]
    /\ UNCHANGED <<sessions, box, volumes, data, made, historyVars>>

\* A mutant of StopFails: the stop is tried again until it succeeds.
StopFails_Retries ==
    /\ pc = "stop"
    /\ failed' = failed \cup {box}
    /\ UNCHANGED <<sessions, issued, daemonVars, handlerVars, lost, ended>>

\* A failing stop, and a container that is not there, raise out of the block
\* that holds both calls: the remove is skipped.
StopFails ==
    /\ pc = "stop" /\ AfterTeardown
    /\ failed' = failed \cup {box}
    /\ UNCHANGED <<sessions, issued, daemonVars, lost>>

\* A mutant of Remove: the volumes are forgotten.
Remove_KeepsVolumes ==
    /\ pc = "remove" /\ AfterTeardown
    /\ state' = [state EXCEPT ![box] = "removed"]
    /\ UNCHANGED <<sessions, issued, volumes, data, made, failed, lost>>

\* container_remove: the container first,
Remove ==
    /\ Call("remove", "volumes")
    /\ state' = [state EXCEPT ![box] = "removed"]
    /\ UNCHANGED <<sessions, box, volumes, data, made, historyVars>>

\* A remove that raises: the daemon may have removed the container.
RemoveFails ==
    /\ pc = "remove" /\ AfterTeardown
    /\ state' \in {state, [state EXCEPT ![box] = "removed"]}
    /\ failed' = failed \cup {box}
    /\ UNCHANGED <<sessions, issued, volumes, data, made, lost>>

\* then its named volumes, with everything in them.
RemoveVolumes ==
    /\ pc = "volumes" /\ AfterTeardown
    /\ volumes' = volumes \ {box}
    /\ data' = [data EXCEPT ![box] = {}]
    /\ UNCHANGED <<sessions, issued, state, made, failed, lost>>

\* A volume that cannot be removed is silently kept.
RemoveVolumesFails ==
    /\ pc = "volumes" /\ AfterTeardown
    /\ failed' = failed \cup {box}
    /\ UNCHANGED <<sessions, issued, daemonVars, lost>>

(***************************************************************************)
(* The other tools, the containers and the server process                  *)
(***************************************************************************)

\* write_file runs a script in the container with docker exec.
WriteFile(s, f) ==
    /\ pc = "idle" /\ s \in DOMAIN sessions
    /\ state[sessions[s].container] = "running"
    /\ data' = [data EXCEPT ![sessions[s].container] = @ \cup {f}]
    /\ UNCHANGED <<sessions, state, volumes, made, handlerVars, issued, historyVars>>

\* PID 1 ends on its own: out of memory, os._exit() in user code.
ContainerExits(c) ==
    /\ state[c] = "running"
    /\ state' = [state EXCEPT ![c] = "exited"]
    /\ UNCHANGED <<sessions, volumes, data, made, handlerVars, issued, historyVars>>

\* _default_shutdown_handler: sys.exit(0), whatever the handler was doing; no
\* except clause on the way catches a SystemExit.
Sigterm ==
    /\ pc # "down"
    /\ pc' = "down" /\ op' = "none" /\ sid' = Nobody /\ box' = Nobody
    /\ failed' = failed \cup {c \in Cid : Exists(c)} \cup volumes
    /\ lost' = IF op = "restart" THEN lost \cup {sid} ELSE lost
    /\ UNCHANGED <<sessions, issued, daemonVars, ended>>

\* main: a new server starts with an empty registry and looks for nothing.
Boot ==
    /\ pc = "down"
    /\ pc' = "idle"
    /\ sessions' = [s \in {} |-> Nobody]
    /\ UNCHANGED <<op, sid, box, issued, daemonVars, historyVars>>

HandlerStep ==
    \/ DaemonCreates \/ DaemonCreateFails \/ DaemonStarts \/ DaemonStartFails
    \/ Register \/ SendShutdown \/ Stop \/ StopFails \/ Remove \/ RemoveFails
    \/ RemoveVolumes \/ RemoveVolumesFails

Next ==
    \/ CreateSession
    \/ \E s \in Sid : EndSession(s) \/ RestartSession(s)
    \/ \E s \in Sid, f \in File : WriteFile(s, f)
    \/ HandlerStep
    \/ \E c \in Cid : ContainerExits(c)
    \/ Sigterm \/ Boot

\* A daemon call returns or raises.
Spec == Init /\ [][Next]_vars /\ WF_vars(HandlerStep)

(***************************************************************************)
(* Properties                                                              *)
(***************************************************************************)

\* The values of the variables.
TypeOK ==
    /\ DOMAIN sessions \subseteq Sid
    /\ \A s \in DOMAIN sessions : sessions[s] \in Metadata
    /\ state \in [Cid -> ContainerState]
    /\ volumes \subseteq Cid
    /\ data \in [Cid -> SUBSET File]
    /\ pc \in HandlerPC /\ op \in Op
    /\ sid \in Sid \cup {Nobody} /\ box \in Cid \cup {Nobody}
    /\ issued \in 0..MaxSessions /\ made \in 0..MaxContainers
    /\ failed \subseteq Cid /\ lost \subseteq Sid /\ ended \subseteq Cid

\* Between two calls every container and every volume the daemon holds belongs
\* to a registered session, unless a daemon call on it failed or a server was
\* killed while it existed: a handler that succeeds leaks nothing.
NoSilentOrphans ==
    pc = "idle" =>
        \A c \in Cid : (Exists(c) \/ c \in volumes) => c \in Registered \cup failed

\* Between two calls the container of a registered session exists, created,
\* running or exited, unless a daemon call on it failed or its restart failed
\* half way.
RegisteredExists ==
    pc = "idle" =>
        \A s \in DOMAIN sessions :
            LET c == sessions[s].container
            IN  (Exists(c) /\ c \in volumes) \/ c \in failed \/ s \in lost

\* No two sessions share a container, and none has one whose session was ended
\* or is being ended: ending one session never breaks another.
OneOwner ==
    /\ \A s, t \in DOMAIN sessions :
           sessions[s].container = sessions[t].container => s = t
    /\ Registered \cap ended = {}
    /\ op = "end" => box \notin Registered

\* Where a session is in its life.
Stage(s) ==
    IF pc # "down" /\ s \in DOMAIN sessions THEN "live"
    ELSE IF s > issued \/ (op = "create" /\ sid = s) THEN "new"
    ELSE "gone"

Clients == INSTANCE Sandboxes WITH
    stage <- [s \in Sid |-> Stage(s)],
    files <- [s \in Sid |-> IF Stage(s) = "live" THEN data[sessions[s].container] ELSE {}],
    restarting <- IF op = "restart" THEN sid ELSE Nobody

\* The server keeps to Sandboxes: sessions are independent of each other, live
\* through failing restarts, never come back once ended, and lose a file in no
\* other way than by a restart of their own.
SessionsIndependent == Clients!Spec

\* Every handler returns, whichever of its daemon calls fail.
HandlersReturn == (pc \notin {"idle", "down"}) ~> (pc \in {"idle", "down"})

\* Ending a session that was acknowledged has stopped and removed its container.
EndedIsRemoved == \A c \in ended : state[c] = "removed"
=============================================================================
