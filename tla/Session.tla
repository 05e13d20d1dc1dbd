------------------------------- MODULE Session -------------------------------
(***************************************************************************)
(* One session end to end: the execute_python and install_packages tools   *)
(* (src/mcp_server.py), the RPC they make over an attached socket          *)
(* (container_rpc in src/docker_adapter.py), the restart of a corrupted    *)
(* session (src/session_manager.py), and the container's request loop      *)
(* (module Repl) reduced to what the host can tell: requests are served    *)
(* one at a time in the order of arrival, and an execution answers at the  *)
(* latest when both its timeouts have passed.                              *)
(*                                                                         *)
(* Time is counted in ticks.  The host runs one tool at a time and gives   *)
(* up on a socket that stays silent for RecvTimeout; the container knows   *)
(* nothing of that and goes on with what it was sent.                      *)
(***************************************************************************)
EXTENDS Naturals, Sequences

CONSTANTS
    MaxCalls,       \* bound: tool calls clients make
    Tools,          \* the tools they call
    Timeouts,       \* the timeouts they pass to execute_python
    HardTimeout,    \* ThreadTimeoutStrategy: from the interrupt to abandoning
    UvTimeout,      \* PackageInstaller: uv is killed
    RecvTimeout,    \* container_rpc: settimeout of the attached socket
    MaxFrames,      \* bound: frames in the socket where output comes unasked
    Faults          \* what goes wrong in the run

AllTools == {"exec", "install"}

\* A daemon call that raises, a request that is sent in part, a restart that
\* fails half way, PID 1 that ends, a container that does not come round to
\* answering (a C call keeps the GIL), code that reads sys.stdin, stdout frames
\* that do not hold exactly one response, and output on stderr.
AllFaults ==
    {"attach", "sendall", "network", "restart", "death", "hang", "input", "garble",
     "stderr"}

ASSUME SessionAssumption ==
    /\ MaxCalls \in Nat
    /\ Tools \subseteq AllTools
    /\ Timeouts \subseteq Nat /\ HardTimeout \in Nat
    /\ UvTimeout \in Nat /\ RecvTimeout \in Nat /\ MaxFrames \in Nat
    /\ Faults \subseteq AllFaults

CallId == 1..MaxCalls
Request == [id: CallId, tool: AllTools, timeout: Timeouts \cup {0}]
NoRequest == [id |-> 0, tool |-> "none", timeout |-> 0]

\* A frame on the host's end of the socket, with its stream (1 is stdout, 2 is
\* stderr): a response, with its key session_corrupted, or anything else (id 0).
Frame == [stream: {1, 2}, id: CallId \cup {0}, corrupted: BOOLEAN]
Garbled == [stream |-> 1, id |-> 0, corrupted |-> FALSE]
Stderr == [stream |-> 2, id |-> 0, corrupted |-> FALSE]

HostPC == {"idle", "connect", "send", "recv", "disconnect", "restart"}

\* The bridge network of the container: as at its creation, connected by an
\* install, disconnected, or left connected by a call that raised.
Network == {"fresh", "open", "closed", "stuck"}

VARIABLES
    calls,      \* tool calls made: RealDockerClient._rpc_counter
    hpc,        \* what the tool handler does next
    call,       \* the request it makes
    timer,      \* ticks since its socket last delivered a frame
    frames,     \* what its socket has received and not delivered yet
    report,     \* how the last call ended: its id; "result" or "error"
    queue,      \* the stdin of PID 1
    torn,       \* which ends in a part of a line
    busy, age,  \* the request PID 1 handles, and for how long
    abandoned,  \* a thread was abandoned in this container
    alive,      \* PID 1 runs
    network,
    outcome     \* history: what the handler of each request made of it

hostVars == <<calls, hpc, call, timer, frames, report>>
containerVars == <<queue, torn, busy, age, abandoned, alive, outcome>>
vars == <<hostVars, containerVars, network>>

Init ==
    /\ calls = 0 /\ hpc = "idle" /\ call = NoRequest /\ timer = 0 /\ frames = <<>>
    /\ report = [id |-> 0, kind |-> "none"]
    /\ queue = <<>> /\ torn = FALSE /\ busy = NoRequest /\ age = 0
    /\ abandoned = FALSE /\ alive = TRUE /\ network = "fresh"
    /\ outcome = [c \in CallId |-> "none"]

(***************************************************************************)
(* The tool handlers                                                       *)
(***************************************************************************)

Begin(tool, t, p) ==
    /\ hpc = "idle" /\ calls < MaxCalls /\ tool \in Tools
    /\ calls' = calls + 1
    /\ call' = [id |-> calls + 1, tool |-> tool, timeout |-> t]
    /\ hpc' = p
    /\ UNCHANGED <<timer, frames, report, containerVars, network>>

ExecutePython(t) == Begin("exec", t, "send")
InstallPackages == Begin("install", 0, "connect")

\* The handler ends: p is "idle" unless an install has yet to disconnect.
EndRpc(p, k) ==
    /\ hpc' = p
    /\ report' = [id |-> call.id, kind |-> k]
    /\ timer' = 0 /\ frames' = <<>>
    /\ UNCHANGED <<calls, call>>

\* An exception in container_rpc: execute_python raises it, install_packages
\* makes an error of it and goes on to its finally clause.
AfterError == IF call.tool = "install" THEN "disconnect" ELSE "idle"

NetworkConnect ==
    /\ hpc = "connect" /\ hpc' = "send"
    /\ network' = "open"
    /\ UNCHANGED <<calls, call, timer, frames, report, containerVars>>

\* network_connect raises, outside of the try: the tool call fails.  The daemon
\* may have connected the container all the same.
NetworkConnectFails ==
    /\ "network" \in Faults /\ hpc = "connect"
    /\ EndRpc("idle", "error")
    /\ network' \in {network} \cup (IF network = "closed" THEN {"stuck"} ELSE {})
    /\ UNCHANGED containerVars

\* A mutant of SendRequest: the line is sent a second time.
SendRequest_Twice ==
    /\ hpc = "send" /\ alive
    /\ hpc' = "recv" /\ timer' = 0 /\ frames' = <<>>
    /\ queue' = Append(Append(queue, call), call)
    /\ torn' = FALSE
    /\ UNCHANGED <<calls, call, report, busy, age, abandoned, alive, outcome, network>>

\* Attach, send the request, and start to wait.  What PID 1 wrote while nobody
\* was attached is not delivered.  Behind a part of a line the request is no
\* JSON any more: PID 1 drops the line that holds both.
SendRequest ==
    /\ hpc = "send" /\ alive
    /\ hpc' = "recv" /\ timer' = 0 /\ frames' = <<>>
    /\ queue' = IF torn THEN queue ELSE Append(queue, call)
    /\ torn' = FALSE
    /\ UNCHANGED <<calls, call, report, busy, age, abandoned, alive, outcome, network>>

\* The daemon refuses; a container that does not run cannot be attached to.
AttachFails ==
    /\ hpc = "send" /\ ("attach" \in Faults \/ ~alive)
    /\ EndRpc(AfterError, "error")
    /\ UNCHANGED <<containerVars, network>>

\* sendall raises, before it has sent anything or after a part of the line:
\* the socket still has the timeout of the HTTP request it comes from.
SendFails ==
    /\ "sendall" \in Faults /\ hpc = "send" /\ alive
    /\ torn' \in {torn, TRUE}
    /\ EndRpc(AfterError, "error")
    /\ UNCHANGED <<queue, busy, age, abandoned, alive, outcome, network>>

\* The call has its response f.  An execution whose response is marked
\* session_corrupted restarts the session before it returns.
Accept(f) ==
    /\ EndRpc(CASE call.tool = "install" -> "disconnect"
                [] call.tool = "exec" /\ f.corrupted -> "restart"
                [] OTHER -> "idle",
              "result")
    /\ UNCHANGED <<containerVars, network>>

\* Mutants of ReadReply: the id of the response is not compared, or its
\* session_corrupted is not looked at.
ReadReply_AnyId ==
    /\ hpc = "recv" /\ frames # <<>> /\ Head(frames).id # 0
    /\ Accept(Head(frames))

ReadReply_NoRestart ==
    /\ hpc = "recv" /\ frames # <<>> /\ Head(frames).id = call.id
    /\ Accept([Head(frames) EXCEPT !.corrupted = FALSE])

ReadReply ==
    /\ hpc = "recv" /\ frames # <<>> /\ Head(frames).id = call.id
    /\ Accept(Head(frames))

\* A frame of stderr, one that is no JSON, or the response to an earlier request
\* is skipped; the socket's timeout starts afresh.
SkipFrame ==
    /\ hpc = "recv" /\ frames # <<>> /\ Head(frames).id # call.id
    /\ frames' = Tail(frames) /\ timer' = 0
    /\ UNCHANGED <<calls, hpc, call, report, containerVars, network>>

\* Cut within a character a frame is no UTF-8: json.loads raises what the loop
\* does not catch, and the tool fails.
FrameRaises ==
    /\ hpc = "recv" /\ frames # <<>> /\ Head(frames) = Garbled
    /\ EndRpc(AfterError, "error")
    /\ UNCHANGED <<containerVars, network>>

\* Mutants of RecvTimesOut: wait on; return from an install without its
\* finally clause.
RecvTimesOut_Retries ==
    /\ hpc = "recv" /\ frames = <<>> /\ timer = RecvTimeout
    /\ timer' = 0
    /\ UNCHANGED <<calls, hpc, call, frames, report, containerVars, network>>

RecvTimesOut_NoFinally ==
    /\ hpc = "recv" /\ frames = <<>> /\ timer = RecvTimeout
    /\ EndRpc("idle", "error")
    /\ UNCHANGED <<containerVars, network>>

\* socket.timeout becomes a ConnectionError.  The request stays where it is.
RecvTimesOut ==
    /\ hpc = "recv" /\ frames = <<>> /\ timer = RecvTimeout
    /\ EndRpc(AfterError, "error")
    /\ UNCHANGED <<containerVars, network>>

\* read_frame returns None: the container is gone.
ConnectionCloses ==
    /\ hpc = "recv" /\ frames = <<>> /\ ~alive
    /\ EndRpc(AfterError, "error")
    /\ UNCHANGED <<containerVars, network>>

NetworkDisconnect ==
    /\ hpc = "disconnect" /\ hpc' = "idle"
    /\ network' = "closed"
    /\ UNCHANGED <<calls, call, timer, frames, report, containerVars>>

\* An exception in the finally clause replaces what the tool would return, with
\* the container still connected or not.
NetworkDisconnectFails ==
    /\ "network" \in Faults /\ hpc = "disconnect"
    /\ EndRpc("idle", "error")
    /\ network' \in {"stuck", "closed"}
    /\ UNCHANGED containerVars

\* restart_session: a new container, on the bridge network like any other.
RestartSession ==
    /\ hpc = "restart" /\ hpc' = "idle"
    /\ queue' = <<>> /\ torn' = FALSE /\ busy' = NoRequest /\ age' = 0
    /\ abandoned' = FALSE /\ alive' = TRUE /\ network' = "fresh"
    /\ UNCHANGED <<calls, call, timer, frames, report, outcome>>

\* No new container can be made: the old one may be gone, or may run on if the
\* daemon did not stop it either.
RestartFails ==
    /\ "restart" \in Faults /\ hpc = "restart"
    /\ EndRpc("idle", "error")
    /\ \/ UNCHANGED containerVars
       \/ /\ alive' = FALSE /\ abandoned' = FALSE
          /\ queue' = <<>> /\ torn' = FALSE /\ busy' = NoRequest /\ age' = 0
          /\ UNCHANGED outcome
    /\ UNCHANGED network

(***************************************************************************)
(* The container                                                           *)
(***************************************************************************)

TakeRequest ==
    /\ alive /\ busy = NoRequest /\ queue # <<>>
    /\ busy' = Head(queue) /\ queue' = Tail(queue) /\ age' = 0
    /\ UNCHANGED <<hostVars, torn, abandoned, alive, outcome, network>>

\* The frames the response f may arrive as: in one of its own, in several when
\* it is long, or in one together with the response before it.
Arrivals(f) ==
    {Append(frames, f)} \cup
    (IF "garble" \in Faults
     THEN {Append(frames, Garbled)} \cup
          {[frames EXCEPT ![i] = Garbled] : i \in {Len(frames)} \ {0}}
     ELSE {})

\* A response of PID 1.
Response(c) == [stream |-> 1, id |-> busy.id, corrupted |-> c]

\* PID 1 writes its response and goes back to its loop; a socket receives it
\* if one is attached.
Respond(corrupted, how) ==
    /\ busy' = NoRequest /\ age' = 0
    /\ outcome' = [outcome EXCEPT ![busy.id] = how]
    /\ frames' \in IF hpc = "recv"
                   THEN Arrivals(Response(corrupted))
                   ELSE {frames}
    /\ UNCHANGED <<calls, hpc, call, timer, report, queue, torn, alive, network>>

Deadline(r) == IF r.tool = "install" THEN UvTimeout ELSE r.timeout + HardTimeout

\* The code ends by itself, or is interrupted before the hard timeout.
ExecEnds ==
    /\ busy.tool = "exec"
    /\ Respond(FALSE, "done")
    /\ UNCHANGED abandoned

\* It survives both timeouts.
ExecAbandoned ==
    /\ busy.tool = "exec" /\ age = Deadline(busy)
    /\ Respond(TRUE, "abandoned")
    /\ abandoned' = TRUE

UvSucceeds ==
    /\ busy.tool = "install" /\ network # "closed"
    /\ Respond(FALSE, "done")
    /\ UNCHANGED abandoned

\* uv fails, or is killed after 120 seconds.
UvFails ==
    /\ busy.tool = "install"
    /\ Respond(FALSE, "failed")
    /\ UNCHANGED abandoned

\* Code that runs, or an abandoned thread, reads a request as its input.
CodeReadsRequest ==
    /\ "input" \in Faults /\ (busy.tool = "exec" \/ abandoned)
    /\ queue # <<>> /\ queue' = Tail(queue)
    /\ UNCHANGED <<hostVars, torn, busy, age, abandoned, alive, outcome, network>>

\* A subprocess, C code or an excepthook writes to stderr, or past sys.stdout to
\* the stdout of PID 1, whether or not anything is asked of PID 1.
StrayOutput ==
    /\ alive /\ hpc = "recv" /\ Len(frames) < MaxFrames
    /\ \/ "stderr" \in Faults /\ frames' = Append(frames, Stderr)
       \/ "garble" \in Faults /\ frames' = Append(frames, Garbled)
    /\ UNCHANGED <<calls, hpc, call, timer, report, containerVars, network>>

ContainerDies ==
    /\ "death" \in Faults /\ alive
    /\ alive' = FALSE /\ abandoned' = FALSE
    /\ queue' = <<>> /\ torn' = FALSE /\ busy' = NoRequest /\ age' = 0
    /\ UNCHANGED <<hostVars, outcome, network>>

(***************************************************************************)
(* Time                                                                    *)
(***************************************************************************)

\* The host reads what is there and PID 1 acts on its deadlines before time
\* goes on; a container that hangs does not.  The mutant of HostWaits is a
\* socket without a timeout.
HostWaits_NoTimeout == hpc = "recv" => frames = <<>> /\ alive

HostWaits == hpc = "recv" => frames = <<>> /\ timer < RecvTimeout /\ alive
ContainerWaits ==
    IF busy = NoRequest THEN queue = <<>> ELSE age < Deadline(busy)

Tick ==
    /\ hpc = "recv" \/ busy # NoRequest
    /\ HostWaits
    /\ ContainerWaits \/ "hang" \in Faults
    /\ timer' = IF hpc = "recv" THEN timer + 1 ELSE timer
    /\ age' = IF busy # NoRequest /\ age < Deadline(busy) THEN age + 1 ELSE age
    /\ UNCHANGED <<calls, hpc, call, frames, report, queue, torn, busy, abandoned,
                   alive, outcome, network>>

HostStep ==
    \/ NetworkConnect \/ NetworkConnectFails \/ SendRequest \/ AttachFails \/ SendFails
    \/ ReadReply \/ SkipFrame \/ FrameRaises \/ RecvTimesOut \/ ConnectionCloses
    \/ NetworkDisconnect \/ NetworkDisconnectFails
    \/ RestartSession \/ RestartFails

ContainerStep ==
    \/ TakeRequest \/ ExecEnds \/ ExecAbandoned \/ UvSucceeds \/ UvFails
    \/ CodeReadsRequest \/ StrayOutput \/ ContainerDies

Next ==
    \/ \E t \in Timeouts : ExecutePython(t)
    \/ InstallPackages
    \/ HostStep \/ ContainerStep \/ Tick

\* The host runs, daemon calls return, and time goes on, also between frames
\* that never stop coming; of the container nothing is assumed.
Spec == Init /\ [][Next]_vars /\ WF_vars(HostStep) /\ SF_vars(Tick)

(***************************************************************************)
(* Properties                                                              *)
(***************************************************************************)

\* The values of the variables.
TypeOK ==
    /\ calls \in 0..MaxCalls
    /\ hpc \in HostPC
    /\ call \in Request \cup {NoRequest}
    /\ timer \in 0..RecvTimeout
    /\ frames \in Seq(Frame)
    /\ report \in [id: 0..MaxCalls, kind: {"none", "result", "error"}]
    /\ queue \in Seq(Request) /\ torn \in BOOLEAN
    /\ busy \in Request \cup {NoRequest} /\ age \in Nat
    /\ abandoned \in BOOLEAN /\ alive \in BOOLEAN
    /\ network \in Network
    /\ outcome \in [CallId -> {"none", "done", "failed", "abandoned"}]

\* What a client has to keep to: executions end, at the latest as abandoned,
\* before the host gives up on them, and no install holds them up.
ShortCalls ==
    /\ Tools \subseteq {"exec"}
    /\ \A t \in Timeouts : t + HardTimeout < RecvTimeout
    /\ Faults \cap {"restart", "hang", "garble", "sendall"} = {}

\* A container in which a thread was abandoned serves no further request: the
\* session is restarted before the next one.
NoUseAfterAbandon == abandoned => busy = NoRequest

\* A call that returned a result, and not an error, leaves nothing behind: the
\* container is done with it and with all calls before it, also with those the
\* host had given up on, and no part of a line waits for the next request.
DrainedOnReturn ==
    report.kind = "result" /\ hpc \in {"idle", "disconnect", "restart"} =>
        queue = <<>> /\ busy = NoRequest /\ ~torn

\* However an install ends, the network it connected is disconnected again
\* before the next tool call, unless the disconnect itself failed.
NetworkClosed ==
    network = "open" => hpc \in {"send", "recv", "disconnect"} /\ call.tool = "install"

\* Every tool call returns or raises, whatever else the container does, unless
\* it goes on for ever to write what is no response: each frame that is skipped
\* starts the socket's timeout afresh, and container_rpc has no other limit.
EveryCallReturns ==
    \/ hpc # "idle" ~> hpc = "idle"
    \/ []<><<StrayOutput>>_vars

\* The requests that are with the container.
Held == {busy.id} \cup {queue[i].id : i \in DOMAIN queue}

\* What became of the request of a call, as module ToolCalls has it.
Fate(c) ==
    IF c > calls THEN "none"
    ELSE IF c \in Held THEN "sent"
    ELSE IF outcome[c] # "none" THEN "ran"
    ELSE IF c = call.id /\ hpc \in {"connect", "send"} THEN "new"
    ELSE "lost"

Client == INSTANCE ToolCalls WITH
    open <- IF hpc = "idle" THEN 0 ELSE call.id,
    fate <- [c \in CallId |-> Fate(c)],
    report <- IF hpc = "idle" THEN report.kind ELSE "none"

\* Whatever fails, the session keeps to ToolCalls: requests are carried out at
\* most once and in the order of the calls, a refused one never is, and after
\* a result no earlier one is carried out any more.  (That calls return is
\* EveryCallReturns.)
ServesCalls == Client!Spec

\* The network is there as long as uv runs.
InstallHasNetwork == busy.tool = "install" => network # "closed"
=============================================================================
