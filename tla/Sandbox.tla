------------------------------- MODULE Sandbox -------------------------------
(***************************************************************************)
(* A session as its client sees it: the tool handlers of the server        *)
(* (src/mcp_server.py over src/session_manager.py and src/docker_adapter.py) *)
(* put together with the process in the container, module Repl with all    *)
(* its threads.  The handlers send one request at a time, but give up on   *)
(* some, and replace the container when a response says session_corrupted. *)
(*                                                                         *)
(* Of the host only the order of things is kept; its clocks, the network   *)
(* and frames cut in two are in module Session, which in turn knows the    *)
(* container by its deadlines only.                                        *)
(***************************************************************************)
EXTENDS Naturals, Sequences

CONSTANTS MaxRequests, Methods, CodeEffects

VARIABLES
    \* the container, as in Repl; sent also counts calls whose request was not sent
    sent, stdin, pc, cur, resp, shutdown, replies, noise, worker, saved, buf,
    result, finished, interrupted, sysOut, sysHook, display, ns, gil,
    printed, shown, resetAt,
    \* the server
    hpc,       \* what the tool handler does: "idle", "send", "recv" or "restart"
    seen,      \* responses of this container that are delivered, or never will be
    report,    \* the response the last call returned, if it returned one
    \* history
    missed,    \* a session_corrupted was not heeded, for want of a socket to
               \* read it from or of a container to start
    served,    \* requests that were answered, by this container or an earlier one
    relied     \* requests whose bindings the client counts on

Container == INSTANCE Repl

ASSUME SandboxAssumption ==
    /\ MaxRequests \in Nat
    /\ Methods \subseteq {"exec", "install"}
    /\ CodeEffects \subseteq Container!AllEffects

processVars ==
    <<stdin, pc, cur, resp, shutdown, replies, noise, worker, saved, buf, result, finished,
      interrupted, sysOut, sysHook, display, ns, gil, printed, shown, resetAt>>
containerVars == <<sent, processVars>>
historyVars == <<missed, served, relied>>
hostVars == <<hpc, seen, report>>
vars == <<containerVars, hostVars, historyVars>>

None == 0
NoReport == Container!NoResponse

Init ==
    /\ Container!Init
    /\ hpc = "idle" /\ seen = 0 /\ report = NoReport
    /\ missed = FALSE /\ served = {} /\ relied = {}

(***************************************************************************)
(* The tool handlers                                                       *)
(***************************************************************************)

\* The call that is being made, or the last one.
Call == IF hpc = "send" THEN sent + 1 ELSE sent

Unread == {replies[i] : i \in (seen + 1)..Len(replies)}

BeginCall ==
    /\ hpc = "idle" /\ sent < MaxRequests
    /\ hpc' = "send" /\ report' = NoReport
    /\ UNCHANGED <<containerVars, seen, historyVars>>

\* Attach and send: what was written while nobody was attached is not delivered.
SendRequest(m) ==
    /\ hpc = "send" /\ pc # "stopped"
    /\ Container!Send(m)
    /\ hpc' = "recv" /\ seen' = Len(replies)
    /\ missed' = (missed \/ \E a \in Unread : a.corrupted)
    /\ UNCHANGED <<report, served, relied>>

\* The daemon refuses, or there is no process any more.
AttachFails ==
    /\ hpc = "send" /\ hpc' = "idle"
    /\ sent' = sent + 1
    /\ UNCHANGED <<processVars, seen, report, historyVars>>

\* The call has its response a; a success tells the client that the names it
\* bound are there.
Return(a) ==
    /\ hpc' = IF a.corrupted THEN "restart" ELSE "idle"
    /\ seen' = seen + 1 /\ report' = a
    /\ relied' = IF a.corrupted THEN relied ELSE relied \cup ({a.id} \cap ns)
    /\ UNCHANGED <<containerVars, missed, served>>

\* Mutants of ReadReply: the id is not compared; session_corrupted is ignored.
ReadReply_AnyId == hpc = "recv" /\ seen < Len(replies) /\ Return(replies[seen + 1])

ReadReply_NoRestart ==
    /\ hpc = "recv" /\ seen < Len(replies) /\ replies[seen + 1].id = Call
    /\ Return([replies[seen + 1] EXCEPT !.corrupted = FALSE])

ReadReply ==
    /\ hpc = "recv" /\ seen < Len(replies) /\ replies[seen + 1].id = Call
    /\ Return(replies[seen + 1])

\* The response to a request the host had given up on.
SkipReply ==
    /\ hpc = "recv" /\ seen < Len(replies) /\ replies[seen + 1].id # Call
    /\ seen' = seen + 1
    /\ missed' = (missed \/ replies[seen + 1].corrupted)
    /\ UNCHANGED <<containerVars, hpc, report, served, relied>>

\* A mutant of GiveUp: the session is restarted to get rid of the request.
GiveUp_Restarts ==
    /\ hpc = "recv" /\ hpc' = "restart"
    /\ UNCHANGED <<containerVars, seen, report, historyVars>>

\* The socket times out, or is closed; the request stays where it is.
GiveUp ==
    /\ hpc = "recv" /\ hpc' = "idle"
    /\ UNCHANGED <<containerVars, seen, report, historyVars>>

\* restart_session: the container goes with all its threads and names, and a
\* new process starts.  Only then the call returns, and its session_reset tells
\* the client that all names are gone.
RestartSession ==
    /\ hpc = "restart" /\ hpc' = "idle" /\ seen' = 0
    /\ stdin' = <<>>
    /\ pc' = "read" /\ cur' = None /\ resp' = NoReport /\ shutdown' = FALSE
    /\ replies' = <<>> /\ noise' = {}
    /\ worker' = [r \in Container!Req |-> "none"]
    /\ saved' = [r \in Container!Req |-> [out |-> None, hook |-> "real"]]
    /\ buf' = [r \in Container!Req |-> {}]
    /\ result' = [r \in Container!Req |-> Container!NoResult]
    /\ finished' = {} /\ interrupted' = {}
    /\ sysOut' = None /\ sysHook' = "real" /\ display' = {} /\ ns' = {} /\ gil' = None
    /\ relied' = IF report.corrupted THEN {} ELSE relied
    /\ UNCHANGED <<sent, printed, shown, resetAt, report, missed, served>>

\* No new container can be made and the call raises, with no session_reset.  The
\* old one is stopped and removed by then, or runs on if the daemon refused that.
RestartFails ==
    /\ hpc = "restart" /\ hpc' = "idle" /\ report' = NoReport
    /\ missed' = TRUE
    /\ \/ UNCHANGED containerVars
       \/ Container!Stop /\ UNCHANGED <<resp, replies>>
    /\ UNCHANGED <<seen, served, relied>>

HostStep ==
    \/ \E m \in Methods : SendRequest(m)
    \/ AttachFails \/ ReadReply \/ SkipReply \/ GiveUp \/ RestartSession \/ RestartFails

(***************************************************************************)
(* The container                                                           *)
(***************************************************************************)

\* Bound: once the last call has ended the container is not looked at any more.
Observed == hpc # "idle" \/ sent < MaxRequests

ContainerStep ==
    /\ Observed
    /\ \/ Container!MainStep
       \/ \E w \in Container!Req : Container!WorkerStep(w) \/ Container!CodeStep(w)
    /\ served' = served \cup {replies'[i].id : i \in DOMAIN replies'}
    /\ UNCHANGED <<hostVars, missed, relied>>

Next == BeginCall \/ HostStep \/ ContainerStep

Spec == Init /\ [][Next]_vars

(***************************************************************************)
(* Properties                                                              *)
(***************************************************************************)

\* The values of the server's variables; a report is about the call it was for.
TypeOK ==
    /\ hpc \in {"idle", "send", "recv", "restart"}
    /\ seen \in 0..Len(replies)
    /\ report.id \in {None, Call}
    /\ missed \in BOOLEAN /\ served \subseteq 1..sent /\ relied \subseteq served

\* What execute_python returns as stdout and display is what its own code
\* printed and showed, also after threads were abandoned: the restart comes
\* before the next call can meet a redirected stream.  Only if the server never
\* got to see a session_corrupted, or failed to restart, this may end.
ReportExact == ~missed => Container!Exact(report)

\* No name disappears behind the back of a client whose calls are answered:
\* until a call returns with session_reset, the process that code would run in
\* is the one that holds what the executions that returned had bound, however
\* many calls failed meanwhile and whatever they left running.  A container that
\* is gone, by its own end or by a restart that failed half way, is never
\* replaced without a word: no call has an answer from then on.
BindingsStay == pc # "stopped" => relied \subseteq ns

\* What became of the request of a call, as module ToolCalls has it.
Fate(c) ==
    IF c > Call THEN "none"
    ELSE IF c = cur \/ \E i \in DOMAIN stdin : stdin[i].id = c THEN "sent"
    ELSE IF c \in served THEN "ran"
    ELSE IF c = Call /\ hpc = "send" THEN "new"
    ELSE "lost"

Client == INSTANCE ToolCalls WITH
    MaxCalls <- MaxRequests,
    calls <- Call,
    open <- IF hpc = "idle" THEN 0 ELSE Call,
    fate <- [c \in Container!Req |-> Fate(c)],
    report <- IF hpc # "idle" \/ Call = 0 THEN "none"
              ELSE IF report.id = Call THEN "result" ELSE "error"

\* With the process itself in the place of Session's abridged container, too,
\* the client is served as ToolCalls says: at most once, in order, and with
\* nothing under way after a result.
ServesCalls == Client!Spec
=============================================================================
